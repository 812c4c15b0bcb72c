--------------------------- MODULE LWFilterProofs ---------------------------
(***************************************************************************)
(* The filter and the chain download, for any transactions, chain, limits  *)
(* and losses: the filter in use has the gap between messages, a ping has  *)
(* its completion, and a block that waits for transactions gets one next;  *)
(* and no payment is missed of a chain that keeps to the gap.              *)
(***************************************************************************)
EXTENDS LWFilter, LWIntegers, FiniteSetTheorems, SequenceTheorems

-----------------------------------------------------------------------------
(* Sequences. *)

\* The elements of a concatenation and their places.
LEMMA Join ==
  ASSUME NEW S, NEW a \in Seq(S), NEW b \in Seq(S)
  PROVE  /\ a \o b \in Seq(S) /\ Len(a \o b) = Len(a) + Len(b)
         /\ Len(a) \in Nat /\ Len(b) \in Nat
         /\ DOMAIN (a \o b) = 1 .. Len(a) + Len(b)
         /\ \A i \in 1 .. Len(a) : (a \o b)[i] = a[i]
         /\ \A i \in 1 .. Len(b) : (a \o b)[Len(a) + i] = b[i]
         /\ \A j \in DOMAIN (a \o b) : j \in 1 .. Len(a) \/ \E i \in 1 .. Len(b) : j = Len(a) + i
<1>1. a \o b \in Seq(S) /\ Len(a \o b) = Len(a) + Len(b) /\ Len(a) \in Nat /\ Len(b) \in Nat
      /\ DOMAIN (a \o b) = 1 .. Len(a) + Len(b)
  OBVIOUS
<1>2. \A i \in 1 .. Len(a) : (a \o b)[i] = a[i]
  OBVIOUS
<1>3. \A i \in 1 .. Len(b) : (a \o b)[Len(a) + i] = b[i]
  OBVIOUS
<1>4. ASSUME NEW j \in DOMAIN (a \o b), j \notin 1 .. Len(a) PROVE \E i \in 1 .. Len(b) : j = Len(a) + i
  <2>1. j - Len(a) \in 1 .. Len(b) /\ j = Len(a) + (j - Len(a))
    BY <1>1, <1>4
  <2> QED BY <2>1
<1> QED BY <1>1, <1>2, <1>3, <1>4

\* The same of a sequence that is one.
LEMMA JoinAs ==
  ASSUME NEW S, NEW a \in Seq(S), NEW b \in Seq(S), NEW q, q = a \o b
  PROVE  /\ q \in Seq(S) /\ Len(q) = Len(a) + Len(b)
         /\ Len(a) \in Nat /\ Len(b) \in Nat
         /\ DOMAIN q = 1 .. Len(a) + Len(b)
         /\ \A i \in 1 .. Len(a) : q[i] = a[i]
         /\ \A i \in 1 .. Len(b) : q[Len(a) + i] = b[i]
         /\ \A j \in DOMAIN q : j \in 1 .. Len(a) \/ \E i \in 1 .. Len(b) : j = Len(a) + i
BY Join

\* The head and the rest of a sequence that is not empty.
LEMMA Cut ==
  ASSUME NEW S, NEW q \in Seq(S), q # <<>>
  PROVE  /\ Head(q) = q[1] /\ q[1] \in S /\ 1 \in DOMAIN q
         /\ Tail(q) \in Seq(S) /\ Len(q) \in Nat /\ Len(q) >= 1 /\ Len(Tail(q)) = Len(q) - 1
         /\ DOMAIN q = 1 .. Len(q) /\ DOMAIN Tail(q) = 1 .. Len(q) - 1
         /\ \A i \in 1 .. Len(q) - 1 : Tail(q)[i] = q[i + 1]
         /\ q = <<Head(q)>> \o Tail(q)
<1>1. /\ Head(q) = q[1] /\ q[1] \in S /\ 1 \in DOMAIN q
      /\ Tail(q) \in Seq(S) /\ Len(q) \in Nat /\ Len(q) >= 1 /\ Len(Tail(q)) = Len(q) - 1
      /\ DOMAIN q = 1 .. Len(q)
  OBVIOUS
<1>2. \A i \in 1 .. Len(q) - 1 : Tail(q)[i] = q[i + 1]
  OBVIOUS
<1>3. q = <<Head(q)>> \o Tail(q)
  <2> DEFINE p == <<Head(q)>> \o Tail(q)
  <2>1. p \in Seq(S) /\ Len(p) = Len(q)
    BY <1>1
  <2>2. ASSUME NEW i \in 1 .. Len(q) PROVE p[i] = q[i]
    BY <1>1, <1>2
  <2> HIDE DEF p
  <2>3. p = q
    BY <2>1, <2>2
  <2> QED BY <2>3 DEF p
<1> QED BY <1>1, <1>2, <1>3

\* What a sequence has, the set has.
LEMMA Elements ==
  ASSUME NEW S, NEW q \in Seq(S)
  PROVE  /\ ToSet(q) \subseteq S /\ \A i \in DOMAIN q : q[i] \in ToSet(q)
         /\ \A x \in ToSet(q) : \E i \in DOMAIN q : x = q[i]
BY DEF ToSet

-----------------------------------------------------------------------------
(* What FlattenSeq makes of a sequence of sequences. *)

\* The concatenations of the first n.
Joins(f, seqs, n) ==
  f = [i \in 1 .. n |-> IF i = 1 THEN seqs[i] ELSE f[i - 1] \o seqs[i]]

\* There is such a function.
LEMMA JoinsExist ==
  ASSUME NEW seqs, NEW n \in Nat
  PROVE  \E f : Joins(f, seqs, n)
<1> DEFINE P == {k \in 0 .. n : \E f : Joins(f, seqs, k)}
<1>1. 0 \in P
  <2> DEFINE f == [i \in 1 .. 0 |-> 0]
  <2>1. Joins(f, seqs, 0)
    BY DEF Joins
  <2> QED BY <2>1
<1>2. ASSUME NEW k \in 0 .. n - 1, k \in P PROVE k + 1 \in P
  <2>1. PICK f : Joins(f, seqs, k)
    BY <1>2
  <2> DEFINE Step(h, i) == IF i = 1 THEN seqs[i] ELSE h[i - 1] \o seqs[i]
             g == [i \in 1 .. k + 1 |-> IF i \in 1 .. k THEN f[i] ELSE Step(f, i)]
  <2>2. f = [i \in 1 .. k |-> Step(f, i)]
    BY <2>1 DEF Joins
  <2>3. \A i \in 1 .. k : f[i] = Step(f, i)
    <3> HIDE DEF Step
    <3>1. \A i \in 1 .. k : [x \in 1 .. k |-> Step(f, x)][i] = Step(f, i)
      OBVIOUS
    <3> QED BY <2>2, <3>1
  <2>4. ASSUME NEW i \in 1 .. k + 1 PROVE g[i] = Step(g, i)
    <3>1. i # 1 => g[i - 1] = f[i - 1]
      OBVIOUS
    <3>2. Step(g, i) = Step(f, i)
      BY <3>1
    <3>3. g[i] = Step(f, i)
      <4> HIDE DEF Step
      <4> QED BY <2>3
    <3> QED BY <3>2, <3>3
  <2>5. g = [i \in 1 .. k + 1 |-> Step(g, i)]
    <3>1. g = [i \in 1 .. k + 1 |-> g[i]]
      OBVIOUS
    <3> HIDE DEF g, Step
    <3> QED BY <2>4, <3>1
  <2>6. Joins(g, seqs, k + 1)
    <3> HIDE DEF g
    <3> QED BY <2>5 DEF Joins
  <2> QED BY <2>6
<1> HIDE DEF P
<1>3. n \in P
  <2>1. n \in 0 .. n
    OBVIOUS
  <2> QED BY <1>1, <1>2, <2>1, Induct
<1> QED BY <1>3 DEF P

\* FlattenSeq is the last of them.
LEMMA FlattenIs ==
  ASSUME NEW seqs, Len(seqs) \in Nat \ {0}
  PROVE  \E f : /\ FlattenSeq(seqs) = f[Len(seqs)] /\ f[1] = seqs[1]
                /\ \A i \in 1 .. Len(seqs) - 1 : f[i + 1] = f[i] \o seqs[i + 1]
<1> DEFINE n == Len(seqs)
           f == CHOOSE f : f = [i \in 1 .. n |-> IF i = 1 THEN seqs[i] ELSE f[i - 1] \o seqs[i]]
<1>1. FlattenSeq(seqs) = f[n]
  BY DEF FlattenSeq
<1>2. \E g : g = [i \in 1 .. n |-> IF i = 1 THEN seqs[i] ELSE g[i - 1] \o seqs[i]]
  BY JoinsExist DEF Joins
<1>3. f = [i \in 1 .. n |-> IF i = 1 THEN seqs[i] ELSE f[i - 1] \o seqs[i]]
  BY <1>2
<1> HIDE DEF f
<1>4. f[1] = seqs[1]
  BY <1>3
<1>5. ASSUME NEW i \in 1 .. n - 1 PROVE f[i + 1] = f[i] \o seqs[i + 1]
  <2>1. i + 1 \in 1 .. n /\ i + 1 # 1 /\ (i + 1) - 1 = i
    OBVIOUS
  <2> QED BY <1>3, <2>1
<1> QED BY <1>1, <1>4, <1>5

\* What holds of each sequence and passes to a concatenation holds of the whole.
LEMMA FlattenIn ==
  ASSUME NEW G, <<>> \in G, \A a, b \in G : a \o b \in G,
         NEW seqs, Len(seqs) \in Nat, \A i \in 1 .. Len(seqs) : seqs[i] \in G, Len(seqs) = 0 => seqs = <<>>
  PROVE  FlattenSeq(seqs) \in G
<1>1. CASE Len(seqs) = 0
  BY <1>1 DEF FlattenSeq
<1>2. CASE Len(seqs) # 0
  <2>1. PICK f : /\ FlattenSeq(seqs) = f[Len(seqs)] /\ f[1] = seqs[1]
                 /\ \A i \in 1 .. Len(seqs) - 1 : f[i + 1] = f[i] \o seqs[i + 1]
    BY <1>2, FlattenIs
  <2> DEFINE n == Len(seqs)
             P == {k \in Nat : k = 0 \/ f[k] \in G}
  <2>2. 0 \in P
    OBVIOUS
  <2>3. ASSUME NEW k \in 0 .. n - 1, k \in P PROVE k + 1 \in P
    <3>1. CASE k = 0
      <4>1. f[1] \in G
        BY <1>2, <2>1
      <4> QED BY <3>1, <4>1
    <3>2. CASE k # 0
      <4>1. k \in 1 .. n - 1 /\ k + 1 \in 1 .. n /\ f[k] \in G
        BY <2>3, <3>2
      <4>2. f[k + 1] = f[k] \o seqs[k + 1] /\ seqs[k + 1] \in G
        BY <2>1, <4>1
      <4>3. f[k] \o seqs[k + 1] \in G
        BY <4>1, <4>2, Zenon
      <4>4. f[k + 1] \in G /\ k + 1 \in Nat
        BY <4>2, <4>3
      <4> QED BY <4>4
    <3> QED BY <3>1, <3>2
  <2>4. n \in Nat /\ n \in 0 .. n
    OBVIOUS
  <2> HIDE DEF P
  <2>5. n \in P
    BY <2>2, <2>3, <2>4, Induct
  <2> QED BY <1>2, <2>1, <2>5 DEF P
<1> QED BY <1>1, <1>2

\* Every element of every one is in the whole.
LEMMA FlattenHas ==
  ASSUME NEW S, NEW seqs \in Seq(Seq(S))
  PROVE  \A m \in DOMAIN seqs : ToSet(seqs[m]) \subseteq ToSet(FlattenSeq(seqs))
<1>1. CASE Len(seqs) = 0
  BY <1>1
<1>2. CASE Len(seqs) # 0
  <2>1. PICK f : /\ FlattenSeq(seqs) = f[Len(seqs)] /\ f[1] = seqs[1]
                 /\ \A i \in 1 .. Len(seqs) - 1 : f[i + 1] = f[i] \o seqs[i + 1]
    <3>1. Len(seqs) \in Nat \ {0}
      BY <1>2
    <3> QED BY <3>1, FlattenIs
  <2>a. \A i \in 1 .. Len(seqs) : seqs[i] \in Seq(S)
    OBVIOUS
  <2> DEFINE n == Len(seqs)
             Has2(k) == f[k] \in Seq(S) /\ \A m \in 1 .. k : ToSet(seqs[m]) \subseteq ToSet(f[k])
             P == {k \in Nat : k = 0 \/ Has2(k)}
  <2>2. 0 \in P
    OBVIOUS
  <2>3. ASSUME NEW k \in 0 .. n - 1, k \in P PROVE k + 1 \in P
    <3>1. CASE k = 0
      <4>1. f[1] = seqs[1] /\ seqs[1] \in Seq(S)
        BY <1>2, <2>1, <2>a
      <4>2. Has2(1)
        BY <4>1
      <4> QED BY <3>1, <4>2
    <3>2. CASE k # 0
      <4>1. k \in 1 .. n - 1 /\ k + 1 \in 1 .. n /\ Has2(k)
        BY <2>3, <3>2
      <4>2. f[k + 1] = f[k] \o seqs[k + 1] /\ seqs[k + 1] \in Seq(S) /\ f[k] \in Seq(S)
        BY <2>1, <2>a, <4>1
      <4> DEFINE a == f[k]
                 b == seqs[k + 1]
      <4>3. ToSet(a) \subseteq ToSet(a \o b) /\ ToSet(b) \subseteq ToSet(a \o b) /\ a \o b \in Seq(S)
        <5>1. a \in Seq(S) /\ b \in Seq(S)
          BY <4>2
        <5> HIDE DEF a, b
        <5>2. a \o b \in Seq(S) /\ DOMAIN (a \o b) = 1 .. Len(a) + Len(b) /\ Len(a) \in Nat /\ Len(b) \in Nat
          BY <5>1, Join
        <5>3. ASSUME NEW i \in DOMAIN a PROVE a[i] \in ToSet(a \o b)
          <6>1. i \in 1 .. Len(a) /\ i \in DOMAIN (a \o b)
            BY <5>1, <5>2
          <6>2. (a \o b)[i] = a[i]
            BY <5>1, <6>1, Join
          <6> QED BY <5>2, <6>1, <6>2, Elements
        <5>4. ASSUME NEW i \in DOMAIN b PROVE b[i] \in ToSet(a \o b)
          <6>1. i \in 1 .. Len(b) /\ Len(a) + i \in DOMAIN (a \o b)
            BY <5>1, <5>2
          <6>2. (a \o b)[Len(a) + i] = b[i]
            BY <5>1, <6>1, Join
          <6> QED BY <5>2, <6>1, <6>2, Elements
        <5> QED BY <5>1, <5>2, <5>3, <5>4, Elements
      <4>4. ASSUME NEW m \in 1 .. k + 1 PROVE ToSet(seqs[m]) \subseteq ToSet(a \o b)
        <5>1. CASE m = k + 1
          BY <4>3, <5>1
        <5>2. CASE m \in 1 .. k
          BY <4>1, <4>3, <5>2
        <5> QED BY <5>1, <5>2
      <4> HIDE DEF a, b
      <4>5. f[k + 1] = a \o b
        BY <4>2 DEF a, b
      <4>6. Has2(k + 1)
        BY <4>3, <4>4, <4>5
      <4> QED BY <4>6
    <3> QED BY <3>1, <3>2
  <2>4. n \in Nat /\ n \in 0 .. n
    OBVIOUS
  <2> HIDE DEF P
  <2>5. n \in P
    BY <2>2, <2>3, <2>4, Induct
  <2>6. Has2(n)
    BY <1>2, <2>5 DEF P
  <2> QED BY <2>1, <2>6
<1> QED BY <1>1, <1>2

\* SetToSeq has the elements of a finite set and no others.
LEMMA SetToSeqFacts ==
  ASSUME NEW T, IsFiniteSet(T)
  PROVE  SetToSeq(T) \in Seq(T) /\ \A x \in T : \E i \in DOMAIN SetToSeq(T) : SetToSeq(T)[i] = x
<1> DEFINE n == Cardinality(T)
           s == SetToSeq(T)
<1>1. n \in Nat /\ ExistsBijection(1 .. n, T)
  BY FS_CardinalityType
<1>2. PICK f \in [1 .. n -> T] : IsInjective(f)
  <2>1. PICK f : f \in Bijection(1 .. n, T)
    BY <1>1 DEF ExistsBijection
  <2>2. f \in [1 .. n -> T] /\ IsInjective(f)
    BY <2>1 DEF Bijection, Injection, IsInjective
  <2> QED BY <2>2
<1>3. s \in [1 .. n -> T] /\ IsInjective(s)
  BY <1>2 DEF SetToSeq
<1>4. s \in Injection(1 .. n, T)
  BY <1>3 DEF Injection
<1>5. IsFiniteSet(1 .. n) /\ Cardinality(1 .. n) = n
  BY <1>1, FS_Interval
<1>6. s \in Surjection(1 .. n, T)
  <2> HIDE DEF s
  <2> QED BY <1>4, <1>5, FS_Injection
<1>7. \A x \in T : \E i \in 1 .. n : s[i] = x
  BY <1>6 DEF Surjection
<1>8. s \in Seq(T) /\ DOMAIN s = 1 .. n
  BY <1>1, <1>3
<1> QED BY <1>7, <1>8

-----------------------------------------------------------------------------
(* Least and greatest elements. *)

\* A finite set of integers has a greatest element, which Max is.
LEMMA MaxFacts ==
  ASSUME NEW S \in SUBSET Int, IsFiniteSet(S), S # {}
  PROVE  Max(S) \in S /\ \A x \in S : x <= Max(S)
<1>1. PICK n \in Nat : ExistsSurjection(1 .. n, S)
  BY FS_NatSurjection
<1>2. PICK f : f \in Surjection(1 .. n, S)
  BY <1>1 DEF ExistsSurjection
<1>3. f \in [1 .. n -> S] /\ \A x \in S : \E i \in 1 .. n : f[i] = x
  BY <1>2 DEF Surjection
<1> DEFINE P == {k \in Nat : \E b \in Int : \A i \in 1 .. k : i \in 1 .. n => f[i] <= b}
<1>4. 0 \in P
  OBVIOUS
<1>5. ASSUME NEW k \in 0 .. n - 1, k \in P PROVE k + 1 \in P
  <2>1. PICK b \in Int : \A i \in 1 .. k : i \in 1 .. n => f[i] <= b
    BY <1>5
  <2>2. k + 1 \in 1 .. n /\ f[k + 1] \in Int
    <3>1. k + 1 \in 1 .. n
      BY <1>5
    <3>2. f[k + 1] \in S
      BY <1>3, <3>1
    <3> QED BY <3>1, <3>2
  <2> DEFINE c == IF b <= f[k + 1] THEN f[k + 1] ELSE b
  <2>3. c \in Int /\ \A i \in 1 .. k + 1 : i \in 1 .. n => f[i] <= c
    <3>1. c \in Int /\ b <= c /\ f[k + 1] <= c
      BY <2>2
    <3> HIDE DEF c
    <3>2. \A i \in 1 .. n : f[i] \in Int
      BY <1>3
    <3>3. ASSUME NEW i \in 1 .. k + 1, i \in 1 .. n PROVE f[i] <= c
      <4>1. CASE i = k + 1
        BY <3>1, <4>1
      <4>2. CASE i # k + 1
        <5>1. f[i] <= b /\ f[i] \in Int
          BY <2>1, <3>2, <3>3, <4>2
        <5> QED BY <3>1, <5>1
      <4> QED BY <4>1, <4>2
    <3> QED BY <3>1, <3>3
  <2> HIDE DEF c
  <2> QED BY <2>3
<1> HIDE DEF P
<1>6. n \in P
  <2>1. n \in 0 .. n
    OBVIOUS
  <2> QED BY <1>4, <1>5, <2>1, Induct
<1>7. PICK b \in Int : \A i \in 1 .. n : f[i] <= b
  BY <1>6 DEF P
<1>8. \A x \in S : x <= b
  BY <1>3, <1>7
<1>9. PICK m \in S : \A x \in S : x <= m
  BY <1>8, Greatest
<1>10. \A y \in S : m >= y
  BY <1>9
<1>11. Max(S) \in S /\ \A y \in S : Max(S) >= y
  BY <1>10 DEF Max
<1> HIDE DEF Max
<1> QED BY <1>11

\* A set of natural numbers has a least element, which Min is.
LEMMA MinFacts ==
  ASSUME NEW S \in SUBSET Nat, S # {}
  PROVE  Min(S) \in S /\ \A x \in S : Min(S) <= x
<1>1. PICK m \in S : \A x \in S : m <= x
  BY Least
<1> QED BY <1>1 DEF Min

-----------------------------------------------------------------------------
(* Counting pings and pongs in a sequence of messages. *)

Mark == {"ping", "pong"}

\* The pings and pongs before place j, and all of them.
Before(q, j) == Cardinality({i \in 1 .. j - 1 : q[i].type \in Mark})
Marks(q) == Before(q, Len(q) + 1)

\* A number, and no less further on.
LEMMA BeforeFacts ==
  ASSUME NEW q, NEW j \in Nat, NEW l \in Nat, j <= l
  PROVE  Before(q, j) \in Nat /\ Before(q, j) <= Before(q, l) /\ Before(q, 1) = 0
<1> DEFINE In(k) == {i \in 1 .. k - 1 : q[i].type \in Mark}
<1>1. IsFiniteSet(1 .. j - 1) /\ IsFiniteSet(1 .. l - 1)
  BY FS_Interval
<1>2. In(j) \subseteq 1 .. j - 1 /\ In(l) \subseteq 1 .. l - 1 /\ In(j) \subseteq In(l) /\ In(1) = {}
  OBVIOUS
<1> HIDE DEF In
<1>3. IsFiniteSet(In(j)) /\ IsFiniteSet(In(l))
  BY <1>1, <1>2, FS_Subset
<1>4. Cardinality(In(j)) \in Nat /\ Cardinality(In(j)) <= Cardinality(In(l)) /\ Cardinality(In(1)) = 0
  BY <1>2, <1>3, FS_Subset, FS_CardinalityType, FS_EmptySet
<1> QED BY <1>4 DEF In, Before

\* The count goes on from one place to the next.
LEMMA BeforeNext ==
  ASSUME NEW q, NEW j \in Nat, j >= 1
  PROVE  Before(q, j + 1) = IF q[j].type \in Mark THEN Before(q, j) + 1 ELSE Before(q, j)
<1> DEFINE In(k) == {i \in 1 .. k - 1 : q[i].type \in Mark}
<1>1. IsFiniteSet(1 .. j - 1) /\ In(j) \subseteq 1 .. j - 1 /\ j \notin In(j)
  BY FS_Interval
<1>2. q[j].type \in Mark => In(j + 1) = In(j) \union {j}
  OBVIOUS
<1>3. q[j].type \notin Mark => In(j + 1) = In(j)
  <2> SUFFICES ASSUME q[j].type \notin Mark PROVE In(j + 1) = In(j)
    OBVIOUS
  <2>1. \A i \in 1 .. (j + 1) - 1 : i # j => i \in 1 .. j - 1
    OBVIOUS
  <2>2. \A i \in 1 .. j - 1 : i \in 1 .. (j + 1) - 1
    OBVIOUS
  <2> QED BY <2>1, <2>2
<1>a. Before(q, j) = Cardinality(In(j)) /\ Before(q, j + 1) = Cardinality(In(j + 1))
  BY DEF Before
<1> HIDE DEF In
<1>4. IsFiniteSet(In(j))
  BY <1>1, FS_Subset
<1>5. Cardinality(In(j) \union {j}) = Cardinality(In(j)) + 1
  BY <1>1, <1>4, FS_AddElement
<1> QED BY <1>a, <1>2, <1>3, <1>5

\* Only the elements before count.
LEMMA BeforeSame ==
  ASSUME NEW p, NEW q, NEW l \in Nat, \A i \in 1 .. l - 1 : p[i] = q[i]
  PROVE  Before(p, l) = Before(q, l)
<1>1. {i \in 1 .. l - 1 : p[i].type \in Mark} = {i \in 1 .. l - 1 : q[i].type \in Mark}
  OBVIOUS
<1> QED BY <1>1 DEF Before

\* In a concatenation the marks of the first part come before those of the second.
LEMMA MarksJoin ==
  ASSUME NEW S, NEW a \in Seq(S), NEW b \in Seq(S)
  PROVE  /\ \A l \in 1 .. Len(a) + 1 : Before(a \o b, l) = Before(a, l)
         /\ \A l \in 1 .. Len(b) + 1 : Before(a \o b, Len(a) + l) = Marks(a) + Before(b, l)
         /\ Marks(a \o b) = Marks(a) + Marks(b)
         /\ Marks(a) \in Nat /\ Marks(b) \in Nat
<1>1. /\ Len(a) \in Nat /\ Len(b) \in Nat /\ Len(a \o b) = Len(a) + Len(b)
      /\ \A i \in 1 .. Len(a) : (a \o b)[i] = a[i]
      /\ \A i \in 1 .. Len(b) : (a \o b)[Len(a) + i] = b[i]
  BY Join
<1> DEFINE q == a \o b
<1>2. ASSUME NEW l \in 1 .. Len(a) + 1 PROVE Before(q, l) = Before(a, l)
  <2>1. l \in Nat /\ \A i \in 1 .. l - 1 : q[i] = a[i]
    BY <1>1
  <2> HIDE DEF q
  <2> QED BY <2>1, BeforeSame
<1>3. Marks(a) \in Nat /\ Marks(b) \in Nat
  BY <1>1, BeforeFacts DEF Marks
<1> DEFINE P == {k \in Nat : Before(q, Len(a) + (k + 1)) = Marks(a) + Before(b, k + 1)}
<1>4. 0 \in P
  <2>1. Before(q, Len(a) + 1) = Marks(a)
    BY <1>1, <1>2 DEF Marks
  <2>2. Before(b, 1) = 0
    BY BeforeFacts
  <2> HIDE DEF q
  <2> QED BY <1>1, <1>3, <2>1, <2>2
<1>5. ASSUME NEW k \in 0 .. Len(b) - 1, k \in P PROVE k + 1 \in P
  <2> DEFINE m == Len(a) + (k + 1)
  <2>1. k + 1 \in 1 .. Len(b) /\ k + 1 \in Nat /\ m \in Nat /\ m >= 1 /\ m + 1 = Len(a) + ((k + 1) + 1)
    BY <1>1
  <2>2. q[m] = b[k + 1]
    BY <1>1, <2>1
  <2>3. Before(q, m) = Marks(a) + Before(b, k + 1)
    BY <1>5
  <2>5. Before(b, k + 1) \in Nat
    BY <2>1, BeforeFacts
  <2>6. Before(b, (k + 1) + 1) = IF b[k + 1].type \in Mark THEN Before(b, k + 1) + 1 ELSE Before(b, k + 1)
    BY <2>1, BeforeNext
  <2> HIDE DEF q, m
  <2>7. Before(q, m + 1) = IF q[m].type \in Mark THEN Before(q, m) + 1 ELSE Before(q, m)
    BY <2>1, BeforeNext
  <2>8. Before(q, m + 1) = Marks(a) + Before(b, (k + 1) + 1)
    BY <1>3, <2>2, <2>3, <2>5, <2>6, <2>7
  <2> QED BY <2>1, <2>8
<1> HIDE DEF P
<1>6. \A k \in 0 .. Len(b) : k \in P
  BY <1>1, <1>4, <1>5, Induct
<1>7. ASSUME NEW l \in 1 .. Len(b) + 1 PROVE Before(q, Len(a) + l) = Marks(a) + Before(b, l)
  <2>1. l - 1 \in P /\ (l - 1) + 1 = l
    BY <1>1, <1>6
  <2> QED BY <2>1 DEF P
<1>8. Marks(q) = Marks(a) + Marks(b)
  <2>1. Len(b) + 1 \in 1 .. Len(b) + 1 /\ Len(q) + 1 = Len(a) + (Len(b) + 1)
    BY <1>1
  <2> HIDE DEF q
  <2> QED BY <1>7, <2>1 DEF Marks
<1> QED BY <1>2, <1>3, <1>7, <1>8

\* One message.
LEMMA MarksOne ==
  ASSUME NEW m
  PROVE  Marks(<<m>>) = IF m.type \in Mark THEN 1 ELSE 0
<1>1. Len(<<m>>) = 1 /\ <<m>>[1] = m
  OBVIOUS
<1>2. Before(<<m>>, 1 + 1) = IF <<m>>[1].type \in Mark THEN Before(<<m>>, 1) + 1 ELSE Before(<<m>>, 1)
  BY BeforeNext
<1>3. Before(<<m>>, 1) = 0
  BY BeforeFacts
<1> QED BY <1>1, <1>2, <1>3 DEF Marks

\* No marks.
LEMMA MarksNone ==
  ASSUME NEW S, NEW q \in Seq(S), \A i \in 1 .. Len(q) : q[i].type \notin Mark
  PROVE  Marks(q) = 0 /\ \A l \in 1 .. Len(q) + 1 : Before(q, l) = 0
<1>1. ASSUME NEW l \in 1 .. Len(q) + 1 PROVE Before(q, l) = 0
  <2>1. {i \in 1 .. l - 1 : q[i].type \in Mark} = {}
    OBVIOUS
  <2> QED BY <2>1, FS_EmptySet DEF Before
<1>2. Len(q) + 1 \in 1 .. Len(q) + 1
  OBVIOUS
<1> QED BY <1>1, <1>2 DEF Marks

\* Nothing but marks.
LEMMA MarksAll ==
  ASSUME NEW S, NEW q \in Seq(S), \A i \in 1 .. Len(q) : q[i].type \in Mark
  PROVE  Marks(q) = Len(q)
<1>1. {i \in 1 .. (Len(q) + 1) - 1 : q[i].type \in Mark} = 1 .. Len(q)
  OBVIOUS
<1>2. Cardinality(1 .. Len(q)) = Len(q)
  <2>1. Len(q) \in Nat
    OBVIOUS
  <2> QED BY <2>1, FS_Interval
<1> QED BY <1>1, <1>2 DEF Marks, Before

-----------------------------------------------------------------------------
(* Addresses. *)

Heights == [Tx -> Int]

\* The used addresses are finitely many numbers.
LEMMA UsedFinite ==
  ASSUME NEW h \in Heights
  PROVE  Used(h) \in SUBSET Nat /\ IsFiniteSet(Used(h))
<1> DEFINE R == Registered(h)
           f == [t \in R |-> Pays[t]]
           T == {Pays[t] : t \in R}
<1>1. R \subseteq Tx /\ IsFiniteSet(R)
  BY FS_Subset, FilterAssumption DEF Registered
<1>2. f \in Surjection(R, T)
  BY DEF Surjection
<1>3. IsFiniteSet(T)
  <2> HIDE DEF f, T, R
  <2> QED BY <1>1, <1>2, FS_Surjection
<1>4. \A s \in T : IsFiniteSet(s) /\ s \in SUBSET Nat
  BY <1>1, FilterAssumption
<1>5. Used(h) = UNION T
  BY DEF Used
<1> HIDE DEF T
<1>6. IsFiniteSet(UNION T)
  BY <1>3, <1>4, FS_UNION
<1> QED BY <1>4, <1>5, <1>6

\* FirstUnused is past every used address below n, and next to one of them.
LEMMA FirstUnusedFacts ==
  ASSUME NEW h \in Heights, NEW n \in Nat
  PROVE  /\ FirstUnused(h, n) \in Nat /\ FirstUnused(h, n) <= n
         /\ \A u \in Used(h) : u \in Nat /\ (u < n => u + 1 <= FirstUnused(h, n))
         /\ FirstUnused(h, n) = 0 \/ \E u \in Used(h) : u < n /\ FirstUnused(h, n) = u + 1
<1> DEFINE A == {0} \union {u + 1 : u \in {i \in Used(h) : i < n}}
<1>1. Used(h) \subseteq Nat
  BY UsedFinite
<1>2. A \subseteq 0 .. n
  BY <1>1
<1>3. IsFiniteSet(A)
  <2>1. IsFiniteSet(0 .. n)
    BY FS_Interval
  <2> HIDE DEF A
  <2> QED BY <1>2, <2>1, FS_Subset
<1>4. 0 \in A /\ \A u \in Used(h) : u < n => u + 1 \in A
  OBVIOUS
<1>5. \A a \in A : a = 0 \/ \E u \in Used(h) : u < n /\ a = u + 1
  OBVIOUS
<1>6. FirstUnused(h, n) = Max(A)
  BY DEF FirstUnused
<1> HIDE DEF A
<1>7. Max(A) \in A /\ \A a \in A : a <= Max(A)
  <2>1. A \in SUBSET Int /\ A # {}
    BY <1>2, <1>4
  <2> QED BY <1>3, <2>1, MaxFacts
<1>8. FirstUnused(h, n) \in 0 .. n
  BY <1>2, <1>6, <1>7
<1> QED BY <1>1, <1>4, <1>5, <1>6, <1>7, <1>8

\* Fewer used addresses do not put it further.
LEMMA FirstUnusedMonotone ==
  ASSUME NEW g \in Heights, NEW h \in Heights, NEW n \in Nat, Registered(g) \subseteq Registered(h)
  PROVE  FirstUnused(g, n) <= FirstUnused(h, n)
<1>1. Used(g) \subseteq Used(h)
  BY DEF Used
<1>2. /\ FirstUnused(h, n) \in Nat
      /\ \A u \in Used(h) : u < n => u + 1 <= FirstUnused(h, n)
  BY FirstUnusedFacts
<1>3. FirstUnused(g, n) = 0 \/ \E u \in Used(g) : u < n /\ FirstUnused(g, n) = u + 1
  BY FirstUnusedFacts
<1> QED BY <1>1, <1>2, <1>3

\* LWWalletUnusedAddrs generates what is needed for the gap, and takes nothing back.
LEMMA UnusedFacts ==
  ASSUME NEW h \in Heights, NEW n \in Nat, NEW gap \in Nat
  PROVE  /\ UnusedAddrs(h, n, gap) \in Nat /\ n <= UnusedAddrs(h, n, gap)
         /\ FirstUnused(h, UnusedAddrs(h, n, gap)) + gap <= UnusedAddrs(h, n, gap)
<1> DEFINE B == {n} \union Used(h)
           top == Max(B)
           enough == {m \in n .. top + gap + 1 : FirstUnused(h, m) + gap <= m}
<1>1. B \in SUBSET Nat /\ IsFiniteSet(B) /\ B # {} /\ n \in B
  <2>1. Used(h) \in SUBSET Nat /\ IsFiniteSet(Used(h))
    BY UsedFinite
  <2>2. IsFiniteSet(Used(h) \union {n}) /\ Used(h) \union {n} = B
    BY <2>1, FS_AddElement
  <2> QED BY <2>1, <2>2
<1>2. top \in Nat /\ n <= top /\ \A u \in Used(h) : u <= top
  <2>0. \A u \in Used(h) : u \in B
    OBVIOUS
  <2> HIDE DEF B
  <2>1. Max(B) \in B /\ \A x \in B : x <= Max(B)
    <3>1. B \in SUBSET Int
      BY <1>1
    <3> QED BY <1>1, <3>1, MaxFacts
  <2> QED BY <1>1, <2>0, <2>1
<1> HIDE DEF B, top
<1>3. top + gap + 1 \in enough
  <2> DEFINE m == top + gap + 1
  <2>1. m \in Nat /\ m \in n .. top + gap + 1
    BY <1>2
  <2>2. FirstUnused(h, m) <= top + 1
    <3>1. FirstUnused(h, m) = 0 \/ \E u \in Used(h) : FirstUnused(h, m) = u + 1
      BY <2>1, FirstUnusedFacts
    <3>2. \A u \in Used(h) : u \in Nat
      BY UsedFinite
    <3> QED BY <1>2, <3>1, <3>2
  <2>3. FirstUnused(h, m) \in Nat
    BY <2>1, FirstUnusedFacts
  <2>4. FirstUnused(h, m) + gap <= m
    BY <1>2, <2>2, <2>3
  <2> QED BY <2>1, <2>4
<1>4. UnusedAddrs(h, n, gap) = Min(enough)
  BY DEF UnusedAddrs, top, B
<1>5. enough \in SUBSET Nat
  BY <1>2
<1>6. \A m \in enough : n <= m /\ FirstUnused(h, m) + gap <= m
  BY <1>2
<1> HIDE DEF enough
<1>7. Min(enough) \in enough
  BY <1>3, <1>5, MinFacts
<1> QED BY <1>4, <1>5, <1>6, <1>7

\* Confirming does not register a transaction, and keeps what is registered.
LEMMA ConfirmedFacts ==
  ASSUME height \in Heights, addrs \in Nat, NEW txs \in SUBSET Tx, NEW h \in Nat
  PROVE  /\ Confirmed(txs, h) \in Heights
         /\ Registered(Confirmed(txs, h)) = Registered(height)
         /\ \A t \in txs \intersect Registered(height) : Confirmed(txs, h)[t] = h
         /\ \A t \in Tx : t \notin txs => Confirmed(txs, h)[t] = height[t]
         /\ \A t \in Tx : height[t] # Foreign => Confirmed(txs, h)[t] # Foreign
<1> DEFINE g == Confirmed(txs, h)
           new(t) == IF t \notin txs \/ height[t] = Absent THEN height[t]
                     ELSE IF height[t] # Foreign THEN h
                     ELSE IF ContainsTx(t) THEN Foreign ELSE Absent
<1>1. g = [t \in Tx |-> new(t)]
  BY DEF Confirmed
<1>2. \A t \in Tx : new(t) \in Int
  BY DEF Heights, Foreign, Absent
<1>3. \A t \in Tx : g[t] = new(t)
  BY <1>1
<1>4. g \in Heights
  <2> HIDE DEF new, g
  <2> QED BY <1>1, <1>2 DEF Heights
<1> HIDE DEF g
<1>5. ASSUME NEW t \in Tx
      PROVE  /\ g[t] \notin {Absent, Foreign} <=> height[t] \notin {Absent, Foreign}
             /\ t \in txs /\ height[t] \notin {Absent, Foreign} => g[t] = h
             /\ t \notin txs => g[t] = height[t]
             /\ height[t] # Foreign => g[t] # Foreign
  BY <1>3 DEF Foreign, Absent
<1>6. Registered(g) = Registered(height)
  BY <1>5 DEF Registered
<1>7. \A t \in txs \intersect Registered(height) : g[t] = h
  BY <1>5 DEF Registered
<1> QED BY <1>4, <1>5, <1>6, <1>7 DEF g

-----------------------------------------------------------------------------
(* The invariant. *)

UpdateCalls == {"updateFilterPingDone", "updateFilterLoadDone"}
Calls == UpdateCalls \union {"updateFilterRerequestDone", "loadBloomFilterDone", "mempoolDone"}

\* Up to height n: the blocks, and what each side may be told.
Blocks(n) == {b \in [height : 1 .. n, txs : SUBSET Tx] : b.txs \subseteq ToSet(Chain[b.height])}
Heard(n) ==
  [type : {"inv"}, txs : SUBSET Tx, blocks : Seq(1 .. n)]
  \union {m \in [type : {"merkleblock"}, height : 1 .. n, txs : SUBSET Tx] : m.txs \subseteq ToSet(Chain[m.height])}
  \union [type : {"tx"}, tx : Tx] \union [type : {"pong"}]
Filters == [addrs : Nat, outs : SUBSET Payments]
Asked(n) ==
  [type : {"filterload"}, filter : Filters]
  \union [type : {"getblocks"}, from : Nat]
  \union [type : {"getdata"}, txs : SUBSET Tx, blocks : Seq(1 .. n)]
  \union [type : {"mempool", "ping"}]
Contexts ==
  [lastblock : Nat, lastBlockHash : Nat \union {None}, known : Seq(Nat), knownTx : SUBSET Tx,
   needsUpdate : BOOLEAN, current : [height : Nat, txs : SUBSET Tx] \union {None}, left : SUBSET Tx,
   sentMempool : BOOLEAN, mempoolCallback : BOOLEAN, timer : BOOLEAN]

NodeTypes ==
  /\ mined \in 0 .. Len(Chain) /\ pool \subseteq Tx /\ announced \subseteq Tx /\ connected \in BOOLEAN
  /\ toNode \in Seq(Asked(mined)) /\ fromNode \in Seq(Heard(mined))
WalletTypes ==
  /\ ctx \in Contexts /\ ctx.known \in Seq(1 .. mined) /\ ctx.current \in Blocks(mined) \union {None}
  /\ pongs \in Seq(Calls)
  /\ lastBlock \in 0 .. mined /\ estimatedHeight \in 0 .. mined
  /\ relayed \in Blocks(mined) \union {None}
  /\ syncing \in BOOLEAN
OrphanTypes ==
  /\ orphans \in [1 .. Len(Chain) -> (SUBSET Tx) \union {None}]
  /\ \A h \in 1 .. Len(Chain) : orphans[h] # None => h <= mined /\ orphans[h] \subseteq ToSet(Chain[h])

\* The gap is there: in what is generated, and in the filter.
Coverage ==
  /\ height \in Heights /\ addrs \in Nat /\ bloomFilter \in Nat \union {None}
  /\ FirstUnused(height, addrs) + Gap <= addrs
  /\ bloomFilter # None => FirstUnused(height, addrs) + Gap <= bloomFilter /\ bloomFilter <= addrs

\* After place i of q come the transactions S, and nothing else before the last of them.
Follow(q, i, S) ==
  \E n \in i .. Len(q) : /\ \A j \in i + 1 .. n : q[j].type = "tx"
                         /\ \A t \in S : \E j \in i + 1 .. n : q[j].tx = t

\* In q the transactions a block lists come after it.
Ordered(q) == \A i \in 1 .. Len(q) : q[i].type = "merkleblock" => Follow(q, i, q[i].txs)

\* The transactions a block lists come after it, those that are left of one that waits come next.
Complete ==
  /\ ctx.current = None <=> ctx.left = {}
  /\ ctx.current # None => ctx.left \subseteq ctx.current.txs
  /\ Follow(fromNode, 0, ctx.left)
  /\ Ordered(fromNode)

\* A completion for each ping on its way; nothing is without a connection.
Answered == Len(pongs) = Marks(fromNode) + Marks(toNode)
Closed == connected \/ (toNode = <<>> /\ fromNode = <<>> /\ relayed = None /\ pongs = <<>> /\ filter = None
                       /\ ctx = NewContext(0))

IInv == NodeTypes /\ WalletTypes /\ OrphanTypes /\ Coverage /\ Complete /\ Answered /\ Closed

-----------------------------------------------------------------------------
(* Messages. *)

\* What a message of each kind has.
LEMMA HeardFacts ==
  ASSUME NEW n \in Nat, NEW m \in Heard(n)
  PROVE  /\ m.type \in {"inv", "merkleblock", "tx", "pong"}
         /\ m.type = "inv" => m.txs \subseteq Tx /\ m.blocks \in Seq(1 .. n)
         /\ m.type = "merkleblock" => m.height \in 1 .. n /\ m.txs \subseteq Tx /\ m.txs \subseteq ToSet(Chain[m.height])
         /\ m.type = "tx" => m.tx \in Tx
         /\ m.type \in Mark <=> m.type = "pong"
BY DEF Heard, Mark

\* The same for what the node is asked.
LEMMA AskedFacts ==
  ASSUME NEW n \in Nat, NEW m \in Asked(n)
  PROVE  /\ m.type \in {"filterload", "getblocks", "getdata", "mempool", "ping"}
         /\ m.type = "filterload" => m.filter \in Filters
         /\ m.type = "getblocks" => m.from \in Nat
         /\ m.type = "getdata" => m.txs \subseteq Tx /\ m.blocks \in Seq(1 .. n)
         /\ m.type \in Mark <=> m.type = "ping"
BY DEF Asked, Mark

\* A sequence of blocks up to some height is one up to any greater height.
LEMMA SeqHigher ==
  ASSUME NEW n \in Nat, NEW m \in Nat, n <= m, NEW q \in Seq(1 .. n)
  PROVE  q \in Seq(1 .. m)
<1>1. \A i \in 1 .. Len(q) : q[i] \in 1 .. m
  OBVIOUS
<1> QED BY <1>1

\* What may be told of the blocks up to some height may be told of those up to the next.
LEMMA Higher ==
  ASSUME NEW n \in Nat
  PROVE  /\ Heard(n) \subseteq Heard(n + 1) /\ Asked(n) \subseteq Asked(n + 1)
         /\ Blocks(n) \subseteq Blocks(n + 1) /\ Seq(1 .. n) \subseteq Seq(1 .. n + 1)
<1>1. Seq(1 .. n) \subseteq Seq(1 .. n + 1)
  BY SeqHigher
<1>2. 1 .. n \subseteq 1 .. n + 1
  OBVIOUS
<1>3. Heard(n) \subseteq Heard(n + 1)
  <2> SUFFICES ASSUME NEW m \in Heard(n) PROVE m \in Heard(n + 1)
    OBVIOUS
  <2>1. CASE m \in [type : {"inv"}, txs : SUBSET Tx, blocks : Seq(1 .. n)]
    <3>1. m \in [type : {"inv"}, txs : SUBSET Tx, blocks : Seq(1 .. n + 1)]
      BY <1>1, <2>1
    <3> QED BY <3>1 DEF Heard
  <2>2. CASE m \in {x \in [type : {"merkleblock"}, height : 1 .. n, txs : SUBSET Tx] : x.txs \subseteq ToSet(Chain[x.height])}
    <3>1. m \in [type : {"merkleblock"}, height : 1 .. n + 1, txs : SUBSET Tx] /\ m.txs \subseteq ToSet(Chain[m.height])
      BY <1>2, <2>2
    <3> QED BY <3>1 DEF Heard
  <2> QED BY <2>1, <2>2 DEF Heard
<1>4. Asked(n) \subseteq Asked(n + 1)
  <2> SUFFICES ASSUME NEW m \in Asked(n) PROVE m \in Asked(n + 1)
    OBVIOUS
  <2>1. CASE m \in [type : {"getdata"}, txs : SUBSET Tx, blocks : Seq(1 .. n)]
    <3>1. m \in [type : {"getdata"}, txs : SUBSET Tx, blocks : Seq(1 .. n + 1)]
      BY <1>1, <2>1
    <3> QED BY <3>1 DEF Asked
  <2>2. CASE m \notin [type : {"getdata"}, txs : SUBSET Tx, blocks : Seq(1 .. n)]
    BY <2>2, Zenon DEF Asked
  <2> QED BY <2>1, <2>2
<1>5. Blocks(n) \subseteq Blocks(n + 1)
  <2> SUFFICES ASSUME NEW b \in Blocks(n) PROVE b \in Blocks(n + 1)
    OBVIOUS
  <2>1. b \in [height : 1 .. n + 1, txs : SUBSET Tx] /\ b.txs \subseteq ToSet(Chain[b.height])
    BY <1>2 DEF Blocks
  <2> QED BY <2>1 DEF Blocks
<1> QED BY <1>1, <1>3, <1>4, <1>5

-----------------------------------------------------------------------------
(* Transactions after their block. *)

\* More messages at the end change nothing.
LEMMA FollowMore ==
  ASSUME NEW S, NEW a \in Seq(S), NEW b \in Seq(S), NEW i \in Nat, NEW T, Follow(a, i, T)
  PROVE  Follow(a \o b, i, T)
<1>1. PICK n \in i .. Len(a) : /\ \A j \in i + 1 .. n : a[j].type = "tx"
                               /\ \A t \in T : \E j \in i + 1 .. n : a[j].tx = t
  BY DEF Follow
<1>2. /\ Len(a) \in Nat /\ Len(b) \in Nat /\ Len(a \o b) = Len(a) + Len(b)
      /\ \A j \in 1 .. Len(a) : (a \o b)[j] = a[j]
  BY Join
<1> DEFINE q == a \o b
<1>3. n \in i .. Len(q) /\ \A j \in i + 1 .. n : j \in 1 .. Len(a)
  BY <1>1, <1>2
<1>4. \A j \in i + 1 .. n : q[j] = a[j]
  BY <1>2, <1>3
<1> HIDE DEF q
<1>5. Follow(q, i, T)
  BY <1>1, <1>3, <1>4 DEF Follow
<1> QED BY <1>5 DEF q

\* Messages before move the places.
LEMMA FollowShift ==
  ASSUME NEW S, NEW a \in Seq(S), NEW b \in Seq(S), NEW i \in Nat, NEW T
  PROVE  Follow(b, i, T) <=> Follow(a \o b, Len(a) + i, T)
<1> DEFINE q == a \o b
           k == Len(a)
<1>1. /\ k \in Nat /\ Len(b) \in Nat /\ Len(q) = k + Len(b)
      /\ \A j \in 1 .. Len(b) : q[k + j] = b[j]
  BY Join
<1> HIDE DEF q, k
<1>2. ASSUME Follow(b, i, T) PROVE Follow(q, k + i, T)
  <2>1. PICK n \in i .. Len(b) : /\ \A j \in i + 1 .. n : b[j].type = "tx"
                                 /\ \A t \in T : \E j \in i + 1 .. n : b[j].tx = t
    BY <1>2 DEF Follow
  <2>2. k + n \in (k + i) .. Len(q)
    BY <1>1
  <2>3. ASSUME NEW j \in (k + i) + 1 .. k + n PROVE q[j].type = "tx"
    <3>1. j - k \in i + 1 .. n /\ j - k \in 1 .. Len(b) /\ k + (j - k) = j
      BY <1>1
    <3>2. q[k + (j - k)] = b[j - k]
      BY <1>1, <3>1
    <3> QED BY <2>1, <3>1, <3>2
  <2>4. ASSUME NEW t \in T PROVE \E j \in (k + i) + 1 .. k + n : q[j].tx = t
    <3>1. PICK j \in i + 1 .. n : b[j].tx = t
      BY <2>1
    <3>2. k + j \in (k + i) + 1 .. k + n /\ j \in 1 .. Len(b)
      BY <1>1
    <3>3. q[k + j] = b[j]
      BY <1>1, <3>2
    <3> QED BY <3>1, <3>2, <3>3
  <2> QED BY <2>2, <2>3, <2>4 DEF Follow
<1>3. ASSUME Follow(q, k + i, T) PROVE Follow(b, i, T)
  <2>1. PICK n \in (k + i) .. Len(q) : /\ \A j \in (k + i) + 1 .. n : q[j].type = "tx"
                                       /\ \A t \in T : \E j \in (k + i) + 1 .. n : q[j].tx = t
    BY <1>3 DEF Follow
  <2>2. n - k \in i .. Len(b)
    BY <1>1
  <2>3. ASSUME NEW j \in i + 1 .. n - k PROVE b[j].type = "tx"
    <3>1. k + j \in (k + i) + 1 .. n /\ j \in 1 .. Len(b)
      BY <1>1
    <3> QED BY <1>1, <2>1, <3>1
  <2>4. ASSUME NEW t \in T PROVE \E j \in i + 1 .. n - k : b[j].tx = t
    <3>1. PICK j \in (k + i) + 1 .. n : q[j].tx = t
      BY <2>1
    <3>2. j - k \in i + 1 .. n - k /\ j - k \in 1 .. Len(b) /\ k + (j - k) = j
      BY <1>1
    <3>3. q[k + (j - k)] = b[j - k]
      BY <1>1, <3>2
    <3> QED BY <3>1, <3>2, <3>3
  <2> QED BY <2>2, <2>3, <2>4 DEF Follow
<1> QED BY <1>2, <1>3 DEF q, k

\* The transactions of a block come after it in a concatenation too.
LEMMA OrderedJoin ==
  ASSUME NEW S, NEW a \in Seq(S), NEW b \in Seq(S), Ordered(a), Ordered(b)
  PROVE  Ordered(a \o b)
<1> DEFINE q == a \o b
<1>1. /\ q \in Seq(S) /\ Len(a) \in Nat /\ Len(b) \in Nat /\ Len(q) = Len(a) + Len(b)
      /\ \A i \in 1 .. Len(a) : q[i] = a[i]
      /\ \A i \in 1 .. Len(b) : q[Len(a) + i] = b[i]
      /\ DOMAIN q = 1 .. Len(a) + Len(b)
      /\ \A j \in DOMAIN q : j \in 1 .. Len(a) \/ \E i \in 1 .. Len(b) : j = Len(a) + i
  BY Join
<1>2. ASSUME NEW i \in 1 .. Len(q), q[i].type = "merkleblock" PROVE Follow(q, i, q[i].txs)
  <2>1. i \in 1 .. Len(a) \/ \E j \in 1 .. Len(b) : i = Len(a) + j
    BY <1>1
  <2>2. CASE i \in 1 .. Len(a)
    <3>1. q[i] = a[i] /\ i \in Nat
      BY <1>1, <2>2
    <3>2. Follow(a, i, a[i].txs)
      BY <1>2, <2>2, <3>1 DEF Ordered
    <3> QED BY <3>1, <3>2, FollowMore
  <2>3. ASSUME NEW j \in 1 .. Len(b), i = Len(a) + j PROVE Follow(q, i, q[i].txs)
    <3>1. q[i] = b[j] /\ j \in Nat
      BY <1>1, <2>3
    <3>2. Follow(b, j, b[j].txs)
      BY <1>2, <2>3, <3>1 DEF Ordered
    <3>3. Follow(q, Len(a) + j, b[j].txs)
      BY <3>1, <3>2, FollowShift
    <3> QED BY <2>3, <3>1, <3>3
  <2> QED BY <2>1, <2>2, <2>3
<1> QED BY <1>2 DEF Ordered

\* The transactions to come are next, if there are any.
LEMMA FollowNext ==
  ASSUME NEW S, NEW q \in Seq(S), NEW T, Follow(q, 0, T), T # {}
  PROVE  q # <<>> /\ q[1].type = "tx"
<1>1. PICK n \in 0 .. Len(q) : /\ \A j \in 0 + 1 .. n : q[j].type = "tx"
                               /\ \A t \in T : \E j \in 0 + 1 .. n : q[j].tx = t
  BY DEF Follow
<1>2. n # 0
  BY <1>1
<1>3. 1 \in 0 + 1 .. n /\ Len(q) # 0
  BY <1>2
<1> QED BY <1>1, <1>3

\* Nothing has to follow.
LEMMA FollowNone ==
  ASSUME NEW S, NEW q \in Seq(S), NEW i \in 0 .. Len(q)
  PROVE  Follow(q, i, {})
<1>1. i \in i .. Len(q)
  OBVIOUS
<1> QED BY <1>1 DEF Follow

\* Without the first message, what is in order stays so.
LEMMA FollowTail ==
  ASSUME NEW S, NEW q \in Seq(S), q # <<>>
  PROVE  /\ \A i \in Nat, T \in SUBSET Tx : Follow(Tail(q), i, T) <=> Follow(q, i + 1, T)
         /\ \A T \in SUBSET Tx : Follow(q, 0, T) /\ q[1].type = "tx" => Follow(Tail(q), 0, T \ {q[1].tx})
<1>1. /\ Tail(q) \in Seq(S) /\ Head(q) \in S /\ Head(q) = q[1] /\ q = <<Head(q)>> \o Tail(q) /\ Len(q) \in Nat /\ Len(q) >= 1
  BY Cut
<1> DEFINE a == <<Head(q)>>
           b == Tail(q)
<1>2. a \in Seq(S) /\ b \in Seq(S) /\ Len(a) = 1 /\ q = a \o b
  BY <1>1
<1> HIDE DEF a, b
<1>3. ASSUME NEW i \in Nat, NEW T \in SUBSET Tx PROVE Follow(b, i, T) <=> Follow(q, i + 1, T)
  <2>1. Follow(b, i, T) <=> Follow(a \o b, Len(a) + i, T)
    BY <1>2, FollowShift
  <2>2. Len(a) + i = i + 1
    BY <1>2
  <2> QED BY <1>2, <2>1, <2>2
<1>4. ASSUME NEW T \in SUBSET Tx, Follow(q, 0, T), q[1].type = "tx" PROVE Follow(q, 1, T \ {q[1].tx})
  <2>1. PICK n \in 0 .. Len(q) : /\ \A j \in 0 + 1 .. n : q[j].type = "tx"
                                 /\ \A t \in T : \E j \in 0 + 1 .. n : q[j].tx = t
    BY <1>4 DEF Follow
  <2>2. CASE n = 0
    <3>1. T \ {q[1].tx} = {}
      BY <2>1, <2>2
    <3>2. 1 \in 0 .. Len(q)
      BY <1>1
    <3> QED BY <3>1, <3>2, FollowNone
  <2>3. CASE n # 0
    <3>1. n \in 1 .. Len(q) /\ \A j \in 1 + 1 .. n : j \in 0 + 1 .. n
      BY <2>3
    <3>2. ASSUME NEW t \in T \ {q[1].tx} PROVE \E j \in 1 + 1 .. n : q[j].tx = t
      <4>1. PICK j \in 0 + 1 .. n : q[j].tx = t
        BY <2>1
      <4>2. j # 1
        BY <3>2, <4>1
      <4>3. j \in 1 + 1 .. n
        BY <4>2
      <4> QED BY <4>1, <4>3
    <3> QED BY <2>1, <3>1, <3>2 DEF Follow
  <2> QED BY <2>2, <2>3
<1>5. ASSUME NEW T \in SUBSET Tx, Follow(q, 0, T), q[1].type = "tx" PROVE Follow(b, 0, T \ {q[1].tx})
  <2>1. Follow(q, 0 + 1, T \ {q[1].tx}) /\ T \ {q[1].tx} \in SUBSET Tx
    BY <1>4, <1>5
  <2> QED BY <1>3, <2>1
<1> QED BY <1>3, <1>5 DEF b

\* So the rest of an ordered sequence is ordered.
LEMMA OrderedTail ==
  ASSUME NEW n \in Nat, NEW q \in Seq(Heard(n)), q # <<>>, Ordered(q)
  PROVE  Ordered(Tail(q))
<1> DEFINE b == Tail(q)
<1>1. /\ b \in Seq(Heard(n)) /\ Len(q) \in Nat /\ Len(b) = Len(q) - 1 /\ \A i \in 1 .. Len(q) - 1 : b[i] = q[i + 1]
  BY Cut
<1>2. \A i \in Nat, T \in SUBSET Tx : Follow(b, i, T) <=> Follow(q, i + 1, T)
  BY FollowTail
<1> HIDE DEF b
<1>3. ASSUME NEW i \in 1 .. Len(b), b[i].type = "merkleblock" PROVE Follow(b, i, b[i].txs)
  <2>1. b[i] = q[i + 1] /\ i + 1 \in 1 .. Len(q) /\ i \in Nat /\ b[i] \in Heard(n)
    BY <1>1
  <2>2. Follow(q, i + 1, b[i].txs)
    BY <1>3, <2>1 DEF Ordered
  <2>3. b[i].txs \in SUBSET Tx
    BY <1>3, <2>1, HeardFacts
  <2> QED BY <1>2, <2>1, <2>2, <2>3
<1> QED BY <1>3 DEF Ordered, b

-----------------------------------------------------------------------------
(* What the node answers a request for blocks with. *)

\* A message of the answer for block h, which g matched.
Told(g, h, m) ==
  \/ m.type = "merkleblock" /\ m.height = h /\ m.txs = {t \in ToSet(Chain[h]) : Matches(g, t)}
  \/ m.type = "tx" /\ m.tx \in ToSet(Chain[h]) /\ Matches(g, m.tx)

\* A block is a sequence of transactions.
LEMMA ChainFacts ==
  ASSUME NEW n \in 0 .. Len(Chain), NEW h \in 1 .. n
  PROVE  Chain[h] \in Seq(Tx) /\ ToSet(Chain[h]) \subseteq Tx /\ Len(Chain) \in Nat /\ h \in 1 .. Len(Chain)
<1>1. Chain \in Seq(Seq(Tx)) /\ Len(Chain) \in Nat /\ h \in 1 .. Len(Chain)
  BY FilterAssumption
<1>2. Chain[h] \in Seq(Tx)
  BY <1>1
<1> QED BY <1>1, <1>2, Elements

\* The element of a sequence of one.
LEMMA InOne == \A x : x \in ToSet(<<x>>)
<1>1. \A x : 1 \in DOMAIN <<x>> /\ <<x>>[1] = x
  OBVIOUS
<1> QED BY <1>1 DEF ToSet

\* A sequence with an element before it.
LEMMA OneAndRest ==
  ASSUME NEW S, NEW m \in S, NEW r \in Seq(S), NEW q, q = <<m>> \o r
  PROVE  /\ q \in Seq(S) /\ Len(r) \in Nat /\ Len(q) = 1 + Len(r)
         /\ q[1] = m /\ \A i \in 1 .. Len(r) : q[1 + i] = r[i]
         /\ \A j \in 1 .. Len(q) : j = 1 \/ \E i \in 1 .. Len(r) : j = 1 + i
<1>1. PICK a : a = <<m>>
  OBVIOUS
<1>2. a \in Seq(S) /\ Len(a) = 1 /\ a[1] = m /\ q = a \o r
  BY <1>1
<1>3. /\ a \o r \in Seq(S) /\ Len(a \o r) = Len(a) + Len(r) /\ Len(r) \in Nat
      /\ \A i \in 1 .. Len(a) : (a \o r)[i] = a[i]
      /\ \A i \in 1 .. Len(r) : (a \o r)[Len(a) + i] = r[i]
  BY <1>2, Join
<1>4. Len(r) \in Nat /\ Len(q) = 1 + Len(r) /\ q \in Seq(S)
  BY <1>2, <1>3
<1>5. q[1] = m /\ \A i \in 1 .. Len(r) : q[1 + i] = r[i]
  <2>1. 1 \in 1 .. Len(a)
    BY <1>2
  <2> QED BY <1>2, <1>3, <2>1
<1>6. ASSUME NEW j \in 1 .. Len(q), j # 1 PROVE \E i \in 1 .. Len(r) : j = 1 + i
  <2>1. j - 1 \in 1 .. Len(r) /\ j = 1 + (j - 1)
    BY <1>4, <1>6
  <2> QED BY <2>1
<1> QED BY <1>4, <1>5, <1>6

\* The block, and then its transactions.
LEMMA BlockReplyFacts ==
  ASSUME NEW n \in 0 .. Len(Chain), NEW h \in 1 .. n, NEW g
  PROVE  /\ BlockReply(g, h) \in Seq(Heard(n)) /\ Ordered(BlockReply(g, h))
         /\ \A i \in 1 .. Len(BlockReply(g, h)) : Told(g, h, BlockReply(g, h)[i])
<1> DEFINE C == Chain[h]
           txs == {t \in ToSet(C) : Matches(g, t)}
           message(t) == IF t \in txs THEN <<TxMessage(t)>> ELSE <<>>
           m == [type |-> "merkleblock", height |-> h, txs |-> txs]
           seqs == [i \in DOMAIN C |-> message(C[i])]
           r == FlattenSeq(seqs)
           M == {[type |-> "tx", tx |-> t] : t \in txs}
<1>1. BlockReply(g, h) = <<m>> \o r
  BY DEF BlockReply
<1>2. C \in Seq(Tx) /\ ToSet(C) \subseteq Tx
  BY ChainFacts
<1>3. m \in Heard(n) /\ m.type = "merkleblock" /\ m.height = h /\ m.txs = txs
  <2>1. txs \in SUBSET Tx /\ txs \subseteq ToSet(C)
    BY <1>2
  <2> HIDE DEF txs
  <2>2. m \in [type : {"merkleblock"}, height : 1 .. n, txs : SUBSET Tx] /\ m.txs \subseteq ToSet(Chain[m.height])
    BY <2>1
  <2> QED BY <2>2 DEF Heard
<1>4. \A t : message(t) \in Seq(M)
  <2>1. \A t : t \in txs => TxMessage(t) \in M
    BY DEF TxMessage
  <2> HIDE DEF txs, M
  <2> QED BY <2>1
<1>5. M \subseteq Heard(n)
  <2>1. txs \subseteq Tx
    BY <1>2
  <2> HIDE DEF txs
  <2>2. \A t \in txs : [type |-> "tx", tx |-> t] \in [type : {"tx"}, tx : Tx]
    BY <2>1
  <2> QED BY <2>2 DEF Heard
<1>6. seqs \in Seq(Seq(M)) /\ Len(seqs) \in Nat /\ DOMAIN seqs = DOMAIN C
      /\ \A i \in DOMAIN seqs : seqs[i] = message(C[i])
  <2> HIDE DEF message, C, M
  <2> QED BY <1>2, <1>4
<1>7. r \in Seq(M)
  <2>1. <<>> \in Seq(M) /\ \A a, b \in Seq(M) : a \o b \in Seq(M)
    <3> HIDE DEF M
    <3> QED OBVIOUS
  <2>2. (\A i \in 1 .. Len(seqs) : seqs[i] \in Seq(M)) /\ (Len(seqs) = 0 => seqs = <<>>)
    <3> HIDE DEF seqs, M
    <3> QED BY <1>6
  <2> HIDE DEF seqs, M
  <2> QED BY <1>6, <2>1, <2>2, FlattenIn
<1>8. ASSUME NEW t \in txs PROVE \E i \in DOMAIN r : r[i] = TxMessage(t)
  <2>1. PICK i \in DOMAIN C : C[i] = t
    BY <1>2, Elements
  <2>2. i \in DOMAIN seqs /\ seqs[i] = <<TxMessage(t)>>
    BY <1>6, <1>8, <2>1
  <2>3. ToSet(seqs[i]) \subseteq ToSet(r)
    <3> HIDE DEF seqs, M
    <3> QED BY <1>6, <2>2, FlattenHas
  <2>4. TxMessage(t) \in ToSet(<<TxMessage(t)>>)
    BY InOne
  <2>5. TxMessage(t) \in ToSet(r)
    BY <2>2, <2>3, <2>4
  <2> HIDE DEF r, M
  <2> QED BY <1>7, <2>5, Elements
<1>9. \A i \in 1 .. Len(r) : r[i].type = "tx" /\ r[i].tx \in txs
  <2>1. \A x \in M : x.type = "tx" /\ x.tx \in txs
    <3> HIDE DEF txs
    <3> QED OBVIOUS
  <2> HIDE DEF M, r, txs
  <2> QED BY <1>7, <2>1
<1> DEFINE q == <<m>> \o r
<1> HIDE DEF M, r, m, seqs, message
<1>10. <<m>> \in Seq(Heard(n)) /\ r \in Seq(Heard(n)) /\ Len(<<m>>) = 1 /\ <<m>>[1] = m
  BY <1>3, <1>5, <1>7
<1>11. /\ q \in Seq(Heard(n)) /\ Len(r) \in Nat /\ Len(q) = 1 + Len(r)
       /\ q[1] = m /\ \A i \in 1 .. Len(r) : q[1 + i] = r[i]
       /\ \A j \in 1 .. Len(q) : j = 1 \/ \E i \in 1 .. Len(r) : j = 1 + i
  <2>1. m \in Heard(n) /\ r \in Seq(Heard(n)) /\ q = <<m>> \o r
    BY <1>3, <1>10
  <2> HIDE DEF q
  <2> QED BY <2>1, OneAndRest
<1> HIDE DEF q
<1>12. \A i \in 1 .. Len(q) : Told(g, h, q[i])
  <2>1. Told(g, h, m)
    BY <1>3 DEF Told
  <2>2. ASSUME NEW i \in 1 .. Len(r) PROVE Told(g, h, r[i])
    BY <1>9 DEF Told
  <2> QED BY <1>11, <2>1, <2>2
<1>13. Follow(q, 1, txs)
  <2>1. Len(q) \in 1 .. Len(q) /\ Len(q) \in Nat
    BY <1>11
  <2>2. ASSUME NEW j \in 1 + 1 .. Len(q) PROVE q[j].type = "tx"
    <3>1. j - 1 \in 1 .. Len(r) /\ 1 + (j - 1) = j
      BY <1>11
    <3>2. q[1 + (j - 1)] = r[j - 1]
      BY <1>11, <3>1
    <3> QED BY <1>9, <3>1, <3>2
  <2>3. ASSUME NEW t \in txs PROVE \E j \in 1 + 1 .. Len(q) : q[j].tx = t
    <3>1. PICK i \in DOMAIN r : r[i] = TxMessage(t)
      BY <1>8, <2>3
    <3>2. i \in 1 .. Len(r)
      BY <1>10, <3>1
    <3>3. 1 + i \in 1 + 1 .. Len(q) /\ q[1 + i] = TxMessage(t)
      BY <1>11, <3>1, <3>2
    <3>4. TxMessage(t).tx = t
      BY DEF TxMessage
    <3> QED BY <3>3, <3>4
  <2> QED BY <2>1, <2>2, <2>3 DEF Follow
<1>14. Ordered(q)
  <2>1. ASSUME NEW i \in 1 .. Len(q), q[i].type = "merkleblock" PROVE i = 1
    BY <1>9, <1>11, <2>1
  <2> QED BY <1>3, <1>11, <1>13, <2>1 DEF Ordered
<1> QED BY <1>1, <1>11, <1>12, <1>14 DEF q

\* A message of the answer to a request for these blocks.
Answer(f, blocks, m) ==
  \E k \in DOMAIN blocks : Told(After(f, TxsOf(SubSeq(blocks, 1, k))), blocks[k], m)

\* Each block, with its transactions after it.
LEMMA BlockRepliesFacts ==
  ASSUME NEW n \in 0 .. Len(Chain), NEW f, NEW blocks \in Seq(1 .. n)
  PROVE  /\ BlockReplies(f, blocks) \in Seq(Heard(n)) /\ Ordered(BlockReplies(f, blocks))
         /\ \A i \in 1 .. Len(BlockReplies(f, blocks)) : Answer(f, blocks, BlockReplies(f, blocks)[i])
<1> DEFINE g(k) == After(f, TxsOf(SubSeq(blocks, 1, k)))
           seqs == [k \in DOMAIN blocks |-> BlockReply(g(k), blocks[k])]
           All(q) == \A i \in 1 .. Len(q) : Answer(f, blocks, q[i])
           G == {q \in Seq(Heard(n)) : Ordered(q) /\ All(q)}
<1>1. BlockReplies(f, blocks) = FlattenSeq(seqs)
  BY DEF BlockReplies
<1>2. /\ Len(blocks) \in Nat /\ DOMAIN blocks = 1 .. Len(blocks)
      /\ \A k \in DOMAIN blocks : blocks[k] \in 1 .. n
  OBVIOUS
<1>3. ASSUME NEW k \in DOMAIN blocks PROVE BlockReply(g(k), blocks[k]) \in G
  <2>1. PICK e : e = g(k)
    OBVIOUS
  <2>2. PICK r : r = BlockReply(e, blocks[k])
    OBVIOUS
  <2>3. blocks[k] \in 1 .. n
    BY <1>2
  <2>4. r \in Seq(Heard(n)) /\ Ordered(r) /\ \A i \in 1 .. Len(r) : Told(e, blocks[k], r[i])
    BY <2>2, <2>3, BlockReplyFacts
  <2>5. All(r)
    <3> SUFFICES ASSUME NEW i \in 1 .. Len(r) PROVE Answer(f, blocks, r[i])
      OBVIOUS
    <3>1. Told(g(k), blocks[k], r[i])
      BY <2>1, <2>4
    <3> HIDE DEF g
    <3>2. \E l \in DOMAIN blocks : Told(g(l), blocks[l], r[i])
      BY <3>1
    <3> QED BY <3>2 DEF Answer, g
  <2>6. r \in G
    BY <2>4, <2>5
  <2> QED BY <2>1, <2>2, <2>6
<1>4. <<>> \in G
  <2>1. <<>> \in Seq(Heard(n)) /\ Len(<<>>) = 0
    OBVIOUS
  <2>2. Ordered(<<>>) /\ All(<<>>)
    BY <2>1 DEF Ordered
  <2> QED BY <2>1, <2>2
<1>5. ASSUME NEW a \in G, NEW b \in G PROVE a \o b \in G
  <2>1. a \in Seq(Heard(n)) /\ b \in Seq(Heard(n)) /\ Ordered(a) /\ Ordered(b) /\ All(a) /\ All(b)
    BY <1>5
  <2>2. PICK q : q = a \o b
    OBVIOUS
  <2>3. Ordered(q)
    BY <2>1, <2>2, OrderedJoin
  <2>4. /\ q \in Seq(Heard(n)) /\ Len(a) \in Nat /\ Len(b) \in Nat /\ Len(q) = Len(a) + Len(b)
        /\ \A i \in 1 .. Len(a) : q[i] = a[i]
        /\ \A i \in 1 .. Len(b) : q[Len(a) + i] = b[i]
        /\ DOMAIN q = 1 .. Len(a) + Len(b)
        /\ \A j \in DOMAIN q : j \in 1 .. Len(a) \/ \E i \in 1 .. Len(b) : j = Len(a) + i
    <3> USE <2>1
    <3> QED BY <2>2, Join
  <2>5. ASSUME NEW j \in 1 .. Len(q) PROVE Answer(f, blocks, q[j])
    <3>1. CASE j \in 1 .. Len(a)
      BY <2>1, <2>4, <3>1
    <3>2. ASSUME NEW i \in 1 .. Len(b), j = Len(a) + i PROVE Answer(f, blocks, q[j])
      BY <2>1, <2>4, <3>2
    <3> QED BY <2>4, <2>5, <3>1, <3>2
  <2> QED BY <2>2, <2>3, <2>4, <2>5
<1>6. Len(seqs) = Len(blocks) /\ \A i \in 1 .. Len(seqs) : seqs[i] \in G
  <2>1. DOMAIN seqs = 1 .. Len(blocks) /\ Len(seqs) = Len(blocks)
    <3> HIDE DEF g
    <3> QED BY <1>2
  <2>2. \A i \in DOMAIN blocks : seqs[i] = BlockReply(g(i), blocks[i])
    <3> HIDE DEF g
    <3> QED OBVIOUS
  <2> HIDE DEF seqs, G, g
  <2> QED BY <1>2, <1>3, <2>1, <2>2
<1>7. Len(seqs) = 0 => seqs = <<>>
  <2> HIDE DEF g
  <2> QED BY <1>2, <1>6
<1>8. FlattenSeq(seqs) \in G
  <2> HIDE DEF seqs, G, All
  <2> QED BY <1>2, <1>4, <1>5, <1>6, <1>7, FlattenIn
<1> QED BY <1>1, <1>8

-----------------------------------------------------------------------------
(* What is sent. *)

\* Messages to the node, k pings among them.
Sent(n, msgs, k) == msgs \in Seq(Asked(n)) /\ Marks(msgs) = k
\* Messages of the node, k pongs among them, each block before its transactions.
Said(n, msgs, k) == msgs \in Seq(Heard(n)) /\ Ordered(msgs) /\ Marks(msgs) = k

\* One after the other.
LEMMA SentJoin ==
  ASSUME NEW n \in Nat, NEW a, NEW b, NEW j \in Nat, NEW k \in Nat, Sent(n, a, j), Sent(n, b, k)
  PROVE  Sent(n, a \o b, j + k)
<1>1. a \in Seq(Asked(n)) /\ b \in Seq(Asked(n)) /\ Marks(a) = j /\ Marks(b) = k
  BY DEF Sent
<1>2. Marks(a \o b) = Marks(a) + Marks(b)
  BY <1>1, MarksJoin
<1>3. a \o b \in Seq(Asked(n))
  BY <1>1
<1> QED BY <1>1, <1>2, <1>3 DEF Sent

\* The same of the node's.
LEMMA SaidJoin ==
  ASSUME NEW n \in Nat, NEW a, NEW b, NEW j \in Nat, NEW k \in Nat, Said(n, a, j), Said(n, b, k)
  PROVE  Said(n, a \o b, j + k)
<1>1. a \in Seq(Heard(n)) /\ b \in Seq(Heard(n)) /\ Marks(a) = j /\ Marks(b) = k /\ Ordered(a) /\ Ordered(b)
  BY DEF Said
<1>2. Marks(a \o b) = Marks(a) + Marks(b)
  BY <1>1, MarksJoin
<1>3. a \o b \in Seq(Heard(n))
  BY <1>1
<1>4. Ordered(a \o b)
  BY <1>1, OrderedJoin
<1> QED BY <1>1, <1>2, <1>3, <1>4 DEF Said

\* Nothing.
LEMMA Silent == ASSUME NEW n \in Nat PROVE Sent(n, <<>>, 0) /\ Said(n, <<>>, 0)
<1>1. Marks(<<>>) = 0
  <2>1. <<>> \in Seq({}) /\ Len(<<>>) = 0
    OBVIOUS
  <2>2. \A i \in 1 .. Len(<<>>) : <<>>[i].type \notin Mark
    BY <2>1
  <2> QED BY <2>1, <2>2, MarksNone
<1>2. Ordered(<<>>)
  <2>1. Len(<<>>) = 0
    OBVIOUS
  <2> QED BY <2>1 DEF Ordered
<1>3. <<>> \in Seq(Asked(n)) /\ <<>> \in Seq(Heard(n))
  OBVIOUS
<1> QED BY <1>1, <1>2, <1>3 DEF Sent, Said

\* One message to the node.
LEMMA SentOne ==
  ASSUME NEW n \in Nat, NEW m \in Asked(n)
  PROVE  Sent(n, <<m>>, IF m.type = "ping" THEN 1 ELSE 0)
<1>1. Marks(<<m>>) = IF m.type \in Mark THEN 1 ELSE 0
  BY MarksOne
<1>2. m.type \in Mark <=> m.type = "ping"
  BY AskedFacts
<1>3. <<m>> \in Seq(Asked(n))
  OBVIOUS
<1> QED BY <1>1, <1>2, <1>3 DEF Sent

\* One message of the node that is not a block.
LEMMA SaidOne ==
  ASSUME NEW n \in Nat, NEW m \in Heard(n), m.type # "merkleblock"
  PROVE  Said(n, <<m>>, IF m.type = "pong" THEN 1 ELSE 0)
<1>1. Marks(<<m>>) = IF m.type \in Mark THEN 1 ELSE 0
  BY MarksOne
<1>2. m.type \in Mark <=> m.type = "pong"
  BY HeardFacts
<1>3. <<m>> \in Seq(Heard(n))
  OBVIOUS
<1>4. Ordered(<<m>>)
  <2>1. Len(<<m>>) = 1 /\ <<m>>[1] = m
    OBVIOUS
  <2>2. \A i \in 1 .. Len(<<m>>) : <<m>>[i] = m
    BY <2>1
  <2> QED BY <2>2 DEF Ordered
<1> QED BY <1>1, <1>2, <1>3, <1>4 DEF Said

\* What LWPeer sends.
LEMMA MessagesSent ==
  ASSUME NEW n \in Nat
  PROVE  /\ \A x \in Nat : Sent(n, GetBlocks(x), 0)
         /\ \A T \in SUBSET Tx, q \in Seq(1 .. n) : Sent(n, GetData(T, q), 0)
         /\ Sent(n, Ping, 1)
         /\ \A c : Sent(n, Mempool(c), 0)
         /\ \A f \in Filters : Sent(n, <<[type |-> "filterload", filter |-> f]>>, 0)
<1>1. ASSUME NEW x \in Nat PROVE Sent(n, GetBlocks(x), 0)
  <2> DEFINE m == [type |-> "getblocks", from |-> x]
  <2>1. m \in Asked(n) /\ m.type = "getblocks"
    BY DEF Asked
  <2> HIDE DEF m
  <2>2. Sent(n, <<m>>, 0)
    BY <2>1, SentOne
  <2> QED BY <2>2 DEF GetBlocks, m
<1>2. ASSUME NEW T \in SUBSET Tx, NEW q \in Seq(1 .. n) PROVE Sent(n, GetData(T, q), 0)
  <2> DEFINE m == [type |-> "getdata", txs |-> T, blocks |-> q]
  <2>1. m \in Asked(n) /\ m.type = "getdata"
    BY DEF Asked
  <2> HIDE DEF m
  <2>2. Sent(n, <<m>>, 0) /\ Sent(n, <<>>, 0)
    BY <2>1, SentOne, Silent
  <2>3. GetData(T, q) = IF T = {} /\ q = <<>> THEN <<>> ELSE <<m>>
    BY DEF GetData, m
  <2> QED BY <2>2, <2>3
<1>3. Sent(n, Ping, 1)
  <2> DEFINE m == [type |-> "ping"]
  <2>1. m \in Asked(n) /\ m.type = "ping"
    BY DEF Asked
  <2> HIDE DEF m
  <2>2. Sent(n, <<m>>, 1)
    BY <2>1, SentOne
  <2> QED BY <2>2 DEF Ping, m
<1>4. ASSUME NEW c PROVE Sent(n, Mempool(c), 0)
  <2> DEFINE m == [type |-> "mempool"]
  <2>1. m \in Asked(n) /\ m.type = "mempool"
    BY DEF Asked
  <2> HIDE DEF m
  <2>2. Sent(n, <<m>>, 0) /\ Sent(n, <<>>, 0)
    BY <2>1, SentOne, Silent
  <2> QED BY <2>2 DEF Mempool, m
<1>5. ASSUME NEW f \in Filters PROVE Sent(n, <<[type |-> "filterload", filter |-> f]>>, 0)
  <2> DEFINE m == [type |-> "filterload", filter |-> f]
  <2>1. m \in Asked(n) /\ m.type = "filterload"
    BY DEF Asked
  <2> HIDE DEF m
  <2>2. Sent(n, <<m>>, 0)
    BY <2>1, SentOne
  <2> QED BY <2>2 DEF m
<1> QED BY <1>1, <1>2, <1>3, <1>4, <1>5

\* A ping for each completion, if there is one.
LEMMA PingsSent ==
  ASSUME NEW n \in Nat, NEW cs, cs = <<>> \/ \E c \in Calls : cs = <<c>>
  PROVE  cs \in Seq(Calls) /\ Len(cs) \in Nat /\ Sent(n, PingMessages(cs), Len(cs))
<1>1. CASE cs = <<>>
  <2>1. PingMessages(cs) = <<>> /\ Len(cs) = 0 /\ cs \in Seq(Calls)
    BY <1>1 DEF PingMessages
  <2> QED BY <2>1, Silent
<1>2. CASE \E c \in Calls : cs = <<c>>
  <2>1. PICK c \in Calls : cs = <<c>>
    BY <1>2
  <2>2. DOMAIN cs = 1 .. 1 /\ Len(cs) = 1 /\ cs \in Seq(Calls)
    BY <2>1
  <2>3. PingMessages(cs) = [i \in 1 .. 1 |-> Ping[1]]
    BY <2>2 DEF PingMessages
  <2>4. PingMessages(cs) = <<Ping[1]>>
    BY <2>3
  <2>5. Ping = <<Ping[1]>>
    BY DEF Ping
  <2>6. Sent(n, Ping, 1)
    BY MessagesSent
  <2> QED BY <2>2, <2>4, <2>5, <2>6
<1> QED BY <1>1, <1>2

\* What the node sends.
LEMMA MessagesSaid ==
  ASSUME NEW n \in Nat
  PROVE  /\ \A q \in Seq(1 .. n) : Said(n, <<BlockInv(q)>>, 0)
         /\ \A T \in SUBSET Tx : Said(n, <<TxInv(T)>>, 0)
         /\ Said(n, <<[type |-> "pong"]>>, 1)
<1>1. ASSUME NEW q \in Seq(1 .. n) PROVE Said(n, <<BlockInv(q)>>, 0)
  <2>1. BlockInv(q) \in Heard(n) /\ BlockInv(q).type = "inv"
    BY DEF Heard, BlockInv
  <2> QED BY <2>1, SaidOne
<1>2. ASSUME NEW T \in SUBSET Tx PROVE Said(n, <<TxInv(T)>>, 0)
  <2>0. <<>> \in Seq(1 .. n)
    OBVIOUS
  <2>1. TxInv(T) \in Heard(n) /\ TxInv(T).type = "inv"
    BY <2>0 DEF Heard, TxInv
  <2> QED BY <2>1, SaidOne
<1>3. Said(n, <<[type |-> "pong"]>>, 1)
  <2> DEFINE m == [type |-> "pong"]
  <2>1. m \in Heard(n) /\ m.type = "pong"
    BY DEF Heard
  <2> HIDE DEF m
  <2> QED BY <2>1, SaidOne DEF m
<1> QED BY <1>1, <1>2, <1>3

\* The blocks asked for, with their transactions.
LEMMA RepliesSaid ==
  ASSUME NEW n \in 0 .. Len(Chain), NEW f, NEW blocks \in Seq(1 .. n)
  PROVE  Said(n, BlockReplies(f, blocks), 0)
<1>1. PICK r : r = BlockReplies(f, blocks)
  OBVIOUS
<1>2. /\ r \in Seq(Heard(n)) /\ Ordered(r)
      /\ \A i \in 1 .. Len(r) : Answer(f, blocks, r[i])
  BY <1>1, BlockRepliesFacts
<1>3. \A m : Answer(f, blocks, m) => m.type \notin Mark
  BY DEF Answer, Told, Mark
<1>4. Marks(r) = 0
  BY <1>2, <1>3, MarksNone
<1> QED BY <1>1, <1>2, <1>4 DEF Said

\* The transactions asked for.
LEMMA TxSaid ==
  ASSUME NEW n \in Nat, NEW T \in SUBSET Tx, NEW txs, txs = SetToSeq(T)
  PROVE  Said(n, [i \in DOMAIN txs |-> TxMessage(txs[i])], 0)
<1>1. IsFiniteSet(T)
  BY FS_Subset, FilterAssumption
<1>2. txs \in Seq(T)
  BY <1>1, SetToSeqFacts
<1> DEFINE q == [i \in DOMAIN txs |-> TxMessage(txs[i])]
<1>3. \A t \in T : TxMessage(t) \in Heard(n) /\ TxMessage(t).type = "tx"
  BY DEF TxMessage, Heard
<1>4. q \in Seq(Heard(n)) /\ \A i \in 1 .. Len(q) : q[i].type = "tx"
  BY <1>2, <1>3
<1> HIDE DEF q
<1>5. Marks(q) = 0
  BY <1>4, MarksNone DEF Mark
<1>6. Ordered(q)
  BY <1>4 DEF Ordered
<1> QED BY <1>4, <1>5, <1>6 DEF Said, q

-----------------------------------------------------------------------------
(* Steps of the node. *)

\* What comes later does not come between a block and its transactions.
LEMMA RepliesKeep ==
  ASSUME NodeTypes, WalletTypes, Complete, NEW n \in Nat, Heard(mined) \subseteq Heard(n),
         NEW msgs, NEW k \in Nat, Said(n, msgs, k), Replies(msgs), UNCHANGED ctx
  PROVE  /\ fromNode' \in Seq(Heard(n)) /\ Complete'
         /\ Marks(fromNode') = Marks(fromNode) + k /\ Marks(fromNode) \in Nat
<1>1. fromNode \in Seq(Heard(n))
  <2>1. fromNode \in Seq(Heard(mined))
    BY DEF NodeTypes
  <2> QED BY <2>1
<1>2. msgs \in Seq(Heard(n)) /\ Ordered(msgs) /\ Marks(msgs) = k
  BY DEF Said
<1>3. PICK q : q = fromNode /\ fromNode' = q \o msgs
  BY DEF Replies
<1>4. q \in Seq(Heard(n)) /\ Ordered(q) /\ Follow(q, 0, ctx.left)
  BY <1>1, <1>3 DEF Complete
<1>5. Ordered(q \o msgs) /\ q \o msgs \in Seq(Heard(n))
  BY <1>2, <1>4, OrderedJoin
<1>6. Follow(q \o msgs, 0, ctx.left)
  BY <1>2, <1>4, FollowMore
<1>7. Marks(q \o msgs) = Marks(q) + Marks(msgs) /\ Marks(q) \in Nat
  BY <1>2, <1>4, MarksJoin
<1>8. Ordered(fromNode') /\ Follow(fromNode', 0, ctx.left)
  BY <1>3, <1>5, <1>6
<1>9. Complete'
  BY <1>8 DEF Complete
<1> QED BY <1>2, <1>3, <1>5, <1>7, <1>9

\* What the node reads.
LEMMA ReadByNode ==
  ASSUME NodeTypes, NEW type, NodeReads(type)
  PROVE  /\ toNode # <<>> /\ Head(toNode) \in Asked(mined) /\ Head(toNode).type = type
         /\ toNode' \in Seq(Asked(mined)) /\ mined \in Nat
         /\ Marks(toNode') \in Nat /\ Marks(toNode) = Marks(toNode') + IF type = "ping" THEN 1 ELSE 0
<1>1. /\ toNode \in Seq(Asked(mined)) /\ toNode # <<>> /\ Head(toNode).type = type /\ toNode' = Tail(toNode)
      /\ mined \in Nat
  BY FilterAssumption DEF NodeTypes, NodeReads
<1>2. PICK q, m, r : q = toNode /\ m = Head(q) /\ r = Tail(q)
  OBVIOUS
<1>3. m \in Asked(mined) /\ r \in Seq(Asked(mined)) /\ q = <<m>> \o r
  BY <1>1, <1>2, Cut
<1>4. <<m>> \in Seq(Asked(mined))
  BY <1>3
<1>5. Marks(<<m>> \o r) = Marks(<<m>>) + Marks(r) /\ Marks(r) \in Nat
  BY <1>3, <1>4, MarksJoin
<1>6. Marks(<<m>>) = IF m.type \in Mark THEN 1 ELSE 0
  BY MarksOne
<1>7. m.type \in Mark <=> m.type = "ping"
  BY <1>1, <1>3, AskedFacts
<1>8. Marks(q) = Marks(r) + IF type = "ping" THEN 1 ELSE 0
  <2>1. m.type = type
    BY <1>1, <1>2
  <2> QED BY <1>3, <1>5, <1>6, <1>7, <2>1
<1>9. q = toNode /\ r = toNode' /\ m = Head(toNode)
  BY <1>1, <1>2
<1> QED BY <1>1, <1>3, <1>5, <1>8, <1>9

\* A message is read and answered.
LEMMA NodeStep ==
  ASSUME IInv, NEW type, NodeReads(type), NEW msgs, Said(mined, msgs, IF type = "ping" THEN 1 ELSE 0),
         Replies(msgs), announced' \subseteq Tx, NodeOnly
  PROVE  IInv'
<1> DEFINE k == IF type = "ping" THEN 1 ELSE 0
<1>1. NodeTypes /\ WalletTypes /\ OrphanTypes /\ Coverage /\ Complete /\ Answered /\ Closed
  BY DEF IInv
<1>2. UNCHANGED <<mined, pool, connected, ctx, pongs, bloomFilter, lastBlock, estimatedHeight, orphans,
                  lastOrphan, syncing, relayed, height, addrs, losses, rebuilds>>
  BY DEF NodeOnly, manager, wallet, bounds
<1>3. /\ toNode # <<>> /\ toNode' \in Seq(Asked(mined)) /\ mined \in Nat
      /\ Marks(toNode') \in Nat /\ Marks(toNode) = Marks(toNode') + k
  BY <1>1, ReadByNode
<1>4. k \in Nat /\ Said(mined, msgs, k)
  OBVIOUS
<1> HIDE DEF k
<1>5. /\ fromNode' \in Seq(Heard(mined)) /\ Complete'
      /\ Marks(fromNode') = Marks(fromNode) + k /\ Marks(fromNode) \in Nat
  BY <1>1, <1>2, <1>3, <1>4, RepliesKeep
<1>6. NodeTypes'
  BY <1>1, <1>2, <1>3, <1>5 DEF NodeTypes
<1>7. WalletTypes'
  BY <1>1, <1>2 DEF WalletTypes
<1>8. OrphanTypes'
  BY <1>1, <1>2 DEF OrphanTypes
<1>9. Coverage'
  BY <1>1, <1>2 DEF Coverage
<1>10. Answered'
  BY <1>1, <1>2, <1>3, <1>4, <1>5 DEF Answered
<1>11. Closed'
  BY <1>1, <1>2, <1>3 DEF Closed
<1> QED BY <1>5, <1>6, <1>7, <1>8, <1>9, <1>10, <1>11 DEF IInv

\* The heights up to some block.
LEMMA InvTypes ==
  ASSUME mined \in Nat, NEW from \in Nat, from < mined, NEW last, last = Min({from + MaxInv, mined})
  PROVE  last - from \in Nat /\ [i \in 1..(last - from) |-> from + i] \in Seq(1 .. mined)
<1>1. MaxInv \in Nat \ {0}
  BY FilterAssumption
<1>2. {from + MaxInv, mined} \in SUBSET Nat /\ {from + MaxInv, mined} # {}
  BY <1>1
<1>3. last \in {from + MaxInv, mined} /\ last <= mined
  BY <1>2, MinFacts
<1>4. last \in Nat /\ last > from /\ last <= mined
  BY <1>1, <1>3
<1>5. PICK d : d = last - from
  OBVIOUS
<1>6. d \in Nat /\ \A i \in 1 .. d : from + i \in 1 .. mined
  BY <1>4, <1>5
<1>7. [i \in 1 .. d |-> from + i] \in Seq(1 .. mined)
  BY <1>6
<1> QED BY <1>5, <1>6, <1>7

\* A step of the node keeps the invariant.
LEMMA NodeKeeps == ASSUME IInv, NodeNext PROVE IInv'
<1>1. NodeTypes /\ mined \in Nat /\ mined \in 0 .. Len(Chain) /\ announced \subseteq Tx /\ pool \subseteq Tx
  BY FilterAssumption DEF IInv, NodeTypes
<1>2. Said(mined, <<>>, 0) /\ Replies(<<>>) = (fromNode' = fromNode \o <<>>)
  BY <1>1, Silent DEF Replies
<1>3. fromNode \o <<>> = fromNode
  BY <1>1 DEF NodeTypes
<1>4. ASSUME NodeFilterLoad PROVE IInv'
  <2>1. NodeReads("filterload") /\ NodeOnly /\ UNCHANGED <<announced, fromNode>>
    BY <1>4 DEF NodeFilterLoad
  <2>2. Replies(<<>>)
    BY <1>2, <1>3, <2>1
  <2>3. Said(mined, <<>>, IF "filterload" = "ping" THEN 1 ELSE 0)
    BY <1>2
  <2> QED BY <1>1, <2>1, <2>2, <2>3, NodeStep
<1>5. ASSUME NodeGetBlocks PROVE IInv'
  <2>1. NodeReads("getblocks") /\ NodeOnly /\ UNCHANGED announced
    BY <1>5 DEF NodeGetBlocks
  <2>2. Head(toNode) \in Asked(mined) /\ Head(toNode).type = "getblocks"
    BY <1>1, <2>1, ReadByNode
  <2>3. PICK from, last : from = Head(toNode).from /\ last = Min({from + MaxInv, mined})
    OBVIOUS
  <2>4. from \in Nat
    BY <1>1, <2>2, <2>3, AskedFacts
  <2>5. PICK q : q = [i \in 1..(last - from) |-> from + i]
    OBVIOUS
  <2>6. IF from < mined THEN Replies(<<BlockInv(q)>>) ELSE UNCHANGED fromNode
    BY <1>5, <2>3, <2>5 DEF NodeGetBlocks
  <2>7. CASE from < mined
    <3>1. q \in Seq(1 .. mined)
      BY <1>1, <2>3, <2>4, <2>5, <2>7, InvTypes
    <3>2. Said(mined, <<BlockInv(q)>>, 0)
      BY <1>1, <3>1, MessagesSaid
    <3>3. Said(mined, <<BlockInv(q)>>, IF "getblocks" = "ping" THEN 1 ELSE 0)
      BY <3>2
    <3> QED BY <1>1, <2>1, <2>6, <2>7, <3>3, NodeStep
  <2>8. CASE ~(from < mined)
    <3>1. Replies(<<>>)
      BY <1>2, <1>3, <2>6, <2>8
    <3>2. Said(mined, <<>>, IF "getblocks" = "ping" THEN 1 ELSE 0)
      BY <1>2
    <3> QED BY <1>1, <2>1, <3>1, <3>2, NodeStep
  <2> QED BY <2>7, <2>8
<1>6. ASSUME NodeGetData PROVE IInv'
  <2>1. NodeReads("getdata") /\ NodeOnly /\ UNCHANGED announced
    BY <1>6 DEF NodeGetData
  <2>2. Head(toNode) \in Asked(mined) /\ Head(toNode).type = "getdata"
    BY <1>1, <2>1, ReadByNode
  <2>3. PICK m : m = Head(toNode)
    OBVIOUS
  <2>4. m.txs \subseteq Tx /\ m.blocks \in Seq(1 .. mined)
    BY <1>1, <2>2, <2>3, AskedFacts
  <2>5. PICK T, txs, a, b, ends : /\ T = {t \in m.txs : Has(t)} /\ txs = SetToSeq(T)
                                  /\ a = [i \in DOMAIN txs |-> TxMessage(txs[i])]
                                  /\ b = BlockReplies(filter, m.blocks)
                                  /\ ends = (continue \in ToSet(m.blocks))
    OBVIOUS
  <2>6. PICK c : c = IF ends THEN <<BlockInv(<<mined>>)>> ELSE <<>>
    OBVIOUS
  <2>7. Replies(a \o b \o c)
    BY <1>6, <2>3, <2>5, <2>6 DEF NodeGetData
  <2>8. Said(mined, a, 0)
    <3>1. T \in SUBSET Tx
      BY <2>4, <2>5
    <3> QED BY <1>1, <2>5, <3>1, TxSaid
  <2>9. Said(mined, b, 0)
    BY <1>1, <2>4, <2>5, RepliesSaid
  <2>10. Said(mined, c, 0)
    <3>1. CASE ~ends
      BY <1>2, <2>6, <3>1
    <3>2. CASE ends
      <4>1. \E i \in DOMAIN m.blocks : m.blocks[i] \in 1 .. mined
        <5>1. continue \in ToSet(m.blocks)
          BY <2>5, <3>2, Zenon
        <5>2. PICK i \in DOMAIN m.blocks : m.blocks[i] = continue
          BY <2>4, <5>1, Elements
        <5>3. ToSet(m.blocks) \subseteq 1 .. mined
          BY <2>4, Elements
        <5>4. m.blocks[i] \in 1 .. mined
          BY <5>1, <5>2, <5>3
        <5> QED BY <5>4
      <4>2. mined \in 1 .. mined
        BY <1>1, <4>1
      <4>3. <<mined>> \in Seq(1 .. mined)
        BY <4>2
      <4> QED BY <1>1, <2>6, <3>2, <4>3, MessagesSaid
    <3> QED BY <3>1, <3>2
  <2>11. Said(mined, a \o b, 0 + 0)
    BY <1>1, <2>8, <2>9, SaidJoin
  <2>12. Said(mined, a \o b \o c, 0 + 0)
    BY <1>1, <2>10, <2>11, SaidJoin
  <2>13. Said(mined, a \o b \o c, IF "getdata" = "ping" THEN 1 ELSE 0)
    BY <2>12
  <2> QED BY <1>1, <2>1, <2>7, <2>13, NodeStep
<1>7. ASSUME NodeMempool PROVE IInv'
  <2>1. NodeReads("mempool") /\ NodeOnly
    BY <1>7 DEF NodeMempool
  <2>2. PICK found : found = {t \in pool : Matches(After(filter, pool), t)}
    OBVIOUS
  <2>3. PICK msgs : msgs = IF found = {} THEN <<>> ELSE <<TxInv(found)>>
    OBVIOUS
  <2>4. Replies(msgs) /\ announced' = announced \union found
    BY <1>7, <2>2, <2>3 DEF NodeMempool
  <2>5. found \in SUBSET Tx /\ announced' \subseteq Tx
    BY <1>1, <2>2, <2>4
  <2>6. Said(mined, msgs, 0)
    BY <1>1, <1>2, <2>3, <2>5, MessagesSaid
  <2>7. Said(mined, msgs, IF "mempool" = "ping" THEN 1 ELSE 0)
    BY <2>6
  <2> QED BY <1>1, <2>1, <2>4, <2>5, <2>7, NodeStep
<1>8. ASSUME NodePing PROVE IInv'
  <2>1. NodeReads("ping") /\ NodeOnly /\ UNCHANGED announced /\ Replies(<<[type |-> "pong"]>>)
    BY <1>8 DEF NodePing
  <2>2. Said(mined, <<[type |-> "pong"]>>, IF "ping" = "ping" THEN 1 ELSE 0)
    BY <1>1, MessagesSaid
  <2> QED BY <1>1, <2>1, <2>2, NodeStep
<1> QED BY <1>4, <1>5, <1>6, <1>7, <1>8 DEF NodeNext

\* So does what happens to the node: a block is mined.
LEMMA MineKeeps == ASSUME IInv, Mine PROVE IInv'
<1>1. NodeTypes /\ WalletTypes /\ OrphanTypes /\ Coverage /\ Complete /\ Answered /\ Closed
  BY DEF IInv
<1>2. /\ UNCHANGED <<toNode, connected, ctx, pongs, bloomFilter, lastBlock, estimatedHeight, orphans,
                     lastOrphan, syncing, relayed, height, addrs, losses, rebuilds, announced, filter>>
      /\ mined < Len(Chain) /\ mined' = mined + 1 /\ pool' \subseteq pool
      /\ IF connected THEN Replies(<<BlockInv(<<mined + 1>>)>>) ELSE UNCHANGED fromNode
  BY DEF Mine, manager, wallet, bounds
<1>3. mined \in Nat /\ mined + 1 \in 0 .. Len(Chain) /\ Len(Chain) \in Nat
  BY <1>1, <1>2, FilterAssumption DEF NodeTypes
<1>4. /\ Heard(mined) \subseteq Heard(mined + 1) /\ Asked(mined) \subseteq Asked(mined + 1)
      /\ Blocks(mined) \subseteq Blocks(mined + 1) /\ Seq(1 .. mined) \subseteq Seq(1 .. mined + 1)
  BY <1>3, Higher
<1>5. /\ fromNode' \in Seq(Heard(mined + 1)) /\ Complete'
      /\ Marks(fromNode') = Marks(fromNode) /\ Marks(fromNode) \in Nat
  <2>1. PICK msgs : msgs = IF connected THEN <<BlockInv(<<mined + 1>>)>> ELSE <<>>
    OBVIOUS
  <2>2. Replies(msgs)
    <3>1. fromNode \o <<>> = fromNode
      BY <1>1 DEF NodeTypes
    <3> QED BY <1>2, <2>1, <3>1 DEF Replies
  <2>3. Said(mined + 1, msgs, 0)
    <3>1. <<mined + 1>> \in Seq(1 .. mined + 1) /\ mined + 1 \in Nat
      BY <1>3
    <3> QED BY <2>1, <3>1, MessagesSaid, Silent
  <2>4. mined + 1 \in Nat
    BY <1>3
  <2>5. /\ fromNode' \in Seq(Heard(mined + 1)) /\ Complete'
        /\ Marks(fromNode') = Marks(fromNode) + 0 /\ Marks(fromNode) \in Nat
    BY <1>1, <1>2, <1>4, <2>2, <2>3, <2>4, RepliesKeep
  <2> QED BY <2>5
<1>6. toNode' \in Seq(Asked(mined + 1))
  BY <1>1, <1>2, <1>4 DEF NodeTypes
<1>7. NodeTypes'
  BY <1>1, <1>2, <1>3, <1>5, <1>6 DEF NodeTypes
<1>8. WalletTypes'
  <2>1. lastBlock \in 0 .. mined + 1 /\ estimatedHeight \in 0 .. mined + 1
    BY <1>1, <1>3 DEF WalletTypes
  <2>2. ctx.known \in Seq(1 .. mined + 1) /\ ctx.current \in Blocks(mined + 1) \union {None}
        /\ relayed \in Blocks(mined + 1) \union {None}
    BY <1>1, <1>4 DEF WalletTypes
  <2> QED BY <1>1, <1>2, <2>1, <2>2 DEF WalletTypes
<1>9. OrphanTypes'
  BY <1>1, <1>2, <1>3 DEF OrphanTypes
<1>10. Coverage'
  BY <1>1, <1>2 DEF Coverage
<1>11. Answered'
  BY <1>1, <1>2, <1>5 DEF Answered
<1>12. Closed'
  BY <1>1, <1>2 DEF Closed
<1> QED BY <1>5, <1>7, <1>8, <1>9, <1>10, <1>11, <1>12 DEF IInv

\* And a transaction is broadcast.
LEMMA BroadcastKeeps == ASSUME IInv, NEW t \in Unmined, Broadcast(t) PROVE IInv'
<1>1. NodeTypes /\ WalletTypes /\ OrphanTypes /\ Coverage /\ Complete /\ Answered /\ Closed
  BY DEF IInv
<1>2. /\ UNCHANGED <<mined, toNode, connected, ctx, pongs, bloomFilter, lastBlock, estimatedHeight, orphans,
                     lastOrphan, syncing, relayed, height, addrs, losses, rebuilds>>
      /\ pool' = pool \union {t}
      /\ IF filter # None /\ Matches(filter, t)
         THEN Replies(<<TxInv({t})>>) /\ announced' = announced \union {t}
         ELSE UNCHANGED <<fromNode, announced, filter>>
  BY DEF Broadcast, manager, wallet, bounds
<1>3. mined \in Nat /\ t \in Tx
  BY <1>1, FilterAssumption DEF NodeTypes
<1>4. /\ fromNode' \in Seq(Heard(mined)) /\ Complete'
      /\ Marks(fromNode') = Marks(fromNode) /\ Marks(fromNode) \in Nat
  <2>1. PICK msgs : msgs = IF filter # None /\ Matches(filter, t) THEN <<TxInv({t})>> ELSE <<>>
    OBVIOUS
  <2>2. Replies(msgs)
    <3>1. fromNode \o <<>> = fromNode
      BY <1>1 DEF NodeTypes
    <3> QED BY <1>2, <2>1, <3>1 DEF Replies
  <2>3. Said(mined, msgs, 0)
    <3>1. {t} \in SUBSET Tx
      BY <1>3
    <3> QED BY <1>3, <2>1, <3>1, MessagesSaid, Silent
  <2>4. /\ fromNode' \in Seq(Heard(mined)) /\ Complete'
        /\ Marks(fromNode') = Marks(fromNode) + 0 /\ Marks(fromNode) \in Nat
    BY <1>1, <1>2, <1>3, <2>2, <2>3, RepliesKeep
  <2> QED BY <2>4
<1>5. NodeTypes'
  BY <1>1, <1>2, <1>3, <1>4 DEF NodeTypes
<1>6. WalletTypes'
  BY <1>1, <1>2 DEF WalletTypes
<1>7. OrphanTypes'
  BY <1>1, <1>2 DEF OrphanTypes
<1>8. Coverage'
  BY <1>1, <1>2 DEF Coverage
<1>9. Answered'
  BY <1>1, <1>2, <1>4 DEF Answered
<1>10. Closed'
  <2>1. CASE filter = None
    BY <1>1, <1>2, <2>1 DEF Closed
  <2>2. CASE filter # None
    BY <1>1, <1>2, <2>2 DEF Closed
  <2> QED BY <2>1, <2>2
<1> QED BY <1>4, <1>5, <1>6, <1>7, <1>8, <1>9, <1>10 DEF IInv

-----------------------------------------------------------------------------
(* Messages that the wallet reads. *)

\* The transactions that are left come next, so a message that is none comes when none is left.
LEMMA ReadByWallet ==
  ASSUME IInv, NEW type, Reads(type)
  PROVE  /\ relayed = None /\ fromNode # <<>> /\ Head(fromNode) \in Heard(mined) /\ Head(fromNode).type = type
         /\ fromNode' \in Seq(Heard(mined)) /\ Ordered(fromNode') /\ mined \in Nat /\ connected
         /\ Marks(fromNode') \in Nat /\ Marks(fromNode) = Marks(fromNode') + IF type = "pong" THEN 1 ELSE 0
         /\ type # "tx" => ctx.left = {} /\ ctx.current = None
         /\ type = "tx" => Follow(fromNode', 0, ctx.left \ {Head(fromNode).tx})
         /\ type = "merkleblock" => Follow(fromNode', 0, Head(fromNode).txs)
         /\ Follow(fromNode', 0, {})
<1>1. /\ NodeTypes /\ WalletTypes /\ Complete /\ Closed
  BY DEF IInv
<1>2. /\ fromNode \in Seq(Heard(mined)) /\ fromNode # <<>> /\ Head(fromNode).type = type /\ fromNode' = Tail(fromNode)
      /\ mined \in Nat /\ relayed = None
  BY <1>1, FilterAssumption DEF NodeTypes, Reads
<1>3. PICK q, m, r : q = fromNode /\ m = Head(q) /\ r = Tail(q)
  OBVIOUS
<1>4. m \in Heard(mined) /\ r \in Seq(Heard(mined)) /\ q = <<m>> \o r /\ m = q[1] /\ Len(q) \in Nat /\ Len(q) >= 1
  BY <1>2, <1>3, Cut
<1>5. <<m>> \in Seq(Heard(mined))
  BY <1>4
<1>6. Marks(<<m>> \o r) = Marks(<<m>>) + Marks(r) /\ Marks(r) \in Nat
  BY <1>4, <1>5, MarksJoin
<1>7. Marks(<<m>>) = IF m.type \in Mark THEN 1 ELSE 0
  BY MarksOne
<1>8. m.type \in Mark <=> m.type = "pong"
  BY <1>2, <1>4, HeardFacts
<1>9. Marks(q) = Marks(r) + IF type = "pong" THEN 1 ELSE 0
  <2>1. m.type = type
    BY <1>2, <1>3
  <2> QED BY <1>4, <1>6, <1>7, <1>8, <2>1
<1>10. q = fromNode /\ r = fromNode' /\ m = Head(fromNode) /\ m.type = type
  BY <1>2, <1>3
<1>11. Ordered(q) /\ Follow(q, 0, ctx.left) /\ (ctx.current = None <=> ctx.left = {}) /\ ctx.left \in SUBSET Tx
  BY <1>1, <1>3 DEF Complete, WalletTypes, Contexts
<1>12. q # <<>> /\ q \in Seq(Heard(mined))
  BY <1>2, <1>3
<1>13. Ordered(r)
  BY <1>2, <1>3, <1>11, <1>12, OrderedTail
<1>14. type # "tx" => ctx.left = {} /\ ctx.current = None
  BY <1>4, <1>10, <1>11, <1>12, FollowNext
<1>15. /\ \A T \in SUBSET Tx : Follow(r, 0, T) <=> Follow(q, 0 + 1, T)
       /\ \A T \in SUBSET Tx : Follow(q, 0, T) /\ q[1].type = "tx" => Follow(r, 0, T \ {q[1].tx})
  BY <1>3, <1>12, FollowTail
<1>16. type = "tx" => Follow(r, 0, ctx.left \ {m.tx})
  BY <1>4, <1>10, <1>11, <1>15
<1>17. type = "merkleblock" => Follow(r, 0, m.txs)
  <2> SUFFICES ASSUME m.type = "merkleblock" PROVE Follow(r, 0, m.txs)
    BY <1>10
  <2>1. 1 \in 1 .. Len(q) /\ q[1].type = "merkleblock"
    BY <1>4
  <2>2. Follow(q, 1, q[1].txs)
    BY <1>11, <2>1 DEF Ordered
  <2>3. m.txs \in SUBSET Tx
    BY <1>2, <1>4, HeardFacts
  <2>4. Follow(q, 0 + 1, m.txs)
    BY <1>4, <2>2
  <2> QED BY <1>15, <2>3, <2>4
<1>18. Follow(r, 0, {})
  <2>1. Len(r) \in Nat
    BY <1>4
  <2>2. 0 \in 0 .. Len(r)
    BY <2>1
  <2> QED BY <1>4, <2>2, FollowNone
<1>19. connected
  BY <1>1, <1>2 DEF Closed
<1> QED BY <1>2, <1>4, <1>6, <1>9, <1>10, <1>13, <1>14, <1>16, <1>17, <1>18, <1>19

\* What is sent is on its way.
LEMMA SendFacts ==
  ASSUME NodeTypes, NEW msgs, NEW k \in Nat, Sent(mined, msgs, k), Sends(msgs)
  PROVE  toNode' \in Seq(Asked(mined)) /\ Marks(toNode) \in Nat /\ Marks(toNode') = Marks(toNode) + k
<1>1. PICK q : q = toNode /\ toNode' = q \o msgs
  BY DEF Sends
<1>2. q \in Seq(Asked(mined)) /\ msgs \in Seq(Asked(mined)) /\ Marks(msgs) = k
  BY <1>1 DEF NodeTypes, Sent
<1>3. Marks(q \o msgs) = Marks(q) + Marks(msgs) /\ Marks(q) \in Nat
  BY <1>2, MarksJoin
<1>4. q \o msgs \in Seq(Asked(mined))
  BY <1>2
<1> QED BY <1>1, <1>2, <1>3, <1>4

\* A message is read and others are sent.
LEMMA Exchange ==
  ASSUME IInv, NEW type, Reads(type), NEW msgs, NEW k \in Nat, Sent(mined, msgs, k), Sends(msgs),
         UNCHANGED <<node, filter, connected>>, pongs' \in Seq(Calls),
         Len(pongs') + (IF type = "pong" THEN 1 ELSE 0) = Len(pongs) + k
  PROVE  NodeTypes' /\ Answered' /\ Closed' /\ pongs' \in Seq(Calls)
<1>1. NodeTypes /\ Answered /\ mined' = mined /\ pool' = pool /\ announced' = announced /\ connected' = connected
  BY DEF IInv, node
<1>2. /\ fromNode' \in Seq(Heard(mined)) /\ connected /\ mined \in Nat
      /\ Marks(fromNode') \in Nat /\ Marks(fromNode) = Marks(fromNode') + IF type = "pong" THEN 1 ELSE 0
  BY ReadByWallet
<1>3. toNode' \in Seq(Asked(mined)) /\ Marks(toNode) \in Nat /\ Marks(toNode') = Marks(toNode) + k
  BY <1>1, SendFacts
<1>4. NodeTypes'
  BY <1>1, <1>2, <1>3 DEF NodeTypes
<1>5. Len(pongs') \in Nat /\ Len(pongs) \in Nat
  BY DEF IInv, WalletTypes
<1>6. Answered'
  BY <1>1, <1>2, <1>3, <1>5 DEF Answered
<1>7. Closed'
  BY <1>1, <1>2 DEF Closed
<1> QED BY <1>4, <1>6, <1>7

\* The context keeps its shape; only what a block waits for matters to the invariant.
LEMMA ContextFacts ==
  ASSUME WalletTypes
  PROVE  /\ ctx \in Contexts /\ ctx.known \in Seq(1 .. mined) /\ ctx.current \in Blocks(mined) \union {None}
         /\ ctx.lastblock \in Nat /\ ctx.lastBlockHash \in Nat \union {None} /\ ctx.known \in Seq(Nat)
         /\ ctx.knownTx \in SUBSET Tx /\ ctx.needsUpdate \in BOOLEAN /\ ctx.left \in SUBSET Tx
         /\ ctx.sentMempool \in BOOLEAN /\ ctx.mempoolCallback \in BOOLEAN /\ ctx.timer \in BOOLEAN
         /\ ctx.current \in [height : Nat, txs : SUBSET Tx] \union {None}
BY DEF WalletTypes, Contexts

\* None is not a block.
LEMMA BlockFacts ==
  ASSUME NEW n \in Nat, NEW b \in Blocks(n)
  PROVE  /\ b.height \in 1 .. n /\ b.txs \in SUBSET Tx /\ b.txs \subseteq ToSet(Chain[b.height]) /\ b # None
         /\ b \in [height : Nat, txs : SUBSET Tx]
<1>1. b \in [height : 1 .. n, txs : SUBSET Tx] /\ b.txs \subseteq ToSet(Chain[b.height])
  BY DEF Blocks
<1>2. b \in [height : Int, txs : SUBSET Tx] /\ b \in [height : Nat, txs : SUBSET Tx]
  BY <1>1
<1>3. None \notin [height : Int, txs : SUBSET Tx]
  BY FilterAssumption
<1> QED BY <1>1, <1>2, <1>3

\* An inv is read.
LEMMA InvKeeps == ASSUME IInv, AcceptInv PROVE IInv'
<1>1. NodeTypes /\ WalletTypes /\ OrphanTypes /\ Coverage /\ Complete /\ Answered /\ Closed
  BY DEF IInv
<1>2. /\ Reads("inv") /\ UNCHANGED <<node, filter, connected, bloomFilter, lastBlock, estimatedHeight, orphans,
                                     lastOrphan, syncing, relayed, height, addrs>>
  BY DEF AcceptInv, NodeUnchanged, manager, wallet
<1>3. /\ Head(fromNode) \in Heard(mined) /\ Head(fromNode).type = "inv" /\ mined \in Nat
      /\ ctx.left = {} /\ ctx.current = None /\ fromNode' \in Seq(Heard(mined)) /\ Ordered(fromNode') /\ Follow(fromNode', 0, {})
  BY <1>2, ReadByWallet
<1>4. mined' = mined
  BY <1>2 DEF node
<1>5. PICK m, blocks, wanted, answered :
        /\ m = Head(fromNode)
        /\ blocks = IF Len(m.blocks) = 1 /\ m.blocks[1] = ctx.lastBlockHash THEN <<>> ELSE m.blocks
        /\ wanted = IF ctx.needsUpdate THEN <<>> ELSE blocks
        /\ answered = IF m.txs # {} /\ ctx.mempoolCallback THEN <<"mempoolDone">> ELSE <<>>
  OBVIOUS
<1>6. /\ ctx' = [ctx EXCEPT !.lastBlockHash = IF Len(blocks) = 1 THEN blocks[1] ELSE @,
                            !.known = @ \o blocks, !.knownTx = @ \union m.txs,
                            !.mempoolCallback = @ /\ m.txs = {}]
      /\ Sends(GetData(m.txs \ ctx.knownTx, wanted)
               \o (IF Len(wanted) >= MaxInv THEN GetBlocks(wanted[Len(wanted)]) ELSE <<>>)
               \o PingMessages(answered))
      /\ pongs' = pongs \o answered
  BY <1>5 DEF AcceptInv, Pings
<1>7. m.txs \in SUBSET Tx /\ m.blocks \in Seq(1 .. mined)
  BY <1>3, <1>5, HeardFacts
<1>8. blocks \in Seq(1 .. mined) /\ wanted \in Seq(1 .. mined)
  <2>1. PICK S : S = 1 .. mined
    OBVIOUS
  <2>2. m.blocks \in Seq(S) /\ <<>> \in Seq(S)
    BY <1>7, <2>1
  <2>3. (blocks = <<>> \/ blocks = m.blocks) /\ (wanted = <<>> \/ wanted = blocks)
    BY <1>5, Zenon
  <2> QED BY <2>1, <2>2, <2>3, Zenon
<1>9. answered \in Seq(Calls) /\ Len(answered) \in Nat /\ Sent(mined, PingMessages(answered), Len(answered))
  <2>1. "mempoolDone" \in Calls
    BY DEF Calls
  <2>2. answered = <<>> \/ \E c \in Calls : answered = <<c>>
    BY <1>5, <2>1
  <2> QED BY <1>3, <2>2, PingsSent
<1>10. PICK a, b, c : /\ a = GetData(m.txs \ ctx.knownTx, wanted)
                      /\ b = IF Len(wanted) >= MaxInv THEN GetBlocks(wanted[Len(wanted)]) ELSE <<>>
                      /\ c = PingMessages(answered)
  OBVIOUS
<1>11. Sent(mined, a, 0)
  BY <1>3, <1>7, <1>8, <1>10, MessagesSent
<1>12. Sent(mined, b, 0)
  <2>1. CASE Len(wanted) >= MaxInv
    <3>1. Len(wanted) \in Nat /\ Len(wanted) >= 1
      BY <1>8, <2>1, FilterAssumption
    <3>2. wanted[Len(wanted)] \in 1 .. mined
      <4>1. Len(wanted) \in DOMAIN wanted
        BY <1>8, <3>1
      <4> QED BY <1>8, <4>1, Elements
    <3>3. wanted[Len(wanted)] \in Nat
      BY <3>2
    <3> QED BY <1>3, <1>10, <2>1, <3>3, MessagesSent
  <2>2. CASE ~(Len(wanted) >= MaxInv)
    BY <1>3, <1>10, <2>2, Silent
  <2> QED BY <2>1, <2>2
<1>13. Sent(mined, a \o b, 0 + 0)
  BY <1>3, <1>11, <1>12, SentJoin
<1>14. Sent(mined, (a \o b) \o c, 0 + Len(answered))
  BY <1>3, <1>9, <1>10, <1>13, SentJoin
<1>15. Sends((a \o b) \o c)
  BY <1>6, <1>10
<1>16. pongs' \in Seq(Calls) /\ Len(pongs') = Len(pongs) + Len(answered)
  <2>1. pongs \in Seq(Calls)
    BY <1>1 DEF WalletTypes
  <2>2. pongs' \in Seq(Calls)
    BY <1>6, <1>9, <2>1
  <2>3. Len(pongs \o answered) = Len(pongs) + Len(answered)
    BY <1>9, <2>1, Join
  <2> QED BY <1>6, <2>2, <2>3
<1>17. NodeTypes' /\ Answered' /\ Closed'
  <2>1. Len(pongs') + (IF "inv" = "pong" THEN 1 ELSE 0) = Len(pongs) + (0 + Len(answered))
    BY <1>1, <1>9, <1>16 DEF WalletTypes
  <2>2. 0 + Len(answered) \in Nat
    BY <1>9
  <2> QED BY <1>2, <1>14, <1>15, <1>16, <2>1, <2>2, Exchange
<1>18. /\ ctx' \in Contexts /\ ctx'.known = ctx.known \o blocks /\ ctx'.current = ctx.current /\ ctx'.left = ctx.left
  <2>1. /\ ctx \in Contexts /\ ctx.lastBlockHash \in Nat \union {None} /\ ctx.known \in Seq(Nat)
        /\ ctx.knownTx \in SUBSET Tx /\ ctx.mempoolCallback \in BOOLEAN
    BY <1>1, ContextFacts
  <2>2. blocks \in Seq(Nat) /\ (Len(blocks) = 1 => blocks[1] \in Nat)
    <3>1. \A i \in 1 .. Len(blocks) : blocks[i] \in 1 .. mined
      <4>1. \A i \in DOMAIN blocks : blocks[i] \in 1 .. mined
        BY <1>8, Elements
      <4> QED BY <1>8, <4>1
    <3>2. \A i \in 1 .. Len(blocks) : blocks[i] \in Nat
      BY <1>3, <3>1
    <3>3. blocks \in Seq(Nat) /\ Len(blocks) \in Nat
      BY <1>8, <3>2
    <3> QED BY <3>2, <3>3
  <2>3. PICK l, k, T, d : /\ l = (IF Len(blocks) = 1 THEN blocks[1] ELSE ctx.lastBlockHash)
                          /\ k = ctx.known \o blocks /\ T = ctx.knownTx \union m.txs
                          /\ d = (ctx.mempoolCallback /\ m.txs = {})
    OBVIOUS
  <2>4. l \in Nat \union {None} /\ k \in Seq(Nat) /\ T \in SUBSET Tx
    BY <1>7, <2>1, <2>2, <2>3
  <2>5. d \in BOOLEAN
    BY <2>3
  <2>6. ctx' = [ctx EXCEPT !.lastBlockHash = l, !.known = k, !.knownTx = T, !.mempoolCallback = d]
    BY <1>6, <2>3
  <2> QED BY <2>1, <2>3, <2>4, <2>5, <2>6 DEF Contexts
<1>19. WalletTypes'
  <2>1. ctx'.known \in Seq(1 .. mined)
    <3>1. ctx.known \in Seq(1 .. mined)
      BY <1>1, ContextFacts
    <3> QED BY <1>8, <1>18, <3>1
  <2> QED BY <1>1, <1>2, <1>4, <1>16, <1>18, <2>1 DEF WalletTypes
<1>20. OrphanTypes'
  BY <1>1, <1>2, <1>4 DEF OrphanTypes
<1>21. Coverage'
  BY <1>1, <1>2 DEF Coverage
<1>22. Complete'
  BY <1>3, <1>18 DEF Complete
<1> QED BY <1>17, <1>19, <1>20, <1>21, <1>22 DEF IInv

\* A block is read: it is relayed, or waits for the transactions that come next.
LEMMA MerkleblockKeeps == ASSUME IInv, AcceptMerkleblock PROVE IInv'
<1>1. NodeTypes /\ WalletTypes /\ OrphanTypes /\ Coverage /\ Complete /\ Answered /\ Closed
  BY DEF IInv
<1>2. /\ Reads("merkleblock") /\ UNCHANGED <<node, filter, connected, bloomFilter, lastBlock, estimatedHeight, orphans,
                                             lastOrphan, syncing, toNode, pongs, height, addrs>>
  BY DEF AcceptMerkleblock, NodeUnchanged, manager, wallet
<1>3. /\ Head(fromNode) \in Heard(mined) /\ Head(fromNode).type = "merkleblock" /\ mined \in Nat
      /\ ctx.left = {} /\ ctx.current = None /\ fromNode' \in Seq(Heard(mined)) /\ Ordered(fromNode')
      /\ Follow(fromNode', 0, {}) /\ Follow(fromNode', 0, Head(fromNode).txs) /\ relayed = None
  BY <1>2, ReadByWallet
<1>4. mined' = mined
  BY <1>2 DEF node
<1>5. PICK m, block, left :
        /\ m = Head(fromNode) /\ block = [height |-> m.height, txs |-> m.txs] /\ left = m.txs \ ctx.knownTx
  OBVIOUS
<1>6. IF left # {} THEN ctx' = [ctx EXCEPT !.current = block, !.left = left] /\ UNCHANGED relayed
                   ELSE relayed' = block /\ UNCHANGED ctx
  BY <1>5 DEF AcceptMerkleblock
<1>7. m.txs \in SUBSET Tx /\ m.height \in 1 .. mined /\ m.txs \subseteq ToSet(Chain[m.height])
  BY <1>3, <1>5, HeardFacts
<1>8. block \in Blocks(mined) /\ block.txs = m.txs
  BY <1>5, <1>7 DEF Blocks
<1>9. block # None /\ block \in [height : Nat, txs : SUBSET Tx]
  BY <1>3, <1>8, BlockFacts
<1>10. NodeTypes' /\ Answered' /\ Closed'
  <2>1. Sent(mined, <<>>, 0)
    BY <1>3, Silent
  <2>2. toNode \o <<>> = toNode
    BY <1>1 DEF NodeTypes
  <2>3. Sends(<<>>)
    BY <1>2, <2>2 DEF Sends
  <2>4. pongs' \in Seq(Calls) /\ Len(pongs') + (IF "merkleblock" = "pong" THEN 1 ELSE 0) = Len(pongs) + 0
    BY <1>1, <1>2 DEF WalletTypes
  <2> QED BY <1>2, <2>1, <2>3, <2>4, Exchange
<1>11. /\ ctx' \in Contexts /\ ctx'.known = ctx.known /\ ctx'.current \in {None, block}
       /\ relayed' \in {None, block} /\ ctx'.left \in SUBSET Tx
       /\ ctx'.current = None <=> ctx'.left = {}
       /\ ctx'.left \subseteq m.txs /\ (ctx'.current # None => ctx'.current = block)
  <2>1. ctx \in Contexts
    BY <1>1, ContextFacts
  <2>2. CASE left = {}
    BY <1>3, <1>6, <2>1, <2>2
  <2>3. CASE left # {}
    <3>1. ctx' = [ctx EXCEPT !.current = block, !.left = left] /\ relayed' = None /\ left \in SUBSET Tx
      BY <1>3, <1>5, <1>6, <1>7, <2>3
    <3>2. ctx' \in Contexts /\ ctx'.known = ctx.known /\ ctx'.current = block /\ ctx'.left = left
      BY <1>9, <2>1, <3>1 DEF Contexts
    <3> QED BY <1>5, <1>9, <2>3, <3>1, <3>2
  <2> QED BY <2>2, <2>3
<1>12. WalletTypes'
  <2>1. ctx'.known \in Seq(1 .. mined)
    BY <1>1, <1>11, ContextFacts
  <2>2. ctx'.current \in Blocks(mined) \union {None} /\ relayed' \in Blocks(mined) \union {None}
    BY <1>8, <1>11
  <2> QED BY <1>1, <1>2, <1>4, <1>11, <2>1, <2>2 DEF WalletTypes
<1>13. OrphanTypes'
  BY <1>1, <1>2, <1>4 DEF OrphanTypes
<1>14. Coverage'
  BY <1>1, <1>2 DEF Coverage
<1>15. Complete'
  <2>1. Follow(fromNode', 0, ctx'.left)
    <3>1. ctx'.left \subseteq Head(fromNode).txs
      BY <1>5, <1>11
    <3> QED BY <1>3, <3>1 DEF Follow
  <2>2. ctx'.current # None => ctx'.left \subseteq ctx'.current.txs
    BY <1>8, <1>11
  <2> QED BY <1>3, <1>11, <2>1, <2>2 DEF Complete
<1> QED BY <1>10, <1>12, <1>13, <1>14, <1>15 DEF IInv

\* A transaction is read: the gap is there again, or the filter is dropped.
LEMMA TxKeeps == ASSUME IInv, AcceptTx PROVE IInv'
<1>1. NodeTypes /\ WalletTypes /\ OrphanTypes /\ Coverage /\ Complete /\ Answered /\ Closed
  BY DEF IInv
<1>2. /\ Reads("tx") /\ UNCHANGED <<node, filter, connected, lastBlock, estimatedHeight, orphans, lastOrphan, syncing>>
  BY DEF AcceptTx, NodeUnchanged
<1>3. /\ Head(fromNode) \in Heard(mined) /\ Head(fromNode).type = "tx" /\ mined \in Nat
      /\ fromNode' \in Seq(Heard(mined)) /\ Ordered(fromNode') /\ Follow(fromNode', 0, ctx.left \ {Head(fromNode).tx})
  BY <1>2, ReadByWallet
<1>4. mined' = mined
  BY <1>2 DEF node
<1>5. PICK t, registers, new, isWalletTx, newHeight, newAddrs, resets :
        /\ t = Head(fromNode).tx
        /\ registers = (~syncing \/ ContainsTx(t))
        /\ new = (registers /\ height[t] = Absent)
        /\ isWalletTx = (registers /\ (height[t] # Absent \/ ContainsTx(t)))
        /\ newHeight = IF ~new THEN height ELSE [height EXCEPT ![t] = IF ContainsTx(t) THEN Unconfirmed ELSE Foreign]
        /\ newAddrs = IF isWalletTx THEN UnusedAddrs(newHeight, addrs, Gap) ELSE addrs
        /\ resets = (isWalletTx /\ bloomFilter # None /\ ~Covered(newHeight, newAddrs))
  OBVIOUS
<1>6. PICK updates, left, complete :
        /\ updates = IF resets /\ UpdateNeeded(ctx) THEN <<"updateFilterPingDone">> ELSE <<>>
        /\ left = ctx.left \ {t}
        /\ complete = (ctx.current # None /\ left = {})
  OBVIOUS
<1>7. /\ height' = newHeight /\ addrs' = newAddrs
      /\ bloomFilter' = IF resets THEN None ELSE bloomFilter
      /\ Sends(PingMessages(updates)) /\ pongs' = pongs \o updates
      /\ relayed' = IF complete THEN ctx.current ELSE None
      /\ ctx' = [ctx EXCEPT !.needsUpdate = @ \/ resets, !.left = left,
                            !.current = IF complete THEN None ELSE @,
                            !.timer = syncing /\ (@ \/ isWalletTx)]
  BY <1>5, <1>6 DEF AcceptTx, Pings
<1>8. t \in Tx
  BY <1>3, <1>5, HeardFacts
<1>9. updates \in Seq(Calls) /\ Len(updates) \in Nat /\ Sent(mined, PingMessages(updates), Len(updates))
  <2>1. "updateFilterPingDone" \in Calls
    BY DEF Calls, UpdateCalls
  <2>2. updates = <<>> \/ \E c \in Calls : updates = <<c>>
    BY <1>6, <2>1
  <2> QED BY <1>3, <2>2, PingsSent
<1>10. pongs' \in Seq(Calls) /\ Len(pongs') = Len(pongs) + Len(updates)
  <2>1. pongs \in Seq(Calls)
    BY <1>1 DEF WalletTypes
  <2>2. pongs' \in Seq(Calls)
    BY <1>7, <1>9, <2>1
  <2>3. Len(pongs \o updates) = Len(pongs) + Len(updates)
    BY <1>9, <2>1, Join
  <2> QED BY <1>7, <2>2, <2>3
<1>11. NodeTypes' /\ Answered' /\ Closed'
  <2>1. Len(pongs') + (IF "tx" = "pong" THEN 1 ELSE 0) = Len(pongs) + Len(updates)
    BY <1>1, <1>9, <1>10 DEF WalletTypes
  <2> QED BY <1>2, <1>7, <1>9, <1>10, <2>1, Exchange
<1>12. /\ ctx \in Contexts /\ ctx.current \in Blocks(mined) \union {None} /\ ctx.left \in SUBSET Tx
       /\ ctx.needsUpdate \in BOOLEAN /\ ctx.timer \in BOOLEAN /\ ctx.known \in Seq(1 .. mined)
       /\ ctx.current \in [height : Nat, txs : SUBSET Tx] \union {None}
  BY <1>1, ContextFacts
<1>13. PICK u, current, timer : /\ u = (ctx.needsUpdate \/ resets) /\ current = (IF complete THEN None ELSE ctx.current)
                                /\ timer = (syncing /\ (ctx.timer \/ isWalletTx))
  OBVIOUS
<1>14. /\ ctx' \in Contexts /\ ctx'.known = ctx.known /\ ctx'.current = current /\ ctx'.left = left
  <2>1. ctx' = [ctx EXCEPT !.needsUpdate = u, !.left = left, !.current = current, !.timer = timer]
    BY <1>7, <1>13
  <2>2. u \in BOOLEAN /\ timer \in BOOLEAN
    <3>1. resets \in BOOLEAN /\ isWalletTx \in BOOLEAN /\ syncing \in BOOLEAN
      BY <1>1, <1>5 DEF WalletTypes
    <3> QED BY <1>12, <1>13, <3>1
  <2>3. current \in [height : Nat, txs : SUBSET Tx] \union {None} /\ left \in SUBSET Tx
    BY <1>6, <1>12, <1>13
  <2> QED BY <1>12, <2>1, <2>2, <2>3 DEF Contexts
<1>15. current \in Blocks(mined) \union {None} /\ relayed' \in Blocks(mined) \union {None}
  BY <1>7, <1>12, <1>13
<1>16. WalletTypes'
  BY <1>1, <1>2, <1>4, <1>10, <1>12, <1>14, <1>15 DEF WalletTypes
<1>17. OrphanTypes'
  BY <1>1, <1>2, <1>4 DEF OrphanTypes
<1>18. Complete'
  <2>1. current = None <=> left = {}
    BY <1>1, <1>6, <1>13 DEF Complete
  <2>2. current # None => left \subseteq current.txs
    BY <1>1, <1>6, <1>13 DEF Complete
  <2>3. Follow(fromNode', 0, left)
    BY <1>3, <1>5, <1>6
  <2> QED BY <1>3, <1>14, <2>1, <2>2, <2>3 DEF Complete
<1>19. /\ height \in Heights /\ addrs \in Nat /\ bloomFilter \in Nat \union {None} /\ Gap \in Nat
       /\ FirstUnused(height, addrs) + Gap <= addrs
       /\ bloomFilter # None => FirstUnused(height, addrs) + Gap <= bloomFilter /\ bloomFilter <= addrs
  BY <1>1, FilterAssumption DEF Coverage
<1>20. newHeight \in Heights
  BY <1>5, <1>8, <1>19 DEF Heights, Unconfirmed, Foreign
<1>21. Coverage'
  <2>1. ASSUME isWalletTx PROVE Coverage'
    <3>1. newAddrs = UnusedAddrs(newHeight, addrs, Gap)
      BY <1>5, <2>1
    <3>2. newAddrs \in Nat /\ addrs <= newAddrs /\ FirstUnused(newHeight, newAddrs) + Gap <= newAddrs
      BY <1>19, <1>20, <3>1, UnusedFacts
    <3>3. CASE resets
      BY <1>7, <1>20, <3>2, <3>3 DEF Coverage
    <3>4. CASE ~resets
      <4>1. bloomFilter' = bloomFilter
        BY <1>7, <3>4
      <4>2. bloomFilter # None => FirstUnused(newHeight, newAddrs) + Gap <= bloomFilter
        BY <1>5, <2>1, <3>4 DEF Covered
      <4>3. bloomFilter # None => bloomFilter <= newAddrs
        BY <1>19, <3>2
      <4> QED BY <1>7, <1>19, <1>20, <3>2, <4>1, <4>2, <4>3 DEF Coverage
    <3> QED BY <3>3, <3>4
  <2>2. ASSUME ~isWalletTx PROVE Coverage'
    <3>1. newAddrs = addrs /\ bloomFilter' = bloomFilter
      BY <1>5, <1>7, <2>2
    <3>2. ASSUME new PROVE height[t] = Absent /\ newHeight = [height EXCEPT ![t] = Foreign]
      BY <1>5, <2>2, <3>2
    <3>3. Registered(newHeight) = Registered(height)
      <4>1. CASE ~new
        BY <1>5, <4>1
      <4>2. CASE new
        BY <1>8, <1>19, <3>2, <4>2 DEF Registered, Heights
      <4> QED BY <4>1, <4>2
    <3>4. FirstUnused(newHeight, addrs) = FirstUnused(height, addrs)
      BY <3>3 DEF FirstUnused, Used
    <3> QED BY <1>7, <1>19, <1>20, <3>1, <3>4 DEF Coverage
  <2> QED BY <2>1, <2>2
<1> QED BY <1>11, <1>16, <1>17, <1>18, <1>21 DEF IInv

-----------------------------------------------------------------------------
(* What a pong completes. *)

\* A filter as it is loaded.
LEMMA FilterLoadSent ==
  ASSUME NEW n \in Nat, NEW a \in Nat
  PROVE  Sent(n, FilterLoad(a), 0) /\ [addrs |-> a, outs |-> Watched(a)] \in Filters
<1>1. PICK W : W = Watched(a)
  OBVIOUS
<1>2. W \subseteq Registered(height) /\ \A t \in W : Pays[t] # {}
  BY <1>1 DEF Watched
<1>3. W \subseteq Payments
  BY <1>2 DEF Registered, Payments
<1>4. [addrs |-> a, outs |-> W] \in Filters
  BY <1>3 DEF Filters
<1>5. Sent(n, <<[type |-> "filterload", filter |-> [addrs |-> a, outs |-> W]]>>, 0)
  BY <1>4, MessagesSent
<1> QED BY <1>1, <1>4, <1>5 DEF FilterLoad

\* The addresses of a new filter.
LEMMA NewFilterFacts ==
  ASSUME Coverage, NEW n, n = UnusedAddrs(height, addrs, Gap + Spare)
  PROVE  n \in Nat /\ addrs <= n /\ FirstUnused(height, n) + Gap <= n
<1>1. height \in Heights /\ addrs \in Nat /\ Gap \in Nat /\ Spare \in Nat /\ Gap + Spare \in Nat
  BY FilterAssumption DEF Coverage
<1>2. n \in Nat /\ addrs <= n /\ FirstUnused(height, n) + (Gap + Spare) <= n
  BY <1>1, UnusedFacts
<1>3. FirstUnused(height, n) \in Nat
  BY <1>1, <1>2, FirstUnusedFacts
<1> QED BY <1>1, <1>2, <1>3

\* With a new filter no orphans are left.
LEMMA NewFilterKeeps ==
  ASSUME Coverage, NewFilter, height' = height, mined' \in Nat
  PROVE  Coverage' /\ OrphanTypes' /\ FilterAddrs \in Nat
<1>1. PICK n : n = FilterAddrs
  OBVIOUS
<1>2. n \in Nat /\ FirstUnused(height, n) + Gap <= n
  BY <1>1, NewFilterFacts DEF FilterAddrs
<1>3. addrs' = n /\ bloomFilter' = n /\ orphans' = [h \in 1..Len(Chain) |-> None]
  BY <1>1 DEF NewFilter, NoOrphans
<1>4. Coverage'
  BY <1>2, <1>3 DEF Coverage
<1>5. OrphanTypes'
  <2>1. orphans' \in [1 .. Len(Chain) -> (SUBSET Tx) \union {None}]
    BY <1>3
  <2>2. \A h \in 1 .. Len(Chain) : orphans'[h] = None
    BY <1>3
  <2> QED BY <2>1, <2>2 DEF OrphanTypes
<1> QED BY <1>1, <1>2, <1>4, <1>5

\* A completion that changes nothing but this.
LEMMA PongStep ==
  ASSUME IInv, NEW callback, Pong(callback), NEW msgs, NEW k \in Nat, Sent(mined, msgs, k), Sends(msgs),
         pongs' \in Seq(Calls), Len(pongs') + 1 = Len(pongs) + k,
         ctx' \in Contexts, ctx'.known \in Seq(1 .. mined), ctx'.current = ctx.current, ctx'.left = ctx.left,
         syncing' \in BOOLEAN, Coverage', OrphanTypes'
  PROVE  IInv'
<1>1. NodeTypes /\ WalletTypes /\ Complete
  BY DEF IInv
<1>2. Reads("pong") /\ UNCHANGED <<node, filter, connected, relayed, height, losses, rebuilds, lastBlock, estimatedHeight>>
  BY DEF Pong, NodeUnchanged, bounds
<1>3. /\ ctx.left = {} /\ ctx.current = None /\ fromNode' \in Seq(Heard(mined)) /\ Ordered(fromNode') /\ Follow(fromNode', 0, {})
      /\ mined \in Nat
  BY <1>2, ReadByWallet
<1>4. mined' = mined
  BY <1>2 DEF node
<1>5. NodeTypes' /\ Answered' /\ Closed'
  <2>1. Len(pongs') + (IF "pong" = "pong" THEN 1 ELSE 0) = Len(pongs) + k
    OBVIOUS
  <2> QED BY <1>2, <2>1, Exchange
<1>6. WalletTypes'
  BY <1>1, <1>2, <1>3, <1>4 DEF WalletTypes
<1>7. Complete'
  BY <1>3 DEF Complete
<1> QED BY <1>5, <1>6, <1>7 DEF IInv

\* The first completion is taken, and one may be added.
LEMMA PongsTaken ==
  ASSUME WalletTypes, pongs # <<>>
  PROVE  /\ Tail(pongs) \in Seq(Calls) /\ Len(Tail(pongs)) + 1 = Len(pongs) + 0
         /\ \A c \in Calls : Tail(pongs) \o <<c>> \in Seq(Calls) /\ Len(Tail(pongs) \o <<c>>) + 1 = Len(pongs) + 1
<1>1. pongs \in Seq(Calls)
  BY DEF WalletTypes
<1>2. PICK r : r = Tail(pongs)
  OBVIOUS
<1>3. r \in Seq(Calls) /\ Len(r) \in Nat /\ Len(r) + 1 = Len(pongs) + 0 /\ Len(pongs) \in Nat
  BY <1>1, <1>2, Cut
<1>4. ASSUME NEW c \in Calls PROVE r \o <<c>> \in Seq(Calls) /\ Len(r \o <<c>>) + 1 = Len(pongs) + 1
  <2>1. <<c>> \in Seq(Calls) /\ Len(<<c>>) = 1
    OBVIOUS
  <2>2. Len(r \o <<c>>) = Len(r) + Len(<<c>>) /\ r \o <<c>> \in Seq(Calls)
    BY <1>3, <2>1, Join
  <2> QED BY <1>3, <2>1, <2>2
<1> QED BY <1>2, <1>3, <1>4

\* Where the hashes are requested again from.
LEMMA RerequestFacts ==
  ASSUME WalletTypes, mined \in Nat, NEW i, i = RerequestFrom(ctx)
  PROVE  i \in Nat /\ (i > 0 => i \in 1 .. Len(ctx.known) /\ SubSeq(ctx.known, i, Len(ctx.known)) \in Seq(1 .. mined))
<1>1. ctx.known \in Seq(1 .. mined)
  BY DEF WalletTypes
<1>2. PICK q : q = ctx.known
  OBVIOUS
<1>3. q \in Seq(1 .. mined) /\ Len(q) \in Nat /\ DOMAIN q = 1 .. Len(q)
  BY <1>1, <1>2
<1> DEFINE S == {0} \union {j \in DOMAIN q : q[j] = lastBlock}
<1>4. S \subseteq 0 .. Len(q) /\ S # {}
  BY <1>3
<1>5. IsFiniteSet(S)
  <2>1. IsFiniteSet(0 .. Len(q))
    BY <1>3, FS_Interval
  <2> QED BY <1>4, <2>1, FS_Subset
<1>6. i = Max(S)
  BY <1>2 DEF RerequestFrom
<1> HIDE DEF S
<1>7. S \in SUBSET Int
  BY <1>3, <1>4
<1>8. i \in 0 .. Len(q)
  BY <1>4, <1>5, <1>6, <1>7, MaxFacts
<1>9. ASSUME i > 0 PROVE i \in 1 .. Len(q) /\ SubSeq(q, i, Len(q)) \in Seq(1 .. mined)
  <2>1. i \in 1 .. Len(q)
    BY <1>3, <1>8, <1>9
  <2>2. PICK T : T = 1 .. mined
    OBVIOUS
  <2>3. q \in Seq(T)
    BY <1>3, <2>2
  <2>4. SubSeq(q, i, Len(q)) \in Seq(T)
    BY <1>3, <2>1, <2>3, SubSeqProperties
  <2> QED BY <2>1, <2>2, <2>4
<1> QED BY <1>2, <1>3, <1>8, <1>9

\* Of the completions each sends what it sends and keeps the rest.
LEMMA CompletionKeeps ==
  ASSUME IInv, UpdateFilterPingDone \/ UpdateFilterLoadDone \/ UpdateFilterRerequestDone
               \/ LoadBloomFilterDone \/ MempoolDone
  PROVE  IInv'
<1>1. NodeTypes /\ WalletTypes /\ OrphanTypes /\ Coverage /\ Complete /\ Answered /\ Closed
  BY DEF IInv
<1>2. mined \in Nat
  BY <1>1, FilterAssumption DEF NodeTypes
<1>3. /\ ctx \in Contexts /\ ctx.known \in Seq(1 .. mined) /\ ctx.known \in Seq(Nat) /\ ctx.mempoolCallback \in BOOLEAN
      /\ ctx.sentMempool \in BOOLEAN /\ ctx.needsUpdate \in BOOLEAN /\ ctx.timer \in BOOLEAN
      /\ syncing \in BOOLEAN /\ lastBlock \in Nat /\ ctx.current \in Blocks(mined) \union {None}
      /\ ctx.left \in SUBSET Tx
  BY <1>1, <1>2, ContextFacts DEF WalletTypes
<1>4. \A callback : Pong(callback) => pongs # <<>> /\ UNCHANGED <<mined, height>>
  BY DEF Pong, NodeUnchanged, node
<1>5. pongs # <<>> => /\ Tail(pongs) \in Seq(Calls) /\ Len(Tail(pongs)) + 1 = Len(pongs) + 0
                      /\ \A c \in Calls : Tail(pongs) \o <<c>> \in Seq(Calls) /\ Len(Tail(pongs) \o <<c>>) + 1 = Len(pongs) + 1
  BY <1>1, PongsTaken
<1>6. Sent(mined, <<>>, 0) /\ Sent(mined, Ping, 1) /\ (\A c : Sent(mined, Mempool(c), 0)) /\ Sent(mined, GetBlocks(lastBlock), 0)
  BY <1>2, <1>3, MessagesSent, Silent
<1>7. /\ "updateFilterLoadDone" \in Calls /\ "updateFilterRerequestDone" \in Calls
  BY DEF Calls, UpdateCalls
<1>8. ASSUME UNCHANGED <<addrs, bloomFilter, orphans>>, mined' = mined, height' = height
      PROVE  Coverage' /\ OrphanTypes'
  BY <1>1, <1>8 DEF Coverage, OrphanTypes
<1>9. ASSUME UpdateFilterPingDone PROVE IInv'
  <2>1. Pong("updateFilterPingDone") /\ NewFilter /\ UNCHANGED syncing
    BY <1>9 DEF UpdateFilterPingDone
  <2>2. Sends(FilterLoad(FilterAddrs) \o Ping)
    BY <1>9 DEF UpdateFilterPingDone
  <2>3. ctx' = [ctx EXCEPT !.sentMempool = FALSE] /\ pongs' = Tail(pongs) \o <<"updateFilterLoadDone">>
    BY <1>9 DEF UpdateFilterPingDone
  <2>4. Coverage' /\ OrphanTypes' /\ FilterAddrs \in Nat
    BY <1>1, <1>2, <1>4, <2>1, NewFilterKeeps
  <2>5. Sent(mined, FilterLoad(FilterAddrs), 0)
    BY <1>2, <2>4, FilterLoadSent
  <2>6. Sent(mined, FilterLoad(FilterAddrs) \o Ping, 0 + 1)
    BY <1>2, <1>6, <2>5, SentJoin
  <2>7. Sent(mined, FilterLoad(FilterAddrs) \o Ping, 1)
    BY <2>6
  <2>8. pongs' \in Seq(Calls) /\ Len(pongs') + 1 = Len(pongs) + 1
    BY <1>4, <1>5, <1>7, <2>1, <2>3
  <2>9. ctx' \in Contexts /\ ctx'.known = ctx.known /\ ctx'.current = ctx.current /\ ctx'.left = ctx.left
    BY <1>3, <2>3 DEF Contexts
  <2>10. ctx'.known \in Seq(1 .. mined) /\ syncing' \in BOOLEAN
    BY <1>3, <2>1, <2>9
  <2>11. 1 \in Nat
    OBVIOUS
  <2> QED BY <2>1, <2>2, <2>4, <2>7, <2>8, <2>9, <2>10, <2>11, PongStep
<1>10. ASSUME UpdateFilterLoadDone PROVE IInv'
  <2>1. Pong("updateFilterLoadDone") /\ UNCHANGED <<addrs, bloomFilter, orphans, lastOrphan, syncing>>
    BY <1>10 DEF UpdateFilterLoadDone
  <2>2. PICK i, known, updated : /\ i = RerequestFrom(ctx)
                                 /\ known = IF i > 0 THEN SubSeq(ctx.known, i, Len(ctx.known)) ELSE ctx.known
                                 /\ updated = [ctx EXCEPT !.needsUpdate = FALSE]
    OBVIOUS
  <2>3. PICK asks : asks = IF i > 0 THEN GetData({}, known) ELSE <<>>
    OBVIOUS
  <2>4. IF lastBlock < estimatedHeight
        THEN /\ ctx' = [updated EXCEPT !.known = known]
             /\ Sends(asks \o Ping)
             /\ pongs' = Tail(pongs) \o <<"updateFilterRerequestDone">>
        ELSE /\ ctx' = SentMempool(updated, FALSE) /\ Sends(Mempool(ctx)) /\ pongs' = Tail(pongs)
    BY <1>10, <2>2, <2>3 DEF UpdateFilterLoadDone
  <2>5. known \in Seq(1 .. mined)
    <3>1. i > 0 => SubSeq(ctx.known, i, Len(ctx.known)) \in Seq(1 .. mined)
      BY <1>1, <1>2, <2>2, RerequestFacts
    <3>2. PICK S : S = Seq(1 .. mined)
      OBVIOUS
    <3>3. ctx.known \in S /\ (i > 0 => SubSeq(ctx.known, i, Len(ctx.known)) \in S)
      BY <1>3, <3>1, <3>2
    <3>4. known \in S
      BY <2>2, <3>3, Zenon
    <3> QED BY <3>2, <3>4
  <2>6. Sent(mined, asks, 0)
    <3>1. {} \in SUBSET Tx
      OBVIOUS
    <3>2. Sent(mined, GetData({}, known), 0)
      BY <1>2, <2>5, <3>1, MessagesSent
    <3> QED BY <1>6, <2>3, <3>2
  <2>7. Coverage' /\ OrphanTypes'
    BY <1>4, <1>8, <2>1
  <2>8. updated \in Contexts /\ updated.known = ctx.known /\ updated.current = ctx.current /\ updated.left = ctx.left
        /\ updated.mempoolCallback = ctx.mempoolCallback /\ updated.sentMempool = ctx.sentMempool
    BY <1>3, <2>2 DEF Contexts
  <2>9. syncing' \in BOOLEAN /\ 0 \in Nat /\ 1 \in Nat
    BY <1>3, <2>1
  <2>10. CASE lastBlock < estimatedHeight
    <3>1. /\ ctx' = [updated EXCEPT !.known = known]
          /\ Sends(asks \o Ping)
          /\ pongs' = Tail(pongs) \o <<"updateFilterRerequestDone">>
      BY <2>4, <2>10
    <3>2. known \in Seq(Nat)
      <4>1. Seq(1 .. mined) \subseteq Seq(Nat)
        <5>1. 1 .. mined \subseteq Nat
          BY <1>2
        <5>2. \A S, T : S \subseteq T => Seq(S) \subseteq Seq(T)
          OBVIOUS
        <5> QED BY <5>1, <5>2
      <4> QED BY <2>5, <4>1
    <3>3. ctx' \in Contexts /\ ctx'.known = known /\ ctx'.current = ctx.current /\ ctx'.left = ctx.left
      BY <2>8, <3>1, <3>2 DEF Contexts
    <3>4. ctx'.known \in Seq(1 .. mined)
      BY <2>5, <3>3
    <3>5. Sent(mined, asks \o Ping, 0 + 1)
      BY <1>2, <1>6, <2>6, SentJoin
    <3>6. Sent(mined, asks \o Ping, 1)
      BY <3>5
    <3>7. pongs' \in Seq(Calls) /\ Len(pongs') + 1 = Len(pongs) + 1
      BY <1>4, <1>5, <1>7, <2>1, <3>1
    <3> QED BY <2>1, <2>7, <2>9, <3>1, <3>3, <3>4, <3>6, <3>7, PongStep
  <2>11. CASE ~(lastBlock < estimatedHeight)
    <3>1. ctx' = SentMempool(updated, FALSE) /\ Sends(Mempool(ctx)) /\ pongs' = Tail(pongs)
      BY <2>4, <2>11
    <3>2. ctx' \in Contexts /\ ctx'.known = ctx.known /\ ctx'.current = ctx.current /\ ctx'.left = ctx.left
      BY <1>3, <2>8, <3>1 DEF Contexts, SentMempool
    <3>3. ctx'.known \in Seq(1 .. mined)
      BY <1>3, <3>2
    <3>4. Sent(mined, Mempool(ctx), 0)
      BY <1>6
    <3>5. pongs' \in Seq(Calls) /\ Len(pongs') + 1 = Len(pongs) + 0
      BY <1>4, <1>5, <2>1, <3>1
    <3> QED BY <2>1, <2>7, <2>9, <3>1, <3>2, <3>3, <3>4, <3>5, PongStep
  <2> QED BY <2>10, <2>11
<1>11. ASSUME UpdateFilterRerequestDone PROVE IInv'
  <2>1. /\ Pong("updateFilterRerequestDone") /\ pongs' = Tail(pongs)
        /\ UNCHANGED <<addrs, bloomFilter, orphans, lastOrphan, syncing, ctx>>
    BY <1>11 DEF UpdateFilterRerequestDone
  <2>2. PICK msgs : msgs = IF ctx.needsUpdate THEN <<>> ELSE GetBlocks(lastBlock)
    OBVIOUS
  <2>3. Sends(msgs)
    BY <1>11, <2>2 DEF UpdateFilterRerequestDone
  <2>4. Sent(mined, msgs, 0)
    BY <1>6, <2>2
  <2>5. Coverage' /\ OrphanTypes'
    BY <1>4, <1>8, <2>1
  <2>6. pongs' \in Seq(Calls) /\ Len(pongs') + 1 = Len(pongs) + 0
    BY <1>4, <1>5, <2>1
  <2>7. /\ ctx' \in Contexts /\ ctx'.known \in Seq(1 .. mined) /\ ctx'.current = ctx.current /\ ctx'.left = ctx.left
        /\ syncing' \in BOOLEAN /\ 0 \in Nat
    BY <1>3, <2>1
  <2> QED BY <2>1, <2>3, <2>4, <2>5, <2>6, <2>7, PongStep
<1>12. ASSUME LoadBloomFilterDone PROVE IInv'
  <2>1. /\ Pong("loadBloomFilterDone") /\ pongs' = Tail(pongs) /\ Sends(Mempool(ctx)) /\ ctx' = SentMempool(ctx, TRUE)
        /\ UNCHANGED <<addrs, bloomFilter, orphans, lastOrphan, syncing>>
    BY <1>12 DEF LoadBloomFilterDone
  <2>2. Sent(mined, Mempool(ctx), 0)
    BY <1>6
  <2>3. Coverage' /\ OrphanTypes'
    BY <1>4, <1>8, <2>1
  <2>4. pongs' \in Seq(Calls) /\ Len(pongs') + 1 = Len(pongs) + 0
    BY <1>4, <1>5, <2>1
  <2>5. ctx' \in Contexts /\ ctx'.known = ctx.known /\ ctx'.current = ctx.current /\ ctx'.left = ctx.left
    BY <1>3, <2>1 DEF Contexts, SentMempool
  <2>6. ctx'.known \in Seq(1 .. mined) /\ syncing' \in BOOLEAN /\ 0 \in Nat
    BY <1>3, <2>1, <2>5
  <2> QED BY <2>1, <2>2, <2>3, <2>4, <2>5, <2>6, PongStep
<1>13. ASSUME MempoolDone PROVE IInv'
  <2>1. /\ Pong("mempoolDone") /\ pongs' = Tail(pongs) /\ syncing' = FALSE
        /\ ctx' = [ctx EXCEPT !.timer = @ /\ ~syncing]
        /\ UNCHANGED <<addrs, bloomFilter, orphans, lastOrphan, toNode>>
    BY <1>13 DEF MempoolDone
  <2>2. Sends(<<>>)
    <3>1. toNode \o <<>> = toNode
      BY <1>1 DEF NodeTypes
    <3> QED BY <2>1, <3>1 DEF Sends
  <2>3. Coverage' /\ OrphanTypes'
    BY <1>4, <1>8, <2>1
  <2>4. pongs' \in Seq(Calls) /\ Len(pongs') + 1 = Len(pongs) + 0
    BY <1>4, <1>5, <2>1
  <2>5. ctx' \in Contexts /\ ctx'.known = ctx.known /\ ctx'.current = ctx.current /\ ctx'.left = ctx.left
    <3>1. PICK b : b = (ctx.timer /\ ~syncing)
      OBVIOUS
    <3>2. b \in BOOLEAN
      BY <3>1
    <3>3. ctx' = [ctx EXCEPT !.timer = b]
      BY <2>1, <3>1
    <3> QED BY <1>3, <3>2, <3>3 DEF Contexts
  <2>6. ctx'.known \in Seq(1 .. mined) /\ syncing' \in BOOLEAN /\ 0 \in Nat
    BY <1>3, <2>1, <2>5
  <2> QED BY <1>6, <2>1, <2>2, <2>3, <2>4, <2>5, <2>6, PongStep
<1> QED BY <1>9, <1>10, <1>11, <1>12, <1>13

-----------------------------------------------------------------------------
(* Steps without a message. *)

\* A step in which nothing is read, and messages may be sent.
LEMMA QuietStep ==
  ASSUME IInv, connected, UNCHANGED <<node, filter, fromNode, connected>>,
         NEW msgs, NEW k \in Nat, Sent(mined, msgs, k), Sends(msgs),
         pongs' \in Seq(Calls), Len(pongs') = Len(pongs) + k,
         ctx' \in Contexts, ctx'.known = ctx.known, ctx'.current = ctx.current, ctx'.left = ctx.left,
         syncing' = syncing, lastBlock' \in 0 .. mined, estimatedHeight' \in 0 .. mined,
         relayed' \in Blocks(mined) \union {None}, Coverage', OrphanTypes'
  PROVE  IInv'
<1>1. NodeTypes /\ WalletTypes /\ Complete /\ Answered
  BY DEF IInv
<1>2. UNCHANGED <<mined, pool, announced, filter, fromNode, connected>>
  BY DEF node
<1>3. toNode' \in Seq(Asked(mined)) /\ Marks(toNode) \in Nat /\ Marks(toNode') = Marks(toNode) + k
  BY <1>1, SendFacts
<1>4. NodeTypes'
  BY <1>1, <1>2, <1>3 DEF NodeTypes
<1>5. WalletTypes'
  BY <1>1, <1>2 DEF WalletTypes
<1>6. Complete'
  BY <1>1, <1>2 DEF Complete
<1>7. Answered'
  <2>1. Marks(fromNode) \in Nat
    <3>1. PICK q : q = fromNode
      OBVIOUS
    <3>2. q \in Seq(Heard(mined)) /\ <<>> \in Seq(Heard(mined))
      BY <1>1, <3>1 DEF NodeTypes
    <3> QED BY <3>1, <3>2, MarksJoin
  <2>2. Len(pongs) \in Nat
    BY <1>1 DEF WalletTypes
  <2> QED BY <1>1, <1>2, <1>3, <2>1, <2>2 DEF Answered
<1>8. Closed'
  BY <1>2 DEF Closed
<1> QED BY <1>4, <1>5, <1>6, <1>7, <1>8 DEF IInv

\* A mempool request is not answered in time.
LEMMA MempoolTimeoutKeeps == ASSUME IInv, MempoolTimeout PROVE IInv'
<1>1. NodeTypes /\ WalletTypes /\ OrphanTypes /\ Coverage /\ Complete /\ Answered /\ Closed
  BY DEF IInv
<1>2. /\ Quiet /\ ctx.mempoolCallback /\ ctx' = [ctx EXCEPT !.mempoolCallback = FALSE]
      /\ Sends(Ping) /\ pongs' = pongs \o <<"mempoolDone">>
      /\ UNCHANGED <<node, filter, fromNode, connected, bloomFilter, lastBlock, estimatedHeight, orphans, lastOrphan,
                     syncing, relayed, height, addrs>>
  BY DEF MempoolTimeout, Pings, NodeUnchanged, manager, wallet
<1>3. ctx \in Contexts /\ ctx.known \in Seq(1 .. mined) /\ mined \in Nat
  BY <1>1, ContextFacts, FilterAssumption DEF NodeTypes
<1>4. ctx' \in Contexts /\ ctx'.known = ctx.known /\ ctx'.current = ctx.current /\ ctx'.left = ctx.left
  BY <1>2, <1>3 DEF Contexts
<1>5. Sent(mined, Ping, 1)
  BY <1>3, MessagesSent
<1>6. pongs' \in Seq(Calls) /\ Len(pongs') = Len(pongs) + 1
  <2>1. pongs \in Seq(Calls) /\ <<"mempoolDone">> \in Seq(Calls) /\ Len(<<"mempoolDone">>) = 1
    BY <1>1 DEF WalletTypes, Calls
  <2>2. PICK a, b : a = pongs /\ b = <<"mempoolDone">>
    OBVIOUS
  <2>3. a \o b \in Seq(Calls) /\ Len(a \o b) = Len(a) + Len(b)
    BY <2>1, <2>2, Join
  <2> QED BY <1>2, <2>1, <2>2, <2>3
<1>7. Coverage' /\ OrphanTypes'
  BY <1>1, <1>2 DEF Coverage, OrphanTypes, node
<1>8. connected
  <2>1. CASE ctx = NewContext(0)
    <3>1. ctx.mempoolCallback = FALSE
      BY <2>1 DEF NewContext
    <3> QED BY <1>2, <3>1
  <2> QED BY <1>1, <2>1 DEF Closed
<1> QED
  <2>1. /\ lastBlock' \in 0 .. mined /\ estimatedHeight' \in 0 .. mined
        /\ relayed' \in Blocks(mined) \union {None} /\ syncing' = syncing /\ 1 \in Nat
    BY <1>1, <1>2 DEF WalletTypes
  <2> QED BY <1>2, <1>4, <1>5, <1>6, <1>7, <1>8, <2>1, QuietStep

-----------------------------------------------------------------------------
(* A block is relayed. *)

\* What a block may change of the context.
Kept(c) == /\ c \in Contexts /\ c.known = ctx.known /\ c.current = ctx.current /\ c.left = ctx.left
           /\ c.lastblock = ctx.lastblock

\* It stays one that is kept.
LEMMA KeptFacts ==
  ASSUME NEW c, Kept(c)
  PROVE  /\ \A b \in BOOLEAN : Kept([c EXCEPT !.timer = b]) /\ Kept([c EXCEPT !.needsUpdate = b])
         /\ Kept([c EXCEPT !.sentMempool = FALSE])
         /\ \A b \in BOOLEAN : Kept(SentMempool(c, b))
         /\ c.timer \in BOOLEAN /\ c.needsUpdate \in BOOLEAN
<1>1. c \in Contexts
  BY DEF Kept
<1>2. c.timer \in BOOLEAN /\ c.needsUpdate \in BOOLEAN /\ c.mempoolCallback \in BOOLEAN /\ c.sentMempool \in BOOLEAN
  BY <1>1 DEF Contexts
<1>3. ASSUME NEW b \in BOOLEAN PROVE Kept([c EXCEPT !.timer = b]) /\ Kept([c EXCEPT !.needsUpdate = b])
  <2>1. Kept([c EXCEPT !.timer = b])
    BY <1>1 DEF Kept, Contexts
  <2>2. Kept([c EXCEPT !.needsUpdate = b])
    BY <1>1 DEF Kept, Contexts
  <2> QED BY <2>1, <2>2
<1>4. Kept([c EXCEPT !.sentMempool = FALSE])
  BY <1>1 DEF Kept, Contexts
<1>5. ASSUME NEW b \in BOOLEAN PROVE Kept(SentMempool(c, b))
  <2>1. PICK d : d = (c.mempoolCallback \/ (b /\ ~c.sentMempool))
    OBVIOUS
  <2>2. d \in BOOLEAN
    BY <2>1
  <2>3. SentMempool(c, b) = [c EXCEPT !.sentMempool = TRUE, !.mempoolCallback = d]
    BY <2>1 DEF SentMempool
  <2>4. Kept([c EXCEPT !.sentMempool = TRUE, !.mempoolCallback = d])
    BY <1>1, <2>2 DEF Kept, Contexts
  <2> QED BY <2>3, <2>4
<1> QED BY <1>2, <1>3, <1>4, <1>5

\* What is relayed next is a block, and what is left of the orphans is as it was.
LEMMA FollowsFacts ==
  ASSUME OrphanTypes, mined \in Nat, mined' = mined, NEW h \in Nat, Follows(h)
  PROVE  relayed' \in Blocks(mined) \union {None} /\ OrphanTypes'
<1>1. CASE h < Len(Chain) /\ orphans[h + 1] # None
  <2>1. relayed' = [height |-> h + 1, txs |-> orphans[h + 1]] /\ orphans' = [orphans EXCEPT ![h + 1] = None]
    BY <1>1 DEF Follows
  <2>2. h + 1 \in 1 .. Len(Chain)
    BY <1>1, FilterAssumption
  <2>3. orphans[h + 1] \in SUBSET Tx /\ h + 1 <= mined /\ orphans[h + 1] \subseteq ToSet(Chain[h + 1])
    BY <1>1, <2>2 DEF OrphanTypes
  <2>4. PICK l, T : l = h + 1 /\ T = orphans[h + 1]
    OBVIOUS
  <2>5. l \in 1 .. mined /\ T \in SUBSET Tx /\ T \subseteq ToSet(Chain[l])
    BY <2>3, <2>4
  <2>6. [height |-> l, txs |-> T] \in Blocks(mined)
    BY <2>5 DEF Blocks
  <2>7. OrphanTypes'
    <3>1. orphans' \in [1 .. Len(Chain) -> (SUBSET Tx) \union {None}]
      BY <2>1, <2>2 DEF OrphanTypes
    <3>2. ASSUME NEW i \in 1 .. Len(Chain), orphans'[i] # None PROVE i <= mined' /\ orphans'[i] \subseteq ToSet(Chain[i])
      BY <2>1, <2>2, <3>2 DEF OrphanTypes
    <3> QED BY <3>1, <3>2 DEF OrphanTypes
  <2> QED BY <2>1, <2>4, <2>6, <2>7
<1>2. CASE ~(h < Len(Chain) /\ orphans[h + 1] # None)
  <2>1. relayed' = None /\ orphans' = orphans
    BY <1>2 DEF Follows
  <2> QED BY <2>1 DEF OrphanTypes
<1> QED BY <1>1, <1>2

\* Confirming takes nothing from the gap.
LEMMA ConfirmedCovers ==
  ASSUME Coverage, mined \in Nat, NEW b \in Blocks(mined), NEW g, g = Confirmed(b.txs, b.height)
  PROVE  g \in Heights /\ \A n : FirstUnused(g, n) = FirstUnused(height, n)
<1>1. b.txs \in SUBSET Tx /\ b.height \in Nat
  BY BlockFacts
<1>2. height \in Heights /\ addrs \in Nat
  BY DEF Coverage
<1>3. g \in Heights /\ Registered(g) = Registered(height)
  BY <1>1, <1>2, ConfirmedFacts
<1> QED BY <1>3 DEF FirstUnused, Used

\* Each of the ways a block is taken.
LEMMA RelayedKeeps == ASSUME IInv, RelayedBlock PROVE IInv'
<1>1. NodeTypes /\ WalletTypes /\ OrphanTypes /\ Coverage /\ Complete /\ Answered /\ Closed
  BY DEF IInv
<1> PICK degraded \in BOOLEAN :
      LET callbacks == IF degraded /\ UpdateNeeded(ctx) THEN <<"updateFilterPingDone">> ELSE <<>>
          c == [ctx EXCEPT !.needsUpdate = @ \/ degraded]
      IN \/ IgnoreBlock(c, callbacks)
         \/ IgnoreOrphan(c, callbacks)
         \/ AddOrphan(c, callbacks)
         \/ ExtendChain(c, callbacks)
         \/ ExistingBlock(c, callbacks)
  BY Zenon DEF RelayedBlock
<1> PICK callbacks : callbacks = IF degraded /\ UpdateNeeded(ctx) THEN <<"updateFilterPingDone">> ELSE <<>>
  OBVIOUS
<1> PICK c : c = [ctx EXCEPT !.needsUpdate = @ \/ degraded]
  OBVIOUS
<1>2. /\ degraded \in BOOLEAN
      /\ callbacks = IF degraded /\ UpdateNeeded(ctx) THEN <<"updateFilterPingDone">> ELSE <<>>
      /\ c = [ctx EXCEPT !.needsUpdate = @ \/ degraded]
      /\ \/ IgnoreBlock(c, callbacks)
         \/ IgnoreOrphan(c, callbacks)
         \/ AddOrphan(c, callbacks)
         \/ ExtendChain(c, callbacks)
         \/ ExistingBlock(c, callbacks)
  BY Zenon
<1>3. relayed # None /\ UNCHANGED <<node, filter, fromNode, connected>>
  BY DEF RelayedBlock, NodeUnchanged
<1>4. connected /\ mined' = mined /\ mined \in Nat /\ relayed \in Blocks(mined)
  BY <1>1, <1>3, FilterAssumption DEF Closed, WalletTypes, NodeTypes, node
<1>5. PICK b : b = relayed
  OBVIOUS
<1>6. /\ b \in Blocks(mined) /\ b.height \in 1 .. mined /\ b.txs \in SUBSET Tx /\ b.txs \subseteq ToSet(Chain[b.height])
      /\ mined <= Len(Chain) /\ Len(Chain) \in Nat
  <2>1. mined \in 0 .. Len(Chain)
    BY <1>1 DEF NodeTypes
  <2>2. Len(Chain) \in Nat /\ mined \in Nat /\ b \in Blocks(mined)
    BY <1>4, <1>5, FilterAssumption
  <2>3. b.height \in 1 .. mined /\ b.txs \in SUBSET Tx /\ b.txs \subseteq ToSet(Chain[b.height])
    BY <2>2, BlockFacts, Zenon
  <2>4. mined <= Len(Chain)
    BY <2>1, <2>2
  <2> QED BY <2>2, <2>3, <2>4
<1>7. callbacks \in Seq(Calls) /\ Len(callbacks) \in Nat /\ Sent(mined, PingMessages(callbacks), Len(callbacks))
  <2>1. "updateFilterPingDone" \in Calls
    BY DEF Calls, UpdateCalls
  <2>2. callbacks = <<>> \/ \E x \in Calls : callbacks = <<x>>
    BY <1>2, <2>1
  <2> QED BY <1>4, <2>2, PingsSent
<1>8. Kept(c) /\ Kept(ctx)
  <2>1. ctx \in Contexts
    BY <1>1, ContextFacts
  <2>2. Kept(ctx) /\ ctx.needsUpdate \in BOOLEAN
    BY <2>1 DEF Kept, Contexts
  <2>3. PICK d : d = (ctx.needsUpdate \/ degraded)
    OBVIOUS
  <2>4. d \in BOOLEAN /\ c = [ctx EXCEPT !.needsUpdate = d]
    BY <1>2, <2>3
  <2> QED BY <2>2, <2>4, KeptFacts
<1>9. /\ c.timer \in BOOLEAN /\ \A x \in BOOLEAN : Kept([c EXCEPT !.timer = x]) /\ Kept(SentMempool(c, x))
      /\ Kept([c EXCEPT !.sentMempool = FALSE])
  BY <1>8, KeptFacts
<1>10. /\ pongs \in Seq(Calls) /\ Len(pongs) \in Nat /\ lastBlock \in 0 .. mined /\ estimatedHeight \in 0 .. mined
       /\ syncing \in BOOLEAN
  BY <1>1 DEF WalletTypes
<1>11. pongs \o callbacks \in Seq(Calls) /\ Len(pongs \o callbacks) = Len(pongs) + Len(callbacks)
  BY <1>7, <1>10, Join
<1>12. /\ Sent(mined, <<>>, 0) /\ Sent(mined, Ping, 1) /\ (\A x : Sent(mined, Mempool(x), 0))
       /\ Sent(mined, GetBlocks(lastBlock), 0)
  <2>1. lastBlock \in Nat
    BY <1>10
  <2> QED BY <1>4, <2>1, MessagesSent, Silent
<1>13. ASSUME NEW msgs, Sent(mined, msgs, 0)
       PROVE  Sent(mined, PingMessages(callbacks) \o msgs, Len(callbacks))
  <2>1. Sent(mined, PingMessages(callbacks) \o msgs, Len(callbacks) + 0)
    BY <1>4, <1>7, <1>13, SentJoin
  <2> QED BY <1>7, <2>1
\* with the frame of all of them
<1>14. ASSUME Kept(ctx'), NEW msgs, NEW k \in Nat, Sent(mined, msgs, k), Sends(msgs),
              pongs' \in Seq(Calls), Len(pongs') = Len(pongs) + k, syncing' = syncing,
              lastBlock' \in 0 .. mined, estimatedHeight' \in 0 .. mined,
              relayed' \in Blocks(mined) \union {None}, Coverage', OrphanTypes'
       PROVE  IInv'
  <2>1. ctx' \in Contexts /\ ctx'.known = ctx.known /\ ctx'.current = ctx.current /\ ctx'.left = ctx.left
    BY <1>14 DEF Kept
  <2> QED BY <1>3, <1>4, <1>14, <2>1, QuietStep
<1>15. ASSUME IgnoreBlock(c, callbacks) PROVE IInv'
  <2>1. /\ ctx' = [c EXCEPT !.timer = @ \/ lastBlock < estimatedHeight] /\ relayed' = None
        /\ Sends(PingMessages(callbacks)) /\ pongs' = pongs \o callbacks
        /\ UNCHANGED <<bloomFilter, lastBlock, estimatedHeight, orphans, lastOrphan, syncing, height, addrs>>
    BY <1>15 DEF IgnoreBlock, Pings, manager, wallet
  <2>2. PICK x : x = (c.timer \/ lastBlock < estimatedHeight)
    OBVIOUS
  <2>3. x \in BOOLEAN /\ ctx' = [c EXCEPT !.timer = x]
    BY <2>1, <2>2
  <2>4. Kept(ctx')
    BY <1>9, <2>3
  <2>5. Coverage' /\ OrphanTypes'
    BY <1>1, <1>4, <2>1 DEF Coverage, OrphanTypes
  <2> QED BY <1>7, <1>10, <1>11, <1>14, <2>1, <2>4, <2>5
<1>16. ASSUME IgnoreOrphan(c, callbacks) PROVE IInv'
  <2>1. /\ ctx' = c /\ relayed' = None
        /\ Sends(PingMessages(callbacks)) /\ pongs' = pongs \o callbacks
        /\ UNCHANGED <<bloomFilter, lastBlock, estimatedHeight, orphans, lastOrphan, syncing, height, addrs>>
    BY <1>16 DEF IgnoreOrphan, Pings, manager, wallet
  <2>2. Kept(ctx')
    BY <1>8, <2>1
  <2>3. Coverage' /\ OrphanTypes'
    BY <1>1, <1>4, <2>1 DEF Coverage, OrphanTypes
  <2> QED BY <1>7, <1>10, <1>11, <1>14, <2>1, <2>2, <2>3
<1>17. ASSUME AddOrphan(c, callbacks) PROVE IInv'
  <2>1. PICK asks : asks = IF lastBlock >= c.lastblock /\ lastOrphan # relayed.height - 1
                           THEN GetBlocks(lastBlock) ELSE <<>>
    OBVIOUS
  <2>2. /\ orphans' = [orphans EXCEPT ![b.height] = b.txs] /\ ctx' = c /\ relayed' = None
        /\ Sends(PingMessages(callbacks) \o asks) /\ pongs' = pongs \o callbacks
        /\ UNCHANGED <<bloomFilter, lastBlock, estimatedHeight, syncing, height, addrs>>
    BY <1>5, <1>17, <2>1 DEF AddOrphan, Pings, wallet
  <2>3. Kept(ctx')
    BY <1>8, <2>2
  <2>4. Coverage'
    BY <1>1, <2>2 DEF Coverage
  <2>5. OrphanTypes'
    <3>1. b.height \in 1 .. Len(Chain)
      BY <1>4, <1>6
    <3>2. orphans' \in [1 .. Len(Chain) -> (SUBSET Tx) \union {None}]
      BY <1>1, <1>6, <2>2, <3>1 DEF OrphanTypes
    <3>3. ASSUME NEW i \in 1 .. Len(Chain), orphans'[i] # None PROVE i <= mined' /\ orphans'[i] \subseteq ToSet(Chain[i])
      <4>1. CASE i = b.height
        BY <1>1, <1>4, <1>6, <2>2, <3>1, <4>1 DEF OrphanTypes
      <4>2. CASE i # b.height
        BY <1>1, <1>4, <2>2, <3>3, <4>2 DEF OrphanTypes
      <4> QED BY <4>1, <4>2
    <3> QED BY <3>2, <3>3 DEF OrphanTypes
  <2>6. Sent(mined, asks, 0)
    BY <1>12, <2>1
  <2>7. Sent(mined, PingMessages(callbacks) \o asks, Len(callbacks))
    BY <1>13, <2>6
  <2> QED BY <1>7, <1>10, <1>11, <1>14, <2>2, <2>3, <2>4, <2>5, <2>7
<1>18. PICK g : g = Confirmed(b.txs, b.height)
  OBVIOUS
<1>19. g \in Heights /\ \A n : FirstUnused(g, n) = FirstUnused(height, n)
  BY <1>1, <1>4, <1>6, <1>18, ConfirmedCovers
<1>20. ASSUME height' = g, UNCHANGED <<addrs, bloomFilter>> PROVE Coverage'
  BY <1>1, <1>19, <1>20 DEF Coverage
<1>21. ASSUME Follows(b.height) PROVE relayed' \in Blocks(mined) \union {None} /\ OrphanTypes'
  <2>1. b.height \in Nat
    BY <1>6
  <2> QED BY <1>1, <1>4, <1>21, <2>1, FollowsFacts
<1>22. ASSUME ExistingBlock(c, callbacks) PROVE IInv'
  <2>1. /\ height' = g /\ ctx' = c /\ Follows(b.height)
        /\ Sends(PingMessages(callbacks)) /\ pongs' = pongs \o callbacks
        /\ UNCHANGED <<bloomFilter, lastBlock, estimatedHeight, syncing, addrs>>
    BY <1>5, <1>18, <1>22 DEF ExistingBlock, Pings
  <2>2. Kept(ctx')
    BY <1>8, <2>1
  <2>3. Coverage' /\ relayed' \in Blocks(mined) \union {None} /\ OrphanTypes'
    BY <1>20, <1>21, <2>1
  <2> QED BY <1>7, <1>10, <1>11, <1>14, <2>1, <2>2, <2>3
<1>23. ASSUME ExtendChain(c, callbacks) PROVE IInv'
  <2>1. /\ lastBlock' = b.height /\ height' = g /\ estimatedHeight' = Max({estimatedHeight, b.height}) /\ UNCHANGED syncing
    BY <1>5, <1>18, <1>23 DEF ExtendChain
  <2>2. lastBlock' \in 0 .. mined /\ estimatedHeight' \in 0 .. mined
    <3>1. PICK S : S = {estimatedHeight, b.height}
      OBVIOUS
    <3>2. S \in SUBSET Int /\ S # {} /\ IsFiniteSet(S) /\ \A x \in S : x \in 0 .. mined
      <4>1. S \subseteq 0 .. mined /\ S # {}
        BY <1>4, <1>6, <1>10, <3>1
      <4>2. IsFiniteSet(0 .. mined)
        BY <1>4, FS_Interval
      <4>3. IsFiniteSet(S)
        BY <4>1, <4>2, FS_Subset
      <4> QED BY <1>4, <4>1, <4>3
    <3>3. Max(S) \in S
      BY <3>2, MaxFacts
    <3> QED BY <1>4, <1>6, <2>1, <3>1, <3>2, <3>3
  <2>3. \/ \E degrades \in DegradedAtEnd :
            /\ degrades
            /\ addrs' = UnusedAddrs(height, addrs, Gap + Spare) /\ bloomFilter' = addrs'
            /\ orphans' = NoOrphans /\ relayed' = None
            /\ ctx' = [c EXCEPT !.sentMempool = FALSE]
            /\ Sends(PingMessages(callbacks) \o FilterLoad(addrs') \o Ping)
            /\ pongs' = pongs \o (callbacks \o <<"loadBloomFilterDone">>)
        \/ /\ ctx' = SentMempool(c, TRUE)
           /\ Sends(PingMessages(callbacks) \o Mempool(c)) /\ pongs' = pongs \o callbacks
           /\ Follows(b.height) /\ UNCHANGED <<addrs, bloomFilter>>
        \/ /\ ctx' = [c EXCEPT !.timer = @ \/ b.height < estimatedHeight]
           /\ Sends(PingMessages(callbacks)) /\ pongs' = pongs \o callbacks
           /\ Follows(b.height) /\ UNCHANGED <<addrs, bloomFilter>>
    BY <1>5, <1>23 DEF ExtendChain, Pings
  <2>4. ASSUME /\ addrs' = UnusedAddrs(height, addrs, Gap + Spare) /\ bloomFilter' = addrs'
               /\ orphans' = NoOrphans /\ relayed' = None
               /\ ctx' = [c EXCEPT !.sentMempool = FALSE]
               /\ Sends(PingMessages(callbacks) \o FilterLoad(addrs') \o Ping)
               /\ pongs' = pongs \o (callbacks \o <<"loadBloomFilterDone">>)
        PROVE  IInv'
    <3>1. PICK n : n = UnusedAddrs(height, addrs, Gap + Spare)
      OBVIOUS
    <3>2. n \in Nat /\ addrs <= n /\ FirstUnused(height, n) + Gap <= n
      BY <1>1, <3>1, NewFilterFacts
    <3>3. addrs' = n /\ bloomFilter' = n
      BY <2>4, <3>1
    <3>4. Coverage'
      BY <1>19, <2>1, <3>2, <3>3 DEF Coverage
    <3>5. OrphanTypes'
      <4>1. orphans' = [h \in 1..Len(Chain) |-> None]
        BY <2>4 DEF NoOrphans
      <4>2. orphans' \in [1 .. Len(Chain) -> (SUBSET Tx) \union {None}] /\ \A h \in 1 .. Len(Chain) : orphans'[h] = None
        BY <4>1
      <4> QED BY <4>2 DEF OrphanTypes
    <3>6. Kept(ctx')
      BY <1>9, <2>4
    <3>7. PICK p, f : p = PingMessages(callbacks) /\ f = FilterLoad(n)
      OBVIOUS
    <3>8. Sent(mined, f, 0) /\ Sent(mined, p, Len(callbacks))
      BY <1>4, <1>7, <3>2, <3>7, FilterLoadSent
    <3>9. Sent(mined, p \o f, Len(callbacks) + 0)
      BY <1>4, <1>7, <3>8, SentJoin
    <3>10. Len(callbacks) + 0 \in Nat /\ 1 \in Nat
      BY <1>7
    <3>11. Sent(mined, (p \o f) \o Ping, (Len(callbacks) + 0) + 1)
      BY <1>4, <1>12, <3>9, <3>10, SentJoin
    <3>12. PICK k : k = Len(callbacks) + 1
      OBVIOUS
    <3>13. k \in Nat /\ Sent(mined, (p \o f) \o Ping, k) /\ Sends((p \o f) \o Ping)
      BY <1>7, <2>4, <3>3, <3>7, <3>11, <3>12
    <3>14. pongs' \in Seq(Calls) /\ Len(pongs') = Len(pongs) + k
      <4>1. PICK d : d = <<"loadBloomFilterDone">>
        OBVIOUS
      <4>2. d \in Seq(Calls) /\ Len(d) = 1
        BY <4>1 DEF Calls
      <4>3. callbacks \o d \in Seq(Calls) /\ Len(callbacks \o d) = Len(callbacks) + Len(d)
        BY <1>7, <4>2, Join
      <4>4. PICK e : e = callbacks \o d
        OBVIOUS
      <4>5. pongs \o e \in Seq(Calls) /\ Len(pongs \o e) = Len(pongs) + Len(e)
        BY <1>10, <4>3, <4>4, Join
      <4>6. pongs' = pongs \o e
        BY <2>4, <4>1, <4>4
      <4> QED BY <3>12, <4>2, <4>3, <4>4, <4>5, <4>6
    <3>15. relayed' \in Blocks(mined) \union {None}
      BY <2>4
    <3> QED BY <1>14, <2>1, <2>2, <3>4, <3>5, <3>6, <3>13, <3>14, <3>15
  <2>5. ASSUME /\ ctx' = SentMempool(c, TRUE)
               /\ Sends(PingMessages(callbacks) \o Mempool(c)) /\ pongs' = pongs \o callbacks
               /\ Follows(b.height) /\ UNCHANGED <<addrs, bloomFilter>>
        PROVE  IInv'
    <3>1. Kept(ctx')
      BY <1>9, <2>5
    <3>2. Coverage' /\ relayed' \in Blocks(mined) \union {None} /\ OrphanTypes'
      BY <1>20, <1>21, <2>1, <2>5
    <3>3. Sent(mined, Mempool(c), 0)
      BY <1>12
    <3>4. Sent(mined, PingMessages(callbacks) \o Mempool(c), Len(callbacks))
      BY <1>13, <3>3
    <3> QED BY <1>7, <1>11, <1>14, <2>1, <2>2, <2>5, <3>1, <3>2, <3>4
  <2>6. ASSUME /\ ctx' = [c EXCEPT !.timer = @ \/ b.height < estimatedHeight]
               /\ Sends(PingMessages(callbacks)) /\ pongs' = pongs \o callbacks
               /\ Follows(b.height) /\ UNCHANGED <<addrs, bloomFilter>>
        PROVE  IInv'
    <3>1. PICK x : x = (c.timer \/ b.height < estimatedHeight)
      OBVIOUS
    <3>2. x \in BOOLEAN /\ ctx' = [c EXCEPT !.timer = x]
      BY <2>6, <3>1
    <3>3. Kept(ctx')
      BY <1>9, <3>2
    <3>4. Coverage' /\ relayed' \in Blocks(mined) \union {None} /\ OrphanTypes'
      BY <1>20, <1>21, <2>1, <2>6
    <3> QED BY <1>7, <1>11, <1>14, <2>1, <2>2, <2>6, <3>3, <3>4
  <2> QED BY <2>3, <2>4, <2>5, <2>6
<1> QED BY <1>2, <1>15, <1>16, <1>17, <1>22, <1>23

-----------------------------------------------------------------------------
(* The connection. *)

\* The context of a new connection.
Fresh(c, n) == /\ c \in Contexts /\ c.known = <<>> /\ c.current = None /\ c.left = {} /\ c.lastblock = n
               /\ c.needsUpdate = FALSE /\ c.knownTx = {}

\* It has nothing yet.
LEMMA NewContextFacts ==
  ASSUME NEW n \in Nat
  PROVE  /\ Fresh(NewContext(n), n) /\ Fresh([NewContext(n) EXCEPT !.timer = TRUE], n)
         /\ Fresh(SentMempool(NewContext(n), TRUE), n)
<1>1. PICK c : c = NewContext(n)
  OBVIOUS
<1>2. /\ c = [lastblock |-> n, lastBlockHash |-> None, known |-> <<>>, knownTx |-> {},
              needsUpdate |-> FALSE, current |-> None, left |-> {}, sentMempool |-> FALSE,
              mempoolCallback |-> FALSE, timer |-> FALSE]
  BY <1>1 DEF NewContext
<1>3. <<>> \in Seq(Nat)
  OBVIOUS
<1>4. /\ c \in Contexts /\ c.known = <<>> /\ c.current = None /\ c.left = {} /\ c.lastblock = n
      /\ c.needsUpdate = FALSE /\ c.knownTx = {} /\ ~c.sentMempool /\ ~c.mempoolCallback
  BY <1>2, <1>3 DEF Contexts
<1>5. Fresh([c EXCEPT !.timer = TRUE], n)
  BY <1>4 DEF Contexts, Fresh
<1>6. Fresh(SentMempool(c, TRUE), n)
  <2>1. SentMempool(c, TRUE) = [c EXCEPT !.sentMempool = TRUE, !.mempoolCallback = TRUE]
    BY <1>4 DEF SentMempool
  <2>2. Fresh([c EXCEPT !.sentMempool = TRUE, !.mempoolCallback = TRUE], n)
    BY <1>4 DEF Contexts, Fresh
  <2> QED BY <2>1, <2>2
<1>7. Fresh(c, n)
  BY <1>4 DEF Fresh
<1> QED BY <1>1, <1>5, <1>6, <1>7

\* Without messages nothing has to follow.
LEMMA NothingOnTheWay ==
  /\ \A n \in Nat : <<>> \in Seq(Asked(n)) /\ <<>> \in Seq(Heard(n)) /\ <<>> \in Seq(1 .. n)
  /\ Marks(<<>>) = 0 /\ Ordered(<<>>) /\ Follow(<<>>, 0, {})
<1>1. Marks(<<>>) = 0 /\ Ordered(<<>>)
  <2>1. 0 \in Nat
    OBVIOUS
  <2> QED BY <2>1, Silent DEF Sent, Said
<1>2. Follow(<<>>, 0, {})
  <2>1. <<>> \in Seq({}) /\ Len(<<>>) = 0 /\ 0 \in 0 .. 0
    OBVIOUS
  <2>2. 0 \in 0 .. Len(<<>>)
    BY <2>1
  <2> QED BY <2>1, <2>2, FollowNone
<1> QED BY <1>1, <1>2

\* A connection begins with a new filter.
LEMMA ConnectKeeps == ASSUME IInv, Connect PROVE IInv'
<1>1. NodeTypes /\ WalletTypes /\ OrphanTypes /\ Coverage /\ Complete /\ Answered /\ Closed
  BY DEF IInv
<1>2. /\ ~connected /\ connected' = TRUE /\ syncing' = TRUE /\ estimatedHeight' = mined /\ NewFilter
      /\ UNCHANGED <<node, filter, continue, fromNode, pongs, lastBlock, relayed, height>>
  BY DEF Connect, bounds
<1>3. /\ toNode = <<>> /\ fromNode = <<>> /\ relayed = None /\ pongs = <<>> /\ mined \in Nat /\ mined' = mined
      /\ lastBlock \in 0 .. mined /\ lastBlock \in Nat /\ mined \in 0 .. Len(Chain) /\ pool' \subseteq Tx /\ announced' \subseteq Tx
  BY <1>1, <1>2, FilterAssumption DEF Closed, NodeTypes, WalletTypes, node
<1>4. PICK c : c = NewContext(mined)
  OBVIOUS
<1>5. IF lastBlock < mined
      THEN toNode' = FilterLoad(FilterAddrs) \o GetBlocks(lastBlock) /\ ctx' = [c EXCEPT !.timer = TRUE]
      ELSE toNode' = FilterLoad(FilterAddrs) \o Mempool(c) /\ ctx' = SentMempool(c, TRUE)
  BY <1>4 DEF Connect
<1>6. Coverage' /\ OrphanTypes' /\ FilterAddrs \in Nat
  BY <1>1, <1>2, <1>3, NewFilterKeeps
<1>7. ctx' \in Contexts /\ ctx'.known = <<>> /\ ctx'.current = None /\ ctx'.left = {}
  <2>1. Fresh(ctx', mined)
    BY <1>3, <1>4, <1>5, NewContextFacts
  <2> QED BY <2>1 DEF Fresh
<1>8. toNode' \in Seq(Asked(mined)) /\ Marks(toNode') = 0
  <2>1. Sent(mined, FilterLoad(FilterAddrs), 0)
    BY <1>3, <1>6, FilterLoadSent
  <2>2. PICK msgs : msgs = IF lastBlock < mined THEN GetBlocks(lastBlock) ELSE Mempool(c)
    OBVIOUS
  <2>3. Sent(mined, msgs, 0)
    BY <1>3, <2>2, MessagesSent
  <2>4. Sent(mined, FilterLoad(FilterAddrs) \o msgs, 0 + 0)
    BY <1>3, <2>1, <2>3, SentJoin
  <2>5. toNode' = FilterLoad(FilterAddrs) \o msgs
    BY <1>5, <2>2
  <2> QED BY <2>4, <2>5 DEF Sent
<1>9. fromNode' = <<>> /\ pongs' = <<>> /\ relayed' = None /\ lastBlock' = lastBlock
  BY <1>2, <1>3
<1>10. NodeTypes'
  BY <1>2, <1>3, <1>8, <1>9, NothingOnTheWay DEF NodeTypes
<1>11. WalletTypes'
  <2>1. <<>> \in Seq(Calls)
    OBVIOUS
  <2>2. ctx'.known \in Seq(1 .. mined)
    BY <1>3, <1>7, NothingOnTheWay
  <2>3. mined \in 0 .. mined
    BY <1>3
  <2> QED BY <1>2, <1>3, <1>7, <1>9, <2>1, <2>2, <2>3 DEF WalletTypes
<1>12. Complete'
  BY <1>7, <1>9, NothingOnTheWay DEF Complete
<1>13. Answered'
  <2>1. Len(<<>>) = 0
    OBVIOUS
  <2> QED BY <1>8, <1>9, <2>1, NothingOnTheWay DEF Answered
<1>14. Closed'
  BY <1>2 DEF Closed
<1> QED BY <1>6, <1>10, <1>11, <1>12, <1>13, <1>14 DEF IInv

\* A connection ends with what was on its way.
LEMMA DisconnectedKeeps == ASSUME IInv, Disconnected PROVE IInv'
<1>1. NodeTypes /\ WalletTypes /\ OrphanTypes /\ Coverage
  BY DEF IInv
<1>2. /\ connected' = FALSE /\ toNode' = <<>> /\ fromNode' = <<>> /\ pongs' = <<>> /\ filter' = None
      /\ ctx' = NewContext(0) /\ syncing' \in BOOLEAN /\ relayed' = None
      /\ UNCHANGED <<mined, pool, announced, bloomFilter, lastBlock, estimatedHeight, orphans, lastOrphan, height, addrs>>
  BY DEF Disconnected, node, wallet
<1>3. mined \in Nat
  BY <1>1, FilterAssumption DEF NodeTypes
<1>4. ctx' \in Contexts /\ ctx'.known = <<>> /\ ctx'.current = None /\ ctx'.left = {}
  <2>1. 0 \in Nat
    OBVIOUS
  <2>2. Fresh(NewContext(0), 0)
    BY <2>1, NewContextFacts
  <2> QED BY <1>2, <2>2 DEF Fresh
<1>5. NodeTypes'
  BY <1>1, <1>2, <1>3, NothingOnTheWay DEF NodeTypes
<1>6. WalletTypes'
  <2>1. <<>> \in Seq(Calls)
    OBVIOUS
  <2>2. ctx'.known \in Seq(1 .. mined)
    BY <1>3, <1>4, NothingOnTheWay
  <2> QED BY <1>1, <1>2, <1>4, <2>1, <2>2 DEF WalletTypes
<1>7. OrphanTypes' /\ Coverage'
  BY <1>1, <1>2 DEF OrphanTypes, Coverage
<1>8. Complete'
  BY <1>2, <1>4, NothingOnTheWay DEF Complete
<1>9. Answered'
  <2>1. Len(<<>>) = 0
    OBVIOUS
  <2> QED BY <1>2, <2>1, NothingOnTheWay DEF Answered
<1>10. Closed'
  BY <1>2 DEF Closed
<1> QED BY <1>5, <1>6, <1>7, <1>8, <1>9, <1>10 DEF IInv

-----------------------------------------------------------------------------
(* The specification. *)

\* It holds at first.
LEMMA InitInvariant == Init => IInv
<1> SUFFICES ASSUME Init PROVE IInv
  OBVIOUS
<1>1. /\ mined = FirstMined /\ pool = {} /\ announced = {} /\ filter = None /\ connected = FALSE
      /\ toNode = <<>> /\ fromNode = <<>> /\ ctx = NewContext(0) /\ pongs = <<>>
      /\ bloomFilter = None /\ lastBlock = 0 /\ estimatedHeight = 0 /\ orphans = NoOrphans
      /\ syncing = FALSE /\ relayed = None /\ height = [t \in Tx |-> Absent] /\ addrs = Gap
  BY DEF Init
<1>2. mined \in Nat /\ mined \in 0 .. Len(Chain) /\ Gap \in Nat /\ Len(Chain) \in Nat
  BY <1>1, FilterAssumption
<1>3. ctx \in Contexts /\ ctx.known = <<>> /\ ctx.current = None /\ ctx.left = {}
  <2>1. 0 \in Nat
    OBVIOUS
  <2>2. Fresh(NewContext(0), 0)
    BY <2>1, NewContextFacts
  <2> QED BY <1>1, <2>2 DEF Fresh
<1>4. NodeTypes
  BY <1>1, <1>2, NothingOnTheWay DEF NodeTypes
<1>5. WalletTypes
  <2>1. <<>> \in Seq(Calls)
    OBVIOUS
  <2>2. ctx.known \in Seq(1 .. mined)
    BY <1>2, <1>3, NothingOnTheWay
  <2>3. 0 \in 0 .. mined
    BY <1>2
  <2> QED BY <1>1, <1>3, <2>1, <2>2, <2>3 DEF WalletTypes
<1>6. OrphanTypes
  <2>1. orphans = [h \in 1..Len(Chain) |-> None]
    BY <1>1 DEF NoOrphans
  <2>2. orphans \in [1 .. Len(Chain) -> (SUBSET Tx) \union {None}] /\ \A h \in 1 .. Len(Chain) : orphans[h] = None
    BY <2>1
  <2> QED BY <2>2 DEF OrphanTypes
<1>7. Coverage
  <2>1. height \in Heights
    BY <1>1 DEF Heights, Absent
  <2>2. Registered(height) = {}
    BY <1>1 DEF Registered
  <2>3. Used(height) = {}
    BY <2>2 DEF Used
  <2>4. FirstUnused(height, addrs) \in Nat
        /\ (FirstUnused(height, addrs) = 0 \/ \E u \in Used(height) : u < addrs /\ FirstUnused(height, addrs) = u + 1)
    BY <1>1, <1>2, <2>1, FirstUnusedFacts
  <2>5. FirstUnused(height, addrs) = 0
    BY <2>3, <2>4
  <2> QED BY <1>1, <1>2, <2>1, <2>5 DEF Coverage
<1>8. Complete
  BY <1>1, <1>3, NothingOnTheWay DEF Complete
<1>9. Answered
  <2>1. Len(<<>>) = 0
    OBVIOUS
  <2> QED BY <1>1, <2>1, NothingOnTheWay DEF Answered
<1>10. Closed
  BY <1>1 DEF Closed
<1> QED BY <1>4, <1>5, <1>6, <1>7, <1>8, <1>9, <1>10 DEF IInv

\* Every step keeps it.
LEMMA NextKeeps == IInv /\ [Next]_vars => IInv'
<1> SUFFICES ASSUME IInv, [Next]_vars PROVE IInv'
  OBVIOUS
<1>1. CASE NodeNext
  BY <1>1, NodeKeeps
<1>2. CASE Mine
  BY <1>2, MineKeeps
<1>3. CASE \E t \in Unmined : Broadcast(t)
  BY <1>3, BroadcastKeeps
<1>4. CASE WalletNext
  <2>1. CASE AcceptInv
    BY <2>1, InvKeeps
  <2>2. CASE AcceptMerkleblock
    BY <2>2, MerkleblockKeeps
  <2>3. CASE AcceptTx
    BY <2>3, TxKeeps
  <2>4. CASE RelayedBlock
    BY <2>4, RelayedKeeps
  <2>5. CASE UpdateFilterPingDone \/ UpdateFilterLoadDone \/ UpdateFilterRerequestDone \/ LoadBloomFilterDone \/ MempoolDone
    BY <2>5, CompletionKeeps
  <2>6. CASE MempoolTimeout
    BY <2>6, MempoolTimeoutKeeps
  <2> QED BY <1>4, <2>1, <2>2, <2>3, <2>4, <2>5, <2>6 DEF WalletNext
<1>5. CASE Connect
  BY <1>5, ConnectKeeps
<1>6. CASE Lose \/ Timeout
  <2>1. Disconnected
    BY <1>6 DEF Lose, Timeout
  <2> QED BY <2>1, DisconnectedKeeps
<1>7. CASE UNCHANGED vars
  <2>1. UNCHANGED <<mined, pool, announced, filter, connected, toNode, fromNode, ctx, pongs, bloomFilter, lastBlock,
                    estimatedHeight, orphans, syncing, relayed, height, addrs>>
    BY <1>7 DEF vars, node, wire, manager, wallet, bounds
  <2>2. NodeTypes' /\ WalletTypes'
    BY <2>1 DEF IInv, NodeTypes, WalletTypes
  <2>3. OrphanTypes' /\ Coverage'
    BY <2>1 DEF IInv, OrphanTypes, Coverage
  <2>4. Complete' /\ Answered' /\ Closed'
    BY <2>1 DEF IInv, Complete, Answered, Closed
  <2> QED BY <2>2, <2>3, <2>4 DEF IInv
<1> QED BY <1>1, <1>2, <1>3, <1>4, <1>5, <1>6, <1>7 DEF Next

\* What the runs check follows: the transaction a block waits for is the next message.
LEMMA InvariantImplies == IInv => FilterInv
<1> SUFFICES ASSUME IInv PROVE FilterInv
  OBVIOUS
<1>1. NodeTypes /\ WalletTypes /\ Coverage /\ Complete /\ Answered /\ Closed
  BY DEF IInv
<1>2. ctx.current # None => fromNode # <<>> /\ Head(fromNode).type = "tx"
  <2> SUFFICES ASSUME ctx.current # None PROVE fromNode # <<>> /\ Head(fromNode).type = "tx"
    OBVIOUS
  <2>1. PICK q : q = fromNode
    OBVIOUS
  <2>2. q \in Seq(Heard(mined)) /\ Follow(q, 0, ctx.left) /\ ctx.left # {}
    BY <1>1, <2>1 DEF NodeTypes, Complete
  <2>3. q # <<>> /\ q[1].type = "tx"
    BY <2>2, FollowNext
  <2>4. Head(q) = q[1]
    BY <2>2, <2>3, Cut
  <2> QED BY <2>1, <2>3, <2>4
<1>3. Marks(toNode) = Cardinality({i \in DOMAIN toNode : toNode[i].type = "ping"})
  <2>1. PICK q, n : q = toNode /\ n = mined
    OBVIOUS
  <2>2. n \in Nat /\ q \in Seq(Asked(n)) /\ Len(q) \in Nat /\ DOMAIN q = 1 .. (Len(q) + 1) - 1
    BY <1>1, <2>1, FilterAssumption DEF NodeTypes
  <2>3. \A i \in DOMAIN q : q[i] \in Asked(n)
    BY <2>2
  <2>4. \A i \in DOMAIN q : q[i].type \in Mark <=> q[i].type = "ping"
    BY <2>2, <2>3, AskedFacts
  <2>5. {i \in 1 .. (Len(q) + 1) - 1 : q[i].type \in Mark} = {i \in DOMAIN q : q[i].type = "ping"}
    BY <2>2, <2>4
  <2> QED BY <2>1, <2>5 DEF Marks, Before
<1>4. Marks(fromNode) = Cardinality({i \in DOMAIN fromNode : fromNode[i].type = "pong"})
  <2>1. PICK q, n : q = fromNode /\ n = mined
    OBVIOUS
  <2>2. n \in Nat /\ q \in Seq(Heard(n)) /\ Len(q) \in Nat /\ DOMAIN q = 1 .. (Len(q) + 1) - 1
    BY <1>1, <2>1, FilterAssumption DEF NodeTypes
  <2>3. \A i \in DOMAIN q : q[i] \in Heard(n)
    BY <2>2
  <2>4. \A i \in DOMAIN q : q[i].type \in Mark <=> q[i].type = "pong"
    BY <2>2, <2>3, HeardFacts
  <2>5. {i \in 1 .. (Len(q) + 1) - 1 : q[i].type \in Mark} = {i \in DOMAIN q : q[i].type = "pong"}
    BY <2>2, <2>4
  <2> QED BY <2>1, <2>5 DEF Marks, Before
<1>5. Marks(toNode) \in Nat /\ Marks(fromNode) \in Nat
  <2>1. PICK p, q : p = toNode /\ q = fromNode
    OBVIOUS
  <2>2. p \in Seq(Asked(mined)) /\ q \in Seq(Heard(mined))
    BY <1>1, <2>1 DEF NodeTypes
  <2> QED BY <2>1, <2>2, MarksJoin
<1>6. Len(pongs) = Marks(toNode) + Marks(fromNode)
  BY <1>1, <1>5 DEF Answered
<1>7. lastBlock \in 0..mined /\ estimatedHeight \in 0..mined /\ bloomFilter \in Nat \union {None} /\ addrs \in Nat
  BY <1>1 DEF WalletTypes, Coverage
<1>8. (ctx.current = None <=> ctx.left = {}) /\ (ctx.current # None => ctx.left \subseteq ctx.current.txs)
  BY <1>1 DEF Complete
<1>9. connected /\ bloomFilter # None => FirstUnused(height, addrs) + Gap <= bloomFilter
  BY <1>1 DEF Coverage
<1>10. connected \/ (toNode = <<>> /\ fromNode = <<>>)
  BY <1>1 DEF Closed
<1> QED BY <1>2, <1>3, <1>4, <1>6, <1>7, <1>8, <1>9, <1>10 DEF FilterInv

\* Whatever the payments and the limits, and in whatever order messages, transactions, blocks and losses
\* come: between messages the filter in use has the gap (_peerRelayedTx drops it otherwise), a ping has
\* its completion, and a block that waits gets a transaction next.
THEOREM FilterCorrect == Spec => []FilterInv
<1>1. Spec => []IInv
  BY InitInvariant, NextKeeps, PTL DEF Spec
<1> QED BY <1>1, InvariantImplies, PTL

-----------------------------------------------------------------------------
(* What is on its way, in the order in which it is answered and read. *)

Messages == Heard(Len(Chain)) \union Asked(Len(Chain))
way == fromNode \o toNode

\* A filter; what a filter decides, or changes it.
Loads == {m \in Messages : m.type = "filterload"}
Matched == {m \in Messages : \/ m.type \in {"merkleblock", "filterload"}
                             \/ m.type = "getdata" /\ m.blocks # <<>>}

\* A block with t comes or is asked for; so does t; so is t announced, or a block with it.
Bearers(t) == {m \in Messages : \/ m.type = "merkleblock" /\ t \in ToSet(Chain[m.height])
                                \/ m.type = "getdata" /\ t \in TxsOf(m.blocks)}
Carriers(t) == {m \in Messages : (m.type = "tx" /\ m.tx = t) \/ (m.type = "getdata" /\ t \in m.txs)}
Tellers(t) == {m \in Messages : m.type = "inv" /\ t \in m.txs}
Revealers(t) == {m \in Messages : m.type = "inv" /\ t \in TxsOf(m.blocks)}

\* In q: one of A; none of B after one of A; none of B that has none of A before, or is one itself;
\* fewer than k pings and pongs before any that a filter decides.
Meets(q, A) == \E i \in 1 .. Len(q) : q[i] \in A
NoneAfter(q, A, B) == \A i, j \in 1 .. Len(q) : i < j /\ q[i] \in A => q[j] \notin B
Preceded(q, A, B) == \A j \in 1 .. Len(q) : q[j] \in B => \E i \in 1 .. j : q[i] \in A
Within(q, k) == \A j \in 1 .. Len(q) : q[j] \in Matched => Before(q, j) < k

\* How that is in a concatenation.
LEMMA MeetsJoin ==
  ASSUME NEW S, NEW a \in Seq(S), NEW b \in Seq(S), NEW A
  PROVE  Meets(a \o b, A) <=> Meets(a, A) \/ Meets(b, A)
<1> DEFINE q == a \o b
           l == Len(a)
<1>1. /\ l \in Nat /\ Len(b) \in Nat /\ Len(q) = l + Len(b)
      /\ \A i \in 1 .. l : q[i] = a[i]
      /\ \A i \in 1 .. Len(b) : q[l + i] = b[i]
      /\ \A j \in 1 .. Len(q) : j \in 1 .. l \/ \E i \in 1 .. Len(b) : j = l + i
  BY Join, SMTT(30)
<1> HIDE DEF q, l
<1>2. ASSUME Meets(q, A) PROVE Meets(a, A) \/ Meets(b, A)
  BY <1>1, <1>2 DEF Meets, l
<1>3. ASSUME Meets(a, A) PROVE Meets(q, A)
  <2>1. PICK i \in 1 .. l : a[i] \in A
    BY <1>3 DEF Meets, l
  <2>2. i \in 1 .. Len(q) /\ q[i] \in A
    BY <1>1, <2>1
  <2> QED BY <2>2 DEF Meets
<1>4. ASSUME Meets(b, A) PROVE Meets(q, A)
  <2>1. PICK i \in 1 .. Len(b) : b[i] \in A
    BY <1>4 DEF Meets
  <2>2. l + i \in 1 .. Len(q) /\ q[l + i] \in A
    BY <1>1, <2>1
  <2> QED BY <2>2 DEF Meets
<1> QED BY <1>2, <1>3, <1>4 DEF q

\* The same of what does not come after.
LEMMA NoneAfterJoin ==
  ASSUME NEW S, NEW a \in Seq(S), NEW b \in Seq(S), NEW A, NEW B
  PROVE  NoneAfter(a \o b, A, B) <=> NoneAfter(a, A, B) /\ NoneAfter(b, A, B) /\ ~(Meets(a, A) /\ Meets(b, B))
<1> DEFINE q == a \o b
           l == Len(a)
<1>1. /\ l \in Nat /\ Len(b) \in Nat /\ Len(q) = l + Len(b)
      /\ \A i \in 1 .. l : q[i] = a[i]
      /\ \A i \in 1 .. Len(b) : q[l + i] = b[i]
      /\ \A j \in 1 .. Len(q) : j \in 1 .. l \/ \E i \in 1 .. Len(b) : j = l + i
  BY Join, SMTT(30)
<1> HIDE DEF q, l
<1>2. ASSUME NoneAfter(q, A, B) PROVE NoneAfter(a, A, B)
  <2> SUFFICES ASSUME NEW i \in 1 .. l, NEW j \in 1 .. l, i < j, a[i] \in A PROVE a[j] \notin B
    BY DEF NoneAfter, l
  <2>1. i \in 1 .. Len(q) /\ j \in 1 .. Len(q)
    BY <1>1
  <2> QED BY <1>1, <1>2, <2>1 DEF NoneAfter
<1>3. ASSUME NoneAfter(q, A, B) PROVE NoneAfter(b, A, B)
  <2> SUFFICES ASSUME NEW i \in 1 .. Len(b), NEW j \in 1 .. Len(b), i < j, b[i] \in A PROVE b[j] \notin B
    BY DEF NoneAfter
  <2>1. l + i \in 1 .. Len(q) /\ l + j \in 1 .. Len(q) /\ l + i < l + j
    BY <1>1
  <2>2. q[l + i] = b[i] /\ q[l + j] = b[j]
    BY <1>1
  <2> QED BY <1>3, <2>1, <2>2 DEF NoneAfter
<1>4. ASSUME NoneAfter(q, A, B), Meets(a, A), Meets(b, B) PROVE FALSE
  <2>1. PICK i \in 1 .. l : a[i] \in A
    BY <1>4 DEF Meets, l
  <2>2. PICK j \in 1 .. Len(b) : b[j] \in B
    BY <1>4 DEF Meets
  <2>3. i \in 1 .. Len(q) /\ l + j \in 1 .. Len(q) /\ i < l + j
    BY <1>1
  <2>4. q[i] = a[i] /\ q[l + j] = b[j]
    BY <1>1
  <2> QED BY <1>4, <2>1, <2>2, <2>3, <2>4 DEF NoneAfter
<1>5. ASSUME NoneAfter(a, A, B), NoneAfter(b, A, B), ~(Meets(a, A) /\ Meets(b, B)) PROVE NoneAfter(q, A, B)
  <2> SUFFICES ASSUME NEW i \in 1 .. Len(q), NEW j \in 1 .. Len(q), i < j, q[i] \in A, q[j] \in B PROVE FALSE
    BY DEF NoneAfter
  <2>1. CASE j \in 1 .. l
    <3>1. i \in 1 .. l
      BY <1>1, <2>1
    <3> QED BY <1>1, <1>5, <2>1, <3>1 DEF NoneAfter, l
  <2>2. CASE j \notin 1 .. l
    <3>1. PICK y \in 1 .. Len(b) : j = l + y
      BY <1>1, <2>2
    <3>2. b[y] \in B
      BY <1>1, <3>1
    <3>3. CASE i \in 1 .. l
      BY <1>1, <1>5, <3>2, <3>3 DEF Meets, l
    <3>4. CASE i \notin 1 .. l
      <4>1. PICK x \in 1 .. Len(b) : i = l + x
        BY <1>1, <3>4
      <4>2. x < y /\ b[x] \in A
        BY <1>1, <3>1, <4>1
      <4> QED BY <1>5, <3>2, <4>2 DEF NoneAfter
    <3> QED BY <3>3, <3>4
  <2> QED BY <2>1, <2>2
<1> QED BY <1>2, <1>3, <1>4, <1>5 DEF q

\* The same of what comes before.
LEMMA PrecededJoin ==
  ASSUME NEW S, NEW a \in Seq(S), NEW b \in Seq(S), NEW A, NEW B
  PROVE  Preceded(a \o b, A, B) <=> Preceded(a, A, B) /\ (Meets(a, A) \/ Preceded(b, A, B))
<1> DEFINE q == a \o b
           l == Len(a)
<1>1. /\ l \in Nat /\ Len(b) \in Nat /\ Len(q) = l + Len(b)
      /\ \A i \in 1 .. l : q[i] = a[i]
      /\ \A i \in 1 .. Len(b) : q[l + i] = b[i]
      /\ \A j \in 1 .. Len(q) : j \in 1 .. l \/ \E i \in 1 .. Len(b) : j = l + i
  BY Join, SMTT(30)
<1> HIDE DEF q, l
<1>2. ASSUME Preceded(q, A, B) PROVE Preceded(a, A, B)
  <2> SUFFICES ASSUME NEW j \in 1 .. l, a[j] \in B PROVE \E i \in 1 .. j : a[i] \in A
    BY DEF Preceded, l
  <2>1. j \in 1 .. Len(q) /\ q[j] \in B
    BY <1>1
  <2>2. PICK i \in 1 .. j : q[i] \in A
    BY <1>2, <2>1 DEF Preceded
  <2>3. i \in 1 .. l
    BY <1>1
  <2> QED BY <1>1, <2>2, <2>3
<1>3. ASSUME Preceded(q, A, B), ~Meets(a, A) PROVE Preceded(b, A, B)
  <2> SUFFICES ASSUME NEW j \in 1 .. Len(b), b[j] \in B PROVE \E i \in 1 .. j : b[i] \in A
    BY DEF Preceded
  <2>1. l + j \in 1 .. Len(q) /\ q[l + j] \in B
    BY <1>1
  <2>2. PICK i \in 1 .. l + j : q[i] \in A
    BY <1>3, <2>1 DEF Preceded
  <2>3. i \notin 1 .. l
    BY <1>1, <1>3, <2>2 DEF Meets, l
  <2>4. i \in 1 .. Len(q)
    BY <1>1
  <2>5. PICK x \in 1 .. Len(b) : i = l + x
    BY <1>1, <2>3, <2>4
  <2>6. x \in 1 .. j /\ b[x] \in A
    BY <1>1, <2>2, <2>5
  <2> QED BY <2>6
<1>4. ASSUME Preceded(a, A, B), Meets(a, A) \/ Preceded(b, A, B) PROVE Preceded(q, A, B)
  <2> SUFFICES ASSUME NEW j \in 1 .. Len(q), q[j] \in B PROVE \E i \in 1 .. j : q[i] \in A
    BY DEF Preceded
  <2>1. CASE j \in 1 .. l
    <3>1. PICK i \in 1 .. j : a[i] \in A
      BY <1>1, <1>4, <2>1 DEF Preceded, l
    <3>2. i \in 1 .. l
      BY <1>1, <2>1
    <3> QED BY <1>1, <3>1, <3>2
  <2>2. CASE j \notin 1 .. l
    <3>1. PICK y \in 1 .. Len(b) : j = l + y
      BY <1>1, <2>2
    <3>2. CASE Meets(a, A)
      <4>1. PICK i \in 1 .. l : a[i] \in A
        BY <3>2 DEF Meets, l
      <4>2. i \in 1 .. j /\ q[i] \in A
        BY <1>1, <3>1, <4>1
      <4> QED BY <4>2
    <3>3. CASE Preceded(b, A, B)
      <4>1. b[y] \in B
        BY <1>1, <3>1
      <4>2. PICK x \in 1 .. y : b[x] \in A
        BY <3>3, <4>1 DEF Preceded
      <4>3. x \in 1 .. Len(b) /\ l + x \in 1 .. j
        BY <1>1, <3>1
      <4>4. q[l + x] \in A
        BY <1>1, <4>2, <4>3
      <4> QED BY <4>3, <4>4
    <3> QED BY <1>4, <3>2, <3>3
  <2> QED BY <2>1, <2>2
<1> QED BY <1>2, <1>3, <1>4 DEF q

\* The marks of the first part come before the second.
LEMMA WithinJoin ==
  ASSUME NEW S, NEW a \in Seq(S), NEW b \in Seq(S), NEW k \in Int
  PROVE  Within(a \o b, k) <=> Within(a, k) /\ Within(b, k - Marks(a))
<1> DEFINE q == a \o b
           l == Len(a)
<1>1. /\ l \in Nat /\ Len(b) \in Nat /\ Len(q) = l + Len(b)
      /\ \A i \in 1 .. l : q[i] = a[i]
      /\ \A i \in 1 .. Len(b) : q[l + i] = b[i]
      /\ \A j \in 1 .. Len(q) : j \in 1 .. l \/ \E i \in 1 .. Len(b) : j = l + i
  BY Join, SMTT(30)
<1>2. /\ \A i \in 1 .. l + 1 : Before(q, i) = Before(a, i)
      /\ \A i \in 1 .. Len(b) + 1 : Before(q, l + i) = Marks(a) + Before(b, i)
      /\ Marks(a) \in Nat
  BY MarksJoin
<1>3. \A i \in 1 .. l : Before(q, i) = Before(a, i)
  BY <1>1, <1>2
<1>4. \A i \in 1 .. Len(b) : Before(b, i) \in Nat /\ Before(q, l + i) = Marks(a) + Before(b, i)
  <2> TAKE i \in 1 .. Len(b)
  <2>1. i \in Nat /\ i \in 1 .. Len(b) + 1 /\ i <= i
    BY <1>1
  <2> QED BY <1>2, <2>1, BeforeFacts
<1> HIDE DEF q, l
<1>5. ASSUME Within(q, k) PROVE Within(a, k) /\ Within(b, k - Marks(a))
  <2>1. ASSUME NEW i \in 1 .. l, a[i] \in Matched PROVE Before(a, i) < k
    <3>1. i \in 1 .. Len(q) /\ q[i] \in Matched
      BY <1>1, <2>1
    <3> QED BY <1>3, <1>5, <3>1 DEF Within
  <2>2. ASSUME NEW i \in 1 .. Len(b), b[i] \in Matched PROVE Before(b, i) < k - Marks(a)
    <3>1. l + i \in 1 .. Len(q) /\ q[l + i] \in Matched
      BY <1>1, <2>2
    <3>2. Before(q, l + i) < k
      BY <1>5, <3>1 DEF Within
    <3>3. Before(b, i) \in Nat /\ Before(q, l + i) = Marks(a) + Before(b, i)
      BY <1>4
    <3> QED BY <1>2, <3>2, <3>3
  <2> QED BY <2>1, <2>2 DEF Within, l
<1>6. ASSUME Within(a, k), Within(b, k - Marks(a)) PROVE Within(q, k)
  <2> SUFFICES ASSUME NEW j \in 1 .. Len(q), q[j] \in Matched PROVE Before(q, j) < k
    BY DEF Within
  <2>1. CASE j \in 1 .. l
    <3>1. a[j] \in Matched
      BY <1>1, <2>1
    <3> QED BY <1>3, <1>6, <2>1, <3>1 DEF Within, l
  <2>2. CASE j \notin 1 .. l
    <3>1. PICK y \in 1 .. Len(b) : j = l + y
      BY <1>1, <2>2
    <3>2. b[y] \in Matched
      BY <1>1, <3>1
    <3>3. Before(b, y) < k - Marks(a)
      BY <1>6, <3>2 DEF Within
    <3>4. Before(b, y) \in Nat /\ Before(q, j) = Marks(a) + Before(b, y)
      BY <1>4, <3>1
    <3> QED BY <1>2, <3>3, <3>4
  <2> QED BY <2>1, <2>2
<1> QED BY <1>5, <1>6 DEF q

\* In what has one element.
LEMMA OfOne ==
  ASSUME NEW m, NEW A, NEW B, NEW k \in Int
  PROVE  /\ Meets(<<m>>, A) <=> m \in A
         /\ NoneAfter(<<m>>, A, B)
         /\ Preceded(<<m>>, A, B) <=> (m \in B => m \in A)
         /\ Within(<<m>>, k) <=> (m \in Matched => 0 < k)
<1> DEFINE q == <<m>>
<1>1. Len(q) = 1 /\ q[1] = m /\ 1 .. 1 = {1} /\ q \in Seq({m})
  OBVIOUS
<1>2. Before(q, 1) = 0
  BY BeforeFacts
<1> HIDE DEF q
<1>3. 1 .. Len(q) = {1}
  BY <1>1
<1>4. Meets(q, A) <=> m \in A
  BY <1>1, <1>3 DEF Meets
<1>5. NoneAfter(q, A, B)
  <2> SUFFICES ASSUME NEW i \in {1}, NEW j \in {1}, i < j PROVE FALSE
    BY <1>3 DEF NoneAfter
  <2> QED OBVIOUS
<1>6. Preceded(q, A, B) <=> (m \in B => m \in A)
  BY <1>1, <1>3 DEF Preceded
<1>7. Within(q, k) <=> (m \in Matched => 0 < k)
  BY <1>1, <1>2, <1>3 DEF Within
<1> QED BY <1>4, <1>5, <1>6, <1>7 DEF q

\* Without any of B.
LEMMA OfNone ==
  ASSUME NEW S, NEW q \in Seq(S), NEW A, NEW B, ~Meets(q, B)
  PROVE  NoneAfter(q, A, B) /\ NoneAfter(q, B, A) /\ Preceded(q, A, B)
BY DEF Meets, NoneAfter, Preceded

\* Nor a bound to keep.
LEMMA WithinNone ==
  ASSUME NEW q, ~Meets(q, Matched), NEW k
  PROVE  Within(q, k)
BY DEF Meets, Within

\* All pings and pongs are a bound of those before, and less is a stronger bound.
LEMMA WithinAll ==
  ASSUME NEW S, NEW q \in Seq(S)
  PROVE  /\ \A k \in Int : Marks(q) < k => Within(q, k)
         /\ \A k, l \in Int : k <= l /\ Within(q, k) => Within(q, l)
<1>1. \A j \in 1 .. Len(q) : Before(q, j) \in Nat /\ Before(q, j) <= Marks(q) /\ Marks(q) \in Nat
  <2> TAKE j \in 1 .. Len(q)
  <2>1. j \in Nat /\ Len(q) + 1 \in Nat /\ j <= Len(q) + 1 /\ Len(q) + 1 <= Len(q) + 1
    OBVIOUS
  <2> QED BY <2>1, BeforeFacts DEF Marks
<1>2. ASSUME NEW k \in Int, Marks(q) < k PROVE Within(q, k)
  BY <1>1, <1>2 DEF Within
<1>3. ASSUME NEW k \in Int, NEW l \in Int, k <= l, Within(q, k) PROVE Within(q, l)
  BY <1>1, <1>3 DEF Within
<1> QED BY <1>2, <1>3

-----------------------------------------------------------------------------
(* The invariant that keeps payments. *)

\* A connection has a filter, or one comes first.
Loaded ==
  /\ filter \in Filters \union {None}
  /\ connected => filter # None \/ (toNode # <<>> /\ Head(toNode).type = "filterload")

\* One update at a time is under way in ps; its ping comes after all in q that the filter before it decides.
Updates(q, ps, needed) ==
  /\ \A k \in 1 .. Len(ps) : ps[k] \in UpdateCalls => needed
  /\ \A k, l \in 1 .. Len(ps) : ps[k] \in UpdateCalls /\ ps[l] \in UpdateCalls => k = l
  /\ \A k \in 1 .. Len(ps) : ps[k] = "updateFilterPingDone" => Within(q, k)
Updating == Updates(way, pongs, ctx.needsUpdate)

\* The addresses f has, or any filter that is sent, are n.
FilterIs(n, f, q) ==
  /\ \A m \in ToSet(q) : m.type = "filterload" => m.filter.addrs = n
  /\ (\A m \in ToSet(q) : m.type # "filterload") => f # None /\ f.addrs = n
FilterBelow(n, f, q) ==
  /\ f # None => f.addrs <= n
  /\ \A m \in ToSet(q) : m.type = "filterload" => m.filter.addrs <= n

\* The node has the filter of the manager, or will before it needs it.
InUse ==
  /\ NoneAfter(way, Matched, Loads)
  /\ connected /\ bloomFilter # None => FilterIs(bloomFilter, filter, toNode)
  /\ FilterBelow(addrs, filter, toNode)

\* A block that is here was matched with the manager's filter,
Ours(n, h) == {t \in ToSet(Chain[h]) : \E i \in Pays[t] : i < n}
MatchedBy(n, q, block, b, o) ==
  /\ \A m \in ToSet(q) : m.type = "merkleblock" => Ours(n, m.height) \subseteq m.txs
  /\ block # None => Ours(n, block.height) \subseteq block.txs
  /\ b # None => Ours(n, b.height) \subseteq b.txs
  /\ \A h \in 1 .. Len(Chain) : o[h] # None => Ours(n, h) \subseteq o[h]
Live == bloomFilter # None => MatchedBy(bloomFilter, fromNode, ctx.current, relayed, orphans)

\* and the payments in it are the wallet's, and are registered before it is relayed.
Noted ==
  /\ \A t \in Payments : height[t] # Foreign
  /\ \A m \in ToSet(fromNode) : m.type = "tx" /\ m.tx \in Payments => Pays2Wallet(m.tx)
  /\ \A m \in ToSet(fromNode) : m.type = "merkleblock" => \A t \in m.txs \intersect Payments : Pays2Wallet(t)
  /\ ctx.current # None =>
       \A t \in ctx.current.txs \intersect Payments : Pays2Wallet(t) /\ (t \in Registered(height) \/ t \in ctx.left)
  /\ relayed # None => relayed.txs \intersect Payments \subseteq Registered(height)
  /\ \A h \in 1 .. Len(Chain) : orphans[h] # None => orphans[h] \intersect Payments \subseteq Registered(height)

\* A payment that was announced is registered, or comes before any block that has it.
Comes(t, q) == Meets(q, Carriers(t)) /\ Preceded(q, Carriers(t), Bearers(t))
Known == \A t \in ctx.knownTx \intersect Payments : t \in Registered(height) \/ Comes(t, way)

\* A transaction is announced before its block is.
ToldBefore(t, q, blocks) == /\ Meets(q, Tellers(t)) => ~Meets(q, Bearers(t)) /\ t \notin TxsOf(blocks)
                       /\ NoneAfter(q, Revealers(t), Tellers(t))
ToldFirst == \A t \in Tx : ToldBefore(t, way, ctx.known)

\* What is announced is served, and the payments among it are the wallet's.
Pooled ==
  /\ pool \intersect Mined = {}
  /\ \A t \in announced \intersect Payments : Pays2Wallet(t)
  /\ ctx.knownTx \subseteq announced
  /\ \A m \in ToSet(fromNode) : m.type = "inv" => m.txs \subseteq announced
  /\ \A m \in ToSet(toNode) : m.type = "getdata" => m.txs \subseteq announced

\* Every address paid so far is generated.
Generated == \A h \in 1 .. lastBlock : \A t \in ToSet(Chain[h]) : \A i \in Pays[t] : i < addrs

KInv == /\ IInv /\ Loaded /\ Updating /\ InUse /\ Live /\ Noted /\ Known /\ ToldFirst /\ Pooled
        /\ PaymentsKept /\ Generated

-----------------------------------------------------------------------------
(* What the node does to what is on its way. *)

\* All that the node and the wallet may be told are messages.
LEMMA AllMessages ==
  ASSUME NEW n \in 0 .. Len(Chain)
  PROVE  /\ Heard(n) \subseteq Messages /\ Asked(n) \subseteq Messages
         /\ Seq(Heard(n)) \subseteq Seq(Messages) /\ Seq(Asked(n)) \subseteq Seq(Messages)
<1>1. PICK l : l = Len(Chain)
  OBVIOUS
<1>2. l \in Nat /\ n \in Nat /\ n <= l
  BY <1>1, FilterAssumption
<1>3. Seq(1 .. n) \subseteq Seq(1 .. l)
  BY <1>2, SeqHigher
<1>4. 1 .. n \subseteq 1 .. l
  BY <1>2
<1>5. Heard(n) \subseteq Heard(l)
  <2> SUFFICES ASSUME NEW m \in Heard(n) PROVE m \in Heard(l)
    OBVIOUS
  <2>1. CASE m \in [type : {"inv"}, txs : SUBSET Tx, blocks : Seq(1 .. n)]
    <3>1. m \in [type : {"inv"}, txs : SUBSET Tx, blocks : Seq(1 .. l)]
      BY <1>3, <2>1
    <3> QED BY <3>1 DEF Heard
  <2>2. CASE m \in {x \in [type : {"merkleblock"}, height : 1 .. n, txs : SUBSET Tx] : x.txs \subseteq ToSet(Chain[x.height])}
    <3>1. m \in [type : {"merkleblock"}, height : 1 .. l, txs : SUBSET Tx] /\ m.txs \subseteq ToSet(Chain[m.height])
      BY <1>4, <2>2
    <3> QED BY <3>1 DEF Heard
  <2> QED BY <2>1, <2>2 DEF Heard
<1>6. Asked(n) \subseteq Asked(l)
  <2> SUFFICES ASSUME NEW m \in Asked(n) PROVE m \in Asked(l)
    OBVIOUS
  <2>1. CASE m \in [type : {"getdata"}, txs : SUBSET Tx, blocks : Seq(1 .. n)]
    <3>1. m \in [type : {"getdata"}, txs : SUBSET Tx, blocks : Seq(1 .. l)]
      BY <1>3, <2>1
    <3> QED BY <3>1 DEF Asked
  <2>2. CASE m \notin [type : {"getdata"}, txs : SUBSET Tx, blocks : Seq(1 .. n)]
    BY <2>2, Zenon DEF Asked
  <2> QED BY <2>1, <2>2
<1>7. Heard(n) \subseteq Messages /\ Asked(n) \subseteq Messages
  BY <1>1, <1>5, <1>6, Zenon DEF Messages
<1>8. ASSUME NEW A, NEW B, A \subseteq B PROVE Seq(A) \subseteq Seq(B)
  <2> SUFFICES ASSUME NEW q \in Seq(A) PROVE q \in Seq(B)
    OBVIOUS
  <2>1. \A i \in 1 .. Len(q) : q[i] \in B
    BY <1>8
  <2> QED BY <2>1
<1> QED BY <1>7, <1>8

\* The set of a concatenation.
LEMMA JoinSet ==
  ASSUME NEW S, NEW a \in Seq(S), NEW b \in Seq(S)
  PROVE  ToSet(a \o b) = ToSet(a) \union ToSet(b)
<1> DEFINE q == a \o b
           l == Len(a)
<1>1. /\ l \in Nat /\ Len(b) \in Nat /\ DOMAIN q = 1 .. l + Len(b)
      /\ \A i \in 1 .. l : q[i] = a[i]
      /\ \A i \in 1 .. Len(b) : q[l + i] = b[i]
      /\ \A j \in DOMAIN q : j \in 1 .. l \/ \E i \in 1 .. Len(b) : j = l + i
      /\ DOMAIN a = 1 .. l /\ DOMAIN b = 1 .. Len(b)
  BY Join
<1> HIDE DEF q, l
<1>2. ToSet(q) \subseteq ToSet(a) \union ToSet(b)
  <2> SUFFICES ASSUME NEW j \in DOMAIN q PROVE q[j] \in ToSet(a) \union ToSet(b)
    BY DEF ToSet
  <2>1. CASE j \in 1 .. l
    BY <1>1, <2>1 DEF ToSet
  <2>2. CASE j \notin 1 .. l
    BY <1>1, <2>2 DEF ToSet
  <2> QED BY <2>1, <2>2
<1>3. ToSet(a) \subseteq ToSet(q)
  <2> SUFFICES ASSUME NEW i \in DOMAIN a PROVE a[i] \in ToSet(q)
    BY DEF ToSet
  <2>1. i \in DOMAIN q /\ q[i] = a[i]
    BY <1>1
  <2> QED BY <2>1 DEF ToSet
<1>4. ToSet(b) \subseteq ToSet(q)
  <2> SUFFICES ASSUME NEW i \in DOMAIN b PROVE b[i] \in ToSet(q)
    BY DEF ToSet
  <2>1. l + i \in DOMAIN q /\ q[l + i] = b[i]
    BY <1>1
  <2> QED BY <2>1 DEF ToSet
<1> QED BY <1>2, <1>3, <1>4 DEF q

\* What a sequence meets, its set has.
LEMMA MeetsSet ==
  ASSUME NEW S, NEW q \in Seq(S), NEW A
  PROVE  Meets(q, A) <=> \E m \in ToSet(q) : m \in A
<1>1. DOMAIN q = 1 .. Len(q)
  OBVIOUS
<1> QED BY <1>1 DEF Meets, ToSet

\* Nothing is in nothing.
LEMMA OfNothing ==
  ASSUME NEW A, NEW B, NEW k
  PROVE  /\ ~Meets(<<>>, A) /\ NoneAfter(<<>>, A, B) /\ Preceded(<<>>, A, B) /\ Within(<<>>, k)
         /\ ToSet(<<>>) = {} /\ TxsOf(<<>>) = {}
<1>1. PICK q : q = <<>>
  OBVIOUS
<1>2. Len(q) = 0 /\ 1 .. Len(q) = {} /\ DOMAIN q = {}
  BY <1>1
<1>3. ToSet(q) = {}
  BY <1>2 DEF ToSet
<1>4. TxsOf(q) = {}
  BY <1>3 DEF TxsOf
<1>5. ~Meets(q, A) /\ NoneAfter(q, A, B) /\ Preceded(q, A, B) /\ Within(q, k)
  BY <1>2 DEF Meets, NoneAfter, Preceded, Within
<1> QED BY <1>1, <1>3, <1>4, <1>5

\* The node answers s with r: with a block, its request; with a transaction of T that was asked for, before
\* its block; and it announces none but those of U.
Answers(s, r, T, U) ==
  /\ Marks(r) = Marks(s) /\ \A k \in Int : Within(s, k) => Within(r, k)
  /\ ~Meets(r, Loads) /\ (Meets(r, Matched) => Meets(s, Matched))
  /\ \A t \in T : /\ Meets(s, Carriers(t)) => Meets(r, Carriers(t))
                  /\ Preceded(s, Carriers(t), Bearers(t)) => Preceded(r, Carriers(t), Bearers(t))
  /\ \A t \in Tx : /\ Meets(r, Bearers(t)) => Meets(s, Bearers(t))
                   /\ NoneAfter(r, Revealers(t), Tellers(t))
                   /\ Meets(r, Tellers(t)) => t \in U

\* A message and an answer without transactions and blocks.
LEMMA PlainAnswers ==
  ASSUME NEW s \in Seq(Messages), NEW r \in Seq(Messages), Marks(r) = Marks(s), NEW U,
         ~Meets(r, Matched), NEW T \in SUBSET Tx,
         \A t \in Tx : /\ ~Meets(r, Bearers(t)) /\ ~Meets(s, Carriers(t))
                       /\ ~Meets(r, Revealers(t)) \/ ~Meets(r, Tellers(t))
                       /\ Meets(r, Tellers(t)) => t \in U
  PROVE  Answers(s, r, T, U)
<1>1. \A k \in Int : Within(r, k)
  BY WithinNone
<1>2. ~Meets(r, Loads)
  <2>1. Loads \subseteq Matched
    BY DEF Loads, Matched
  <2> QED BY <2>1 DEF Meets
<1>3. \A t \in Tx : Preceded(r, Carriers(t), Bearers(t)) /\ NoneAfter(r, Revealers(t), Tellers(t))
  BY OfNone
<1> QED BY <1>1, <1>2, <1>3 DEF Answers

\* q is these parts.
Parts(q, F, s, N) == /\ F \in Seq(Messages) /\ s \in Seq(Messages) /\ N \in Seq(Messages)
                     /\ q = (F \o s) \o N

\* Of three parts: what is met in them,
LEMMA MeetsThree ==
  ASSUME NEW q, NEW F, NEW s, NEW N, Parts(q, F, s, N), NEW A
  PROVE  Meets(q, A) <=> Meets(F, A) \/ Meets(s, A) \/ Meets(N, A)
<1>1. /\ F \in Seq(Messages) /\ s \in Seq(Messages) /\ N \in Seq(Messages) /\ F \o s \in Seq(Messages)
      /\ q = (F \o s) \o N
  BY DEF Parts
<1>2. Meets(q, A) <=> Meets(F \o s, A) \/ Meets(N, A)
  BY <1>1, MeetsJoin
<1>3. Meets(F \o s, A) <=> Meets(F, A) \/ Meets(s, A)
  BY <1>1, MeetsJoin
<1> QED BY <1>2, <1>3

\* what does not come after what,
LEMMA NoneAfterThree ==
  ASSUME NEW q, NEW F, NEW s, NEW N, Parts(q, F, s, N), NEW A, NEW B
  PROVE  NoneAfter(q, A, B) <=>
           /\ NoneAfter(F, A, B) /\ NoneAfter(s, A, B) /\ NoneAfter(N, A, B)
           /\ ~(Meets(F, A) /\ Meets(s, B)) /\ ~(Meets(F, A) /\ Meets(N, B)) /\ ~(Meets(s, A) /\ Meets(N, B))
<1>1. /\ F \in Seq(Messages) /\ s \in Seq(Messages) /\ N \in Seq(Messages) /\ F \o s \in Seq(Messages)
      /\ q = (F \o s) \o N
  BY DEF Parts
<1>2. NoneAfter(q, A, B) <=> NoneAfter(F \o s, A, B) /\ NoneAfter(N, A, B) /\ ~(Meets(F \o s, A) /\ Meets(N, B))
  BY <1>1, NoneAfterJoin
<1>3. NoneAfter(F \o s, A, B) <=> NoneAfter(F, A, B) /\ NoneAfter(s, A, B) /\ ~(Meets(F, A) /\ Meets(s, B))
  BY <1>1, NoneAfterJoin
<1>4. Meets(F \o s, A) <=> Meets(F, A) \/ Meets(s, A)
  BY <1>1, MeetsJoin
<1> QED BY <1>2, <1>3, <1>4

\* what comes before what,
LEMMA PrecededThree ==
  ASSUME NEW q, NEW F, NEW s, NEW N, Parts(q, F, s, N), NEW A, NEW B
  PROVE  Preceded(q, A, B) <=>
           /\ Preceded(F, A, B)
           /\ Meets(F, A) \/ (Preceded(s, A, B) /\ (Meets(s, A) \/ Preceded(N, A, B)))
<1>1. /\ F \in Seq(Messages) /\ s \in Seq(Messages) /\ N \in Seq(Messages) /\ F \o s \in Seq(Messages)
      /\ q = (F \o s) \o N
  BY DEF Parts
<1>2. Preceded(q, A, B) <=> Preceded(F \o s, A, B) /\ (Meets(F \o s, A) \/ Preceded(N, A, B))
  BY <1>1, PrecededJoin
<1>3. Preceded(F \o s, A, B) <=> Preceded(F, A, B) /\ (Meets(F, A) \/ Preceded(s, A, B))
  BY <1>1, PrecededJoin
<1>4. Meets(F \o s, A) <=> Meets(F, A) \/ Meets(s, A)
  BY <1>1, MeetsJoin
<1> QED BY <1>2, <1>3, <1>4

\* and what is within a bound.
LEMMA WithinThree ==
  ASSUME NEW q, NEW F, NEW s, NEW N, Parts(q, F, s, N), NEW k \in Int
  PROVE  /\ Within(q, k) <=> Within(F, k) /\ Within(s, k - Marks(F)) /\ Within(N, (k - Marks(F)) - Marks(s))
         /\ Marks(F) \in Nat /\ Marks(s) \in Nat
<1>1. /\ F \in Seq(Messages) /\ s \in Seq(Messages) /\ N \in Seq(Messages) /\ F \o s \in Seq(Messages)
      /\ q = (F \o s) \o N
  BY DEF Parts
<1>2. Within(q, k) <=> Within(F \o s, k) /\ Within(N, k - Marks(F \o s))
  BY <1>1, WithinJoin
<1>3. Within(F \o s, k) <=> Within(F, k) /\ Within(s, k - Marks(F))
  BY <1>1, WithinJoin
<1>4. Marks(F) \in Nat /\ Marks(s) \in Nat /\ Marks(F \o s) = Marks(F) + Marks(s)
  BY <1>1, MarksJoin
<1>5. k - Marks(F \o s) = (k - Marks(F)) - Marks(s)
  BY <1>4
<1> QED BY <1>2, <1>3, <1>4, <1>5

\* What is on its way stays in order when the node answers.
LEMMA WayStep ==
  ASSUME NEW q, NEW p, NEW F, NEW s, NEW r, NEW N, Parts(q, F, s, N), Parts(p, F, r, N),
         NEW T \in SUBSET Tx, NEW U, Answers(s, r, T, U)
  PROVE  /\ \A k \in Int : Within(q, k) => Within(p, k)
         /\ NoneAfter(q, Matched, Loads) => NoneAfter(p, Matched, Loads)
         /\ \A t \in T : Comes(t, q) => Comes(t, p)
         /\ \A known : \A t \in Tx :
              /\ ToldBefore(t, q, known) /\ ~Meets(N, Tellers(t))
              /\ t \in U => ~Meets(q, Bearers(t)) /\ ~Meets(q, Revealers(t)) /\ t \notin TxsOf(known)
              => ToldBefore(t, p, known)
<1>1. \A A : /\ Meets(q, A) <=> Meets(F, A) \/ Meets(s, A) \/ Meets(N, A)
             /\ Meets(p, A) <=> Meets(F, A) \/ Meets(r, A) \/ Meets(N, A)
  <2> TAKE A
  <2>1. Meets(q, A) <=> Meets(F, A) \/ Meets(s, A) \/ Meets(N, A)
    BY MeetsThree
  <2>2. Meets(p, A) <=> Meets(F, A) \/ Meets(r, A) \/ Meets(N, A)
    BY MeetsThree
  <2> QED BY <2>1, <2>2
<1>2. \A A, B : /\ NoneAfter(q, A, B) <=>
                    /\ NoneAfter(F, A, B) /\ NoneAfter(s, A, B) /\ NoneAfter(N, A, B)
                    /\ ~(Meets(F, A) /\ Meets(s, B)) /\ ~(Meets(F, A) /\ Meets(N, B)) /\ ~(Meets(s, A) /\ Meets(N, B))
                /\ NoneAfter(p, A, B) <=>
                    /\ NoneAfter(F, A, B) /\ NoneAfter(r, A, B) /\ NoneAfter(N, A, B)
                    /\ ~(Meets(F, A) /\ Meets(r, B)) /\ ~(Meets(F, A) /\ Meets(N, B)) /\ ~(Meets(r, A) /\ Meets(N, B))
  <2> TAKE A, B
  <2>1. NoneAfter(q, A, B) <=>
          /\ NoneAfter(F, A, B) /\ NoneAfter(s, A, B) /\ NoneAfter(N, A, B)
          /\ ~(Meets(F, A) /\ Meets(s, B)) /\ ~(Meets(F, A) /\ Meets(N, B)) /\ ~(Meets(s, A) /\ Meets(N, B))
    BY NoneAfterThree
  <2>2. NoneAfter(p, A, B) <=>
          /\ NoneAfter(F, A, B) /\ NoneAfter(r, A, B) /\ NoneAfter(N, A, B)
          /\ ~(Meets(F, A) /\ Meets(r, B)) /\ ~(Meets(F, A) /\ Meets(N, B)) /\ ~(Meets(r, A) /\ Meets(N, B))
    BY NoneAfterThree
  <2> QED BY <2>1, <2>2
<1>3. /\ Marks(r) = Marks(s) /\ \A k \in Int : Within(s, k) => Within(r, k)
      /\ ~Meets(r, Loads) /\ (Meets(r, Matched) => Meets(s, Matched))
      /\ \A t \in T : /\ Meets(s, Carriers(t)) => Meets(r, Carriers(t))
                      /\ Preceded(s, Carriers(t), Bearers(t)) => Preceded(r, Carriers(t), Bearers(t))
      /\ \A t \in Tx : /\ Meets(r, Bearers(t)) => Meets(s, Bearers(t))
                       /\ NoneAfter(r, Revealers(t), Tellers(t))
                       /\ Meets(r, Tellers(t)) => t \in U
  BY DEF Answers
<1>4. ASSUME NEW k \in Int, Within(q, k) PROVE Within(p, k)
  <2>1. /\ Within(q, k) <=> Within(F, k) /\ Within(s, k - Marks(F)) /\ Within(N, (k - Marks(F)) - Marks(s))
        /\ Marks(F) \in Nat
    BY WithinThree
  <2>2. Within(p, k) <=> Within(F, k) /\ Within(r, k - Marks(F)) /\ Within(N, (k - Marks(F)) - Marks(r))
    BY WithinThree
  <2>3. k - Marks(F) \in Int
    BY <2>1
  <2> QED BY <1>3, <1>4, <2>1, <2>2, <2>3
<1>5. ASSUME NoneAfter(q, Matched, Loads) PROVE NoneAfter(p, Matched, Loads)
  <2>1. NoneAfter(r, Matched, Loads)
    BY <1>3, OfNone DEF Parts
  <2> QED BY <1>1, <1>2, <1>3, <1>5, <2>1
<1>6. ASSUME NEW t \in T, Comes(t, q) PROVE Comes(t, p)
  <2> DEFINE A == Carriers(t)
             B == Bearers(t)
  <2>1. Meets(q, A) /\ Preceded(q, A, B)
    BY <1>6 DEF Comes
  <2> HIDE DEF A, B
  <2>2. Preceded(q, A, B) <=>
          /\ Preceded(F, A, B)
          /\ Meets(F, A) \/ (Preceded(s, A, B) /\ (Meets(s, A) \/ Preceded(N, A, B)))
    BY PrecededThree
  <2>3. Preceded(p, A, B) <=>
          /\ Preceded(F, A, B)
          /\ Meets(F, A) \/ (Preceded(r, A, B) /\ (Meets(r, A) \/ Preceded(N, A, B)))
    BY PrecededThree
  <2>4. (Meets(s, A) => Meets(r, A)) /\ (Preceded(s, A, B) => Preceded(r, A, B))
    BY <1>3 DEF A, B
  <2>5. Meets(p, A) /\ Preceded(p, A, B)
    BY <1>1, <2>1, <2>2, <2>3, <2>4
  <2> QED BY <2>5 DEF Comes, A, B
<1>7. ASSUME NEW known, NEW t \in Tx, ToldBefore(t, q, known), ~Meets(N, Tellers(t)),
             t \in U => ~Meets(q, Bearers(t)) /\ ~Meets(q, Revealers(t)) /\ t \notin TxsOf(known)
      PROVE  ToldBefore(t, p, known)
  <2>1. Meets(p, Tellers(t)) => ~Meets(p, Bearers(t)) /\ t \notin TxsOf(known)
    BY <1>1, <1>2, <1>3, <1>7 DEF ToldBefore
  <2>2. NoneAfter(p, Revealers(t), Tellers(t))
    BY <1>1, <1>2, <1>3, <1>7 DEF ToldBefore
  <2> QED BY <2>1, <2>2 DEF ToldBefore
<1> QED BY <1>4, <1>5, <1>6, <1>7

\* What one message is among.
LEMMA MeetsOne == ASSUME NEW m, NEW A PROVE Meets(<<m>>, A) <=> m \in A
<1>1. 0 \in Int
  OBVIOUS
<1> QED BY <1>1, OfOne

\* Which messages have what.
LEMMA Kinds ==
  ASSUME NEW m \in Messages
  PROVE  /\ m.type = "inv" => /\ m \notin Matched /\ m \notin Loads
                              /\ \A t : m \notin Bearers(t) /\ m \notin Carriers(t)
         /\ m.type \notin {"inv", "merkleblock", "tx", "getdata", "filterload"} =>
              /\ m \notin Matched /\ m \notin Loads
              /\ \A t : /\ m \notin Bearers(t) /\ m \notin Carriers(t)
                        /\ m \notin Tellers(t) /\ m \notin Revealers(t)
         /\ m.type \notin {"tx", "getdata"} => \A t : m \notin Carriers(t)
         /\ m.type # "inv" => \A t : m \notin Tellers(t) /\ m \notin Revealers(t)
         /\ m \in Loads <=> m.type = "filterload"
BY DEF Matched, Loads, Bearers, Carriers, Tellers, Revealers

\* An answer of one message at most, to one at most, that is not about transactions of blocks.
LEMMA SayAnswers ==
  ASSUME NEW s, s = <<>> \/ \E m \in Messages : s = <<m>> /\ m.type \notin {"tx", "getdata"},
         NEW U, NEW T \in SUBSET Tx, NEW r,
         r = <<>> \/ \E m \in Messages : /\ r = <<m>> /\ m.type \in {"inv", "pong"}
                                         /\ m.type = "inv" => m.txs \subseteq U /\ (m.txs = {} \/ m.blocks = <<>>),
         Marks(r) = Marks(s)
  PROVE  s \in Seq(Messages) /\ r \in Seq(Messages) /\ Answers(s, r, T, U)
<1>1. s \in Seq(Messages) /\ r \in Seq(Messages)
  <2>1. PICK S : S = Messages
    OBVIOUS
  <2>2. <<>> \in Seq(S) /\ \A m \in S : <<m>> \in Seq(S)
    OBVIOUS
  <2> QED BY <2>1, <2>2
<1>2. \A t \in Tx : ~Meets(s, Carriers(t))
  <2> TAKE t \in Tx
  <2>1. CASE s = <<>>
    BY <2>1, OfNothing
  <2>2. CASE s # <<>>
    <3>1. PICK m \in Messages : s = <<m>> /\ m.type \notin {"tx", "getdata"}
      BY <2>2
    <3>2. m \notin Carriers(t)
      BY <3>1, Kinds
    <3>3. Meets(<<m>>, Carriers(t)) <=> m \in Carriers(t)
      BY Zenon, MeetsOne
    <3> QED BY <3>1, <3>2, <3>3
  <2> QED BY <2>1, <2>2
<1>3. /\ ~Meets(r, Matched)
      /\ \A t \in Tx : /\ ~Meets(r, Bearers(t))
                       /\ ~Meets(r, Revealers(t)) \/ ~Meets(r, Tellers(t))
                       /\ Meets(r, Tellers(t)) => t \in U
  <2>1. CASE r = <<>>
    BY <2>1, OfNothing
  <2>2. CASE r # <<>>
    <3>1. PICK m \in Messages : /\ r = <<m>> /\ m.type \in {"inv", "pong"}
                                /\ m.type = "inv" => m.txs \subseteq U /\ (m.txs = {} \/ m.blocks = <<>>)
      BY <2>2
    <3>2. \A A : Meets(<<m>>, A) <=> m \in A
      BY Zenon, MeetsOne
    <3>3. m \notin Matched /\ \A t : m \notin Bearers(t)
      BY <3>1, Kinds
    <3>4. ASSUME NEW t \in Tx, m \in Tellers(t) PROVE t \in U /\ m \notin Revealers(t)
      <4>1. m.type = "inv" /\ t \in m.txs
        BY <3>4 DEF Tellers
      <4>2. m.blocks = <<>>
        BY <3>1, <4>1
      <4>3. t \notin TxsOf(m.blocks)
        BY <4>2, OfNothing
      <4> QED BY <3>1, <4>1, <4>3 DEF Revealers
    <3>5. ~Meets(r, Matched) /\ \A t \in Tx : ~Meets(r, Bearers(t))
      BY <3>1, <3>2, <3>3
    <3>6. \A t \in Tx : Meets(r, Tellers(t)) <=> m \in Tellers(t)
      BY <3>1, <3>2
    <3>7. \A t \in Tx : Meets(r, Revealers(t)) <=> m \in Revealers(t)
      BY <3>1, <3>2
    <3> QED BY <3>4, <3>5, <3>6, <3>7
  <2> QED BY <2>1, <2>2
<1>4. Answers(s, r, T, U)
  BY <1>1, <1>2, <1>3, PlainAnswers
<1> QED BY <1>1, <1>4

\* What the node is asked does not tell it of anything.
LEMMA AskedTypes ==
  ASSUME NEW n \in 0 .. Len(Chain), NEW q \in Seq(Asked(n))
  PROVE  /\ q \in Seq(Messages) /\ \A m \in ToSet(q) : m \in Asked(n) /\ m \in Messages
         /\ \A t : ~Meets(q, Tellers(t)) /\ ~Meets(q, Revealers(t))
<1>1. q \in Seq(Messages) /\ ToSet(q) \subseteq Asked(n) /\ Asked(n) \subseteq Messages /\ n \in Nat
  BY AllMessages, Elements, FilterAssumption
<1>2. \A m \in ToSet(q) : m.type # "inv" /\ m \in Messages
  BY <1>1, AskedFacts
<1>3. \A t : \A m \in ToSet(q) : m \notin Tellers(t) /\ m \notin Revealers(t)
  BY <1>2, Kinds
<1>4. \A t : ~Meets(q, Tellers(t)) /\ ~Meets(q, Revealers(t))
  BY <1>1, <1>3, MeetsSet
<1> QED BY <1>1, <1>4

\* What is on its way are messages.
LEMMA WayTypes ==
  ASSUME NodeTypes
  PROVE  /\ fromNode \in Seq(Messages) /\ toNode \in Seq(Messages) /\ way \in Seq(Messages)
         /\ \A m \in ToSet(fromNode) : m \in Heard(mined) /\ m \in Messages
         /\ \A m \in ToSet(toNode) : m \in Asked(mined) /\ m \in Messages
         /\ \A t : ~Meets(toNode, Tellers(t)) /\ ~Meets(toNode, Revealers(t))
         /\ mined \in 0 .. Len(Chain) /\ mined \in Nat
         /\ \A A : Meets(way, A) <=> Meets(fromNode, A) \/ Meets(toNode, A)
<1>1. mined \in 0 .. Len(Chain) /\ fromNode \in Seq(Heard(mined)) /\ toNode \in Seq(Asked(mined)) /\ mined \in Nat
  BY FilterAssumption DEF NodeTypes
<1>2. fromNode \in Seq(Messages) /\ toNode \in Seq(Messages) /\ Heard(mined) \subseteq Messages
  BY <1>1, AllMessages
<1>3. way \in Seq(Messages) /\ \A A : Meets(way, A) <=> Meets(fromNode, A) \/ Meets(toNode, A)
  BY <1>2, MeetsJoin DEF way
<1>4. ToSet(fromNode) \subseteq Heard(mined)
  BY <1>1, Elements
<1>5. /\ \A m \in ToSet(toNode) : m \in Asked(mined) /\ m \in Messages
      /\ \A t : ~Meets(toNode, Tellers(t)) /\ ~Meets(toNode, Revealers(t))
  BY <1>1, AskedTypes
<1> QED BY <1>1, <1>2, <1>3, <1>4, <1>5

\* The transactions of blocks up to some height are mined.
LEMMA TxsMined ==
  ASSUME NEW q \in Seq(1 .. mined), NEW t \in TxsOf(q)
  PROVE  t \in Mined
<1>1. PICK h \in ToSet(q) : t \in ToSet(Chain[h])
  BY DEF TxsOf
<1>2. h \in 1 .. mined
  BY Elements
<1> QED BY <1>1, <1>2 DEF Mined

\* Nothing on its way has a transaction that is not mined.
LEMMA NotMined ==
  ASSUME NodeTypes, WalletTypes, NEW t, t \notin Mined
  PROVE  ~Meets(way, Bearers(t)) /\ ~Meets(way, Revealers(t)) /\ t \notin TxsOf(ctx.known)
<1>1. /\ \A m \in ToSet(fromNode) : m \in Heard(mined)
      /\ \A m \in ToSet(toNode) : m \in Asked(mined)
      /\ mined \in Nat /\ fromNode \in Seq(Messages) /\ toNode \in Seq(Messages)
      /\ \A A : Meets(way, A) <=> Meets(fromNode, A) \/ Meets(toNode, A)
  BY WayTypes
<1>2. \A m \in ToSet(fromNode) : m \notin Bearers(t) /\ m \notin Revealers(t)
  <2> TAKE m \in ToSet(fromNode)
  <2>1. /\ m.type = "inv" => m.blocks \in Seq(1 .. mined)
        /\ m.type = "merkleblock" => m.height \in 1 .. mined
        /\ m.type # "getdata"
    BY <1>1, HeardFacts
  <2>2. m.type = "inv" => t \notin TxsOf(m.blocks)
    BY <2>1, TxsMined
  <2>3. m.type = "merkleblock" => t \notin ToSet(Chain[m.height])
    BY <2>1 DEF Mined
  <2> QED BY <2>1, <2>2, <2>3 DEF Bearers, Revealers
<1>3. \A m \in ToSet(toNode) : m \notin Bearers(t) /\ m \notin Revealers(t)
  <2> TAKE m \in ToSet(toNode)
  <2>1. /\ m.type = "getdata" => m.blocks \in Seq(1 .. mined)
        /\ m.type # "inv" /\ m.type # "merkleblock"
    BY <1>1, AskedFacts
  <2>2. m.type = "getdata" => t \notin TxsOf(m.blocks)
    BY <2>1, TxsMined
  <2> QED BY <2>1, <2>2 DEF Bearers, Revealers
<1>4. t \notin TxsOf(ctx.known)
  BY TxsMined DEF WalletTypes
<1> QED BY <1>1, <1>2, <1>3, <1>4, MeetsSet

\* What is on its way stays in order.
LEMMA NodeWay ==
  ASSUME NodeTypes, WalletTypes, NodeTypes', Updating, NoneAfter(way, Matched, Loads), Known, ToldFirst, Pooled,
         NEW s \in Seq(Messages), NEW r \in Seq(Messages), toNode = s \o toNode', fromNode' = fromNode \o r,
         NEW U \in SUBSET Tx, U \intersect Mined = {}, Answers(s, r, announced \intersect Payments, U),
         UNCHANGED <<ctx, pongs, height>>
  PROVE  Updating' /\ NoneAfter(way', Matched, Loads) /\ Known' /\ ToldFirst'
<1>1. fromNode \in Seq(Messages) /\ toNode \in Seq(Messages)
  BY WayTypes
<1>2. toNode' \in Seq(Messages) /\ \A t : ~Meets(toNode', Tellers(t))
  <2>1. mined' \in 0 .. Len(Chain) /\ toNode' \in Seq(Asked(mined'))
    BY DEF NodeTypes
  <2> QED BY <2>1, AskedTypes
<1>3. PICK q, p, F, N : q = way /\ p = way' /\ F = fromNode /\ N = toNode'
  OBVIOUS
<1>4. Parts(q, F, s, N) /\ Parts(p, F, r, N)
  <2>1. F \in Seq(Messages) /\ N \in Seq(Messages)
    BY <1>1, <1>2, <1>3
  <2>2. q = F \o (s \o N) /\ p = (F \o r) \o N
    BY <1>3 DEF way
  <2>3. F \o (s \o N) = (F \o s) \o N
    BY <2>1
  <2> QED BY <2>1, <2>2, <2>3 DEF Parts
<1>5. PICK T \in SUBSET Tx : T = announced \intersect Payments
  BY DEF Payments
<1>6. /\ \A k \in Int : Within(q, k) => Within(p, k)
      /\ NoneAfter(q, Matched, Loads) => NoneAfter(p, Matched, Loads)
      /\ \A t \in T : Comes(t, q) => Comes(t, p)
      /\ \A known : \A t \in Tx :
           /\ ToldBefore(t, q, known) /\ ~Meets(N, Tellers(t))
           /\ t \in U => ~Meets(q, Bearers(t)) /\ ~Meets(q, Revealers(t)) /\ t \notin TxsOf(known)
           => ToldBefore(t, p, known)
  BY <1>4, <1>5, WayStep
<1>7. Updating'
  <2>1. Updates(q, pongs, ctx.needsUpdate)
    BY <1>3 DEF Updating
  <2>2. \A k \in 1 .. Len(pongs) : k \in Int
    OBVIOUS
  <2>3. Updates(p, pongs, ctx.needsUpdate)
    BY <1>6, <2>1, <2>2 DEF Updates
  <2> QED BY <1>3, <2>3 DEF Updating
<1>8. NoneAfter(way', Matched, Loads)
  BY <1>3, <1>6
<1>9. Known'
  <2>1. ctx.knownTx \intersect Payments \subseteq T
    BY <1>5 DEF Pooled
  <2>2. \A t \in ctx.knownTx \intersect Payments : t \in Registered(height) \/ Comes(t, p)
    BY <1>3, <1>6, <2>1 DEF Known
  <2> QED BY <1>3, <2>2 DEF Known
<1>10. ToldFirst'
  <2>1. \A t \in U : ~Meets(q, Bearers(t)) /\ ~Meets(q, Revealers(t)) /\ t \notin TxsOf(ctx.known)
    BY <1>3, NotMined
  <2>2. \A t \in Tx : ToldBefore(t, q, ctx.known)
    BY <1>3 DEF ToldFirst
  <2>3. \A t \in Tx : ToldBefore(t, p, ctx.known)
    BY <1>2, <1>3, <1>6, <2>1, <2>2
  <2> QED BY <1>3, <2>3 DEF ToldFirst
<1> QED BY <1>7, <1>8, <1>9, <1>10

\* What the node adds to a filter does not change what it pays attention to.
LEMMA AfterFacts ==
  ASSUME NEW f \in Filters, NEW X \in SUBSET Tx
  PROVE  After(f, X) \in Filters /\ After(f, X).addrs = f.addrs
<1>1. f.addrs \in Nat /\ f.outs \in SUBSET Payments
  BY DEF Filters
<1>2. {t \in X : PaysTo(f, t)} \subseteq Payments
  BY DEF PaysTo, Payments
<1>3. PICK o : o = f.outs \union {t \in X : PaysTo(f, t)}
  OBVIOUS
<1>4. After(f, X) = [f EXCEPT !.outs = o] /\ o \in SUBSET Payments
  BY <1>1, <1>2, <1>3 DEF After
<1> QED BY <1>1, <1>4 DEF Filters

\* A payment matches for what it pays.
LEMMA MatchesPays ==
  ASSUME Premises, NEW g \in Filters, NEW t \in Payments, Matches(g, t)
  PROVE  \E i \in Pays[t] : i < g.addrs
<1>1. Spends[t] \intersect g.outs = {}
  BY DEF Premises, Ordinary, Filters
<1> QED BY <1>1 DEF Matches, PaysTo

\* The transactions of some of the blocks.
LEMMA TxsSome ==
  ASSUME NEW n \in 0 .. Len(Chain), NEW q \in Seq(1 .. n), NEW k \in DOMAIN q
  PROVE  TxsOf(SubSeq(q, 1, k)) \in SUBSET Tx /\ TxsOf(q) \in SUBSET Tx
<1>1. \A h \in 1 .. n : ToSet(Chain[h]) \subseteq Tx
  BY ChainFacts
<1>2. SubSeq(q, 1, k) \in Seq(1 .. n)
  <2>1. Len(q) \in Nat /\ k \in 1 .. Len(q) /\ DOMAIN q = 1 .. Len(q)
    OBVIOUS
  <2>2. \A i \in 1 .. k : q[i] \in 1 .. n
    BY <2>1, Elements
  <2>3. SubSeq(q, 1, k) = [i \in 1 .. k |-> q[i]]
    BY <2>1
  <2> QED BY <2>1, <2>2, <2>3
<1>3. ToSet(SubSeq(q, 1, k)) \subseteq 1 .. n /\ ToSet(q) \subseteq 1 .. n
  BY <1>2, Elements
<1> QED BY <1>1, <1>3 DEF TxsOf

\* What the answer to a request for blocks consists of.
LEMMA ReplyFacts ==
  ASSUME NEW n \in 0 .. Len(Chain), NEW f \in Filters, NEW q \in Seq(1 .. n), NEW y \in ToSet(BlockReplies(f, q))
  PROVE  /\ y.type \in {"merkleblock", "tx"}
         /\ \E g \in Filters :
              /\ g.addrs = f.addrs
              /\ y.type = "merkleblock" => /\ y.height \in ToSet(q)
                                           /\ y.txs = {t \in ToSet(Chain[y.height]) : Matches(g, t)}
              /\ y.type = "tx" => Matches(g, y.tx)
<1>1. PICK r : r = BlockReplies(f, q)
  OBVIOUS
<1>2. r \in Seq(Heard(n)) /\ \A i \in 1 .. Len(r) : Answer(f, q, r[i])
  BY <1>1, BlockRepliesFacts
<1>3. PICK i \in DOMAIN r : y = r[i]
  BY <1>1, <1>2, Elements
<1>4. Answer(f, q, y)
  <2>1. i \in 1 .. Len(r)
    BY <1>2, <1>3
  <2> QED BY <1>2, <1>3, <2>1
<1>5. PICK k \in DOMAIN q : Told(After(f, TxsOf(SubSeq(q, 1, k))), q[k], y)
  BY <1>4 DEF Answer
<1>6. PICK g : g = After(f, TxsOf(SubSeq(q, 1, k)))
  OBVIOUS
<1>7. g \in Filters /\ g.addrs = f.addrs
  BY <1>6, TxsSome, AfterFacts
<1>8. q[k] \in ToSet(q)
  BY Elements
<1>9. Told(g, q[k], y)
  BY <1>5, <1>6
<1>10. \/ y.type = "merkleblock" /\ y.height = q[k] /\ y.txs = {t \in ToSet(Chain[q[k]]) : Matches(g, t)}
       \/ y.type = "tx" /\ Matches(g, y.tx)
  BY <1>9 DEF Told
<1> QED BY <1>7, <1>8, <1>10

\* A request for nothing is answered with nothing.
LEMMA NoReply ==
  ASSUME NEW n \in 0 .. Len(Chain), NEW f, NEW q \in Seq(1 .. n), q = <<>>
  PROVE  BlockReplies(f, q) = <<>>
<1>1. PICK r : r = BlockReplies(f, q)
  OBVIOUS
<1>2. r \in Seq(Heard(n)) /\ \A i \in 1 .. Len(r) : Answer(f, q, r[i])
  BY <1>1, BlockRepliesFacts
<1>3. DOMAIN q = {}
  OBVIOUS
<1>4. \A i \in 1 .. Len(r) : FALSE
  BY <1>2, <1>3 DEF Answer
<1>5. Len(r) \in Nat
  BY <1>2
<1>6. Len(r) = 0
  <2> SUFFICES ASSUME Len(r) # 0 PROVE FALSE
    OBVIOUS
  <2>1. 1 \in 1 .. Len(r)
    BY <1>5
  <2> QED BY <1>4, <2>1
<1> QED BY <1>1, <1>2, <1>6

\* What messages of some types are not among.
LEMMA TypesMeet ==
  ASSUME NEW q \in Seq(Messages), NEW K, \A y \in ToSet(q) : y.type \in K
  PROVE  /\ "filterload" \notin K => ~Meets(q, Loads)
         /\ "merkleblock" \notin K /\ "filterload" \notin K /\ "getdata" \notin K => ~Meets(q, Matched)
         /\ "merkleblock" \notin K /\ "getdata" \notin K => \A t : ~Meets(q, Bearers(t))
         /\ "tx" \notin K /\ "getdata" \notin K => \A t : ~Meets(q, Carriers(t))
         /\ "inv" \notin K => \A t : ~Meets(q, Tellers(t)) /\ ~Meets(q, Revealers(t))
<1>1. \A A : (\A y \in ToSet(q) : y \notin A) => ~Meets(q, A)
  BY MeetsSet
<1>2. ASSUME "filterload" \notin K PROVE ~Meets(q, Loads)
  <2>1. \A y \in ToSet(q) : y \notin Loads
    BY <1>2 DEF Loads
  <2> QED BY <1>1, <2>1
<1>3. ASSUME "merkleblock" \notin K, "filterload" \notin K, "getdata" \notin K PROVE ~Meets(q, Matched)
  <2>1. \A y \in ToSet(q) : y \notin Matched
    BY <1>3 DEF Matched
  <2> QED BY <1>1, <2>1
<1>4. ASSUME "merkleblock" \notin K, "getdata" \notin K, NEW t PROVE ~Meets(q, Bearers(t))
  <2>1. \A y \in ToSet(q) : y \notin Bearers(t)
    BY <1>4 DEF Bearers
  <2> QED BY <1>1, <2>1
<1>5. ASSUME "tx" \notin K, "getdata" \notin K, NEW t PROVE ~Meets(q, Carriers(t))
  <2>1. \A y \in ToSet(q) : y \notin Carriers(t)
    BY <1>5 DEF Carriers
  <2> QED BY <1>1, <2>1
<1>6. ASSUME "inv" \notin K, NEW t PROVE ~Meets(q, Tellers(t)) /\ ~Meets(q, Revealers(t))
  <2>1. \A y \in ToSet(q) : y \notin Tellers(t) /\ y \notin Revealers(t)
    BY <1>6 DEF Tellers, Revealers
  <2> QED BY <1>1, <2>1
<1> QED BY <1>2, <1>3, <1>4, <1>5, <1>6

\* Transactions that are served.
Serves(a, V) == \E txs : txs = SetToSeq(V) /\ a = [i \in DOMAIN txs |-> TxMessage(txs[i])]

\* They are said, and each is one of V.
LEMMA ServedFacts ==
  ASSUME NEW n \in Nat, NEW V \in SUBSET Tx, NEW a, Serves(a, V)
  PROVE  /\ Said(n, a, 0) /\ a \in Seq(Heard(n))
         /\ \A y \in ToSet(a) : y.type = "tx" /\ y.tx \in V
         /\ \A t \in V : Meets(a, Carriers(t))
<1>0. PICK txs : txs = SetToSeq(V) /\ a = [i \in DOMAIN txs |-> TxMessage(txs[i])]
  BY DEF Serves
<1>1. Said(n, a, 0) /\ a \in Seq(Heard(n))
  BY <1>0, TxSaid, Zenon DEF Said
<1>2. IsFiniteSet(V)
  BY FS_Subset, FilterAssumption
<1>3. txs \in Seq(V) /\ \A t \in V : \E i \in DOMAIN txs : txs[i] = t
  BY <1>0, <1>2, SetToSeqFacts
<1>4. DOMAIN a = DOMAIN txs /\ \A i \in DOMAIN txs : a[i] = TxMessage(txs[i])
  BY <1>0
<1>5. DOMAIN a = 1 .. Len(a)
  BY <1>1
<1>6. \A t : TxMessage(t).type = "tx" /\ TxMessage(t).tx = t
  BY DEF TxMessage
<1>7. ASSUME NEW y \in ToSet(a) PROVE y.type = "tx" /\ y.tx \in V
  <2>1. PICK i \in DOMAIN a : y = a[i]
    BY <1>7 DEF ToSet
  <2>2. txs[i] \in V
    BY <1>3, <1>4, <2>1
  <2> QED BY <1>4, <1>6, <2>1, <2>2
<1>8. ASSUME NEW t \in V PROVE Meets(a, Carriers(t))
  <2>1. PICK i \in DOMAIN txs : txs[i] = t
    BY <1>3
  <2>2. i \in 1 .. Len(a) /\ a[i] = TxMessage(t)
    BY <1>4, <1>5, <2>1
  <2>3. TxMessage(t) \in Messages
    <3>1. t \in Tx
      OBVIOUS
    <3>2. TxMessage(t) \in [type : {"tx"}, tx : Tx]
      BY <3>1 DEF TxMessage
    <3> QED BY <3>2 DEF Messages, Heard
  <2>4. TxMessage(t) \in Carriers(t)
    BY <1>6, <2>3 DEF Carriers
  <2> QED BY <2>2, <2>4 DEF Meets
<1> QED BY <1>1, <1>7, <1>8

\* What the parts of the answer to a getdata have.
LEMMA GetDataParts ==
  ASSUME NEW n \in 0 .. Len(Chain), NEW m \in Asked(n), m.type = "getdata", NEW f \in Filters,
         NEW a \in Seq(Messages), \A y \in ToSet(a) : y.type = "tx",
         NEW b, b = BlockReplies(f, m.blocks),
         NEW c, c = <<>> \/ \E h \in 1 .. n : c = <<BlockInv(<<h>>)>>,
         NEW r, r = (a \o b) \o c
  PROVE  /\ r \in Seq(Messages) /\ Parts(r, a, b, c)
         /\ ~Meets(r, Loads) /\ (Meets(r, Matched) => m \in Matched)
         /\ \A t : /\ Meets(r, Bearers(t)) => m \in Bearers(t)
                   /\ ~Meets(a, Bearers(t)) /\ ~Meets(r, Tellers(t))
<1>1. n \in Nat /\ m.blocks \in Seq(1 .. n) /\ m \in Messages
  BY AskedFacts, AllMessages, FilterAssumption
<1>2. b \in Seq(Messages) /\ \A y \in ToSet(b) : y.type \in {"merkleblock", "tx"}
  <2>1. b \in Seq(Heard(n))
    BY <1>1, BlockRepliesFacts
  <2>2. \A y \in ToSet(b) : y.type \in {"merkleblock", "tx"}
    BY <1>1, ReplyFacts
  <2> QED BY <2>1, <2>2, AllMessages
<1>3. c \in Seq(Messages) /\ \A y \in ToSet(c) : y.type = "inv" /\ y.txs = {}
  <2>1. CASE c = <<>>
    <3>1. \A S : <<>> \in Seq(S)
      OBVIOUS
    <3> QED BY <2>1, <3>1, OfNothing
  <2>2. CASE c # <<>>
    <3>1. PICK h \in 1 .. n : c = <<BlockInv(<<h>>)>>
      BY <2>2
    <3>2. PICK y : y = BlockInv(<<h>>)
      OBVIOUS
    <3>3. y.type = "inv" /\ y.txs = {}
      BY <3>2 DEF BlockInv
    <3>4. <<h>> \in Seq(1 .. n)
      OBVIOUS
    <3>5. c \in Seq(Heard(n))
      BY <1>1, <3>1, <3>4, MessagesSaid DEF Said
    <3>6. ToSet(<<y>>) = {y}
      BY DEF ToSet
    <3> QED BY <3>1, <3>2, <3>3, <3>5, <3>6, AllMessages
  <2> QED BY <2>1, <2>2
<1>4. r \in Seq(Messages) /\ Parts(r, a, b, c)
  <2>1. a \o b \in Seq(Messages)
    BY <1>2, Join
  <2> QED BY <1>2, <1>3, <2>1, Join DEF Parts
<1>5. \A A : Meets(r, A) <=> Meets(a, A) \/ Meets(b, A) \/ Meets(c, A)
  BY <1>4, MeetsThree
<1>6. /\ ~Meets(a, Loads) /\ ~Meets(a, Matched)
      /\ \A t : ~Meets(a, Bearers(t)) /\ ~Meets(a, Tellers(t))
  <2>1. PICK K : K = {"tx"}
    OBVIOUS
  <2>2. \A y \in ToSet(a) : y.type \in K
    BY <2>1
  <2>3. /\ "filterload" \notin K /\ "merkleblock" \notin K /\ "getdata" \notin K /\ "inv" \notin K
    BY <2>1
  <2> QED BY <2>2, <2>3, TypesMeet, Zenon
<1>7. ~Meets(b, Loads) /\ \A t : ~Meets(b, Tellers(t))
  <2>1. PICK K : K = {"merkleblock", "tx"}
    OBVIOUS
  <2>2. \A y \in ToSet(b) : y.type \in K
    BY <1>2, <2>1
  <2>3. /\ "filterload" \notin K /\ "inv" \notin K
    BY <2>1
  <2> QED BY <1>2, <2>2, <2>3, TypesMeet, Zenon
<1>8. ~Meets(c, Loads) /\ ~Meets(c, Matched) /\ \A t : ~Meets(c, Bearers(t))
  <2>1. PICK K : K = {"inv"}
    OBVIOUS
  <2>2. \A y \in ToSet(c) : y.type \in K
    BY <1>3, <2>1
  <2>3. /\ "filterload" \notin K /\ "merkleblock" \notin K /\ "getdata" \notin K
    BY <2>1
  <2> QED BY <1>3, <2>2, <2>3, TypesMeet, Zenon
<1>9. \A t : ~Meets(c, Tellers(t))
  <2>1. \A t : \A y \in ToSet(c) : y \notin Tellers(t)
    BY <1>3 DEF Tellers
  <2> QED BY <1>3, <2>1, MeetsSet
<1>10. ASSUME Meets(r, Matched) PROVE m \in Matched
  <2>1. Meets(b, Matched)
    BY <1>5, <1>6, <1>8, <1>10
  <2>2. m.blocks # <<>>
    <3> SUFFICES ASSUME m.blocks = <<>> PROVE FALSE
      OBVIOUS
    <3>1. b = <<>>
      BY <1>1, NoReply
    <3> QED BY <2>1, <3>1, OfNothing
  <2> QED BY <1>1, <2>2 DEF Matched
<1>11. ASSUME NEW t, Meets(r, Bearers(t)) PROVE m \in Bearers(t)
  <2>1. PICK B : B = Bearers(t)
    OBVIOUS
  <2>2. Meets(b, B)
    BY <1>5, <1>6, <1>8, <1>11, <2>1
  <2>3. PICK y \in ToSet(b) : y \in B
    BY <1>2, <2>2, MeetsSet
  <2>4. y.type = "merkleblock" /\ t \in ToSet(Chain[y.height])
    BY <1>2, <2>1, <2>3 DEF Bearers
  <2>5. y.height \in ToSet(m.blocks)
    BY <1>1, <2>3, <2>4, ReplyFacts
  <2>6. t \in TxsOf(m.blocks)
    BY <2>4, <2>5 DEF TxsOf
  <2> QED BY <1>1, <2>6 DEF Bearers
<1>12. ~Meets(r, Loads) /\ \A t : ~Meets(r, Tellers(t))
  BY <1>5, <1>6, <1>7, <1>8, <1>9
<1> QED BY <1>4, <1>6, <1>10, <1>11, <1>12

\* What is served, replied and continued to a getdata m, for the asked transactions T.
Serving(n, m, f, V, T, a, b, c, r, s) ==
  /\ n \in 0 .. Len(Chain) /\ m \in Asked(n) /\ m.type = "getdata" /\ f \in Filters
  /\ V \in SUBSET Tx /\ Serves(a, V) /\ T \in SUBSET Tx /\ m.txs \intersect T \subseteq V
  /\ b = BlockReplies(f, m.blocks)
  /\ c = <<>> \/ \E h \in 1 .. n : c = <<BlockInv(<<h>>)>>
  /\ r = (a \o b) \o c /\ s = <<m>>

\* A message alone that is preceded precedes itself.
LEMMA PrecededOne ==
  ASSUME NEW m, NEW A, NEW B, Preceded(<<m>>, A, B), m \in B
  PROVE  m \in A
<1>1. 0 \in Int
  OBVIOUS
<1> QED BY <1>1, OfOne

\* A getdata is answered in order.
LEMMA GetDataAnswers ==
  ASSUME NEW n, NEW m, NEW f, NEW V, NEW T, NEW a, NEW b, NEW c, NEW r, NEW s,
         Serving(n, m, f, V, T, a, b, c, r, s)
  PROVE  s \in Seq(Messages) /\ r \in Seq(Messages) /\ Answers(s, r, T, {})
<1> /\ n \in 0 .. Len(Chain) /\ m \in Asked(n) /\ m.type = "getdata" /\ f \in Filters
    /\ V \in SUBSET Tx /\ Serves(a, V) /\ T \in SUBSET Tx /\ m.txs \intersect T \subseteq V
  BY Zenon DEF Serving
<1> b = BlockReplies(f, m.blocks)
  BY Zenon DEF Serving
<1> c = <<>> \/ \E h \in 1 .. n : c = <<BlockInv(<<h>>)>>
  BY Zenon DEF Serving
<1> r = (a \o b) \o c
  BY Zenon DEF Serving
<1> s = <<m>>
  BY Zenon DEF Serving
<1>1. n \in Nat /\ m.blocks \in Seq(1 .. n) /\ m.txs \subseteq Tx /\ m \in Messages /\ m.type \notin Mark
  BY AskedFacts, AllMessages, FilterAssumption DEF Mark
<1>2. /\ Said(n, a, 0) /\ a \in Seq(Messages)
      /\ \A y \in ToSet(a) : y.type = "tx"
      /\ \A t \in V : Meets(a, Carriers(t))
  <2>1. /\ Said(n, a, 0) /\ a \in Seq(Heard(n))
        /\ \A y \in ToSet(a) : y.type = "tx" /\ y.tx \in V
        /\ \A t \in V : Meets(a, Carriers(t))
    BY <1>1, ServedFacts
  <2>2. a \in Seq(Messages)
    BY <2>1, AllMessages
  <2> QED BY <2>1, <2>2
<1>3. /\ r \in Seq(Messages) /\ Parts(r, a, b, c)
      /\ ~Meets(r, Loads) /\ (Meets(r, Matched) => m \in Matched)
      /\ \A t : /\ Meets(r, Bearers(t)) => m \in Bearers(t)
                /\ ~Meets(a, Bearers(t)) /\ ~Meets(r, Tellers(t))
  BY <1>2, GetDataParts
<1>4. Marks(r) = 0
  <2>1. Said(n, b, 0)
    BY <1>1, RepliesSaid
  <2>2. Said(n, c, 0)
    <3>1. \A h \in 1 .. n : <<h>> \in Seq(1 .. n)
      OBVIOUS
    <3> QED BY <1>1, <3>1, MessagesSaid, Silent
  <2>3. Said(n, a \o b, 0 + 0)
    BY <1>1, <1>2, <2>1, SaidJoin
  <2>4. Said(n, r, (0 + 0) + 0)
    BY <1>1, <2>2, <2>3, SaidJoin
  <2> QED BY <2>4 DEF Said
<1>5. Marks(s) = 0 /\ s \in Seq(Messages)
  <2>1. PICK S : S = Messages
    OBVIOUS
  <2>2. <<m>> \in Seq(S)
    BY <1>1, <2>1
  <2> QED BY <1>1, <2>1, <2>2, MarksOne
<1>6. ASSUME NEW k \in Int, Within(s, k) PROVE Within(r, k)
  <2>1. CASE m \in Matched
    <3>1. 0 < k
      BY <1>6, <2>1, OfOne
    <3> QED BY <1>3, <1>4, <3>1, WithinAll
  <2>2. CASE m \notin Matched
    BY <1>3, <2>2, WithinNone
  <2> QED BY <2>1, <2>2
<1>7. \A A : Meets(s, A) <=> m \in A
  BY Zenon, MeetsOne
<1>8. ASSUME NEW t \in T, Meets(s, Carriers(t)) PROVE Meets(a, Carriers(t))
  <2>1. m \in Carriers(t)
    BY <1>7, <1>8
  <2>2. t \in m.txs
    BY <2>1 DEF Carriers
  <2> QED BY <1>2, <2>2
<1>9. \A A : Meets(a, A) => Meets(r, A)
  BY <1>3, MeetsThree
<1>10. ASSUME NEW t \in T, Preceded(s, Carriers(t), Bearers(t)) PROVE Preceded(r, Carriers(t), Bearers(t))
  <2>1. CASE m \notin Bearers(t)
    BY <1>3, <2>1, OfNone
  <2>2. CASE m \in Bearers(t)
    <3>1. m \in Carriers(t)
      <4>1. Preceded(<<m>>, Carriers(t), Bearers(t))
        BY <1>10, Zenon
      <4> QED BY <2>2, <4>1, PrecededOne, Zenon
    <3>2. Meets(a, Carriers(t))
      BY <1>7, <1>8, <3>1
    <3>3. Preceded(a, Carriers(t), Bearers(t))
      BY <1>2, <1>3, OfNone
    <3> QED BY <1>3, <3>2, <3>3, PrecededThree
  <2> QED BY <2>1, <2>2
<1>11. \A t \in Tx : NoneAfter(r, Revealers(t), Tellers(t))
  BY <1>3, OfNone
<1>12. \A t \in T : Meets(s, Carriers(t)) => Meets(r, Carriers(t))
  BY <1>8, <1>9
<1>13. \A t \in Tx : Meets(r, Bearers(t)) => Meets(s, Bearers(t))
  BY <1>3, <1>7
<1>14. (Meets(r, Matched) => Meets(s, Matched)) /\ Marks(r) = Marks(s)
  BY <1>3, <1>4, <1>5, <1>7
<1> QED BY <1>3, <1>5, <1>6, <1>10, <1>11, <1>12, <1>13, <1>14 DEF Answers

\* The filter that the node has, or will have.
FilterOk ==
  /\ Loaded
  /\ connected /\ bloomFilter # None => FilterIs(bloomFilter, filter, toNode)
  /\ FilterBelow(addrs, filter, toNode)

\* The first of a sequence and the others.
LEMMA HeadSet ==
  ASSUME NEW S, NEW q \in Seq(S), q # <<>>
  PROVE  ToSet(q) = {Head(q)} \union ToSet(Tail(q))
<1>1. /\ Head(q) = q[1] /\ 1 \in DOMAIN q /\ Len(q) \in Nat
      /\ DOMAIN q = 1 .. Len(q) /\ DOMAIN Tail(q) = 1 .. Len(q) - 1
      /\ \A i \in 1 .. Len(q) - 1 : Tail(q)[i] = q[i + 1]
  BY Cut
<1>2. PICK p : p = Tail(q)
  OBVIOUS
<1>3. ToSet(q) \subseteq {Head(q)} \union ToSet(p)
  <2> SUFFICES ASSUME NEW i \in 1 .. Len(q), i # 1 PROVE q[i] \in ToSet(p)
    BY <1>1 DEF ToSet
  <2>1. i - 1 \in 1 .. Len(q) - 1 /\ (i - 1) + 1 = i
    BY <1>1
  <2>2. p[i - 1] = q[i]
    BY <1>1, <1>2, <2>1
  <2> QED BY <1>1, <1>2, <2>1, <2>2 DEF ToSet
<1>4. ToSet(p) \subseteq ToSet(q)
  <2> SUFFICES ASSUME NEW i \in 1 .. Len(q) - 1 PROVE p[i] \in ToSet(q)
    BY <1>1, <1>2 DEF ToSet
  <2>1. i + 1 \in DOMAIN q /\ p[i] = q[i + 1]
    BY <1>1, <1>2
  <2> QED BY <2>1 DEF ToSet
<1>5. Head(q) \in ToSet(q)
  BY <1>1 DEF ToSet
<1> QED BY <1>2, <1>3, <1>4, <1>5

\* What the node says of blocks and transactions, as the manager has its filter.
Right(y, X) ==
  /\ y.type = "merkleblock" => /\ bloomFilter # None => Ours(bloomFilter, y.height) \subseteq y.txs
                               /\ \A t \in y.txs \intersect Payments : Pays2Wallet(t)
  /\ y.type = "tx" /\ y.tx \in Payments => Pays2Wallet(y.tx)
  /\ y.type = "inv" => y.txs \subseteq X

\* A step of the node.
LEMMA NodeKeepsRest ==
  ASSUME KInv, IInv',
         NEW s \in Seq(Messages), NEW r \in Seq(Messages), toNode = s \o toNode', fromNode' = fromNode \o r,
         NEW U \in SUBSET Tx, U \intersect Mined = {}, Answers(s, r, announced \intersect Payments, U),
         UNCHANGED <<connected, ctx, pongs, bloomFilter, lastBlock, orphans, relayed, height, addrs>>,
         FilterOk', \A y \in ToSet(r) : Right(y, announced'), announced \subseteq announced',
         \A t \in announced' \intersect Payments : Pays2Wallet(t), pool' \intersect Mined' = {}
  PROVE  KInv'
<1>1. /\ fromNode \in Seq(Messages) /\ toNode \in Seq(Messages) /\ toNode' \in Seq(Messages)
      /\ NodeTypes /\ WalletTypes /\ NodeTypes'
  <2>1. NodeTypes /\ WalletTypes /\ NodeTypes'
    BY DEF KInv, IInv
  <2>2. mined' \in 0 .. Len(Chain) /\ toNode' \in Seq(Asked(mined'))
    BY <2>1 DEF NodeTypes
  <2> QED BY <2>1, <2>2, WayTypes, AskedTypes
<1>2. ToSet(fromNode') = ToSet(fromNode) \union ToSet(r) /\ ToSet(toNode') \subseteq ToSet(toNode)
  BY <1>1, JoinSet
<1>3. Updating' /\ NoneAfter(way', Matched, Loads) /\ Known' /\ ToldFirst'
  <2>1. UNCHANGED <<ctx, pongs, height>>
    OBVIOUS
  <2> QED BY <1>1, <2>1, NodeWay DEF KInv, InUse
<1>4. Loaded' /\ InUse'
  BY <1>3 DEF FilterOk, InUse
<1>5. Live'
  <2>1. PICK n : n = bloomFilter
    OBVIOUS
  <2> SUFFICES ASSUME n # None PROVE MatchedBy(n, fromNode', ctx.current, relayed, orphans)
    BY <2>1 DEF Live
  <2>2. MatchedBy(n, fromNode, ctx.current, relayed, orphans)
    BY <2>1 DEF KInv, Live
  <2>3. \A m \in ToSet(r) : m.type = "merkleblock" => Ours(n, m.height) \subseteq m.txs
    BY <2>1 DEF Right
  <2> QED BY <1>2, <2>2, <2>3 DEF MatchedBy
<1>6. \A t : Pays2Wallet(t)' <=> Pays2Wallet(t)
  BY DEF Pays2Wallet
<1>7. Noted'
  <2>1. Noted
    BY DEF KInv
  <2>2. \A m \in ToSet(fromNode') : m.type = "tx" /\ m.tx \in Payments => Pays2Wallet(m.tx)
    BY <1>2, <2>1 DEF Noted, Right
  <2>3. \A m \in ToSet(fromNode') : m.type = "merkleblock" => \A t \in m.txs \intersect Payments : Pays2Wallet(t)
    BY <1>2, <2>1 DEF Noted, Right
  <2> QED BY <1>6, <2>1, <2>2, <2>3 DEF Noted
<1>8. Pooled'
  <2>1. Pooled
    BY DEF KInv
  <2>2. ctx'.knownTx \subseteq announced'
    BY <2>1 DEF Pooled
  <2>3. \A m \in ToSet(fromNode') : m.type = "inv" => m.txs \subseteq announced'
    BY <1>2, <2>1 DEF Pooled, Right
  <2>4. \A m \in ToSet(toNode') : m.type = "getdata" => m.txs \subseteq announced'
    BY <1>2, <2>1 DEF Pooled
  <2>5. \A t \in announced' \intersect Payments : Pays2Wallet(t)'
    BY <1>6
  <2> QED BY <2>2, <2>3, <2>4, <2>5 DEF Pooled
<1>9. PaymentsKept' /\ Generated'
  BY DEF KInv, PaymentsKept, Generated
<1> QED BY <1>3, <1>4, <1>5, <1>7, <1>8, <1>9 DEF KInv

\* What the node reads, and the filter it has then.
LEMMA NodeReadsFilter ==
  ASSUME KInv, NEW type, NodeReads(type), UNCHANGED <<connected, bloomFilter, addrs>>
  PROVE  /\ Head(toNode) \in Asked(mined) /\ Head(toNode) \in Messages /\ Head(toNode).type = type
         /\ toNode = <<Head(toNode)>> \o toNode' /\ mined \in 0 .. Len(Chain)
         /\ type = "filterload" => (filter' = Head(toNode).filter => FilterOk')
         /\ type # "filterload" =>
              /\ filter \in Filters /\ filter.addrs <= addrs
              /\ filter' \in Filters /\ filter'.addrs = filter.addrs => FilterOk'
         /\ type = "getdata" /\ Head(toNode).blocks # <<>> /\ bloomFilter # None => filter.addrs = bloomFilter
<1>1. /\ toNode # <<>> /\ Head(toNode) \in Asked(mined) /\ Head(toNode).type = type
      /\ toNode' \in Seq(Asked(mined)) /\ mined \in Nat /\ mined \in 0 .. Len(Chain)
      /\ toNode \in Seq(Messages) /\ fromNode \in Seq(Messages) /\ Head(toNode) \in Messages
  <2>1. NodeTypes
    BY DEF KInv, IInv
  <2>2. mined \in 0 .. Len(Chain)
    BY <2>1 DEF NodeTypes
  <2> QED BY <2>1, <2>2, ReadByNode, WayTypes, AllMessages
<1>2. toNode' = Tail(toNode) /\ toNode = <<Head(toNode)>> \o toNode'
  <2>1. toNode' = Tail(toNode)
    BY DEF NodeReads
  <2> QED BY <1>1, <2>1, Cut
<1>3. connected
  BY <1>1 DEF KInv, IInv, Closed
<1>4. PICK m : m = Head(toNode)
  OBVIOUS
<1>5. ToSet(toNode) = {m} \union ToSet(toNode')
  BY <1>1, <1>2, <1>4, HeadSet
<1>6. Loaded /\ InUse /\ addrs \in Nat
  BY DEF KInv, IInv, Coverage
<1>7. ASSUME type = "filterload", filter' = m.filter PROVE FilterOk'
  <2>1. m.filter \in Filters /\ m.filter # None
    <3>1. m.filter \in Filters
      BY <1>1, <1>4, <1>7, AskedFacts
    <3>2. None \notin Filters
      <4>1. Filters \subseteq [addrs : Nat, outs : SUBSET Tx]
        BY DEF Filters, Payments
      <4> QED BY <4>1, FilterAssumption
    <3> QED BY <3>1, <3>2
  <2>2. Loaded'
    BY <1>7, <2>1 DEF Loaded
  <2>3. bloomFilter # None => FilterIs(bloomFilter, filter', toNode')
    <3> SUFFICES ASSUME bloomFilter # None PROVE FilterIs(bloomFilter, filter', toNode')
      OBVIOUS
    <3>1. FilterIs(bloomFilter, filter, toNode)
      BY <1>3, <1>6 DEF InUse
    <3> QED BY <1>1, <1>4, <1>5, <1>7, <2>1, <3>1 DEF FilterIs
  <2>4. FilterBelow(addrs, filter', toNode')
    <3>1. FilterBelow(addrs, filter, toNode)
      BY <1>6 DEF InUse
    <3> QED BY <1>1, <1>4, <1>5, <1>7, <3>1 DEF FilterBelow
  <2> QED BY <2>2, <2>3, <2>4 DEF FilterOk
<1>8. ASSUME type # "filterload" PROVE filter \in Filters /\ filter # None /\ filter.addrs <= addrs
  <2>1. filter \in Filters \union {None} /\ filter # None
    BY <1>1, <1>3, <1>6, <1>8 DEF Loaded
  <2> QED BY <1>6, <2>1 DEF InUse, FilterBelow
<1>9. ASSUME type # "filterload", filter' \in Filters, filter'.addrs = filter.addrs PROVE FilterOk'
  <2>1. filter' # None
    <3>1. Filters \subseteq [addrs : Nat, outs : SUBSET Tx]
      BY DEF Filters, Payments
    <3> QED BY <1>9, <3>1, FilterAssumption
  <2>2. Loaded'
    BY <1>9, <2>1 DEF Loaded
  <2>3. bloomFilter # None => FilterIs(bloomFilter, filter', toNode')
    <3> SUFFICES ASSUME bloomFilter # None PROVE FilterIs(bloomFilter, filter', toNode')
      OBVIOUS
    <3>1. FilterIs(bloomFilter, filter, toNode)
      BY <1>3, <1>6 DEF InUse
    <3> QED BY <1>1, <1>4, <1>5, <1>9, <2>1, <3>1 DEF FilterIs
  <2>4. FilterBelow(addrs, filter', toNode')
    <3>1. FilterBelow(addrs, filter, toNode)
      BY <1>6 DEF InUse
    <3> QED BY <1>5, <1>8, <1>9, <3>1 DEF FilterBelow
  <2> QED BY <2>2, <2>3, <2>4 DEF FilterOk
<1>10. ASSUME type = "getdata", m.blocks # <<>>, bloomFilter # None PROVE filter.addrs = bloomFilter
  <2>1. FilterIs(bloomFilter, filter, toNode)
    BY <1>3, <1>6, <1>10 DEF InUse
  <2>2. m \in Matched
    BY <1>1, <1>4, <1>10 DEF Matched
  <2>3. NoneAfter(toNode, Matched, Loads)
    <3>1. NoneAfter(fromNode \o toNode, Matched, Loads)
      BY <1>6 DEF InUse, way
    <3> QED BY <1>1, <3>1, NoneAfterJoin
  <2>4. \A y \in ToSet(toNode') : y \notin Loads
    <3>1. <<m>> \in Seq(Messages) /\ toNode' \in Seq(Messages)
      <4>1. PICK S : S = Messages
        OBVIOUS
      <4>2. m \in S
        BY <1>1, <1>4, <4>1
      <4>3. <<m>> \in Seq(S)
        BY <4>2
      <4> QED BY <1>1, <1>2, <4>1, <4>3, Cut
    <3>2. toNode = <<m>> \o toNode'
      BY <1>2, <1>4
    <3>3. Meets(<<m>>, Matched)
      BY <2>2, MeetsOne
    <3>4. ~Meets(toNode', Loads)
      BY <2>3, <3>1, <3>2, <3>3, NoneAfterJoin
    <3> QED BY <3>1, <3>4, MeetsSet
  <2>5. ToSet(toNode') \subseteq Messages
    BY <1>1, <1>2, Cut, Elements
  <2>6. \A y \in ToSet(toNode) : y.type # "filterload"
    BY <1>1, <1>4, <1>5, <1>10, <2>4, <2>5 DEF Loads
  <2> QED BY <2>1, <2>6 DEF FilterIs
<1> QED BY <1>1, <1>2, <1>4, <1>7, <1>8, <1>9, <1>10

\* The same filter, or one for the same addresses, with as much to read.
LEMMA FilterSame ==
  ASSUME KInv, UNCHANGED <<connected, bloomFilter, addrs, toNode>>,
         filter' = filter \/ (filter \in Filters /\ filter' \in Filters /\ filter'.addrs = filter.addrs)
  PROVE  FilterOk'
<1>1. FilterOk
  BY DEF KInv, InUse, FilterOk
<1>2. CASE filter' = filter
  BY <1>1, <1>2 DEF FilterOk, Loaded
<1>3. CASE filter' # filter
  <2>1. filter \in Filters /\ filter' \in Filters /\ filter'.addrs = filter.addrs
    BY <1>3
  <2>2. filter # None /\ filter' # None
    <3>1. Filters \subseteq [addrs : Nat, outs : SUBSET Tx]
      BY DEF Filters, Payments
    <3> QED BY <2>1, <3>1, FilterAssumption
  <2>3. Loaded'
    BY <2>1, <2>2 DEF Loaded
  <2>4. bloomFilter # None /\ connected => FilterIs(bloomFilter, filter', toNode)
    BY <1>1, <2>1, <2>2 DEF FilterIs, FilterOk
  <2>5. FilterBelow(addrs, filter', toNode)
    BY <1>1, <2>1, <2>2 DEF FilterBelow, FilterOk
  <2> QED BY <2>3, <2>4, <2>5 DEF FilterOk
<1> QED BY <1>2, <1>3

\* A payment that matches pays the wallet.
LEMMA MatchesOurs ==
  ASSUME Premises, NEW g \in Filters, addrs \in Nat, g.addrs <= addrs, NEW t \in Payments, Matches(g, t)
  PROVE  Pays2Wallet(t)
<1>1. PICK i \in Pays[t] : i < g.addrs
  BY MatchesPays
<1>2. i \in Nat
  BY FilterAssumption DEF Payments
<1>3. g.addrs \in Nat
  BY DEF Filters
<1> QED BY <1>1, <1>2, <1>3 DEF Pays2Wallet

\* One message at most, and none about blocks with transactions.
Says(r, U) ==
  r = <<>> \/ \E y \in Messages : /\ r = <<y>> /\ y.type \in {"inv", "pong"}
                                  /\ y.type = "inv" => y.txs \subseteq U /\ (y.txs = {} \/ y.blocks = <<>>)

\* The node reads a message that is no getdata, and says nothing of blocks.
LEMMA SayKeeps ==
  ASSUME KInv, IInv', NEW type, type # "getdata", NodeReads(type), NodeOnly, FilterOk',
         NEW U \in SUBSET pool, announced' = announced \union U, \A t \in U \intersect Payments : Pays2Wallet(t),
         NEW r, Replies(r), Says(r, U), Marks(r) = IF type = "ping" THEN 1 ELSE 0
  PROVE  KInv'
<1>1. UNCHANGED <<connected, mined, pool, ctx, pongs, bloomFilter, lastBlock, orphans, relayed, height, addrs>>
  BY DEF NodeOnly, manager, wallet
<1>2. PICK m : m = Head(toNode)
  OBVIOUS
<1>3. m \in Asked(mined) /\ m \in Messages /\ m.type = type /\ toNode = <<m>> \o toNode' /\ mined \in Nat
  BY <1>1, <1>2, NodeReadsFilter, FilterAssumption
<1>4. PICK s : s = <<m>>
  OBVIOUS
<1>5. m.type \notin {"tx", "getdata"} /\ (m.type \in Mark <=> type = "ping")
  BY <1>3, AskedFacts
<1>6. Marks(r) = Marks(s)
  BY <1>4, <1>5, MarksOne
<1>7. PICK T \in SUBSET Tx : T = announced \intersect Payments
  BY DEF Payments
<1>8. U \in SUBSET Tx /\ U \intersect Mined = {}
  BY DEF KInv, Pooled, IInv, NodeTypes
<1>9. s \in Seq(Messages) /\ r \in Seq(Messages) /\ Answers(s, r, T, U)
  BY <1>3, <1>4, <1>5, <1>6, SayAnswers DEF Says
<1>10. \A y \in ToSet(r) : Right(y, announced')
  <2>1. CASE r = <<>>
    BY <2>1, OfNothing
  <2>2. CASE r # <<>>
    <3>1. PICK y \in Messages : r = <<y>> /\ y.type \in {"inv", "pong"} /\ (y.type = "inv" => y.txs \subseteq U)
      BY <2>2 DEF Says
    <3>2. ToSet(<<y>>) = {y}
      BY DEF ToSet
    <3> QED BY <3>1, <3>2 DEF Right
  <2> QED BY <2>1, <2>2
<1>11. \A t \in announced' \intersect Payments : Pays2Wallet(t)
  BY DEF KInv, Pooled
<1>12. pool' \intersect Mined' = {}
  BY <1>1 DEF KInv, Pooled, Mined
<1> QED BY <1>1, <1>3, <1>4, <1>7, <1>8, <1>9, <1>10, <1>11, <1>12, NodeKeepsRest DEF Replies

\* The node keeps the filter.
LEMMA FilterLeft ==
  ASSUME KInv, NEW type, type # "filterload", NodeReads(type), NodeOnly, filter' = filter
  PROVE  FilterOk' /\ Head(toNode) \in Asked(mined) /\ Head(toNode).type = type /\ mined \in 0 .. Len(Chain)
<1>1. UNCHANGED <<connected, bloomFilter, addrs>>
  BY DEF NodeOnly, manager, wallet
<1>2. /\ filter \in Filters
      /\ filter' \in Filters /\ filter'.addrs = filter.addrs => FilterOk'
      /\ Head(toNode) \in Asked(mined) /\ Head(toNode).type = type /\ mined \in 0 .. Len(Chain)
  BY <1>1, NodeReadsFilter
<1> QED BY <1>2

\* Nothing said is nothing changed.
LEMMA Silence ==
  ASSUME NodeTypes, fromNode' = fromNode, NEW U
  PROVE  Replies(<<>>) /\ Marks(<<>>) = 0 /\ Says(<<>>, U)
<1>1. PICK S, q : S = Heard(mined) /\ q = fromNode
  OBVIOUS
<1>2. q \in Seq(S)
  BY <1>1 DEF NodeTypes
<1>3. q = q \o <<>>
  BY <1>2
<1> QED BY <1>1, <1>3, NothingOnTheWay DEF Says, Replies

\* The node loads a filter.
LEMMA FilterLoadKept == ASSUME KInv, NodeFilterLoad PROVE KInv'
<1>1. IInv'
  BY NodeKeeps DEF KInv, NodeNext
<1>2. /\ NodeReads("filterload") /\ NodeOnly /\ filter' = Head(toNode).filter
      /\ announced' = announced /\ fromNode' = fromNode
  BY DEF NodeFilterLoad
<1>3. FilterOk'
  BY <1>2, NodeReadsFilter DEF NodeOnly, manager, wallet
<1>4. PICK r, U : r = <<>> /\ U = {}
  OBVIOUS
<1>5. Replies(r) /\ Marks(r) = 0 /\ Says(r, U)
  <2>1. NodeTypes /\ fromNode' = fromNode
    BY <1>2 DEF KInv, IInv
  <2>2. Replies(<<>>) /\ Marks(<<>>) = 0 /\ Says(<<>>, U)
    BY <2>1, Silence
  <2> QED BY <1>4, <2>2
<1>6. U \in SUBSET pool /\ announced' = announced \union U /\ \A t \in U \intersect Payments : Pays2Wallet(t)
  BY <1>2, <1>4
<1> QED BY <1>1, <1>2, <1>3, <1>5, <1>6, SayKeeps

\* The node answers a getblocks.
LEMMA GetBlocksKept == ASSUME KInv, NodeGetBlocks PROVE KInv'
<1>1. IInv'
  BY NodeKeeps DEF KInv, NodeNext
<1>2. NodeReads("getblocks") /\ NodeOnly /\ announced' = announced /\ filter' = filter
  BY DEF NodeGetBlocks
<1>3. FilterOk' /\ Head(toNode) \in Asked(mined) /\ Head(toNode).type = "getblocks" /\ mined \in 0 .. Len(Chain)
  BY <1>2, FilterLeft
<1>4. PICK U \in SUBSET pool : U = {} /\ announced' = announced \union U /\ \A t \in U \intersect Payments : Pays2Wallet(t)
  <2>1. PICK U : U = {}
    OBVIOUS
  <2>2. U \in SUBSET pool /\ announced' = announced \union U /\ \A t \in U \intersect Payments : Pays2Wallet(t)
    BY <1>2, <2>1
  <2> QED BY <2>1, <2>2
<1>5. PICK from, last : from = Head(toNode).from /\ last = Min({from + MaxInv, mined})
  OBVIOUS
<1>6. CASE ~(from < mined)
  <2>1. fromNode' = fromNode
    BY <1>5, <1>6 DEF NodeGetBlocks
  <2>2. Replies(<<>>) /\ Marks(<<>>) = 0 /\ Says(<<>>, U)
    BY <2>1, Silence DEF KInv, IInv
  <2> QED BY <1>1, <1>2, <1>3, <1>4, <2>2, SayKeeps
<1>7. CASE from < mined
  <2>1. PICK q : q = [i \in 1..(last - from) |-> from + i]
    OBVIOUS
  <2>2. Replies(<<BlockInv(q)>>)
    BY <1>5, <1>7, <2>1 DEF NodeGetBlocks, Replies
  <2>3. from \in Nat /\ mined \in Nat /\ mined \in 0 .. Len(Chain)
    <3>1. mined \in Nat
      BY <1>3, FilterAssumption
    <3> QED BY <1>3, <1>5, <3>1, AskedFacts
  <2>4. q \in Seq(1 .. mined)
    BY <1>5, <1>7, <2>1, <2>3, InvTypes
  <2>5. PICK y : y = BlockInv(q)
    OBVIOUS
  <2>6. y \in Heard(mined) /\ y.type = "inv" /\ y.txs = {}
    BY <2>4, <2>5 DEF BlockInv, Heard
  <2>7. y \in Messages /\ Marks(<<y>>) = 0
    BY <2>3, <2>6, AllMessages, MarksOne DEF Mark
  <2>8. PICK r : r = <<y>>
    OBVIOUS
  <2>9. Says(r, U) /\ Marks(r) = 0 /\ Replies(r)
    BY <2>2, <2>5, <2>6, <2>7, <2>8 DEF Says
  <2> QED BY <1>1, <1>2, <1>3, <1>4, <2>9, SayKeeps
<1> QED BY <1>6, <1>7

\* The node answers a mempool request.
LEMMA MempoolKept == ASSUME KInv, Premises, NodeMempool PROVE KInv'
<1>1. IInv'
  BY NodeKeeps DEF KInv, NodeNext
<1>2. PICK found : found = {t \in pool : Matches(After(filter, pool), t)}
  OBVIOUS
<1>3. /\ NodeReads("mempool") /\ NodeOnly /\ announced' = announced \union found /\ filter' = After(filter, pool)
      /\ Replies(IF found = {} THEN <<>> ELSE <<TxInv(found)>>)
  BY <1>2 DEF NodeMempool
<1>4. /\ Head(toNode) \in Asked(mined) /\ filter \in Filters /\ filter.addrs <= addrs /\ mined \in 0 .. Len(Chain)
      /\ filter' \in Filters /\ filter'.addrs = filter.addrs => FilterOk'
  BY <1>3, NodeReadsFilter DEF NodeOnly, manager, wallet
<1>5. pool \in SUBSET Tx /\ addrs \in Nat
  BY DEF KInv, IInv, NodeTypes, Coverage
<1>6. filter' \in Filters /\ filter'.addrs = filter.addrs /\ FilterOk'
  BY <1>3, <1>4, <1>5, AfterFacts
<1>7. \A t \in found \intersect Payments : Pays2Wallet(t)
  BY <1>2, <1>3, <1>4, <1>5, <1>6, MatchesOurs
<1>8. found \in SUBSET pool
  BY <1>2
<1>9. PICK r : r = IF found = {} THEN <<>> ELSE <<TxInv(found)>>
  OBVIOUS
<1>10. Marks(r) = 0 /\ Says(r, found)
  <2>1. CASE found = {}
    BY <1>9, <2>1, NothingOnTheWay DEF Says
  <2>2. CASE found # {}
    <3>1. PICK y : y = TxInv(found)
      OBVIOUS
    <3>2. y.type = "inv" /\ y.txs = found /\ y.blocks = <<>> /\ y \in Heard(mined)
      BY <1>5, <1>8, <3>1 DEF TxInv, Heard
    <3>3. y \in Messages /\ Marks(<<y>>) = 0
      BY <1>4, <3>2, AllMessages, MarksOne DEF Mark
    <3> QED BY <1>9, <2>2, <3>1, <3>2, <3>3 DEF Says
  <2> QED BY <2>1, <2>2
<1>11. Replies(r)
  BY <1>3, <1>9
<1> QED BY <1>1, <1>3, <1>6, <1>7, <1>8, <1>10, <1>11, SayKeeps

\* The node answers a ping.
LEMMA PingKept == ASSUME KInv, NodePing PROVE KInv'
<1>1. IInv'
  BY NodeKeeps DEF KInv, NodeNext
<1>2. PICK y : y = [type |-> "pong"]
  OBVIOUS
<1>3. /\ NodeReads("ping") /\ NodeOnly /\ announced' = announced /\ filter' = filter
      /\ Replies(<<y>>)
  BY <1>2 DEF NodePing
<1>4. FilterOk'
  BY <1>3, FilterLeft
<1>5. PICK U \in SUBSET pool : U = {} /\ announced' = announced \union U /\ \A t \in U \intersect Payments : Pays2Wallet(t)
  <2>1. PICK U : U = {}
    OBVIOUS
  <2>2. U \in SUBSET pool /\ announced' = announced \union U /\ \A t \in U \intersect Payments : Pays2Wallet(t)
    BY <1>3, <2>1
  <2> QED BY <2>1, <2>2
<1>6. y \in Messages /\ y.type = "pong" /\ Marks(<<y>>) = 1
  BY <1>2, MarksOne DEF Mark, Messages, Heard
<1>7. PICK r : r = <<y>>
  OBVIOUS
<1>8. /\ Says(r, U) /\ Marks(r) = IF "ping" = "ping" THEN 1 ELSE 0
      /\ Replies(r) /\ "ping" # "getdata"
  BY <1>3, <1>6, <1>7 DEF Says
<1>9. \A t \in U \intersect Payments : Pays2Wallet(t)
  BY <1>5
<1>10. PICK type : type = "ping"
  OBVIOUS
<1>11. type # "getdata" /\ NodeReads(type) /\ NodeOnly /\ Marks(r) = IF type = "ping" THEN 1 ELSE 0
  BY <1>3, <1>8, <1>10
<1> QED BY <1>1, <1>4, <1>5, <1>8, <1>9, <1>11, SayKeeps, Zenon

\* What the node answers to a getdata is right.
LEMMA RepliesRight ==
  ASSUME Premises, NEW f \in Filters, addrs \in Nat, f.addrs <= addrs,
         NEW n \in 0 .. Len(Chain), NEW q \in Seq(1 .. n), NEW X,
         bloomFilter # None /\ q # <<>> => f.addrs = bloomFilter
  PROVE  \A y \in ToSet(BlockReplies(f, q)) : Right(y, X)
<1> SUFFICES ASSUME NEW y \in ToSet(BlockReplies(f, q)) PROVE Right(y, X)
  OBVIOUS
<1>1. y.type \in {"merkleblock", "tx"}
  BY ReplyFacts
<1>2. PICK g \in Filters :
        /\ g.addrs = f.addrs
        /\ y.type = "merkleblock" => /\ y.height \in ToSet(q)
                                     /\ y.txs = {t \in ToSet(Chain[y.height]) : Matches(g, t)}
        /\ y.type = "tx" => Matches(g, y.tx)
  BY ReplyFacts
<1>3. q # <<>>
  <2> SUFFICES ASSUME q = <<>> PROVE FALSE
    OBVIOUS
  <2>1. BlockReplies(f, q) = <<>>
    BY NoReply
  <2> QED BY <2>1, OfNothing
<1>4. ASSUME NEW t \in Payments, Matches(g, t) PROVE Pays2Wallet(t)
  BY <1>2, <1>4, MatchesOurs
<1>5. ASSUME y.type = "merkleblock", bloomFilter # None PROVE Ours(bloomFilter, y.height) \subseteq y.txs
  <2> SUFFICES ASSUME NEW t \in ToSet(Chain[y.height]), NEW i \in Pays[t], i < bloomFilter PROVE t \in y.txs
    BY DEF Ours
  <2>1. g.addrs = bloomFilter
    BY <1>2, <1>3, <1>5
  <2>2. Matches(g, t)
    BY <2>1 DEF Matches, PaysTo
  <2> QED BY <1>2, <1>5, <2>2
<1>6. y.type = "merkleblock" => \A t \in y.txs \intersect Payments : Pays2Wallet(t)
  BY <1>2, <1>4
<1>7. y.type = "tx" /\ y.tx \in Payments => Pays2Wallet(y.tx)
  BY <1>2, <1>4
<1> QED BY <1>1, <1>5, <1>6, <1>7 DEF Right

\* The node answers a getdata.
LEMMA GetDataKept == ASSUME KInv, Premises, NodeGetData PROVE KInv'
<1>1. IInv'
  BY NodeKeeps DEF KInv, NodeNext
<1>2. PICK m : m = Head(toNode)
  OBVIOUS
<1>3. PICK V : V = {t \in m.txs : Has(t)}
  OBVIOUS
<1>4. PICK txs : txs = SetToSeq(V)
  OBVIOUS
<1>5. PICK a : a = [i \in DOMAIN txs |-> TxMessage(txs[i])]
  OBVIOUS
<1>6. PICK b : b = BlockReplies(filter, m.blocks)
  OBVIOUS
<1>7. PICK c : c = IF continue \in ToSet(m.blocks) THEN <<BlockInv(<<mined>>)>> ELSE <<>>
  OBVIOUS
<1>8. PICK r : r = (a \o b) \o c
  OBVIOUS
<1>9. /\ NodeReads("getdata") /\ NodeOnly /\ announced' = announced /\ filter' = After(filter, TxsOf(m.blocks))
      /\ fromNode' = fromNode \o r
  <2>1. Replies([i \in DOMAIN txs |-> TxMessage(txs[i])] \o BlockReplies(filter, m.blocks)
                \o IF continue \in ToSet(m.blocks) THEN <<BlockInv(<<mined>>)>> ELSE <<>>)
    BY <1>2, <1>3, <1>4 DEF NodeGetData
  <2>2. Replies(r)
    BY <1>5, <1>6, <1>7, <1>8, <2>1
  <2>3. /\ NodeReads("getdata") /\ NodeOnly /\ announced' = announced /\ filter' = After(filter, TxsOf(m.blocks))
    BY <1>2 DEF NodeGetData
  <2> QED BY <2>2, <2>3 DEF Replies
<1>10. UNCHANGED <<connected, mined, pool, ctx, pongs, bloomFilter, lastBlock, orphans, relayed, height, addrs>>
  BY <1>9 DEF NodeOnly, manager, wallet
<1>11. /\ m \in Asked(mined) /\ m \in Messages /\ m.type = "getdata"
       /\ toNode = <<m>> \o toNode' /\ mined \in 0 .. Len(Chain)
       /\ filter \in Filters /\ filter.addrs <= addrs
       /\ filter' \in Filters /\ filter'.addrs = filter.addrs => FilterOk'
       /\ m.blocks # <<>> /\ bloomFilter # None => filter.addrs = bloomFilter
  BY <1>2, <1>9, <1>10, NodeReadsFilter
<1>12. /\ m.blocks \in Seq(1 .. mined) /\ m.txs \subseteq Tx /\ mined \in Nat /\ addrs \in Nat
       /\ announced \subseteq Tx
  BY <1>11, AskedFacts, FilterAssumption DEF KInv, IInv, Coverage, NodeTypes
<1>13. FilterOk'
  <2>1. TxsOf(m.blocks) \in SUBSET Tx
    <3>1. \A h \in 1 .. mined : ToSet(Chain[h]) \subseteq Tx
      BY <1>11, ChainFacts
    <3>2. ToSet(m.blocks) \subseteq 1 .. mined
      BY <1>12, Elements
    <3> QED BY <3>1, <3>2 DEF TxsOf
  <2> QED BY <1>9, <1>11, <2>1, AfterFacts
<1>14. PICK T \in SUBSET Tx : T = announced \intersect Payments
  BY DEF Payments
<1>15. V \in SUBSET Tx /\ m.txs \intersect T \subseteq V
  BY <1>3, <1>12, <1>14 DEF Has, Premises
<1>16. Serves(a, V)
  BY <1>4, <1>5 DEF Serves
<1>17. c = <<>> \/ \E h \in 1 .. mined : c = <<BlockInv(<<h>>)>>
  <2>1. continue \in ToSet(m.blocks) => mined \in 1 .. mined
    BY <1>12, Elements
  <2> QED BY <1>7, <2>1
<1>18. PICK s, U : s = <<m>> /\ U = {}
  OBVIOUS
<1>19. s \in Seq(Messages) /\ r \in Seq(Messages) /\ Answers(s, r, T, U)
  <2>1. Serving(mined, m, filter, V, T, a, b, c, r, s)
    BY <1>6, <1>8, <1>11, <1>14, <1>15, <1>16, <1>17, <1>18, Zenon DEF Serving
  <2>2. s \in Seq(Messages) /\ r \in Seq(Messages) /\ Answers(s, r, T, {})
    BY <2>1, GetDataAnswers, Zenon
  <2> QED BY <1>18, <2>2, Zenon
<1>20. \A y \in ToSet(r) : Right(y, announced')
  <2>1. a \in Seq(Messages) /\ \A y \in ToSet(a) : y.type = "tx" /\ y.tx \in V
    <3>1. /\ Said(mined, a, 0) /\ a \in Seq(Heard(mined))
          /\ \A y \in ToSet(a) : y.type = "tx" /\ y.tx \in V
      BY <1>12, <1>15, <1>16, ServedFacts
    <3> QED BY <1>11, <3>1, AllMessages
  <2>2. \A t \in V \intersect Payments : Pays2Wallet(t)
    <3> SUFFICES ASSUME NEW t \in V \intersect Payments PROVE t \in announced
      BY DEF KInv, Pooled
    <3>1. \A x \in ToSet(toNode) : x.type = "getdata" => x.txs \subseteq announced
      BY DEF KInv, Pooled
    <3>2. m \in ToSet(toNode)
      <4>1. toNode \in Seq(Messages) /\ toNode # <<>>
        BY <1>9, WayTypes DEF KInv, IInv, NodeReads
      <4> QED BY <1>2, <4>1, HeadSet
    <3> QED BY <1>3, <1>11, <3>1, <3>2
  <2>3. \A y \in ToSet(a) : Right(y, announced')
    BY <2>1, <2>2 DEF Right
  <2>4. \A y \in ToSet(b) : Right(y, announced')
    BY <1>6, <1>11, <1>12, RepliesRight
  <2>5. \A y \in ToSet(c) : Right(y, announced')
    <3>1. CASE c = <<>>
      BY <3>1, OfNothing
    <3>2. CASE c # <<>>
      <4>1. PICK y : y = BlockInv(<<mined>>)
        OBVIOUS
      <4>2. c = <<y>> /\ y.type = "inv" /\ y.txs = {}
        BY <1>7, <3>2, <4>1 DEF BlockInv
      <4>3. ToSet(<<y>>) = {y}
        BY DEF ToSet
      <4> QED BY <4>2, <4>3 DEF Right
    <3> QED BY <3>1, <3>2
  <2>6. ToSet(r) = (ToSet(a) \union ToSet(b)) \union ToSet(c)
    <3>1. b \in Seq(Messages) /\ c \in Seq(Messages)
      <4>1. b \in Seq(Heard(mined))
        BY <1>6, <1>11, <1>12, BlockRepliesFacts
      <4>2. c \in Seq(Heard(mined))
        <5>1. \A h \in 1 .. mined : <<h>> \in Seq(1 .. mined)
          OBVIOUS
        <5> QED BY <1>12, <1>17, <5>1, MessagesSaid, Silent DEF Said
      <4> QED BY <1>11, <4>1, <4>2, AllMessages
    <3>2. PICK x : x = a \o b
      OBVIOUS
    <3>3. x \in Seq(Messages) /\ ToSet(x) = ToSet(a) \union ToSet(b)
      BY <2>1, <3>1, <3>2, JoinAs, JoinSet
    <3>4. ToSet(x \o c) = ToSet(x) \union ToSet(c)
      BY <3>1, <3>3, JoinSet
    <3>5. r = x \o c
      BY <1>8, <3>2
    <3> QED BY <3>3, <3>4, <3>5
  <2> QED BY <2>3, <2>4, <2>5, <2>6
<1>21. \A t \in announced' \intersect Payments : Pays2Wallet(t)
  BY <1>9 DEF KInv, Pooled
<1>22. pool' \intersect Mined' = {}
  BY <1>10 DEF KInv, Pooled, Mined
<1>23. U \in SUBSET Tx /\ U \intersect Mined = {} /\ toNode = s \o toNode' /\ announced \subseteq announced'
  BY <1>9, <1>11, <1>18
<1> QED BY <1>1, <1>9, <1>10, <1>13, <1>14, <1>19, <1>20, <1>21, <1>22, <1>23, NodeKeepsRest

\* The node mines a block.
LEMMA MineKept == ASSUME KInv, Mine PROVE KInv'
<1>1. IInv'
  BY MineKeeps DEF KInv
<1>2. NodeTypes /\ NodeTypes' /\ Pooled
  BY <1>1 DEF KInv, IInv
<1>3. /\ UNCHANGED <<announced, filter, connected, ctx, pongs, bloomFilter, lastBlock, orphans, relayed, height, addrs, toNode>>
      /\ mined' = mined + 1 /\ pool' = pool \ ToSet(Chain[mined + 1]) /\ mined \in Nat /\ mined < Len(Chain)
      /\ mined + 1 \in 0 .. Len(Chain)
  BY <1>2, FilterAssumption DEF Mine, manager, wallet, NodeTypes
<1>4. PICK s, U : s = <<>> /\ U = {}
  OBVIOUS
<1>5. PICK y : y = BlockInv(<<mined + 1>>)
  OBVIOUS
<1>6. PICK r : r = IF connected THEN <<y>> ELSE <<>>
  OBVIOUS
<1>7. y \in Messages /\ y.type = "inv" /\ y.txs = {} /\ Marks(<<y>>) = 0
  <2>1. <<mined + 1>> \in Seq(1 .. mined + 1)
    BY <1>3
  <2>2. y \in Heard(mined + 1) /\ y.type = "inv" /\ y.txs = {}
    BY <1>5, <2>1 DEF BlockInv, Heard
  <2> QED BY <1>3, <2>2, AllMessages, MarksOne DEF Mark
<1>8. fromNode' = fromNode \o r /\ toNode = s \o toNode'
  <2>1. (connected => Replies(<<BlockInv(<<mined + 1>>)>>)) /\ (~connected => fromNode' = fromNode)
    BY DEF Mine
  <2>2. ASSUME connected PROVE fromNode' = fromNode \o r
    <3>1. r = <<BlockInv(<<mined + 1>>)>>
      BY <1>5, <1>6, <2>2
    <3>2. Replies(r)
      BY <2>1, <2>2, <3>1
    <3> QED BY <3>2 DEF Replies
  <2>3. ASSUME ~connected PROVE fromNode' = fromNode \o r
    <3>1. r = <<>>
      BY <1>6, <2>3
    <3>2. Replies(<<>>)
      BY <1>2, <2>1, <2>3, Silence
    <3> QED BY <3>1, <3>2 DEF Replies
  <2>4. toNode = <<>> \o toNode
    <3>1. PICK q \in Seq(Messages) : q = toNode
      BY <1>2, WayTypes
    <3>2. q = <<>> \o q
      OBVIOUS
    <3> QED BY <3>1, <3>2
  <2> QED BY <1>3, <1>4, <2>2, <2>3, <2>4
<1>9. PICK T \in SUBSET Tx : T = announced \intersect Payments
  BY DEF Payments
<1>10. s \in Seq(Messages) /\ r \in Seq(Messages) /\ Answers(s, r, T, U)
  <2>1. CASE connected
    <3>1. r = <<y>> /\ Marks(r) = Marks(s)
      BY <1>4, <1>6, <1>7, <2>1, NothingOnTheWay
    <3> QED BY <1>4, <1>7, <3>1, SayAnswers
  <2>2. CASE ~connected
    BY <1>4, <1>6, <2>2, SayAnswers
  <2> QED BY <2>1, <2>2
<1>11. \A x \in ToSet(r) : Right(x, announced')
  <2>1. CASE connected
    <3>1. ToSet(<<y>>) = {y}
      BY DEF ToSet
    <3> QED BY <1>6, <1>7, <2>1, <3>1 DEF Right
  <2>2. CASE ~connected
    BY <1>6, <2>2, OfNothing
  <2> QED BY <2>1, <2>2
<1>12. FilterOk'
  BY <1>3, FilterSame
<1>13. \A t \in announced' \intersect Payments : Pays2Wallet(t)
  BY <1>2, <1>3 DEF Pooled
<1>14. pool' \intersect Mined' = {}
  <2>1. Mined' \subseteq Mined \union ToSet(Chain[mined + 1])
    BY <1>3 DEF Mined
  <2> QED BY <1>2, <1>3, <2>1 DEF Pooled
<1>15. UNCHANGED <<connected, ctx, pongs, bloomFilter, lastBlock, orphans, relayed, height, addrs>> /\ announced \subseteq announced'
  BY <1>3
<1>16. U \in SUBSET Tx /\ U \intersect Mined = {}
  BY <1>4
<1> QED BY <1>1, <1>8, <1>9, <1>10, <1>11, <1>12, <1>13, <1>14, <1>15, <1>16, NodeKeepsRest

\* A transaction comes to the node.
LEMMA BroadcastKept == ASSUME KInv, Premises, NEW t \in Unmined, Broadcast(t) PROVE KInv'
<1>1. IInv'
  BY BroadcastKeeps DEF KInv
<1>2. NodeTypes /\ NodeTypes' /\ Pooled /\ addrs \in Nat /\ Loaded /\ InUse /\ mined \in 0 .. Len(Chain)
  BY <1>1 DEF KInv, IInv, Coverage, NodeTypes
<1>3. /\ UNCHANGED <<connected, mined, ctx, pongs, bloomFilter, lastBlock, orphans, relayed, height, addrs, toNode>>
      /\ pool' = pool \union {t} /\ t \notin Mined /\ t \in Tx
  BY FilterAssumption DEF Broadcast, manager, wallet
<1>4. PICK s : s = <<>>
  OBVIOUS
<1>5. PICK y : y = TxInv({t})
  OBVIOUS
<1>6. PICK U : U = IF filter # None /\ Matches(filter, t) THEN {t} ELSE {}
  OBVIOUS
<1>7. PICK r : r = IF filter # None /\ Matches(filter, t) THEN <<y>> ELSE <<>>
  OBVIOUS
<1>8. y \in Messages /\ y.type = "inv" /\ y.txs = {t} /\ y.blocks = <<>> /\ Marks(<<y>>) = 0
  <2>1. y \in Heard(mined) /\ y.type = "inv" /\ y.txs = {t} /\ y.blocks = <<>>
    BY <1>3, <1>5 DEF TxInv, Heard
  <2> QED BY <1>2, <2>1, AllMessages, MarksOne DEF Mark
<1>9. fromNode' = fromNode \o r /\ announced' = announced \union U
  <2>1. CASE filter # None /\ Matches(filter, t)
    <3>1. Replies(<<y>>) /\ announced' = announced \union {t}
      BY <1>5, <2>1 DEF Broadcast
    <3>2. r = <<y>> /\ U = {t}
      BY <1>6, <1>7, <2>1
    <3> QED BY <3>1, <3>2 DEF Replies
  <2>2. CASE ~(filter # None /\ Matches(filter, t))
    <3>1. fromNode' = fromNode /\ announced' = announced
      BY <2>2 DEF Broadcast
    <3>2. fromNode' = fromNode \o <<>>
      BY <1>2, <3>1, Silence DEF Replies
    <3> QED BY <1>6, <1>7, <2>2, <3>1, <3>2
  <2> QED BY <2>1, <2>2
<1>10. toNode = s \o toNode'
  <2>1. PICK q \in Seq(Messages) : q = toNode
    BY <1>2, WayTypes
  <2>2. q = <<>> \o q
    OBVIOUS
  <2> QED BY <1>3, <1>4, <2>1, <2>2
<1>11. PICK T \in SUBSET Tx : T = announced \intersect Payments
  BY DEF Payments
<1>12. s \in Seq(Messages) /\ r \in Seq(Messages) /\ Answers(s, r, T, U)
  <2>1. CASE filter # None /\ Matches(filter, t)
    <3>1. r = <<y>> /\ U = {t} /\ Marks(r) = Marks(s)
      BY <1>4, <1>6, <1>7, <1>8, <2>1, NothingOnTheWay
    <3> QED BY <1>4, <1>8, <3>1, SayAnswers
  <2>2. CASE ~(filter # None /\ Matches(filter, t))
    BY <1>4, <1>7, <2>2, SayAnswers
  <2> QED BY <2>1, <2>2
<1>13. \A x \in ToSet(r) : Right(x, announced')
  <2>1. CASE filter # None /\ Matches(filter, t)
    <3>1. ToSet(<<y>>) = {y}
      BY DEF ToSet
    <3>2. y.txs \subseteq announced'
      BY <1>6, <1>8, <1>9, <2>1
    <3> QED BY <1>7, <1>8, <2>1, <3>1, <3>2 DEF Right
  <2>2. CASE ~(filter # None /\ Matches(filter, t))
    BY <1>7, <2>2, OfNothing
  <2> QED BY <2>1, <2>2
<1>14. filter # None => filter \in Filters /\ filter.addrs <= addrs
  BY <1>2 DEF Loaded, InUse, FilterBelow
<1>15. FilterOk'
  <2>1. CASE filter # None /\ Matches(filter, t)
    <3>1. filter' = After(filter, {t})
      BY <2>1 DEF Broadcast
    <3>2. filter' \in Filters /\ filter'.addrs = filter.addrs
      BY <1>3, <1>14, <2>1, <3>1, AfterFacts
    <3> QED BY <1>3, <1>14, <2>1, <3>2, FilterSame
  <2>2. CASE ~(filter # None /\ Matches(filter, t))
    <3>1. filter' = filter
      BY <2>2 DEF Broadcast
    <3> QED BY <1>3, <3>1, FilterSame
  <2> QED BY <2>1, <2>2
<1>16. \A x \in announced' \intersect Payments : Pays2Wallet(x)
  <2>1. ASSUME NEW x \in U \intersect Payments PROVE Pays2Wallet(x)
    <3>1. x = t /\ filter # None /\ Matches(filter, t)
      BY <1>6, <2>1
    <3> QED BY <1>2, <1>14, <2>1, <3>1, MatchesOurs
  <2> QED BY <1>2, <1>9, <2>1 DEF Pooled
<1>17. pool' \intersect Mined' = {}
  <2>1. Mined' = Mined
    BY <1>3 DEF Mined
  <2> QED BY <1>2, <1>3, <2>1 DEF Pooled
<1>18. U \in SUBSET Tx /\ U \intersect Mined = {} /\ announced \subseteq announced'
  BY <1>3, <1>6, <1>9
<1>19. UNCHANGED <<connected, ctx, pongs, bloomFilter, lastBlock, orphans, relayed, height, addrs>>
  BY <1>3
<1> QED BY <1>1, <1>9, <1>10, <1>11, <1>12, <1>13, <1>15, <1>16, <1>17, <1>18, <1>19, NodeKeepsRest

\* All of the node.
LEMMA NodeNextKept == ASSUME KInv, Premises, NodeNext PROVE KInv'
BY FilterLoadKept, GetBlocksKept, GetDataKept, MempoolKept, PingKept DEF NodeNext

-----------------------------------------------------------------------------
(* What the wallet does to what is on its way. *)

\* M of q is read, and N is sent.
Shift(q, p, M, B, N) == /\ M \in Seq(Messages) /\ B \in Seq(Messages) /\ N \in Seq(Messages)
                        /\ q = M \o B /\ p = B \o N

\* What that makes of the relations.
LEMMA ShiftMeets ==
  ASSUME NEW q, NEW p, NEW M, NEW B, NEW N, Shift(q, p, M, B, N), NEW A
  PROVE  /\ Meets(q, A) <=> Meets(M, A) \/ Meets(B, A)
         /\ Meets(p, A) <=> Meets(B, A) \/ Meets(N, A)
<1>1. M \in Seq(Messages) /\ B \in Seq(Messages) /\ N \in Seq(Messages) /\ q = M \o B /\ p = B \o N
  BY DEF Shift
<1>2. Meets(q, A) <=> Meets(M, A) \/ Meets(B, A)
  BY <1>1, MeetsJoin
<1>3. Meets(p, A) <=> Meets(B, A) \/ Meets(N, A)
  BY <1>1, MeetsJoin
<1> QED BY <1>2, <1>3

\* The same of what does not come after.
LEMMA ShiftNoneAfter ==
  ASSUME NEW q, NEW p, NEW M, NEW B, NEW N, Shift(q, p, M, B, N), NEW A, NEW C
  PROVE  /\ NoneAfter(q, A, C) <=> NoneAfter(M, A, C) /\ NoneAfter(B, A, C) /\ ~(Meets(M, A) /\ Meets(B, C))
         /\ NoneAfter(p, A, C) <=> NoneAfter(B, A, C) /\ NoneAfter(N, A, C) /\ ~(Meets(B, A) /\ Meets(N, C))
<1>1. M \in Seq(Messages) /\ B \in Seq(Messages) /\ N \in Seq(Messages) /\ q = M \o B /\ p = B \o N
  BY DEF Shift
<1>2. NoneAfter(q, A, C) <=> NoneAfter(M, A, C) /\ NoneAfter(B, A, C) /\ ~(Meets(M, A) /\ Meets(B, C))
  BY <1>1, NoneAfterJoin
<1>3. NoneAfter(p, A, C) <=> NoneAfter(B, A, C) /\ NoneAfter(N, A, C) /\ ~(Meets(B, A) /\ Meets(N, C))
  BY <1>1, NoneAfterJoin
<1> QED BY <1>2, <1>3

\* The same of what comes before.
LEMMA ShiftPreceded ==
  ASSUME NEW q, NEW p, NEW M, NEW B, NEW N, Shift(q, p, M, B, N), NEW A, NEW C
  PROVE  /\ Preceded(q, A, C) <=> Preceded(M, A, C) /\ (Meets(M, A) \/ Preceded(B, A, C))
         /\ Preceded(p, A, C) <=> Preceded(B, A, C) /\ (Meets(B, A) \/ Preceded(N, A, C))
<1>1. M \in Seq(Messages) /\ B \in Seq(Messages) /\ N \in Seq(Messages) /\ q = M \o B /\ p = B \o N
  BY DEF Shift
<1>2. Preceded(q, A, C) <=> Preceded(M, A, C) /\ (Meets(M, A) \/ Preceded(B, A, C))
  BY <1>1, PrecededJoin
<1>3. Preceded(p, A, C) <=> Preceded(B, A, C) /\ (Meets(B, A) \/ Preceded(N, A, C))
  BY <1>1, PrecededJoin
<1> QED BY <1>2, <1>3

\* The same of the bounds.
LEMMA ShiftWithin ==
  ASSUME NEW q, NEW p, NEW M, NEW B, NEW N, Shift(q, p, M, B, N), NEW k \in Int
  PROVE  /\ Within(q, k) <=> Within(M, k) /\ Within(B, k - Marks(M))
         /\ Within(p, k) <=> Within(B, k) /\ Within(N, k - Marks(B))
         /\ Marks(M) \in Nat /\ Marks(B) \in Nat /\ Marks(q) = Marks(M) + Marks(B)
<1>1. M \in Seq(Messages) /\ B \in Seq(Messages) /\ N \in Seq(Messages) /\ q = M \o B /\ p = B \o N
  BY DEF Shift
<1>2. Within(q, k) <=> Within(M, k) /\ Within(B, k - Marks(M))
  BY <1>1, WithinJoin
<1>3. Within(p, k) <=> Within(B, k) /\ Within(N, k - Marks(B))
  BY <1>1, WithinJoin
<1>4. Marks(M) \in Nat /\ Marks(B) \in Nat /\ Marks(q) = Marks(M) + Marks(B)
  BY <1>1, MarksJoin
<1> QED BY <1>2, <1>3, <1>4

\* Completions: j are taken, those of cs are added.
Taken(ps, qs, R, cs, j) ==
  /\ ps \in Seq(Calls) /\ R \in Seq(Calls) /\ cs \in Seq(Calls) /\ qs = R \o cs
  /\ j \in Nat /\ Len(ps) = j + Len(R) /\ \A k \in 1 .. Len(R) : R[k] = ps[k + j]
  /\ \A k \in 1 .. Len(cs) : k = 1

\* One update at a time stays under way.
LEMMA UpdatesStep ==
  ASSUME NEW q, NEW p, NEW M, NEW B, NEW N, Shift(q, p, M, B, N),
         NEW ps, NEW qs, NEW R, NEW cs, NEW j, Taken(ps, qs, R, cs, j),
         Marks(M) = j, Marks(q) = Len(ps), NEW needed, NEW now, Updates(q, ps, needed),
         \A k \in 1 .. Len(R) : R[k] \in UpdateCalls => now,
         \A k \in 1 .. Len(cs) : cs[k] \in UpdateCalls => now /\ \A l \in 1 .. Len(R) : R[l] \notin UpdateCalls,
         (\E k \in 1 .. Len(qs) : qs[k] = "updateFilterPingDone") => ~Meets(N, Matched)
  PROVE  Updates(p, qs, now)
<1>1. /\ ps \in Seq(Calls) /\ R \in Seq(Calls) /\ cs \in Seq(Calls) /\ qs = R \o cs
      /\ j \in Nat /\ Len(ps) = j + Len(R) /\ \A k \in 1 .. Len(R) : R[k] = ps[k + j]
      /\ \A k \in 1 .. Len(cs) : k = 1
  BY DEF Taken
<1>2. /\ Len(R) \in Nat /\ Len(cs) \in Nat /\ Len(qs) = Len(R) + Len(cs)
      /\ \A k \in 1 .. Len(R) : qs[k] = R[k]
      /\ \A k \in 1 .. Len(cs) : qs[Len(R) + k] = cs[k]
      /\ DOMAIN qs = 1 .. Len(R) + Len(cs)
      /\ \A k \in DOMAIN qs : k \in 1 .. Len(R) \/ \E l \in 1 .. Len(cs) : k = Len(R) + l
  BY <1>1, JoinAs
<1>3. /\ \A k \in 1 .. Len(ps) : ps[k] \in UpdateCalls => needed
      /\ \A k, l \in 1 .. Len(ps) : ps[k] \in UpdateCalls /\ ps[l] \in UpdateCalls => k = l
      /\ \A k \in 1 .. Len(ps) : ps[k] = "updateFilterPingDone" => Within(q, k)
  BY DEF Updates
<1> PICK r, a : r = Len(R) /\ a = Len(cs)
  OBVIOUS
<1>4. /\ r \in Nat /\ a \in Nat /\ 1 .. Len(qs) = DOMAIN qs
      /\ \A k \in 1 .. r : k + j \in 1 .. Len(ps)
  BY <1>1, <1>2
<1>5. ASSUME NEW k \in 1 .. Len(qs), qs[k] \in UpdateCalls PROVE now
  <2>1. CASE k \in 1 .. Len(R)
    BY <1>2, <1>5, <2>1
  <2>2. CASE k \notin 1 .. Len(R)
    <3>1. PICK l \in 1 .. Len(cs) : k = Len(R) + l
      BY <1>2, <1>4, <2>2
    <3> QED BY <1>2, <1>5, <3>1
  <2> QED BY <2>1, <2>2
<1>6. ASSUME NEW k \in 1 .. Len(qs), NEW l \in 1 .. Len(qs), qs[k] \in UpdateCalls, qs[l] \in UpdateCalls PROVE k = l
  <2>1. CASE k \in 1 .. Len(R) /\ l \in 1 .. Len(R)
    <3>1. ps[k + j] \in UpdateCalls /\ ps[l + j] \in UpdateCalls
      BY <1>1, <1>2, <1>6, <2>1
    <3>2. k + j = l + j
      BY <1>3, <1>4, <2>1, <3>1
    <3> QED BY <1>1, <2>1, <3>2
  <2>2. CASE k \notin 1 .. Len(R) /\ l \notin 1 .. Len(R)
    <3>1. PICK x \in 1 .. Len(cs) : k = Len(R) + x
      BY <1>2, <1>4, <2>2
    <3>2. PICK y \in 1 .. Len(cs) : l = Len(R) + y
      BY <1>2, <1>4, <2>2
    <3> QED BY <1>1, <3>1, <3>2
  <2>3. CASE k \in 1 .. Len(R) /\ l \notin 1 .. Len(R)
    <3>1. PICK x \in 1 .. Len(cs) : l = Len(R) + x
      BY <1>2, <1>4, <2>3
    <3>2. cs[x] \in UpdateCalls /\ R[k] \in UpdateCalls
      BY <1>2, <1>6, <2>3, <3>1
    <3> QED BY <2>3, <3>1, <3>2
  <2>4. CASE k \notin 1 .. Len(R) /\ l \in 1 .. Len(R)
    <3>1. PICK x \in 1 .. Len(cs) : k = Len(R) + x
      BY <1>2, <1>4, <2>4
    <3>2. cs[x] \in UpdateCalls /\ R[l] \in UpdateCalls
      BY <1>2, <1>6, <2>4, <3>1
    <3> QED BY <2>4, <3>1, <3>2
  <2> QED BY <2>1, <2>2, <2>3, <2>4
<1>7. ASSUME NEW k \in 1 .. Len(qs), qs[k] = "updateFilterPingDone" PROVE Within(p, k)
  <2>1. ~Meets(N, Matched)
    BY <1>7
  <2>2. k \in Int /\ B \in Seq(Messages)
    BY DEF Shift
  <2>3. Marks(M) \in Nat /\ Marks(B) \in Nat /\ Marks(q) = Marks(M) + Marks(B)
    BY <2>2, ShiftWithin
  <2>4. Within(B, k)
    <3>1. CASE k \in 1 .. Len(R)
      <4>1. ps[k + j] = "updateFilterPingDone" /\ k + j \in 1 .. Len(ps)
        BY <1>1, <1>2, <1>4, <1>7, <3>1
      <4>2. Within(q, k + j) /\ k + j \in Int
        BY <1>3, <4>1
      <4>3. Within(B, (k + j) - Marks(M))
        BY <4>2, ShiftWithin
      <4>4. (k + j) - Marks(M) = k
        BY <1>1, <2>2
      <4> QED BY <4>3, <4>4
    <3>2. CASE k \notin 1 .. Len(R)
      <4>1. Len(R) < k
        BY <1>2, <1>4, <3>2
      <4>2. Marks(B) = Len(R)
        BY <1>1, <1>2, <2>3
      <4> QED BY <2>2, <4>1, <4>2, WithinAll
    <3> QED BY <3>1, <3>2
  <2>5. Within(N, k - Marks(B))
    BY <2>1, WithinNone
  <2> QED BY <2>2, <2>4, <2>5, ShiftWithin
<1> QED BY <1>5, <1>6, <1>7 DEF Updates

\* The wallet reads M and sends N.
Moves(M, N) ==
  /\ M \in Seq(Messages) /\ N \in Seq(Asked(mined)) /\ fromNode = M \o fromNode' /\ toNode' = toNode \o N
  /\ UNCHANGED <<mined, pool, announced, filter, connected>> /\ connected

\* What the wallet has does not become less.
Grown ==
  /\ addrs <= addrs' /\ Registered(height) \subseteq Registered(height')
  /\ \A t \in Payments : height[t] # Foreign => height'[t] # Foreign

\* The order of concatenations does not matter.
LEMMA Associate ==
  ASSUME NEW S, NEW a \in Seq(S), NEW b \in Seq(S), NEW c \in Seq(S)
  PROVE  (a \o b) \o c = a \o (b \o c)
BY SMTT(30)

\* Three sequences may be put together in either order.
Associates(a, b, c) == (a \o b) \o c = a \o (b \o c)

\* Sequences of messages are put together in either order.
LEMMA AssociateMessages ==
  ASSUME NEW a, NEW b, NEW c, a \in Seq(Messages), b \in Seq(Messages), c \in Seq(Messages)
  PROVE  Associates(a, b, c)
<1>1. PICK S : S = Messages
  OBVIOUS
<1>2. a \in Seq(S) /\ b \in Seq(S) /\ c \in Seq(S)
  BY <1>1, Zenon
<1>3. (a \o b) \o c = a \o (b \o c)
  BY <1>2, Associate
<1> QED BY <1>3, Zenon DEF Associates

\* What is read and sent, and the others.
LEMMA MovesFacts ==
  ASSUME NodeTypes, NodeTypes', NEW M, NEW N, Moves(M, N)
  PROVE  /\ Shift(way, way', M, fromNode' \o toNode, N)
         /\ ToSet(fromNode') \subseteq ToSet(fromNode) /\ ToSet(M) \subseteq ToSet(fromNode)
         /\ ToSet(toNode') = ToSet(toNode) \union ToSet(N)
         /\ \A m \in ToSet(N) : m \in Asked(mined) /\ m \in Messages
         /\ \A t : ~Meets(N, Tellers(t)) /\ ~Meets(N, Revealers(t))
         /\ \A A : Meets(fromNode' \o toNode, A) <=> Meets(fromNode', A) \/ Meets(toNode, A)
         /\ fromNode' \in Seq(Messages) /\ toNode \in Seq(Messages) /\ fromNode' \o toNode \in Seq(Messages)
<1>1. /\ M \in Seq(Messages) /\ N \in Seq(Asked(mined)) /\ fromNode = M \o fromNode' /\ toNode' = toNode \o N
      /\ mined' = mined
  BY DEF Moves
<1>2. /\ toNode \in Seq(Messages) /\ mined \in 0 .. Len(Chain)
  BY WayTypes
<1>3. fromNode' \in Seq(Messages)
  <2>1. mined' \in 0 .. Len(Chain) /\ fromNode' \in Seq(Heard(mined'))
    BY DEF NodeTypes
  <2> QED BY <2>1, AllMessages
<1>4. /\ N \in Seq(Messages) /\ \A m \in ToSet(N) : m \in Asked(mined) /\ m \in Messages
      /\ \A t : ~Meets(N, Tellers(t)) /\ ~Meets(N, Revealers(t))
  BY <1>1, <1>2, AskedTypes
<1>5. PICK F, T, B : F = fromNode' /\ T = toNode /\ B = F \o T
  OBVIOUS
<1>6. /\ F \in Seq(Messages) /\ T \in Seq(Messages) /\ B \in Seq(Messages)
      /\ \A A : Meets(B, A) <=> Meets(F, A) \/ Meets(T, A)
  BY <1>2, <1>3, <1>5, Join, MeetsJoin
<1>7. way = M \o B /\ way' = B \o N
  <2>1. way = (M \o F) \o T /\ way' = F \o (T \o N)
    <3>1. way = fromNode \o toNode /\ way' = fromNode' \o toNode'
      BY DEF way
    <3>2. fromNode = M \o F /\ toNode' = T \o N
      BY <1>1, <1>5
    <3> QED BY <1>5, <3>1, <3>2, Zenon
  <2>2. M \in Seq(Messages) /\ F \in Seq(Messages) /\ T \in Seq(Messages) /\ N \in Seq(Messages)
    BY <1>1, <1>4, <1>6
  <2>3. Associates(M, F, T) /\ Associates(F, T, N)
    BY <2>2, AssociateMessages, Zenon
  <2>4. (M \o F) \o T = M \o (F \o T) /\ (F \o T) \o N = F \o (T \o N)
    BY <2>3, Zenon DEF Associates
  <2> QED BY <1>5, <2>1, <2>3, <2>4, Zenon
<1>8. Shift(way, way', M, B, N)
  BY <1>1, <1>4, <1>6, <1>7 DEF Shift
<1>9. ToSet(M \o F) = ToSet(M) \union ToSet(F) /\ ToSet(T \o N) = ToSet(T) \union ToSet(N)
  BY <1>1, <1>4, <1>6, JoinSet
<1> QED BY <1>1, <1>4, <1>5, <1>6, <1>8, <1>9

\* The filter in use, when none is sent.
LEMMA MovesFilter ==
  ASSUME NodeTypes, NodeTypes', Loaded, InUse, NEW M, NEW N, Moves(M, N), ~Meets(N, Loads),
         bloomFilter' \in {bloomFilter, None}, addrs \in Nat, addrs' \in Nat, addrs <= addrs'
  PROVE  Loaded' /\ InUse'
<1> PICK B : B = fromNode' \o toNode
  OBVIOUS
<1>1. /\ Shift(way, way', M, B, N) /\ ToSet(toNode') = ToSet(toNode) \union ToSet(N)
      /\ \A m \in ToSet(N) : m \in Asked(mined) /\ m \in Messages
      /\ UNCHANGED <<filter, connected>> /\ connected
      /\ toNode \in Seq(Messages) /\ N \in Seq(Messages) /\ toNode' = toNode \o N
  <2>1. /\ Shift(way, way', M, B, N) /\ ToSet(toNode') = ToSet(toNode) \union ToSet(N)
        /\ \A m \in ToSet(N) : m \in Asked(mined) /\ m \in Messages
        /\ toNode \in Seq(Messages)
    BY MovesFacts
  <2>2. N \in Seq(Messages)
    BY <2>1 DEF Shift
  <2> QED BY <2>1, <2>2 DEF Moves
<1>2. \A m \in ToSet(N) : m.type # "filterload"
  <2>1. \A m \in ToSet(N) : m \notin Loads
    BY <1>1, MeetsSet
  <2> QED BY <1>1, <2>1 DEF Loads
<1>3. NoneAfter(way', Matched, Loads)
  <2>1. NoneAfter(way, Matched, Loads)
    BY DEF InUse
  <2>2. NoneAfter(B, Matched, Loads)
    BY <1>1, <2>1, ShiftNoneAfter
  <2>3. NoneAfter(N, Matched, Loads)
    BY <1>1, OfNone
  <2> QED BY <1>1, <2>2, <2>3, ShiftNoneAfter
<1>4. connected /\ bloomFilter' # None => FilterIs(bloomFilter', filter, toNode')
  <2> SUFFICES ASSUME bloomFilter' # None PROVE FilterIs(bloomFilter', filter, toNode')
    OBVIOUS
  <2>1. bloomFilter' = bloomFilter /\ FilterIs(bloomFilter, filter, toNode)
    BY <1>1 DEF InUse
  <2> QED BY <1>1, <1>2, <2>1 DEF FilterIs
<1>5. FilterBelow(addrs', filter, toNode')
  <2>1. FilterBelow(addrs, filter, toNode) /\ Loaded
    BY DEF InUse
  <2>2. filter # None => filter.addrs \in Nat
    BY <2>1 DEF Loaded, Filters
  <2>3. \A m \in ToSet(toNode) : m.type = "filterload" => m.filter.addrs \in Nat
    <3> SUFFICES ASSUME NEW m \in ToSet(toNode), m.type = "filterload" PROVE m.filter.addrs \in Nat
      OBVIOUS
    <3>1. m \in Asked(mined) /\ mined \in Nat
      BY WayTypes
    <3>2. m.filter \in Filters
      BY <3>1, AskedFacts
    <3> QED BY <3>2 DEF Filters
  <2> QED BY <1>1, <1>2, <2>1, <2>2, <2>3 DEF FilterBelow
<1>6. Loaded'
  <2>1. toNode # <<>> => toNode' # <<>> /\ Head(toNode') = Head(toNode)
    <3>1. PICK q, p \in Seq(Messages) : q = toNode /\ p = N
      BY <1>1
    <3>2. q # <<>> => q \o p # <<>> /\ Head(q \o p) = Head(q)
      OBVIOUS
    <3> QED BY <1>1, <3>1, <3>2
  <2> QED BY <1>1, <2>1 DEF Loaded
<1> QED BY <1>1, <1>3, <1>4, <1>5, <1>6 DEF InUse

\* A known transaction still comes.
LEMMA MovesComes ==
  ASSUME NodeTypes, NodeTypes', NEW M, NEW N, Moves(M, N), NEW t, Comes(t, way), ~Meets(M, Carriers(t))
  PROVE  Comes(t, way')
<1> PICK B, q, p : B = fromNode' \o toNode /\ q = way /\ p = way'
  OBVIOUS
<1> PICK C, D : C = Carriers(t) /\ D = Bearers(t)
  OBVIOUS
<1>1. Shift(q, p, M, B, N)
  BY MovesFacts
<1>2. Meets(q, C) /\ Preceded(q, C, D) /\ ~Meets(M, C)
  BY DEF Comes
<1>3. Meets(B, C) /\ Meets(p, C)
  BY <1>1, <1>2, ShiftMeets
<1>4. Preceded(B, C, D)
  BY <1>1, <1>2, ShiftPreceded
<1>5. Preceded(p, C, D)
  BY <1>1, <1>3, <1>4, ShiftPreceded
<1> QED BY <1>3, <1>5 DEF Comes

\* Transactions are still announced before their blocks.
LEMMA MovesTold ==
  ASSUME NodeTypes, NodeTypes', NEW M, NEW N, Moves(M, N), ToldFirst,
         \A t \in Tx : Meets(N, Bearers(t)) \/ t \in TxsOf(ctx'.known) => t \in TxsOf(ctx.known) \/ Meets(M, Revealers(t))
  PROVE  ToldFirst'
<1> PICK B, q, p, known, now : B = fromNode' \o toNode /\ q = way /\ p = way' /\ known = ctx.known /\ now = ctx'.known
  OBVIOUS
<1> SUFFICES ASSUME NEW t \in Tx PROVE ToldBefore(t, p, now)
  BY DEF ToldFirst
<1> PICK T, R, D : T = Tellers(t) /\ R = Revealers(t) /\ D = Bearers(t)
  OBVIOUS
<1>1. Shift(q, p, M, B, N) /\ ~Meets(N, T)
  BY MovesFacts
<1>2. /\ Meets(q, T) => ~Meets(q, D) /\ t \notin TxsOf(known)
      /\ NoneAfter(q, R, T)
  BY DEF ToldFirst, ToldBefore
<1>3. Meets(N, D) \/ t \in TxsOf(now) => t \in TxsOf(known) \/ Meets(M, R)
  OBVIOUS
<1>4. /\ Meets(q, T) <=> Meets(M, T) \/ Meets(B, T)
      /\ Meets(p, T) <=> Meets(B, T) \/ Meets(N, T)
  BY <1>1, ShiftMeets
<1>5. /\ Meets(q, D) <=> Meets(M, D) \/ Meets(B, D)
      /\ Meets(p, D) <=> Meets(B, D) \/ Meets(N, D)
  BY <1>1, ShiftMeets
<1>6. /\ NoneAfter(q, R, T) <=> NoneAfter(M, R, T) /\ NoneAfter(B, R, T) /\ ~(Meets(M, R) /\ Meets(B, T))
      /\ NoneAfter(p, R, T) <=> NoneAfter(B, R, T) /\ NoneAfter(N, R, T) /\ ~(Meets(B, R) /\ Meets(N, T))
  BY <1>1, ShiftNoneAfter
<1>7. NoneAfter(N, R, T)
  <2>1. N \in Seq(Messages)
    BY <1>1 DEF Shift
  <2> QED BY <1>1, <2>1, OfNone
<1>8. (Meets(p, T) => ~Meets(p, D) /\ t \notin TxsOf(now)) /\ NoneAfter(p, R, T)
  BY <1>1, <1>2, <1>3, <1>4, <1>5, <1>6, <1>7
<1> QED BY <1>8 DEF ToldBefore

\* What is announced is still served.
LEMMA MovesPooled ==
  ASSUME NodeTypes, NodeTypes', NEW M, NEW N, Moves(M, N), Pooled, addrs \in Nat, addrs' \in Nat, addrs <= addrs',
         ctx'.knownTx \subseteq announced, \A m \in ToSet(N) : m.type = "getdata" => m.txs \subseteq announced
  PROVE  Pooled'
<1>1. /\ ToSet(fromNode') \subseteq ToSet(fromNode) /\ ToSet(toNode') = ToSet(toNode) \union ToSet(N)
      /\ UNCHANGED <<mined, pool, announced>>
  BY MovesFacts DEF Moves
<1>2. Mined' = Mined
  BY <1>1 DEF Mined
<1>3. ASSUME NEW t \in Payments, Pays2Wallet(t) PROVE Pays2Wallet(t)'
  BY <1>3, FilterAssumption DEF Pays2Wallet, Payments
<1> QED BY <1>1, <1>2, <1>3 DEF Pooled

\* A step of the wallet.
LEMMA WalletKeepsRest ==
  ASSUME KInv, IInv', NEW M, NEW N, Moves(M, N), Grown, Loaded', InUse', Updating', Live', Noted',
         \A t \in Tx : Meets(N, Bearers(t)) \/ t \in TxsOf(ctx'.known) => t \in TxsOf(ctx.known) \/ Meets(M, Revealers(t)),
         \A t \in ctx.knownTx \intersect Payments : Meets(M, Carriers(t)) => t \in Registered(height'),
         \A t \in ctx'.knownTx \intersect Payments : t \in ctx.knownTx \/ Comes(t, way'),
         ctx'.knownTx \subseteq announced, \A m \in ToSet(N) : m.type = "getdata" => m.txs \subseteq announced,
         PaymentsKept', Generated'
  PROVE  KInv'
<1>1. /\ NodeTypes /\ NodeTypes' /\ addrs \in Nat /\ addrs' \in Nat /\ addrs <= addrs'
      /\ Known /\ ToldFirst /\ Pooled
  BY DEF KInv, IInv, Coverage, Grown
<1>2. Pooled'
  BY <1>1, MovesPooled
<1>3. ToldFirst'
  BY <1>1, MovesTold
<1>4. Known'
  <2> SUFFICES ASSUME NEW t \in ctx'.knownTx \intersect Payments PROVE t \in Registered(height') \/ Comes(t, way')
    BY DEF Known
  <2>1. CASE t \notin ctx.knownTx
    BY <2>1
  <2>2. CASE t \in ctx.knownTx
    <3>1. t \in Registered(height) \/ Comes(t, way)
      BY <1>1, <2>2 DEF Known
    <3>2. CASE t \in Registered(height)
      BY <3>2 DEF Grown
    <3>3. CASE Comes(t, way) /\ ~Meets(M, Carriers(t))
      BY <1>1, <3>3, MovesComes
    <3>4. CASE Meets(M, Carriers(t))
      BY <2>2, <3>4
    <3> QED BY <3>1, <3>2, <3>3, <3>4
  <2> QED BY <2>1, <2>2
<1> QED BY <1>2, <1>3, <1>4 DEF KInv

\* The wallet reads a message.
LEMMA ReadMoves ==
  ASSUME KInv, IInv', NEW type, Reads(type), NEW N, N \in Seq(Asked(mined)), Sends(N),
         UNCHANGED <<mined, pool, announced, filter, connected>>, NEW m, m = Head(fromNode), NEW M, M = <<m>>
  PROVE  /\ Moves(M, N) /\ m \in Heard(mined) /\ m \in Messages /\ m \in ToSet(fromNode) /\ m.type = type
         /\ relayed = None /\ mined \in Nat /\ mined \in 0 .. Len(Chain)
         /\ Marks(M) = IF type = "pong" THEN 1 ELSE 0
         /\ \A A : Meets(M, A) <=> m \in A
<1>1. /\ relayed = None /\ fromNode # <<>> /\ m \in Heard(mined) /\ m.type = type /\ connected
      /\ mined \in Nat /\ mined \in 0 .. Len(Chain)
  BY ReadByWallet DEF KInv, IInv, NodeTypes
<1>2. m \in Messages /\ fromNode \in Seq(Messages)
  BY <1>1, AllMessages, WayTypes DEF KInv, IInv
<1>3. m \in ToSet(fromNode)
  BY <1>1, <1>2, HeadSet
<1>4. fromNode = M \o fromNode'
  <2>1. fromNode' = Tail(fromNode)
    BY DEF Reads
  <2> QED BY <1>1, <1>2, <2>1, Cut
<1>5. M \in Seq(Messages)
  <2>1. PICK S : S = Messages
    OBVIOUS
  <2>2. m \in S
    BY <1>2, <2>1
  <2>3. <<m>> \in Seq(S)
    BY <2>2
  <2> QED BY <2>1, <2>3
<1>6. Moves(M, N)
  BY <1>1, <1>4, <1>5 DEF Moves, Sends
<1>7. \A A : Meets(<<m>>, A) <=> m \in A
  BY Zenon, MeetsOne
<1>8. Marks(M) = IF type = "pong" THEN 1 ELSE 0
  <2>1. m.type \in Mark <=> m.type = "pong"
    BY <1>1, HeardFacts
  <2> QED BY <1>1, <2>1, MarksOne
<1> QED BY <1>1, <1>2, <1>3, <1>6, <1>7, <1>8

\* As many completions wait as pings and pongs are on their way.
LEMMA WayMarks == ASSUME IInv PROVE Marks(way) = Len(pongs)
<1>1. fromNode \in Seq(Messages) /\ toNode \in Seq(Messages)
  BY WayTypes DEF IInv
<1>2. Marks(fromNode \o toNode) = Marks(fromNode) + Marks(toNode)
  BY <1>1, MarksJoin
<1> QED BY <1>2 DEF IInv, Answered, way

\* One update at a time, as the wallet reads and sends.
LEMMA MovesUpdating ==
  ASSUME IInv, IInv', Updating, NEW M, NEW N, Moves(M, N), NEW R, NEW cs, Taken(pongs, pongs', R, cs, Marks(M)),
         \A k \in 1 .. Len(R) : R[k] \in UpdateCalls => ctx'.needsUpdate,
         \A k \in 1 .. Len(cs) : cs[k] \in UpdateCalls =>
            ctx'.needsUpdate /\ \A l \in 1 .. Len(R) : R[l] \notin UpdateCalls,
         (\E k \in 1 .. Len(pongs') : pongs'[k] = "updateFilterPingDone") => ~Meets(N, Matched)
  PROVE  Updating'
<1> PICK B, q, p, ps, qs, needed, now, j :
      /\ B = fromNode' \o toNode /\ q = way /\ p = way' /\ ps = pongs /\ qs = pongs'
      /\ needed = ctx.needsUpdate /\ now = ctx'.needsUpdate /\ j = Marks(M)
  OBVIOUS
<1>1. Shift(q, p, M, B, N)
  BY MovesFacts DEF IInv
<1>2. Marks(q) = Len(ps)
  BY WayMarks
<1>3. Updates(q, ps, needed)
  BY DEF Updating
<1>4. Taken(ps, qs, R, cs, j)
  OBVIOUS
<1>5. Updates(p, qs, now)
  BY <1>1, <1>2, <1>3, <1>4, UpdatesStep
<1> QED BY <1>5 DEF Updating

\* An element of a concatenation.
LEMMA OneOfBoth ==
  ASSUME NEW S, NEW a \in Seq(S), NEW b \in Seq(S), NEW q, q = a \o b, NEW k \in 1 .. Len(q)
  PROVE  (k \in 1 .. Len(a) /\ q[k] = a[k]) \/ \E l \in 1 .. Len(b) : q[k] = b[l]
<1>1. /\ Len(a) \in Nat /\ Len(b) \in Nat /\ Len(a \o b) = Len(a) + Len(b)
      /\ \A i \in 1 .. Len(a) : (a \o b)[i] = a[i]
      /\ \A i \in 1 .. Len(b) : (a \o b)[Len(a) + i] = b[i]
  BY Join
<1>2. k \in 1 .. Len(a) + Len(b)
  BY <1>1
<1>3. CASE k \in 1 .. Len(a)
  BY <1>1, <1>3
<1>4. CASE k \notin 1 .. Len(a)
  <2>1. k - Len(a) \in 1 .. Len(b) /\ Len(a) + (k - Len(a)) = k
    BY <1>1, <1>2, <1>4
  <2>2. q[k] = b[k - Len(a)]
    BY <1>1, <2>1
  <2> QED BY <2>1, <2>2
<1> QED BY <1>3, <1>4

\* The same when no pong is read.
LEMMA UpdatingKept ==
  ASSUME IInv, IInv', Updating, NEW M, NEW N, Moves(M, N), Marks(M) = 0,
         NEW cs, cs = <<>> \/ \E c \in Calls : cs = <<c>> /\ (c \in UpdateCalls => ~ctx.needsUpdate /\ ctx'.needsUpdate),
         pongs' = pongs \o cs, ctx.needsUpdate => ctx'.needsUpdate,
         Meets(N, Matched) => ~ctx.needsUpdate /\ cs # <<"updateFilterPingDone">>
  PROVE  Updating'
<1>1. pongs \in Seq(Calls)
  BY DEF IInv, WalletTypes
<1>2. cs \in Seq(Calls) /\ (\A k \in 1 .. Len(cs) : k = 1 /\ cs = <<cs[k]>>)
  <2>1. CASE cs = <<>>
    <3>1. cs \in Seq(Calls) /\ 1 .. Len(cs) = {}
      BY <2>1
    <3> QED BY <3>1
  <2>2. CASE cs # <<>>
    <3>1. PICK c \in Calls : cs = <<c>>
      BY <2>2
    <3>2. <<c>> \in Seq(Calls) /\ Len(<<c>>) = 1 /\ <<c>>[1] = c /\ 1 .. 1 = {1}
      BY DEF Calls, UpdateCalls
    <3> QED BY <3>1, <3>2
  <2> QED BY <2>1, <2>2
<1>3. Taken(pongs, pongs', pongs, cs, 0)
  BY <1>1, <1>2 DEF Taken
<1>4. \A k \in 1 .. Len(pongs) : pongs[k] \in UpdateCalls => ctx.needsUpdate
  BY DEF Updating, Updates
<1>5. \A k \in 1 .. Len(cs) : cs[k] \in UpdateCalls => ~ctx.needsUpdate /\ ctx'.needsUpdate
  <2> SUFFICES ASSUME NEW k \in 1 .. Len(cs), cs[k] \in UpdateCalls PROVE ~ctx.needsUpdate /\ ctx'.needsUpdate
    OBVIOUS
  <2>1. cs = <<cs[k]>> /\ cs # <<>>
    BY <1>2
  <2>2. PICK c \in Calls : cs = <<c>> /\ (c \in UpdateCalls => ~ctx.needsUpdate /\ ctx'.needsUpdate)
    BY <2>1
  <2>3. c = cs[k]
    BY <1>2, <2>2
  <2> QED BY <2>2, <2>3
<1>6. ASSUME NEW k \in 1 .. Len(pongs'), pongs'[k] = "updateFilterPingDone", Meets(N, Matched) PROVE FALSE
  <2>1. ~ctx.needsUpdate /\ cs # <<"updateFilterPingDone">>
    BY <1>6
  <2>2. \A l \in 1 .. Len(pongs) : pongs[l] # "updateFilterPingDone"
    BY <1>4, <2>1 DEF UpdateCalls
  <2>3. \A l \in 1 .. Len(cs) : cs[l] # "updateFilterPingDone"
    <3> SUFFICES ASSUME NEW l \in 1 .. Len(cs), cs[l] = "updateFilterPingDone" PROVE FALSE
      OBVIOUS
    <3>1. cs = <<cs[l]>>
      BY <1>2
    <3> QED BY <2>1, <3>1
  <2>4. PICK qs : qs = pongs'
    OBVIOUS
  <2>5. (k \in 1 .. Len(pongs) /\ qs[k] = pongs[k]) \/ \E l \in 1 .. Len(cs) : qs[k] = cs[l]
    BY <1>1, <1>2, <2>4, OneOfBoth
  <2>6. qs[k] = "updateFilterPingDone"
    BY <1>6, <2>4
  <2> QED BY <2>2, <2>3, <2>5, <2>6
<1> QED BY <1>3, <1>4, <1>5, <1>6, MovesUpdating

\* Nothing sent.
LEMMA SendsNothing ==
  ASSUME IInv, toNode' = toNode
  PROVE  /\ Sends(<<>>) /\ <<>> \in Seq(Asked(mined)) /\ \A A : ~Meets(<<>>, A) /\ ToSet(<<>>) = {}
<1>1. PICK S : S = Asked(mined)
  OBVIOUS
<1>2. PICK q \in Seq(S) : q = toNode
  BY <1>1 DEF IInv, NodeTypes
<1>3. q = q \o <<>> /\ <<>> \in Seq(S)
  OBVIOUS
<1> QED BY <1>1, <1>2, <1>3, OfNothing DEF Sends

\* A payment that was announced is registered when its block comes.
LEMMA KnownHere ==
  ASSUME KInv, NEW m, fromNode # <<>>, m = Head(fromNode), m.type = "merkleblock",
         NEW t \in m.txs \intersect Payments, t \in ctx.knownTx
  PROVE  t \in Registered(height)
<1>1. NodeTypes /\ (t \in Registered(height) \/ Comes(t, way))
  BY DEF KInv, IInv, Known
<1> SUFFICES ASSUME Comes(t, way) PROVE FALSE
  BY <1>1
<1>2. PICK C, D : C = Carriers(t) /\ D = Bearers(t)
  OBVIOUS
<1>3. Preceded(fromNode \o toNode, C, D)
  BY <1>2 DEF Comes, way
<1>4. /\ fromNode \in Seq(Messages) /\ toNode \in Seq(Messages) /\ mined \in Nat
      /\ m \in Heard(mined) /\ m \in Messages
  <2>1. fromNode \in Seq(Messages) /\ toNode \in Seq(Messages) /\ mined \in Nat
    BY WayTypes DEF KInv, IInv
  <2>2. m \in ToSet(fromNode)
    BY <2>1, HeadSet
  <2> QED BY <2>1, <2>2, WayTypes DEF KInv, IInv
<1>5. Preceded(fromNode, C, D)
  BY <1>3, <1>4, PrecededJoin
<1>6. PICK i \in 1 .. 1 : fromNode[i] \in C
  <2>1. 1 \in 1 .. Len(fromNode) /\ fromNode[1] = m
    BY <1>4, Cut
  <2>2. m \in D
    <3>1. t \in ToSet(Chain[m.height])
      BY <1>4, HeardFacts
    <3> QED BY <1>2, <1>4, <3>1 DEF Bearers
  <2> QED BY <1>5, <2>1, <2>2 DEF Preceded
<1>7. m \in C
  <2>1. fromNode[1] = m /\ i = 1
    BY <1>4, Cut
  <2> QED BY <1>6, <2>1
<1> QED BY <1>2, <1>7 DEF Carriers

\* Requests that ask for no block and no transaction, and send no filter.
Plain(n, Q) == Q \in Seq(Asked(n)) /\ \A y \in ToSet(Q) : y.type \in {"getblocks", "mempool", "ping"}

\* What they are not.
LEMMA PlainFacts ==
  ASSUME NEW n \in 0 .. Len(Chain), NEW Q, Plain(n, Q)
  PROVE  /\ Q \in Seq(Asked(n)) /\ Q \in Seq(Messages)
         /\ ~Meets(Q, Loads) /\ ~Meets(Q, Matched)
         /\ \A t : ~Meets(Q, Bearers(t)) /\ ~Meets(Q, Carriers(t))
         /\ \A y \in ToSet(Q) : y.type # "getdata"
<1>1. PICK K : K = {"getblocks", "mempool", "ping"}
  OBVIOUS
<1>2. Q \in Seq(Asked(n)) /\ \A y \in ToSet(Q) : y.type \in K
  BY <1>1 DEF Plain
<1>3. Q \in Seq(Messages)
  BY <1>2, AllMessages
<1>4. "filterload" \notin K /\ "merkleblock" \notin K /\ "getdata" \notin K /\ "tx" \notin K
  BY <1>1
<1>5. ~Meets(Q, Loads) /\ ~Meets(Q, Matched) /\ \A t : ~Meets(Q, Bearers(t)) /\ ~Meets(Q, Carriers(t))
  BY <1>2, <1>3, <1>4, TypesMeet, Zenon
<1> QED BY <1>2, <1>3, <1>4, <1>5

\* Two of them.
LEMMA PlainJoin ==
  ASSUME NEW n \in 0 .. Len(Chain), NEW a, NEW b, Plain(n, a), Plain(n, b)
  PROVE  Plain(n, a \o b)
<1>1. PICK S : S = Asked(n)
  OBVIOUS
<1>2. a \in Seq(S) /\ b \in Seq(S)
  BY <1>1 DEF Plain
<1>3. a \o b \in Seq(S) /\ ToSet(a \o b) = ToSet(a) \union ToSet(b)
  BY <1>2, Join, JoinSet
<1> QED BY <1>1, <1>3 DEF Plain

\* Those that are sent.
LEMMA PlainSent ==
  ASSUME NEW n \in 0 .. Len(Chain)
  PROVE  /\ Plain(n, <<>>) /\ Plain(n, Ping) /\ (\A x \in Nat : Plain(n, GetBlocks(x))) /\ (\A c : Plain(n, Mempool(c)))
         /\ \A c \in Calls : Plain(n, PingMessages(<<c>>))
         /\ Plain(n, PingMessages(<<>>)) /\ PingMessages(<<>>) = <<>>
<1>1. n \in Nat
  BY FilterAssumption
<1>2. \A m : ToSet(<<m>>) = {m}
  BY DEF ToSet
<1>3. Plain(n, <<>>)
  BY <1>1, NothingOnTheWay, OfNothing DEF Plain
<1>4. Plain(n, Ping)
  <2>1. Ping \in Seq(Asked(n))
    BY <1>1, MessagesSent DEF Sent
  <2> QED BY <1>2, <2>1 DEF Plain, Ping
<1>5. ASSUME NEW x \in Nat PROVE Plain(n, GetBlocks(x))
  <2>1. GetBlocks(x) \in Seq(Asked(n))
    BY <1>1, MessagesSent DEF Sent
  <2> QED BY <1>2, <2>1 DEF Plain, GetBlocks
<1>6. ASSUME NEW c PROVE Plain(n, Mempool(c))
  <2>1. Mempool(c) \in Seq(Asked(n))
    BY <1>1, MessagesSent DEF Sent
  <2>2. Mempool(c) = <<>> \/ Mempool(c) = <<[type |-> "mempool"]>>
    BY DEF Mempool
  <2> QED BY <1>2, <1>3, <2>1, <2>2 DEF Plain
<1>7. ASSUME NEW cs, cs = <<>> \/ \E c \in Calls : cs = <<c>> PROVE Plain(n, PingMessages(cs))
  <2>1. PICK P : P = PingMessages(cs)
    OBVIOUS
  <2>2. P \in Seq(Asked(n))
    BY <1>1, <1>7, <2>1, PingsSent DEF Sent
  <2>3. \A y \in ToSet(P) : y.type = "ping"
    <3>1. P = [i \in DOMAIN cs |-> Ping[1]] /\ Ping[1].type = "ping"
      BY <2>1 DEF PingMessages, Ping
    <3>2. \A i \in DOMAIN P : P[i].type = "ping"
      BY <3>1
    <3> QED BY <3>2 DEF ToSet
  <2> QED BY <2>1, <2>2, <2>3 DEF Plain
<1>8. PingMessages(<<>>) = <<>>
  BY DEF PingMessages
<1>9. \A c \in Calls : Plain(n, PingMessages(<<c>>))
  BY <1>7
<1>10. Plain(n, PingMessages(<<>>))
  BY <1>7
<1> QED BY <1>3, <1>4, <1>5, <1>6, <1>8, <1>9, <1>10

\* A request for transactions and blocks.
LEMMA GetDataSent ==
  ASSUME NEW n \in 0 .. Len(Chain), NEW T \in SUBSET Tx, NEW W \in Seq(1 .. n), NEW D, D = GetData(T, W)
  PROVE  /\ D \in Seq(Asked(n)) /\ D \in Seq(Messages)
         /\ ~Meets(D, Loads) /\ (Meets(D, Matched) => W # <<>>)
         /\ \A t : Meets(D, Bearers(t)) => t \in TxsOf(W)
         /\ \A t \in T : Meets(D, Carriers(t)) /\ Preceded(D, Carriers(t), Bearers(t))
         /\ \A y \in ToSet(D) : y.txs = T
<1>1. n \in Nat
  BY FilterAssumption
<1>2. D \in Seq(Asked(n))
  BY <1>1, MessagesSent DEF Sent
<1>3. D \in Seq(Messages)
  BY <1>2, AllMessages
<1>4. CASE T = {} /\ W = <<>>
  <2>1. D = <<>>
    BY <1>4 DEF GetData
  <2> QED BY <1>2, <1>3, <1>4, <2>1, OfNothing
<1>5. CASE ~(T = {} /\ W = <<>>)
  <2>1. PICK g : g = [type |-> "getdata", txs |-> T, blocks |-> W]
    OBVIOUS
  <2>2. D = <<g>> /\ g.type = "getdata" /\ g.txs = T /\ g.blocks = W
    BY <1>5, <2>1 DEF GetData
  <2>3. ToSet(<<g>>) = {g}
    BY DEF ToSet
  <2>4. \A A : Meets(D, A) <=> g \in A
    BY <2>2, MeetsOne, Zenon
  <2>5. ~Meets(D, Loads) /\ (Meets(D, Matched) => W # <<>>)
    BY <2>2, <2>4 DEF Loads, Matched
  <2>6. g \in Messages
    BY <1>3, <2>2, <2>3, Elements
  <2>7. ASSUME NEW t, Meets(D, Bearers(t)) PROVE t \in TxsOf(W)
    <3>1. g \in Bearers(t)
      BY <2>4, <2>7
    <3> QED BY <2>2, <3>1 DEF Bearers
  <2>8. ASSUME NEW t \in T PROVE Meets(D, Carriers(t)) /\ Preceded(D, Carriers(t), Bearers(t))
    <3>1. g \in Carriers(t)
      BY <2>2, <2>6, <2>8 DEF Carriers
    <3>2. 0 \in Int
      OBVIOUS
    <3>3. Preceded(<<g>>, Carriers(t), Bearers(t))
      BY <3>1, <3>2, OfOne
    <3> QED BY <2>2, <2>4, <3>1, <3>3
  <2> QED BY <1>2, <1>3, <2>2, <2>3, <2>5, <2>7, <2>8
<1> QED BY <1>4, <1>5

\* What a request for transactions and blocks is, with others.
Requested(n, N, T, W) ==
  /\ N \in Seq(Asked(n)) /\ N \in Seq(Messages)
  /\ ~Meets(N, Loads) /\ (Meets(N, Matched) => W # <<>>)
  /\ \A t : Meets(N, Bearers(t)) => t \in TxsOf(W)
  /\ \A t \in T : Meets(N, Carriers(t)) /\ Preceded(N, Carriers(t), Bearers(t))
  /\ \A y \in ToSet(N) : y.type = "getdata" => y.txs = T

\* A request for transactions and blocks, and others after it.
LEMMA RequestSent ==
  ASSUME NEW n \in 0 .. Len(Chain), NEW T \in SUBSET Tx, NEW W \in Seq(1 .. n), NEW Q, Plain(n, Q),
         NEW N, N = GetData(T, W) \o Q
  PROVE  Requested(n, N, T, W)
<1>1. PICK D : D = GetData(T, W)
  OBVIOUS
<1>2. /\ D \in Seq(Asked(n)) /\ D \in Seq(Messages)
      /\ ~Meets(D, Loads) /\ (Meets(D, Matched) => W # <<>>)
      /\ \A t : Meets(D, Bearers(t)) => t \in TxsOf(W)
      /\ \A t \in T : Meets(D, Carriers(t)) /\ Preceded(D, Carriers(t), Bearers(t))
      /\ \A y \in ToSet(D) : y.txs = T
  BY <1>1, GetDataSent
<1>3. /\ Q \in Seq(Asked(n)) /\ Q \in Seq(Messages)
      /\ ~Meets(Q, Loads) /\ ~Meets(Q, Matched)
      /\ \A t : ~Meets(Q, Bearers(t)) /\ ~Meets(Q, Carriers(t))
      /\ \A y \in ToSet(Q) : y.type # "getdata"
  BY PlainFacts
<1>4. N \in Seq(Asked(n)) /\ N \in Seq(Messages) /\ ToSet(N) = ToSet(D) \union ToSet(Q)
  <2>1. PICK S : S = Asked(n)
    OBVIOUS
  <2>2. N \in Seq(S)
    BY <1>1, <1>2, <1>3, <2>1, JoinAs
  <2> QED BY <1>1, <1>2, <1>3, <2>1, <2>2, JoinSet, AllMessages
<1>5. N = D \o Q
  BY <1>1
<1>6. \A A : Meets(N, A) <=> Meets(D, A) \/ Meets(Q, A)
  BY <1>2, <1>3, <1>5, MeetsJoin
<1>7. ASSUME NEW t \in T PROVE Meets(N, Carriers(t)) /\ Preceded(N, Carriers(t), Bearers(t))
  <2>1. PICK C, B : C = Carriers(t) /\ B = Bearers(t)
    OBVIOUS
  <2>2. Preceded(N, C, B) <=> Preceded(D, C, B) /\ (Meets(D, C) \/ Preceded(Q, C, B))
    BY <1>2, <1>3, <1>5, PrecededJoin
  <2> QED BY <1>2, <1>6, <2>1, <2>2
<1>8. ~Meets(N, Loads) /\ (Meets(N, Matched) => W # <<>>)
  BY <1>2, <1>3, <1>6
<1>9. ASSUME NEW t, Meets(N, Bearers(t)) PROVE t \in TxsOf(W)
  <2>1. PICK B : B = Bearers(t)
    OBVIOUS
  <2>2. Meets(D, B)
    BY <1>3, <1>6, <1>9, <2>1
  <2> QED BY <1>2, <2>1, <2>2
<1> QED BY <1>2, <1>3, <1>4, <1>7, <1>8, <1>9 DEF Requested

\* No block moves: those that are here were matched as before.
LEMMA LiveKept ==
  ASSUME Live, ToSet(fromNode') \subseteq ToSet(fromNode), bloomFilter' \in {bloomFilter, None},
         UNCHANGED <<orphans, relayed>>, ctx'.current = ctx.current
  PROVE  Live'
<1> PICK n : n = bloomFilter
  OBVIOUS
<1> SUFFICES ASSUME bloomFilter' # None PROVE MatchedBy(n, fromNode', ctx'.current, relayed', orphans')
  BY DEF Live
<1>1. MatchedBy(n, fromNode, ctx.current, relayed, orphans)
  BY DEF Live
<1> QED BY <1>1 DEF MatchedBy

\* A payment stays one.
LEMMA PaysStill ==
  ASSUME addrs \in Nat, addrs' \in Nat, addrs <= addrs'
  PROVE  \A t \in Payments : Pays2Wallet(t) => Pays2Wallet(t)'
BY FilterAssumption DEF Pays2Wallet, Payments

\* Payments in blocks stay noted.
LEMMA NotedKept ==
  ASSUME Noted, Grown, ToSet(fromNode') \subseteq ToSet(fromNode), addrs \in Nat, addrs' \in Nat,
         UNCHANGED <<orphans, relayed>>, ctx'.current = ctx.current, ctx'.left = ctx.left
  PROVE  Noted'
<1>1. \A t \in Payments : Pays2Wallet(t) => Pays2Wallet(t)'
  BY PaysStill DEF Grown
<1>2. Registered(height) \subseteq Registered(height')
  BY DEF Grown
<1>3. \A t \in Payments : height'[t] # Foreign
  BY DEF Noted, Grown
<1>4. \A m \in ToSet(fromNode') : m.type = "tx" /\ m.tx \in Payments => Pays2Wallet(m.tx)'
  BY <1>1 DEF Noted
<1>5. \A m \in ToSet(fromNode') : m.type = "merkleblock" => \A t \in m.txs \intersect Payments : Pays2Wallet(t)'
  BY <1>1 DEF Noted
<1>6. ctx'.current # None =>
        \A t \in ctx'.current.txs \intersect Payments : Pays2Wallet(t)' /\ (t \in Registered(height') \/ t \in ctx'.left)
  BY <1>1, <1>2 DEF Noted
<1>7. relayed' # None => relayed'.txs \intersect Payments \subseteq Registered(height')
  BY <1>2 DEF Noted
<1>8. \A h \in 1 .. Len(Chain) : orphans'[h] # None => orphans'[h] \intersect Payments \subseteq Registered(height')
  BY <1>2 DEF Noted
<1> QED BY <1>3, <1>4, <1>5, <1>6, <1>7, <1>8 DEF Noted

\* A block comes.
LEMMA MerkleblockKept == ASSUME KInv, AcceptMerkleblock PROVE KInv'
<1>1. IInv' /\ IInv
  BY MerkleblockKeeps DEF KInv
<1>2. PICK m, M, N : m = Head(fromNode) /\ M = <<m>> /\ N = <<>>
  OBVIOUS
<1>3. PICK block, left : block = [height |-> m.height, txs |-> m.txs] /\ left = m.txs \ ctx.knownTx
  OBVIOUS
<1>4. /\ Reads("merkleblock") /\ toNode' = toNode
      /\ UNCHANGED <<mined, pool, announced, filter, connected, pongs, bloomFilter, lastBlock, orphans, height, addrs>>
      /\ IF left # {} THEN ctx' = [ctx EXCEPT !.current = block, !.left = left] /\ relayed' = relayed
                      ELSE relayed' = block /\ ctx' = ctx
  BY <1>2, <1>3 DEF AcceptMerkleblock, NodeUnchanged, node, manager, wallet
<1>5. Sends(N) /\ N \in Seq(Asked(mined)) /\ (\A A : ~Meets(N, A)) /\ ToSet(N) = {}
  BY <1>1, <1>2, <1>4, SendsNothing, Zenon
<1>6. /\ Moves(M, N) /\ m \in Heard(mined) /\ m \in Messages /\ m \in ToSet(fromNode) /\ m.type = "merkleblock"
      /\ relayed = None /\ mined \in Nat
      /\ Marks(M) = 0
      /\ \A A : Meets(M, A) <=> m \in A
  <2>1. PICK type : type = "merkleblock"
    OBVIOUS
  <2>2. Reads(type) /\ UNCHANGED <<mined, pool, announced, filter, connected>> /\ m = Head(fromNode) /\ M = <<m>>
    BY <1>2, <1>4, <2>1
  <2>3. /\ Moves(M, N) /\ m \in Heard(mined) /\ m \in Messages /\ m \in ToSet(fromNode) /\ m.type = type
        /\ relayed = None /\ mined \in Nat /\ mined \in 0 .. Len(Chain)
        /\ Marks(M) = IF type = "pong" THEN 1 ELSE 0
        /\ \A A : Meets(M, A) <=> m \in A
    BY <1>1, <1>5, <2>2, ReadMoves, Zenon
  <2> QED BY <2>1, <2>3
<1>7. /\ ctx.current = None /\ ctx.left = {} /\ ctx \in Contexts /\ fromNode # <<>>
  BY <1>1, <1>4, ReadByWallet, ContextFacts DEF IInv
<1>8. /\ ctx'.known = ctx.known /\ ctx'.knownTx = ctx.knownTx /\ ctx'.needsUpdate = ctx.needsUpdate
      /\ ctx'.current = IF left # {} THEN block ELSE None
      /\ ctx'.left = IF left # {} THEN left ELSE {}
  BY <1>4, <1>7 DEF Contexts
<1>9. ToSet(fromNode') \subseteq ToSet(fromNode)
  BY <1>1, <1>6, MovesFacts DEF IInv
<1>10. Grown /\ addrs \in Nat /\ addrs' \in Nat
  BY <1>1, <1>4 DEF Grown, IInv, Coverage
<1>11. Loaded' /\ InUse'
  BY <1>1, <1>4, <1>5, <1>6, <1>10, MovesFilter DEF IInv, KInv, Grown
<1>12. Updating'
  <2>1. pongs' = pongs \o <<>>
    <3>1. PICK ps \in Seq(Calls) : ps = pongs
      BY <1>1 DEF IInv, WalletTypes
    <3>2. ps = ps \o <<>>
      OBVIOUS
    <3> QED BY <1>4, <3>1, <3>2
  <2>2. PICK cs : cs = <<>>
    OBVIOUS
  <2> QED BY <1>1, <1>5, <1>6, <1>8, <2>1, <2>2, UpdatingKept DEF KInv
<1>13. \A t \in m.txs \intersect Payments : t \in Registered(height) \/ t \in left
  BY <1>2, <1>3, <1>6, <1>7, KnownHere
<1>14. block.txs = m.txs /\ block.height = m.height
  BY <1>3
<1>15. Live'
  <2> PICK n : n = bloomFilter
    OBVIOUS
  <2> SUFFICES ASSUME n # None PROVE MatchedBy(n, fromNode', ctx'.current, relayed', orphans)
    BY <1>4 DEF Live
  <2>1. MatchedBy(n, fromNode, ctx.current, relayed, orphans)
    BY DEF KInv, Live
  <2>2. Ours(n, block.height) \subseteq block.txs
    BY <1>6, <1>14, <2>1 DEF MatchedBy
  <2> QED BY <1>4, <1>6, <1>8, <1>9, <2>1, <2>2 DEF MatchedBy
<1>16. Noted'
  <2>1. Noted
    BY DEF KInv
  <2>2. \A t : Pays2Wallet(t)' <=> Pays2Wallet(t)
    BY <1>4 DEF Pays2Wallet
  <2>3. \A t \in block.txs \intersect Payments : Pays2Wallet(t)
    BY <1>6, <1>14, <2>1 DEF Noted
  <2>4. ctx'.current # None =>
        \A t \in ctx'.current.txs \intersect Payments : Pays2Wallet(t) /\ (t \in Registered(height) \/ t \in ctx'.left)
    BY <1>8, <1>13, <1>14, <2>3
  <2>5. relayed' # None => relayed'.txs \intersect Payments \subseteq Registered(height)
    BY <1>4, <1>6, <1>13, <1>14
  <2> QED BY <1>4, <1>9, <2>1, <2>2, <2>4, <2>5 DEF Noted
<1>17. PaymentsKept' /\ Generated'
  BY <1>4 DEF KInv, PaymentsKept, Generated
<1>18. \A t : m \notin Carriers(t)
  BY <1>6 DEF Carriers
<1>19. ctx.knownTx \subseteq announced
  BY DEF KInv, Pooled
<1> QED BY <1>1, <1>5, <1>6, <1>8, <1>10, <1>11, <1>12, <1>15, <1>16, <1>17, <1>18, <1>19, WalletKeepsRest

\* What is sent for an inv: cs are the completions.
InvAnswer(N, T, W, cs) ==
  N = GetData(T, W) \o (IF Len(W) >= MaxInv THEN GetBlocks(W[Len(W)]) ELSE <<>>) \o PingMessages(cs)

\* What an inv is answered with.
LEMMA InvSent ==
  ASSUME NEW n \in 0 .. Len(Chain), NEW T \in SUBSET Tx, NEW W \in Seq(1 .. n),
         NEW cs, cs = <<>> \/ \E c \in Calls : cs = <<c>>, NEW N, InvAnswer(N, T, W, cs)
  PROVE  Requested(n, N, T, W)
<1>0. PICK D, G, P : /\ D = GetData(T, W) /\ P = PingMessages(cs)
                     /\ G = IF Len(W) >= MaxInv THEN GetBlocks(W[Len(W)]) ELSE <<>>
  OBVIOUS
<1>1. N = (D \o G) \o P
  BY <1>0 DEF InvAnswer
<1>2. Plain(n, G)
  <2>1. CASE Len(W) >= MaxInv
    <3>1. W[Len(W)] \in Nat
      <4>1. Len(W) \in 1 .. Len(W)
        BY <2>1, FilterAssumption
      <4> QED BY <4>1
    <3> QED BY <1>0, <2>1, <3>1, PlainSent
  <2>2. CASE ~(Len(W) >= MaxInv)
    BY <1>0, <2>2, PlainSent
  <2> QED BY <2>1, <2>2
<1>3. Plain(n, P)
  BY <1>0, PlainSent
<1>4. PICK Q : Q = G \o P
  OBVIOUS
<1>5. Plain(n, Q)
  BY <1>2, <1>3, <1>4, PlainJoin
<1>6. D \in Seq(Messages) /\ G \in Seq(Messages) /\ P \in Seq(Messages)
  BY <1>0, <1>2, <1>3, GetDataSent, PlainFacts
<1>7. (D \o G) \o P = D \o (G \o P)
  <2>1. Associates(D, G, P)
    BY <1>6, AssociateMessages, Zenon
  <2> QED BY <2>1, Zenon DEF Associates
<1>8. D \o (G \o P) = D \o Q
  BY <1>4, Zenon
<1>9. N = GetData(T, W) \o Q
  BY <1>0, <1>1, <1>7, <1>8, Zenon
<1> QED BY <1>5, <1>9, RequestSent, Zenon

\* An inv comes.
LEMMA InvKept == ASSUME KInv, AcceptInv PROVE KInv'
<1>1. IInv' /\ IInv /\ NodeTypes /\ WalletTypes
  BY InvKeeps DEF KInv, IInv
<1>2. PICK m, M : m = Head(fromNode) /\ M = <<m>>
  OBVIOUS
<1>3. PICK blocks : blocks = IF Len(m.blocks) = 1 /\ m.blocks[1] = ctx.lastBlockHash THEN <<>> ELSE m.blocks
  OBVIOUS
<1>4. PICK wanted : wanted = IF ctx.needsUpdate THEN <<>> ELSE blocks
  OBVIOUS
<1>5. PICK answered : answered = IF m.txs # {} /\ ctx.mempoolCallback THEN <<"mempoolDone">> ELSE <<>>
  OBVIOUS
<1>6. PICK T : T = m.txs \ ctx.knownTx
  OBVIOUS
<1>7. PICK N : /\ N = GetData(T, wanted) \o (IF Len(wanted) >= MaxInv THEN GetBlocks(wanted[Len(wanted)]) ELSE <<>>)
                        \o PingMessages(answered)
                 /\ InvAnswer(N, T, wanted, answered)
  BY DEF InvAnswer
<1>8. /\ Reads("inv") /\ Sends(N) /\ pongs' = pongs \o answered
      /\ ctx' = [ctx EXCEPT !.lastBlockHash = IF Len(blocks) = 1 THEN blocks[1] ELSE @,
                            !.known = @ \o blocks,
                            !.knownTx = @ \union m.txs,
                            !.mempoolCallback = @ /\ m.txs = {}]
  BY <1>2, <1>3, <1>4, <1>5, <1>6, <1>7 DEF AcceptInv, Pings
<1>9. UNCHANGED <<mined, pool, announced, filter, connected, relayed, bloomFilter, lastBlock, orphans, height, addrs>>
  BY DEF AcceptInv, NodeUnchanged, node, manager, wallet
<1>10. /\ ctx'.known = ctx.known \o blocks /\ ctx'.knownTx = ctx.knownTx \union m.txs
       /\ ctx'.needsUpdate = ctx.needsUpdate /\ ctx'.current = ctx.current /\ ctx'.left = ctx.left
  <2>1. ctx \in Contexts
    BY <1>1 DEF WalletTypes
  <2> QED BY <1>8, <2>1 DEF Contexts
<1>11. m \in Heard(mined) /\ m.type = "inv" /\ m \in ToSet(fromNode) /\ mined \in Nat /\ mined \in 0 .. Len(Chain)
  <2>1. fromNode # <<>> /\ m \in Heard(mined) /\ m.type = "inv" /\ mined \in Nat
    BY <1>1, <1>2, <1>8, ReadByWallet
  <2>2. fromNode \in Seq(Messages) /\ mined \in 0 .. Len(Chain)
    BY <1>1, WayTypes
  <2> QED BY <1>2, <2>1, <2>2, HeadSet
<1>12. m.txs \in SUBSET Tx /\ m.blocks \in Seq(1 .. mined)
  BY <1>11, HeardFacts
<1>13. /\ blocks \in Seq(1 .. mined) /\ wanted \in Seq(1 .. mined) /\ T \in SUBSET Tx
       /\ TxsOf(blocks) \subseteq TxsOf(m.blocks) /\ TxsOf(wanted) \subseteq TxsOf(m.blocks)
  <2>1. <<>> \in Seq(1 .. mined) /\ TxsOf(<<>>) = {}
    BY OfNothing
  <2> QED BY <1>3, <1>4, <1>6, <1>12, <2>1
<1>14. answered = <<>> \/ \E c \in Calls : answered = <<c>> /\ c \notin UpdateCalls
  BY <1>5 DEF Calls, UpdateCalls
<1>15. mined \in 0 .. Len(Chain) /\ (answered = <<>> \/ \E c \in Calls : answered = <<c>>) /\ InvAnswer(N, T, wanted, answered)
  BY <1>7, <1>11, <1>14
<1>16. /\ N \in Seq(Asked(mined)) /\ N \in Seq(Messages)
       /\ ~Meets(N, Loads) /\ (Meets(N, Matched) => wanted # <<>>)
       /\ \A t : Meets(N, Bearers(t)) => t \in TxsOf(wanted)
       /\ \A t \in T : Meets(N, Carriers(t)) /\ Preceded(N, Carriers(t), Bearers(t))
       /\ \A y \in ToSet(N) : y.type = "getdata" => y.txs = T
  <2>1. Requested(mined, N, T, wanted)
    BY <1>13, <1>15, InvSent, Zenon
  <2> QED BY <2>1 DEF Requested
<1>17. /\ Moves(M, N) /\ m \in Messages /\ relayed = None /\ Marks(M) = 0
       /\ \A A : Meets(M, A) <=> m \in A
  <2>1. PICK type : type = "inv"
    OBVIOUS
  <2>2. Reads(type) /\ UNCHANGED <<mined, pool, announced, filter, connected>>
    BY <1>8, <1>9, <2>1
  <2>3. /\ Moves(M, N) /\ m \in Heard(mined) /\ m \in Messages /\ m \in ToSet(fromNode) /\ m.type = type
        /\ relayed = None /\ mined \in Nat /\ mined \in 0 .. Len(Chain)
        /\ Marks(M) = IF type = "pong" THEN 1 ELSE 0
        /\ \A A : Meets(M, A) <=> m \in A
    BY <1>1, <1>2, <1>8, <1>16, <2>2, ReadMoves, Zenon DEF KInv
  <2> QED BY <2>1, <2>3
<1>18. ToSet(fromNode') \subseteq ToSet(fromNode)
  BY <1>1, <1>17, MovesFacts DEF IInv
<1>19. Grown /\ addrs \in Nat /\ addrs' \in Nat
  BY <1>1, <1>9 DEF Grown, IInv, Coverage
<1>20. Loaded' /\ InUse'
  BY <1>1, <1>9, <1>16, <1>17, <1>19, MovesFilter DEF IInv, KInv, Grown
<1>21. Updating'
  <2>1. Meets(N, Matched) => ~ctx.needsUpdate /\ answered # <<"updateFilterPingDone">>
    BY <1>4, <1>5, <1>16
  <2> QED BY <1>1, <1>8, <1>10, <1>14, <1>17, <2>1, UpdatingKept DEF KInv
<1>22. Live' /\ Noted'
  BY <1>9, <1>10, <1>18, <1>19, LiveKept, NotedKept DEF KInv
<1>23. PaymentsKept' /\ Generated'
  BY <1>9 DEF KInv, PaymentsKept, Generated
<1>24. m.txs \subseteq announced /\ ctx.knownTx \subseteq announced
  BY <1>11 DEF KInv, Pooled
<1>25. \A t \in TxsOf(m.blocks) : m \in Revealers(t)
  BY <1>11, <1>17 DEF Revealers
<1>26. \A t \in Tx : Meets(N, Bearers(t)) \/ t \in TxsOf(ctx'.known) => t \in TxsOf(ctx.known) \/ Meets(M, Revealers(t))
  <2>1. TxsOf(ctx'.known) = TxsOf(ctx.known) \union TxsOf(blocks)
    <3>1. PICK known, S : known = ctx.known /\ S = 1 .. mined
      OBVIOUS
    <3>2. known \in Seq(S) /\ blocks \in Seq(S)
      BY <1>1, <1>13, <3>1 DEF WalletTypes
    <3>3. ToSet(known \o blocks) = ToSet(known) \union ToSet(blocks)
      BY <3>2, JoinSet
    <3>4. TxsOf(known \o blocks) = TxsOf(known) \union TxsOf(blocks)
      BY <3>3 DEF TxsOf
    <3> QED BY <1>10, <3>1, <3>4
  <2>2. \A t : Meets(M, Revealers(t)) <=> m \in Revealers(t)
    BY <1>17
  <2> QED BY <1>13, <1>16, <1>25, <2>1, <2>2
<1>27. ASSUME NEW t \in m.txs, t \notin ctx.knownTx PROVE Comes(t, way')
  <2> PICK B, q, p, C, D : B = fromNode' \o toNode /\ q = way /\ p = way' /\ C = Carriers(t) /\ D = Bearers(t)
    OBVIOUS
  <2>1. Shift(q, p, M, B, N)
    BY <1>1, <1>17, MovesFacts DEF IInv
  <2>2. ~Meets(q, D)
    <3>1. ToldBefore(t, q, ctx.known)
      BY <1>12, <1>27 DEF KInv, ToldFirst
    <3>2. m \in Tellers(t)
      BY <1>11, <1>17, <1>27 DEF Tellers
    <3>3. Meets(M, Tellers(t))
      BY <1>17, <3>2
    <3>4. Meets(q, Tellers(t))
      BY <2>1, <3>3, ShiftMeets
    <3> QED BY <3>1, <3>4 DEF ToldBefore
  <2>3. ~Meets(B, D)
    BY <2>1, <2>2, ShiftMeets
  <2>4. Meets(N, C) /\ Preceded(N, C, D)
    BY <1>6, <1>16, <1>27
  <2>5. Preceded(B, C, D)
    BY <2>1, <2>3, OfNone DEF Shift
  <2>6. Meets(p, C)
    BY <2>1, <2>4, ShiftMeets
  <2>7. Preceded(p, C, D)
    BY <2>1, <2>4, <2>5, ShiftPreceded
  <2> QED BY <2>6, <2>7 DEF Comes
<1>28. \A t \in ctx'.knownTx \intersect Payments : t \in ctx.knownTx \/ Comes(t, way')
  BY <1>10, <1>27
<1>29. \A t \in ctx.knownTx \intersect Payments : Meets(M, Carriers(t)) => t \in Registered(height')
  <2>1. \A t : m \notin Carriers(t)
    BY <1>11 DEF Carriers
  <2> QED BY <1>17, <2>1
<1>30. ctx'.knownTx \subseteq announced /\ \A y \in ToSet(N) : y.type = "getdata" => y.txs \subseteq announced
  BY <1>6, <1>10, <1>16, <1>24
<1> QED BY <1>1, <1>17, <1>19, <1>20, <1>21, <1>22, <1>23, <1>26, <1>28, <1>29, <1>30, WalletKeepsRest

\* The payments that are kept stay kept when a transaction comes.
LEMMA KeptStill ==
  ASSUME PaymentsKept, Generated, lastBlock' = lastBlock, \A t \in Payments : height[t] # Absent => height'[t] = height[t],
         addrs \in Nat, addrs' \in Nat, addrs <= addrs', lastBlock \in 0 .. Len(Chain)
  PROVE  PaymentsKept' /\ Generated'
<1>1. ASSUME NEW h \in 1 .. lastBlock, NEW t \in ToSet(Chain[h]), Pays[t] # {} PROVE height'[t] = h
  <2>1. height[t] = h /\ h \in Nat
    BY <1>1 DEF PaymentsKept
  <2>2. t \in Payments
    <3>1. ToSet(Chain[h]) \subseteq Tx
      BY ChainFacts
    <3> QED BY <1>1, <3>1 DEF Payments
  <2>3. h # Absent
    BY <2>1 DEF Absent
  <2> QED BY <2>1, <2>2, <2>3
<1>2. ASSUME NEW h \in 1 .. lastBlock, NEW t \in ToSet(Chain[h]), NEW i \in Pays[t] PROVE i < addrs'
  <2>1. i < addrs
    BY DEF Generated
  <2>2. i \in Nat
    <3>1. t \in Tx
      BY ChainFacts
    <3> QED BY <3>1, FilterAssumption
  <2> QED BY <2>1, <2>2
<1>3. PaymentsKept'
  BY <1>1 DEF PaymentsKept
<1>4. Generated'
  BY <1>2 DEF Generated
<1> QED BY <1>3, <1>4

\* One completion, or none.
LEMMA PingsPlain ==
  ASSUME NEW n \in 0 .. Len(Chain), NEW cs, cs = <<>> \/ \E c \in Calls : cs = <<c>>
  PROVE  Plain(n, PingMessages(cs))
BY PlainSent

\* A transaction comes.
LEMMA TxKept == ASSUME KInv, AcceptTx PROVE KInv'
<1>1. IInv' /\ IInv /\ NodeTypes /\ WalletTypes
  BY TxKeeps DEF KInv, IInv
<1>2. PICK m, M, t : m = Head(fromNode) /\ M = <<m>> /\ t = m.tx
  OBVIOUS
<1>3. PICK registers, new, isWalletTx, newHeight, newAddrs, resets :
        /\ registers = (~syncing \/ ContainsTx(t))
        /\ new = (registers /\ height[t] = Absent)
        /\ isWalletTx = (registers /\ (height[t] # Absent \/ ContainsTx(t)))
        /\ newHeight = IF ~new THEN height ELSE [height EXCEPT ![t] = IF ContainsTx(t) THEN Unconfirmed ELSE Foreign]
        /\ newAddrs = IF isWalletTx THEN UnusedAddrs(newHeight, addrs, Gap) ELSE addrs
        /\ resets = (isWalletTx /\ bloomFilter # None /\ ~Covered(newHeight, newAddrs))
  OBVIOUS
<1>4. PICK updates, left, complete, N :
        /\ updates = IF resets /\ UpdateNeeded(ctx) THEN <<"updateFilterPingDone">> ELSE <<>>
        /\ left = ctx.left \ {t}
        /\ complete = (ctx.current # None /\ left = {})
        /\ N = PingMessages(updates)
  OBVIOUS
<1>5. /\ height' = newHeight /\ addrs' = newAddrs
      /\ bloomFilter' = IF resets THEN None ELSE bloomFilter
      /\ Sends(N) /\ pongs' = pongs \o updates
      /\ relayed' = IF complete THEN ctx.current ELSE None
      /\ ctx' = [ctx EXCEPT !.needsUpdate = @ \/ resets, !.left = left,
                            !.current = IF complete THEN None ELSE @,
                            !.timer = syncing /\ (@ \/ isWalletTx)]
  BY <1>2, <1>3, <1>4 DEF AcceptTx, Pings
<1>6. /\ Reads("tx")
      /\ UNCHANGED <<mined, pool, announced, filter, connected, lastBlock, orphans>>
  BY DEF AcceptTx, NodeUnchanged, node
<1>7. /\ ctx'.known = ctx.known /\ ctx'.knownTx = ctx.knownTx /\ ctx'.left = left
      /\ ctx'.needsUpdate = (ctx.needsUpdate \/ resets) /\ ctx'.current = IF complete THEN None ELSE ctx.current
  <2>1. ctx \in Contexts
    BY <1>1 DEF WalletTypes
  <2> QED BY <1>5, <2>1 DEF Contexts
<1>8. mined \in Nat /\ mined \in 0 .. Len(Chain) /\ lastBlock \in 0 .. Len(Chain)
  <2>1. mined \in Nat /\ mined \in 0 .. Len(Chain)
    BY <1>1, WayTypes
  <2> QED BY <1>1, <2>1, FilterAssumption DEF WalletTypes
<1>9. updates = <<>> \/ \E c \in Calls : updates = <<c>> /\ (c \in UpdateCalls => ~ctx.needsUpdate /\ ctx'.needsUpdate)
  <2>1. "updateFilterPingDone" \in Calls
    BY DEF Calls, UpdateCalls
  <2> QED BY <1>4, <1>7, <2>1 DEF UpdateNeeded
<1>10. Plain(mined, N)
  BY <1>4, <1>8, <1>9, PingsPlain
<1>11. /\ N \in Seq(Asked(mined)) /\ ~Meets(N, Loads) /\ ~Meets(N, Matched) /\ (\A u : ~Meets(N, Bearers(u)))
       /\ \A y \in ToSet(N) : y.type # "getdata"
  BY <1>8, <1>10, PlainFacts
<1>12. /\ Moves(M, N) /\ m \in Heard(mined) /\ m \in Messages /\ m \in ToSet(fromNode) /\ m.type = "tx"
       /\ Marks(M) = 0 /\ relayed = None
       /\ \A A : Meets(M, A) <=> m \in A
  <2>1. PICK type : type = "tx"
    OBVIOUS
  <2>2. Reads(type) /\ UNCHANGED <<mined, pool, announced, filter, connected>> /\ m = Head(fromNode) /\ M = <<m>>
    BY <1>2, <1>6, <2>1
  <2>3. /\ Moves(M, N) /\ m \in Heard(mined) /\ m \in Messages /\ m \in ToSet(fromNode) /\ m.type = type
        /\ relayed = None /\ mined \in Nat /\ mined \in 0 .. Len(Chain)
        /\ Marks(M) = IF type = "pong" THEN 1 ELSE 0
        /\ \A A : Meets(M, A) <=> m \in A
    BY <1>1, <1>5, <1>11, <2>2, ReadMoves, Zenon
  <2> QED BY <2>1, <2>3
<1>13. t \in Tx
  BY <1>2, <1>8, <1>12, HeardFacts
<1>14. /\ height \in Heights /\ addrs \in Nat /\ addrs' \in Nat /\ newHeight \in Heights /\ addrs <= addrs'
  <2>1. height \in Heights /\ addrs \in Nat /\ addrs' \in Nat /\ height' \in Heights /\ Gap \in Nat
    BY <1>1, FilterAssumption DEF IInv, Coverage
  <2>2. newHeight \in Heights
    BY <1>5, <2>1
  <2>3. addrs <= UnusedAddrs(newHeight, addrs, Gap)
    BY <2>1, <2>2, UnusedFacts
  <2> QED BY <1>3, <1>5, <2>1, <2>2, <2>3
<1>15. \A u \in Tx : (u # t => height'[u] = height[u]) /\ (height[u] # Absent => height'[u] = height[u])
  BY <1>3, <1>5, <1>13, <1>14 DEF Heights
<1>16. t \in Payments => t \in Registered(height')
  <2> SUFFICES ASSUME t \in Payments PROVE t \in Registered(height')
    OBVIOUS
  <2>1. Pays2Wallet(t) /\ height[t] # Foreign
    BY <1>2, <1>12 DEF KInv, Noted
  <2>2. ContainsTx(t) /\ registers = TRUE
    BY <1>3, <2>1 DEF ContainsTx
  <2>3. height'[t] # Absent /\ height'[t] # Foreign
    <3>1. CASE height[t] = Absent
      <4>1. newHeight = [height EXCEPT ![t] = Unconfirmed]
        BY <1>3, <2>2, <3>1
      <4> QED BY <1>5, <1>13, <1>14, <4>1 DEF Heights, Absent, Foreign, Unconfirmed
    <3>2. CASE height[t] # Absent
      BY <1>13, <1>15, <2>1, <3>2
    <3> QED BY <3>1, <3>2
  <2> QED BY <1>13, <2>3 DEF Registered
<1>17. Registered(height) \subseteq Registered(height')
  BY <1>15 DEF Registered
<1>18. \A u \in Payments : height'[u] # Foreign
  <2>1. \A u \in Payments : height[u] # Foreign
    BY DEF KInv, Noted
  <2>2. \A u \in Payments : u \in Tx
    BY DEF Payments
  <2>3. t \in Payments => height'[t] # Foreign
    BY <1>16 DEF Registered
  <2> QED BY <1>15, <2>1, <2>2, <2>3
<1>19. Grown
  BY <1>14, <1>17, <1>18 DEF Grown
<1>20. ToSet(fromNode') \subseteq ToSet(fromNode)
  BY <1>1, <1>12, MovesFacts DEF IInv
<1>21. Loaded' /\ InUse'
  <2>1. bloomFilter' \in {bloomFilter, None}
    BY <1>5
  <2> QED BY <1>1, <1>11, <1>12, <1>14, <2>1, MovesFilter DEF KInv, IInv
<1>22. Updating'
  <2>1. ctx.needsUpdate => ctx'.needsUpdate
    BY <1>7
  <2>2. pongs' = pongs \o updates
    BY <1>5
  <2>3. Updating /\ Moves(M, N) /\ Marks(M) = 0 /\ ~Meets(N, Matched)
    BY <1>11, <1>12 DEF KInv
  <2> QED BY <1>1, <1>9, <2>1, <2>2, <2>3, UpdatingKept
<1>23. (ctx'.current # None => ctx'.current = ctx.current) /\ (relayed' # None => relayed' = ctx.current /\ left = {})
  BY <1>4, <1>5, <1>7
<1>24. Live'
  <2> PICK n : n = bloomFilter
    OBVIOUS
  <2> SUFFICES ASSUME bloomFilter' # None PROVE MatchedBy(n, fromNode', ctx'.current, relayed', orphans')
    BY <1>5 DEF Live
  <2>1. MatchedBy(n, fromNode, ctx.current, relayed, orphans)
    BY <1>5 DEF KInv, Live
  <2> QED BY <1>6, <1>20, <1>23, <2>1 DEF MatchedBy
<1>25. \A u \in Payments : Pays2Wallet(u) => Pays2Wallet(u)'
  BY <1>14, PaysStill
<1>26. ctx.current # None =>
         \A u \in ctx.current.txs \intersect Payments : Pays2Wallet(u)' /\ (u \in Registered(height') \/ u \in left)
  <2> SUFFICES ASSUME ctx.current # None, NEW u \in ctx.current.txs \intersect Payments
               PROVE  Pays2Wallet(u)' /\ (u \in Registered(height') \/ u \in left)
    OBVIOUS
  <2>1. Pays2Wallet(u) /\ (u \in Registered(height) \/ u \in ctx.left)
    BY DEF KInv, Noted
  <2> QED BY <1>4, <1>16, <1>17, <1>25, <2>1
<1>27. Noted'
  <2>1. Noted
    BY DEF KInv
  <2>2. \A y \in ToSet(fromNode') : y.type = "tx" /\ y.tx \in Payments => Pays2Wallet(y.tx)'
    BY <1>20, <1>25, <2>1 DEF Noted
  <2>3. \A y \in ToSet(fromNode') : y.type = "merkleblock" => \A u \in y.txs \intersect Payments : Pays2Wallet(u)'
    BY <1>20, <1>25, <2>1 DEF Noted
  <2>4. ctx'.current # None =>
          \A u \in ctx'.current.txs \intersect Payments : Pays2Wallet(u)' /\ (u \in Registered(height') \/ u \in ctx'.left)
    BY <1>7, <1>23, <1>26
  <2>5. relayed' # None => relayed'.txs \intersect Payments \subseteq Registered(height')
    BY <1>23, <1>26
  <2>6. \A h \in 1 .. Len(Chain) : orphans'[h] # None => orphans'[h] \intersect Payments \subseteq Registered(height')
    BY <1>6, <1>17, <2>1 DEF Noted
  <2> QED BY <1>18, <2>2, <2>3, <2>4, <2>5, <2>6 DEF Noted
<1>28. PaymentsKept' /\ Generated'
  <2>1. \A u \in Payments : height[u] # Absent => height'[u] = height[u]
    BY <1>15 DEF Payments
  <2> QED BY <1>6, <1>8, <1>14, <2>1, KeptStill DEF KInv
<1>29. \A u \in ctx.knownTx \intersect Payments : Meets(M, Carriers(u)) => u \in Registered(height')
  <2> SUFFICES ASSUME NEW u \in Payments, Meets(M, Carriers(u)) PROVE u \in Registered(height')
    OBVIOUS
  <2>1. m \in Carriers(u)
    BY <1>12
  <2>2. u = t
    BY <1>2, <1>12, <2>1 DEF Carriers
  <2> QED BY <1>16, <2>2
<1>30. ctx'.knownTx \subseteq announced
  BY <1>7 DEF KInv, Pooled
<1> QED BY <1>1, <1>7, <1>11, <1>12, <1>19, <1>21, <1>22, <1>24, <1>27, <1>28, <1>29, <1>30, WalletKeepsRest

\* A pong is read.
LEMMA PongRead ==
  ASSUME KInv, IInv', NEW callback, Pong(callback), NEW N, N \in Seq(Asked(mined)), Sends(N),
         NEW m, m = Head(fromNode), NEW M, M = <<m>>
  PROVE  /\ Moves(M, N) /\ Marks(M) = 1 /\ (\A A : Meets(M, A) <=> m \in A) /\ m.type = "pong" /\ mined \in 0 .. Len(Chain)
         /\ ToSet(fromNode') \subseteq ToSet(fromNode)
         /\ relayed = None /\ relayed' = None /\ ctx.current = None /\ ctx.left = {}
         /\ height' = height /\ lastBlock' = lastBlock
<1>1. PICK type : type = "pong"
  OBVIOUS
<1>2. /\ Reads(type) /\ UNCHANGED <<mined, pool, announced, filter, connected>>
      /\ relayed' = relayed /\ height' = height /\ lastBlock' = lastBlock
  BY <1>1 DEF Pong, NodeUnchanged, node
<1>3. IInv /\ NodeTypes /\ NodeTypes'
  BY DEF KInv, IInv
<1>4. ctx.current = None /\ ctx.left = {}
  BY <1>1, <1>2, <1>3, ReadByWallet
<1>5. /\ Moves(M, N) /\ m \in Heard(mined) /\ m \in Messages /\ m \in ToSet(fromNode) /\ m.type = type
      /\ relayed = None /\ mined \in Nat /\ mined \in 0 .. Len(Chain)
      /\ Marks(M) = IF type = "pong" THEN 1 ELSE 0
      /\ \A A : Meets(M, A) <=> m \in A
  BY <1>2, ReadMoves, Zenon
<1>6. ToSet(fromNode') \subseteq ToSet(fromNode)
  BY <1>3, <1>5, MovesFacts
<1> QED BY <1>1, <1>2, <1>4, <1>5, <1>6

\* A completion is taken, and one or none is added.
LEMMA PongTaken ==
  ASSUME IInv, Updating, NEW callback, pongs # <<>>, Head(pongs) = callback,
         NEW cs, cs = <<>> \/ \E c \in Calls : cs = <<c>>, NEW R, R = Tail(pongs), pongs' = R \o cs
  PROVE  /\ Taken(pongs, pongs', R, cs, 1)
         /\ \A k \in 1 .. Len(R) : R[k] = pongs[k + 1] /\ k + 1 \in 1 .. Len(pongs)
         /\ \A k \in 1 .. Len(R) : R[k] \in UpdateCalls => callback \notin UpdateCalls /\ ctx.needsUpdate
         /\ \A k \in 1 .. Len(cs) : cs = <<cs[k]>>
         /\ callback = "updateFilterPingDone" => Within(way, 1)
         /\ callback \in UpdateCalls => ctx.needsUpdate
<1> PICK q : q = pongs
  OBVIOUS
<1>1. q \in Seq(Calls) /\ R = Tail(q) /\ q # <<>> /\ Head(q) = callback /\ pongs' = R \o cs
  BY DEF IInv, WalletTypes
<1>2. /\ R \in Seq(Calls) /\ Len(R) \in Nat /\ Len(q) = 1 + Len(R) /\ q[1] = callback
      /\ \A k \in 1 .. Len(R) : R[k] = q[k + 1]
  <2>1. Len(q) \in Nat /\ Len(q) # 0
    BY <1>1
  <2> QED BY <1>1, <2>1
<1>3. cs \in Seq(Calls) /\ (\A k \in 1 .. Len(cs) : k = 1 /\ cs = <<cs[k]>>)
  <2>1. CASE cs = <<>>
    <3>1. cs \in Seq(Calls) /\ 1 .. Len(cs) = {}
      BY <2>1
    <3> QED BY <3>1
  <2>2. CASE cs # <<>>
    <3>1. PICK c \in Calls : cs = <<c>>
      BY <2>2
    <3>2. <<c>> \in Seq(Calls) /\ Len(<<c>>) = 1 /\ <<c>>[1] = c /\ 1 .. 1 = {1}
      BY DEF Calls, UpdateCalls
    <3> QED BY <3>1, <3>2
  <2> QED BY <2>1, <2>2
<1>4. Taken(q, pongs', R, cs, 1)
  BY <1>1, <1>2, <1>3 DEF Taken
<1>5. \A k \in 1 .. Len(R) : R[k] = q[k + 1] /\ k + 1 \in 1 .. Len(q) /\ k + 1 # 1
  BY <1>2
<1>6. 1 \in 1 .. Len(q)
  BY <1>2
<1>7. /\ \A k \in 1 .. Len(q) : q[k] \in UpdateCalls => ctx.needsUpdate
      /\ \A k, l \in 1 .. Len(q) : q[k] \in UpdateCalls /\ q[l] \in UpdateCalls => k = l
      /\ \A k \in 1 .. Len(q) : q[k] = "updateFilterPingDone" => Within(way, k)
  BY DEF Updating, Updates
<1>8. ASSUME NEW k \in 1 .. Len(R), R[k] \in UpdateCalls PROVE callback \notin UpdateCalls /\ ctx.needsUpdate
  <2>1. q[k + 1] \in UpdateCalls /\ k + 1 \in 1 .. Len(q) /\ k + 1 # 1
    BY <1>5, <1>8
  <2> QED BY <1>2, <1>6, <1>7, <2>1
<1>9. (callback = "updateFilterPingDone" => Within(way, 1)) /\ (callback \in UpdateCalls => ctx.needsUpdate)
  BY <1>2, <1>6, <1>7
<1> QED BY <1>3, <1>4, <1>5, <1>8, <1>9

\* A pong is read, and a completion done.
LEMMA PongKept ==
  ASSUME KInv, IInv', NEW callback, Pong(callback), NEW N, N \in Seq(Asked(mined)), Sends(N),
         NEW cs, cs = <<>> \/ \E c \in Calls : cs = <<c>>, pongs' = Tail(pongs) \o cs,
         callback \in UpdateCalls \/ ctx'.needsUpdate = ctx.needsUpdate,
         \A c \in UpdateCalls : cs = <<c>> => callback \in UpdateCalls /\ ctx'.needsUpdate,
         Meets(N, Matched) => callback \in UpdateCalls /\ cs # <<"updateFilterPingDone">>,
         \A t \in Tx : Meets(N, Bearers(t)) \/ t \in TxsOf(ctx'.known) => t \in TxsOf(ctx.known),
         ctx'.knownTx = ctx.knownTx, \A y \in ToSet(N) : y.type = "getdata" => y.txs = {},
         addrs <= addrs', Loaded', InUse', Live', Noted'
  PROVE  KInv'
<1>1. PICK m, M, R : m = Head(fromNode) /\ M = <<m>> /\ R = Tail(pongs)
  OBVIOUS
<1>2. /\ Moves(M, N) /\ Marks(M) = 1 /\ (\A A : Meets(M, A) <=> m \in A) /\ m.type = "pong" /\ mined \in 0 .. Len(Chain)
      /\ height' = height /\ lastBlock' = lastBlock
  BY <1>1, PongRead
<1>3. pongs # <<>> /\ Head(pongs) = callback
  BY DEF Pong
<1>4. IInv /\ Updating /\ addrs \in Nat /\ addrs' \in Nat /\ lastBlock \in 0 .. mined
  BY DEF KInv, IInv, Coverage, WalletTypes
<1>5. /\ Taken(pongs, pongs', R, cs, 1)
      /\ \A k \in 1 .. Len(R) : R[k] \in UpdateCalls => callback \notin UpdateCalls /\ ctx.needsUpdate
      /\ \A k \in 1 .. Len(cs) : cs = <<cs[k]>>
  BY <1>1, <1>3, <1>4, PongTaken
<1>6. Updating'
  <2>1. Taken(pongs, pongs', R, cs, Marks(M))
    BY <1>2, <1>5
  <2>2. \A k \in 1 .. Len(R) : R[k] \in UpdateCalls => ctx'.needsUpdate
    BY <1>5
  <2>3. \A k \in 1 .. Len(cs) : cs[k] \in UpdateCalls => ctx'.needsUpdate /\ \A l \in 1 .. Len(R) : R[l] \notin UpdateCalls
    BY <1>5
  <2>4. ASSUME NEW k \in 1 .. Len(pongs'), pongs'[k] = "updateFilterPingDone", Meets(N, Matched) PROVE FALSE
    <3>1. callback \in UpdateCalls /\ cs # <<"updateFilterPingDone">>
      BY <2>4
    <3>2. \A l \in 1 .. Len(R) : R[l] # "updateFilterPingDone"
      BY <1>5, <3>1 DEF UpdateCalls
    <3>3. \A l \in 1 .. Len(cs) : cs[l] # "updateFilterPingDone"
      <4> SUFFICES ASSUME NEW l \in 1 .. Len(cs), cs[l] = "updateFilterPingDone" PROVE FALSE
        OBVIOUS
      <4>1. cs = <<cs[l]>>
        BY <1>5
      <4> QED BY <3>1, <4>1
    <3>4. PICK qs : qs = pongs'
      OBVIOUS
    <3>5. R \in Seq(Calls) /\ cs \in Seq(Calls) /\ qs = R \o cs /\ k \in 1 .. Len(qs)
      BY <1>5, <3>4 DEF Taken
    <3>6. (k \in 1 .. Len(R) /\ qs[k] = R[k]) \/ \E l \in 1 .. Len(cs) : qs[k] = cs[l]
      BY <3>5, OneOfBoth
    <3>7. qs[k] = "updateFilterPingDone"
      BY <2>4, <3>4
    <3> QED BY <3>2, <3>3, <3>6, <3>7
  <2> QED BY <1>2, <1>4, <2>1, <2>2, <2>3, <2>4, MovesUpdating
<1>7. Grown
  BY <1>2 DEF Grown
<1>8. PaymentsKept' /\ Generated'
  <2>1. lastBlock \in 0 .. Len(Chain)
    BY <1>2, <1>4, FilterAssumption
  <2> QED BY <1>2, <1>4, <2>1, KeptStill DEF KInv
<1>9. \A t : m \notin Carriers(t)
  BY <1>2 DEF Carriers
<1>10. ctx.knownTx \subseteq announced
  BY DEF KInv, Pooled
<1> QED BY <1>2, <1>6, <1>7, <1>8, <1>9, <1>10, WalletKeepsRest

\* The same when no filter is loaded.
LEMMA PongPlain ==
  ASSUME KInv, IInv', NEW callback, Pong(callback), NEW N, N \in Seq(Asked(mined)), Sends(N), ~Meets(N, Loads),
         NEW cs, cs = <<>> \/ \E c \in Calls : cs = <<c>> /\ c \notin UpdateCalls, pongs' = Tail(pongs) \o cs,
         callback \in UpdateCalls \/ ctx'.needsUpdate = ctx.needsUpdate,
         Meets(N, Matched) => callback \in UpdateCalls,
         \A t \in Tx : Meets(N, Bearers(t)) \/ t \in TxsOf(ctx'.known) => t \in TxsOf(ctx.known),
         ctx'.knownTx = ctx.knownTx, ctx'.current = ctx.current, ctx'.left = ctx.left,
         \A y \in ToSet(N) : y.type = "getdata" => y.txs = {},
         UNCHANGED <<addrs, bloomFilter, orphans>>
  PROVE  KInv'
<1>1. PICK m, M : m = Head(fromNode) /\ M = <<m>>
  OBVIOUS
<1>2. Moves(M, N) /\ ToSet(fromNode') \subseteq ToSet(fromNode) /\ relayed' = relayed /\ height' = height
  BY <1>1, PongRead
<1>3. IInv /\ NodeTypes /\ NodeTypes' /\ addrs \in Nat /\ addrs' \in Nat /\ addrs <= addrs'
  BY DEF KInv, IInv, Coverage
<1>4. Grown
  BY <1>2, <1>3 DEF Grown
<1>5. Loaded' /\ InUse'
  BY <1>2, <1>3, MovesFilter DEF KInv
<1>6. Live' /\ Noted'
  BY <1>2, <1>3, <1>4, LiveKept, NotedKept DEF KInv
<1>7. \A c \in UpdateCalls : cs # <<c>>
  <2>1. \A c, d : <<c>> = <<d>> => c = d
    OBVIOUS
  <2>2. \A c : <<c>> # <<>>
    OBVIOUS
  <2> QED BY <2>1, <2>2
<1>8. cs # <<"updateFilterPingDone">> /\ (cs = <<>> \/ \E c \in Calls : cs = <<c>>)
  BY <1>7 DEF UpdateCalls
<1>9. \A c \in UpdateCalls : cs = <<c>> => callback \in UpdateCalls /\ ctx'.needsUpdate
  BY <1>7, Zenon
<1>10. Meets(N, Matched) => callback \in UpdateCalls /\ cs # <<"updateFilterPingDone">>
  BY <1>8, Zenon
<1> QED BY <1>3, <1>5, <1>6, <1>8, <1>9, <1>10, PongKept, Zenon

\* No completion added.
LEMMA PongsLeft ==
  ASSUME IInv, NEW callback, Pong(callback), pongs' = Tail(pongs)
  PROVE  pongs' = Tail(pongs) \o <<>>
<1>1. pongs \in Seq(Calls) /\ pongs # <<>>
  BY DEF IInv, WalletTypes, Pong
<1>2. PICK r \in Seq(Calls) : r = Tail(pongs)
  BY <1>1, Cut
<1>3. r \o <<>> = r
  OBVIOUS
<1> QED BY <1>2, <1>3

\* A completion that sends nothing but plain requests.
LEMMA PongSends ==
  ASSUME KInv, IInv', NEW callback, Pong(callback), NEW N, Plain(mined, N), Sends(N), pongs' = Tail(pongs),
         ctx'.needsUpdate = ctx.needsUpdate, ctx'.known = ctx.known, ctx'.knownTx = ctx.knownTx,
         ctx'.current = ctx.current, ctx'.left = ctx.left, UNCHANGED <<addrs, bloomFilter, orphans>>
  PROVE  KInv'
<1>1. IInv /\ mined \in 0 .. Len(Chain)
  BY DEF KInv, IInv, NodeTypes
<1>2. /\ N \in Seq(Asked(mined)) /\ ~Meets(N, Loads) /\ ~Meets(N, Matched) /\ (\A t : ~Meets(N, Bearers(t)))
      /\ \A y \in ToSet(N) : y.type # "getdata"
  BY <1>1, PlainFacts
<1>3. PICK cs : cs = <<>>
  OBVIOUS
<1>4. pongs' = Tail(pongs) \o cs
  BY <1>1, <1>3, PongsLeft
<1>5. cs = <<>> \/ \E c \in Calls : cs = <<c>> /\ c \notin UpdateCalls
  BY <1>3
<1> QED BY <1>2, <1>4, <1>5, PongPlain

\* Three of the completions send that.
LEMMA PlainCompletions ==
  ASSUME KInv, UpdateFilterRerequestDone \/ LoadBloomFilterDone \/ MempoolDone
  PROVE  KInv'
<1>1. IInv' /\ IInv /\ mined \in 0 .. Len(Chain) /\ ctx \in Contexts /\ lastBlock \in Nat
  <2>1. IInv' /\ IInv
    BY CompletionKeeps DEF KInv
  <2>2. mined \in 0 .. Len(Chain) /\ mined \in Nat
    BY <2>1, WayTypes DEF IInv
  <2> QED BY <2>1, <2>2 DEF IInv, WalletTypes
<1>2. /\ Plain(mined, <<>>) /\ Plain(mined, GetBlocks(lastBlock)) /\ Plain(mined, Mempool(ctx))
  BY <1>1, PlainSent
<1>3. ASSUME UpdateFilterRerequestDone PROVE KInv'
  <2>1. PICK callback, N : callback = "updateFilterRerequestDone" /\ N = IF ctx.needsUpdate THEN <<>> ELSE GetBlocks(lastBlock)
    OBVIOUS
  <2>2. /\ Pong(callback) /\ pongs' = Tail(pongs) /\ Sends(N)
        /\ UNCHANGED <<addrs, bloomFilter, orphans, ctx>>
    BY <1>3, <2>1 DEF UpdateFilterRerequestDone
  <2>3. Plain(mined, N)
    BY <1>2, <2>1
  <2> QED BY <1>1, <2>2, <2>3, PongSends
<1>4. ASSUME LoadBloomFilterDone PROVE KInv'
  <2>1. PICK callback, N : callback = "loadBloomFilterDone" /\ N = Mempool(ctx)
    OBVIOUS
  <2>2. /\ Pong(callback) /\ pongs' = Tail(pongs) /\ Sends(N)
        /\ UNCHANGED <<addrs, bloomFilter, orphans>> /\ ctx' = SentMempool(ctx, TRUE)
    BY <1>4, <2>1 DEF LoadBloomFilterDone
  <2>3. /\ ctx'.needsUpdate = ctx.needsUpdate /\ ctx'.known = ctx.known /\ ctx'.knownTx = ctx.knownTx
        /\ ctx'.current = ctx.current /\ ctx'.left = ctx.left
    BY <1>1, <2>2 DEF SentMempool, Contexts
  <2>4. Plain(mined, N)
    BY <1>2, <2>1
  <2> QED BY <1>1, <2>2, <2>3, <2>4, PongSends
<1>5. ASSUME MempoolDone PROVE KInv'
  <2>1. PICK callback, N : callback = "mempoolDone" /\ N = <<>>
    OBVIOUS
  <2>2. /\ Pong(callback) /\ pongs' = Tail(pongs) /\ toNode' = toNode
        /\ UNCHANGED <<addrs, bloomFilter, orphans>> /\ ctx' = [ctx EXCEPT !.timer = @ /\ ~syncing]
    BY <1>5, <2>1 DEF MempoolDone
  <2>3. /\ ctx'.needsUpdate = ctx.needsUpdate /\ ctx'.known = ctx.known /\ ctx'.knownTx = ctx.knownTx
        /\ ctx'.current = ctx.current /\ ctx'.left = ctx.left
    BY <1>1, <2>2 DEF Contexts
  <2>4. Plain(mined, N) /\ Sends(N)
    BY <1>1, <1>2, <2>1, <2>2, SendsNothing
  <2> QED BY <1>1, <2>2, <2>3, <2>4, PongSends
<1> QED BY <1>3, <1>4, <1>5

\* What remains of the hashes that are remembered.
LEMMA KnownLeft ==
  ASSUME NEW n \in Nat, NEW q \in Seq(1 .. n), NEW i \in 1 .. Len(q)
  PROVE  TxsOf(SubSeq(q, i, Len(q))) \subseteq TxsOf(q)
<1>1. Len(q) \in Nat /\ i \in Nat /\ i <= Len(q)
  OBVIOUS
<1>2. PICK p : p = SubSeq(q, i, Len(q))
  OBVIOUS
<1>3. p = [j \in 1 .. (Len(q) - i) + 1 |-> q[(i + j) - 1]]
  BY <1>1, <1>2
<1>4. ASSUME NEW j \in DOMAIN p PROVE p[j] \in ToSet(q)
  <2>1. (i + j) - 1 \in 1 .. Len(q) /\ p[j] = q[(i + j) - 1]
    BY <1>1, <1>3
  <2>2. \A x \in 1 .. Len(q) : q[x] \in ToSet(q)
    BY DEF ToSet
  <2> QED BY <2>1, <2>2
<1>5. ToSet(p) \subseteq ToSet(q)
  BY <1>4 DEF ToSet
<1> QED BY <1>2, <1>5 DEF TxsOf

\* After the filter was loaded the blocks that may have been lost are asked for again.
LEMMA LoadDoneKept == ASSUME KInv, UpdateFilterLoadDone PROVE KInv'
<1>1. IInv' /\ IInv
  BY CompletionKeeps DEF KInv
<1>2. /\ mined \in 0 .. Len(Chain) /\ mined \in Nat /\ ctx \in Contexts /\ ctx.known \in Seq(1 .. mined) /\ WalletTypes
  BY <1>1, WayTypes DEF IInv, WalletTypes
<1>3. PICK callback : callback = "updateFilterLoadDone"
  OBVIOUS
<1>4. Pong(callback) /\ callback \in UpdateCalls /\ UNCHANGED <<addrs, bloomFilter, orphans>>
  BY <1>3 DEF UpdateFilterLoadDone, UpdateCalls
<1>5. PICK i, known, updated, asks :
        /\ i = RerequestFrom(ctx)
        /\ known = IF i > 0 THEN SubSeq(ctx.known, i, Len(ctx.known)) ELSE ctx.known
        /\ updated = [ctx EXCEPT !.needsUpdate = FALSE]
        /\ asks = IF i > 0 THEN GetData({}, known) ELSE <<>>
  OBVIOUS
<1>6. IF lastBlock < estimatedHeight
      THEN /\ ctx' = [updated EXCEPT !.known = known] /\ Sends(asks \o Ping)
           /\ pongs' = Tail(pongs) \o <<"updateFilterRerequestDone">>
      ELSE /\ ctx' = SentMempool(updated, FALSE) /\ Sends(Mempool(ctx)) /\ pongs' = Tail(pongs)
  BY <1>5 DEF UpdateFilterLoadDone
<1>7. known \in Seq(1 .. mined) /\ TxsOf(known) \subseteq TxsOf(ctx.known)
  <2>1. i \in Nat /\ (i > 0 => i \in 1 .. Len(ctx.known) /\ SubSeq(ctx.known, i, Len(ctx.known)) \in Seq(1 .. mined))
    BY <1>2, <1>5, RerequestFacts
  <2>2. CASE i > 0
    <3>1. known = SubSeq(ctx.known, i, Len(ctx.known))
      BY <1>5, <2>2
    <3>2. PICK q \in Seq(1 .. mined) : q = ctx.known
      BY <1>2
    <3>3. TxsOf(SubSeq(q, i, Len(q))) \subseteq TxsOf(q)
      BY <1>2, <2>1, <2>2, <3>2, KnownLeft
    <3> QED BY <2>1, <2>2, <3>1, <3>2, <3>3
  <2>3. CASE ~(i > 0)
    BY <1>2, <1>5, <2>3
  <2> QED BY <2>2, <2>3
<1>8. Plain(mined, Ping) /\ Plain(mined, Mempool(ctx))
  BY <1>2, PlainSent
<1>9. ASSUME lastBlock < estimatedHeight PROVE KInv'
  <2>1. PICK N, cs : N = asks \o Ping /\ cs = <<"updateFilterRerequestDone">>
    OBVIOUS
  <2>2. ctx' = [updated EXCEPT !.known = known] /\ Sends(N) /\ pongs' = Tail(pongs) \o cs
    BY <1>6, <1>9, <2>1
  <2>3. ctx'.known = known /\ ctx'.knownTx = ctx.knownTx /\ ctx'.current = ctx.current /\ ctx'.left = ctx.left
    BY <1>2, <1>5, <2>2 DEF Contexts
  <2>4. /\ N \in Seq(Asked(mined)) /\ ~Meets(N, Loads) /\ (\A t : Meets(N, Bearers(t)) => t \in TxsOf(known))
        /\ \A y \in ToSet(N) : y.type = "getdata" => y.txs = {}
    <3>1. CASE i > 0
      <4>1. PICK T, Q : T = {} /\ Q = Ping
        OBVIOUS
      <4>2. T \in SUBSET Tx /\ Plain(mined, Q) /\ N = GetData(T, known) \o Q
        BY <1>5, <1>8, <2>1, <3>1, <4>1
      <4>3. Requested(mined, N, T, known)
        BY <1>2, <1>7, <4>2, RequestSent, Zenon
      <4> QED BY <4>1, <4>3 DEF Requested
    <3>2. CASE ~(i > 0)
      <4>1. PICK Q : Q = Ping
        OBVIOUS
      <4>2. Q \in Seq(Messages) /\ N = <<>> \o Q
        BY <1>2, <1>5, <1>8, <2>1, <3>2, <4>1, PlainFacts
      <4>3. <<>> \o Q = Q
        BY <4>2
      <4>4. Plain(mined, N)
        BY <1>8, <4>1, <4>2, <4>3
      <4> QED BY <1>2, <4>4, PlainFacts
    <3> QED BY <3>1, <3>2
  <2>5. \A t \in Tx : Meets(N, Bearers(t)) \/ t \in TxsOf(ctx'.known) => t \in TxsOf(ctx.known)
    BY <1>7, <2>3, <2>4
  <2>6. \E c \in Calls : cs = <<c>> /\ c \notin UpdateCalls
    BY <2>1 DEF Calls, UpdateCalls
  <2> QED BY <1>1, <1>4, <2>2, <2>3, <2>4, <2>5, <2>6, PongPlain
<1>10. ASSUME ~(lastBlock < estimatedHeight) PROVE KInv'
  <2>1. PICK N, cs : N = Mempool(ctx) /\ cs = <<>>
    OBVIOUS
  <2>2. ctx' = SentMempool(updated, FALSE) /\ Sends(N) /\ pongs' = Tail(pongs)
    BY <1>6, <1>10, <2>1
  <2>3. ctx'.known = ctx.known /\ ctx'.knownTx = ctx.knownTx /\ ctx'.current = ctx.current /\ ctx'.left = ctx.left
    BY <1>2, <1>5, <2>2 DEF Contexts, SentMempool
  <2>4. /\ N \in Seq(Asked(mined)) /\ ~Meets(N, Loads) /\ ~Meets(N, Matched) /\ (\A t : ~Meets(N, Bearers(t)))
        /\ \A y \in ToSet(N) : y.type # "getdata"
    BY <1>2, <1>8, <2>1, PlainFacts
  <2>5. pongs' = Tail(pongs) \o cs
    BY <1>1, <1>4, <2>1, <2>2, PongsLeft
  <2> QED BY <1>1, <1>4, <2>1, <2>2, <2>3, <2>4, <2>5, PongPlain
<1> QED BY <1>9, <1>10

\* A filter with a addresses is sent, and others after it.
Loading(n, N, a) ==
  /\ N \in Seq(Asked(n)) /\ N \in Seq(Messages) /\ N # <<>> /\ Head(N).type = "filterload"
  /\ \A y \in ToSet(N) : (y.type = "filterload" => y.filter.addrs = a) /\ y.type # "getdata"
  /\ \E y \in ToSet(N) : y.type = "filterload"
  /\ NoneAfter(N, Matched, Loads)
  /\ \A t : ~Meets(N, Bearers(t)) /\ ~Meets(N, Carriers(t)) /\ ~Meets(N, Tellers(t)) /\ ~Meets(N, Revealers(t))

\* That is what is sent.
LEMMA LoadingSent ==
  ASSUME NEW n \in 0 .. Len(Chain), NEW a \in Nat, NEW Q, Plain(n, Q), NEW N, N = FilterLoad(a) \o Q
  PROVE  Loading(n, N, a)
<1>1. n \in Nat
  BY FilterAssumption
<1>2. PICK g, m, F : g = [addrs |-> a, outs |-> Watched(a)] /\ m = [type |-> "filterload", filter |-> g] /\ F = <<m>>
  OBVIOUS
<1>3. g \in Filters /\ g.addrs = a /\ m.type = "filterload" /\ m.filter = g
  BY <1>1, <1>2, FilterLoadSent
<1>4. N = F \o Q
  BY <1>2 DEF FilterLoad
<1>5. m \in Asked(n)
  BY <1>2, <1>3 DEF Asked
<1>6. F \in Seq(Asked(n)) /\ F \in Seq(Messages) /\ ToSet(F) = {m}
  <2>1. PICK S : S = Asked(n)
    OBVIOUS
  <2>2. <<m>> \in Seq(S) /\ ToSet(<<m>>) = {m}
    BY <1>5, <2>1 DEF ToSet
  <2>3. F \in Seq(Asked(n))
    BY <1>2, <2>1, <2>2
  <2> QED BY <1>2, <2>2, <2>3, AllMessages
<1>7. /\ Q \in Seq(Asked(n)) /\ Q \in Seq(Messages) /\ ~Meets(Q, Loads)
      /\ \A y \in ToSet(Q) : y.type \in {"getblocks", "mempool", "ping"}
  BY PlainFacts DEF Plain
<1>8. N \in Seq(Asked(n)) /\ N \in Seq(Messages) /\ ToSet(N) = {m} \union ToSet(Q)
  <2>1. PICK S : S = Asked(n)
    OBVIOUS
  <2>2. N \in Seq(S)
    BY <1>4, <1>6, <1>7, <2>1, JoinAs
  <2> QED BY <1>4, <1>6, <1>7, <2>1, <2>2, JoinSet, AllMessages
<1>9. N # <<>> /\ Head(N) = m
  <2>1. PICK S : S = Messages
    OBVIOUS
  <2>2. F \in Seq(S) /\ Q \in Seq(S) /\ F = <<m>> /\ Len(<<m>>) = 1 /\ <<m>>[1] = m
    BY <1>2, <1>6, <1>7, <2>1
  <2>3. Len(F) = 1 /\ F[1] = m
    BY <2>2
  <2>4. F \o Q # <<>> /\ Head(F \o Q) = m
    BY <2>2, <2>3
  <2> QED BY <1>4, <2>4
<1>10. \A y \in ToSet(N) : y = m \/ y.type \in {"getblocks", "mempool", "ping"}
  BY <1>7, <1>8
<1>11. NoneAfter(N, Matched, Loads)
  <2>1. NoneAfter(F, Matched, Loads)
    <3>1. 0 \in Int
      OBVIOUS
    <3> QED BY <1>2, <3>1, OfOne
  <2>2. NoneAfter(Q, Matched, Loads)
    BY <1>7, OfNone
  <2>3. NoneAfter(N, Matched, Loads) <=> /\ NoneAfter(F, Matched, Loads) /\ NoneAfter(Q, Matched, Loads)
                                         /\ ~(Meets(F, Matched) /\ Meets(Q, Loads))
    BY <1>4, <1>6, <1>7, NoneAfterJoin
  <2> QED BY <1>7, <2>1, <2>2, <2>3
<1>12. \A t : ~Meets(N, Bearers(t)) /\ ~Meets(N, Carriers(t)) /\ ~Meets(N, Tellers(t)) /\ ~Meets(N, Revealers(t))
  <2>1. PICK K : K = {"filterload", "getblocks", "mempool", "ping"}
    OBVIOUS
  <2>2. \A y \in ToSet(N) : y.type \in K
    BY <1>3, <1>10, <2>1
  <2>3. "merkleblock" \notin K /\ "getdata" \notin K /\ "tx" \notin K /\ "inv" \notin K
    BY <2>1
  <2> QED BY <1>8, <2>2, <2>3, TypesMeet, Zenon
<1>13. \E y \in ToSet(N) : y.type = "filterload"
  BY <1>3, <1>8
<1>14. \A y \in ToSet(N) : (y.type = "filterload" => y.filter.addrs = a) /\ y.type # "getdata"
  BY <1>3, <1>10
<1> QED BY <1>3, <1>8, <1>9, <1>11, <1>12, <1>13, <1>14 DEF Loading

\* Of what the filter before decides nothing is on its way when the pong comes.
LEMMA NothingMatched ==
  ASSUME NodeTypes, NodeTypes', NEW M, NEW N, Moves(M, N), Marks(M) = 1, Within(way, 1)
  PROVE  /\ ~Meets(fromNode' \o toNode, Matched)
         /\ \A y \in ToSet(fromNode') : y.type # "merkleblock"
         /\ \A y \in ToSet(toNode) : y.type # "filterload"
<1> PICK F, T, B : F = fromNode' /\ T = toNode /\ B = F \o T
  OBVIOUS
<1>1. /\ Shift(way, way', M, B, N) /\ F \in Seq(Messages) /\ T \in Seq(Messages) /\ B \in Seq(Messages)
      /\ \A A : Meets(B, A) <=> Meets(F, A) \/ Meets(T, A)
  BY MovesFacts
<1>2. Within(B, 0)
  <2>1. 1 \in Int /\ 1 - 1 = 0
    OBVIOUS
  <2>2. Within(B, 1 - Marks(M))
    BY <1>1, <2>1, ShiftWithin
  <2> QED BY <2>1, <2>2
<1>3. ~Meets(B, Matched)
  <2> SUFFICES ASSUME NEW j \in 1 .. Len(B), B[j] \in Matched PROVE FALSE
    BY DEF Meets
  <2>1. Before(B, j) < 0
    BY <1>2 DEF Within
  <2>2. j \in Nat /\ j <= j
    BY <1>1
  <2>3. Before(B, j) \in Nat
    BY <2>2, BeforeFacts
  <2> QED BY <2>1, <2>3
<1>4. \A y \in ToSet(F) : y \in Messages /\ y \notin Matched
  BY <1>1, <1>3, MeetsSet, Elements
<1>5. \A y \in ToSet(T) : y \in Messages /\ y \notin Matched
  BY <1>1, <1>3, MeetsSet, Elements
<1> QED BY <1>3, <1>4, <1>5 DEF Matched

\* A filter is loaded when the pong is here.
LEMMA PingDoneKept == ASSUME KInv, UpdateFilterPingDone PROVE KInv'
<1>1. IInv' /\ IInv /\ NodeTypes /\ NodeTypes' /\ Coverage
  BY CompletionKeeps DEF KInv, IInv
<1>2. mined \in 0 .. Len(Chain) /\ ctx \in Contexts
  BY <1>1, WayTypes DEF IInv, WalletTypes
<1>3. PICK callback, a, N, cs : /\ callback = "updateFilterPingDone" /\ a = FilterAddrs /\ N = FilterLoad(a) \o Ping
                                /\ cs = <<"updateFilterLoadDone">>
  OBVIOUS
<1>4. /\ Pong(callback) /\ Sends(N) /\ pongs' = Tail(pongs) \o cs
      /\ ctx' = [ctx EXCEPT !.sentMempool = FALSE]
      /\ addrs' = a /\ bloomFilter' = a /\ orphans' = NoOrphans
  BY <1>3 DEF UpdateFilterPingDone, NewFilter
<1>5. a \in Nat /\ addrs \in Nat /\ addrs <= a /\ addrs' \in Nat
  BY <1>1, <1>3, <1>4, NewFilterFacts DEF FilterAddrs, Coverage
<1>6. Loading(mined, N, a)
  <2>1. PICK Q : Q = Ping
    OBVIOUS
  <2>2. Plain(mined, Q) /\ N = FilterLoad(a) \o Q
    BY <1>2, <1>3, <2>1, PlainSent
  <2> QED BY <1>2, <1>5, <2>2, LoadingSent
<1>7. /\ N \in Seq(Asked(mined)) /\ N \in Seq(Messages) /\ N # <<>> /\ Head(N).type = "filterload"
      /\ \A y \in ToSet(N) : (y.type = "filterload" => y.filter.addrs = a) /\ y.type # "getdata"
      /\ \E y \in ToSet(N) : y.type = "filterload"
      /\ NoneAfter(N, Matched, Loads) /\ \A t : ~Meets(N, Bearers(t))
  BY <1>6 DEF Loading
<1>8. PICK m, M, B : m = Head(fromNode) /\ M = <<m>> /\ B = fromNode' \o toNode
  OBVIOUS
<1>9. /\ Moves(M, N) /\ Marks(M) = 1 /\ ToSet(fromNode') \subseteq ToSet(fromNode)
      /\ relayed' = None /\ ctx.current = None /\ ctx.left = {} /\ height' = height
  BY <1>1, <1>4, <1>7, <1>8, PongRead
<1>10. callback \in UpdateCalls /\ (\E c \in Calls : cs = <<c>>) /\ cs # <<"updateFilterPingDone">>
  <2>1. "updateFilterLoadDone" \in Calls /\ <<"updateFilterLoadDone">> # <<"updateFilterPingDone">>
    BY DEF Calls, UpdateCalls
  <2> QED BY <1>3, <2>1 DEF UpdateCalls
<1>11. Within(way, 1) /\ ctx.needsUpdate
  <2>1. PICK R : R = Tail(pongs)
    OBVIOUS
  <2>2. pongs # <<>> /\ Head(pongs) = callback /\ pongs' = R \o cs
    BY <1>4, <2>1 DEF Pong
  <2>3. Updating
    BY DEF KInv
  <2> QED BY <1>1, <1>3, <1>10, <2>1, <2>2, <2>3, PongTaken
<1>12. /\ ~Meets(B, Matched)
       /\ \A y \in ToSet(fromNode') : y.type # "merkleblock"
       /\ \A y \in ToSet(toNode) : y.type # "filterload"
  BY <1>1, <1>8, <1>9, <1>11, NothingMatched
<1>13. /\ Shift(way, way', M, B, N) /\ ToSet(toNode') = ToSet(toNode) \union ToSet(N)
       /\ toNode \in Seq(Messages) /\ toNode' = toNode \o N /\ connected /\ connected' = connected /\ filter' = filter
  BY <1>1, <1>8, <1>9, MovesFacts DEF Moves
<1>14. Loaded /\ FilterBelow(addrs, filter, toNode)
  BY DEF KInv, InUse
<1>15. filter # None /\ filter.addrs \in Nat /\ filter.addrs <= a
  <2>1. filter # None
    <3>1. toNode # <<>> => Head(toNode) \in ToSet(toNode)
      BY <1>13, HeadSet
    <3> QED BY <1>12, <1>13, <1>14, <3>1 DEF Loaded
  <2>2. filter \in Filters
    BY <1>14, <2>1 DEF Loaded
  <2>3. filter.addrs \in Nat
    BY <2>2 DEF Filters
  <2> QED BY <1>5, <1>14, <2>1, <2>3 DEF FilterBelow
<1>16. Loaded'
  BY <1>13, <1>14, <1>15 DEF Loaded
<1>17. InUse'
  <2>1. NoneAfter(way', Matched, Loads)
    <3>1. NoneAfter(B, Matched, Loads)
      BY <1>12, <1>13, OfNone DEF Shift
    <3> QED BY <1>7, <1>12, <1>13, <3>1, ShiftNoneAfter
  <2>2. \A y \in ToSet(toNode') : y.type = "filterload" => y.filter.addrs = a
    BY <1>7, <1>12, <1>13
  <2>3. \E y \in ToSet(toNode') : y.type = "filterload"
    BY <1>7, <1>13
  <2>4. FilterIs(a, filter', toNode')
    BY <2>2, <2>3 DEF FilterIs
  <2>5. FilterBelow(a, filter', toNode')
    BY <1>5, <1>13, <1>15, <2>2 DEF FilterBelow
  <2> QED BY <1>4, <2>1, <2>4, <2>5 DEF InUse
<1>18. ctx'.current = ctx.current /\ ctx'.left = ctx.left /\ ctx'.known = ctx.known /\ ctx'.knownTx = ctx.knownTx
       /\ ctx'.needsUpdate = ctx.needsUpdate
  BY <1>2, <1>4 DEF Contexts
<1>19. \A h \in 1 .. Len(Chain) : orphans'[h] = None
  BY <1>4 DEF NoOrphans
<1>20. Live'
  BY <1>9, <1>12, <1>18, <1>19 DEF Live, MatchedBy
<1>21. Noted'
  <2>1. \A u \in Payments : Pays2Wallet(u) => Pays2Wallet(u)'
    BY <1>4, <1>5, PaysStill
  <2>2. Noted
    BY DEF KInv
  <2>3. \A y \in ToSet(fromNode') : y.type = "tx" /\ y.tx \in Payments => Pays2Wallet(y.tx)'
    BY <1>9, <2>1, <2>2 DEF Noted
  <2> QED BY <1>9, <1>12, <1>18, <1>19, <2>2, <2>3 DEF Noted
<1>22. \A t \in Tx : Meets(N, Bearers(t)) \/ t \in TxsOf(ctx'.known) => t \in TxsOf(ctx.known)
  BY <1>7, <1>18
<1>23. /\ \A c \in UpdateCalls : cs = <<c>> => callback \in UpdateCalls /\ ctx'.needsUpdate
       /\ addrs <= addrs' /\ \A y \in ToSet(N) : y.type = "getdata" => y.txs = {}
  BY <1>4, <1>5, <1>7, <1>10, <1>11, <1>18
<1>24. /\ (cs = <<>> \/ \E c \in Calls : cs = <<c>>) /\ (callback \in UpdateCalls \/ ctx'.needsUpdate = ctx.needsUpdate)
       /\ (Meets(N, Matched) => callback \in UpdateCalls /\ cs # <<"updateFilterPingDone">>)
       /\ Pong(callback) /\ N \in Seq(Asked(mined)) /\ Sends(N) /\ pongs' = Tail(pongs) \o cs
       /\ ctx'.knownTx = ctx.knownTx
  BY <1>4, <1>7, <1>10, <1>18
<1> QED BY <1>1, <1>16, <1>17, <1>20, <1>21, <1>22, <1>23, <1>24, PongKept, Zenon

\* Nothing is read, and N is sent.
LEMMA SendMoves ==
  ASSUME KInv, IInv', connected, NEW N, N \in Seq(Asked(mined)), Sends(N), NEW M, M = <<>>,
         UNCHANGED <<mined, pool, announced, filter, connected, fromNode>>
  PROVE  /\ Moves(M, N) /\ Marks(M) = 0 /\ (\A A : ~Meets(M, A)) /\ ToSet(fromNode') \subseteq ToSet(fromNode)
         /\ mined \in 0 .. Len(Chain)
<1>1. IInv /\ NodeTypes /\ NodeTypes'
  BY DEF KInv, IInv
<1>2. fromNode \in Seq(Messages) /\ mined \in 0 .. Len(Chain)
  BY <1>1, WayTypes
<1>3. M \in Seq(Messages) /\ fromNode = M \o fromNode'
  <2>1. PICK S : S = Messages
    OBVIOUS
  <2>2. PICK q \in Seq(S) : q = fromNode /\ q = fromNode'
    BY <1>2, <2>1
  <2>3. <<>> \in Seq(S) /\ q = <<>> \o q
    OBVIOUS
  <2>4. M \in Seq(S)
    BY <2>3
  <2>5. fromNode = <<>> \o fromNode'
    BY <2>2, <2>3
  <2>6. fromNode = M \o fromNode'
    BY <2>5, Zenon
  <2> QED BY <2>1, <2>4, <2>6
<1>4. Moves(M, N)
  BY <1>3 DEF Moves, Sends
<1>5. Marks(M) = 0 /\ \A A : ~Meets(M, A)
  BY NothingOnTheWay, OfNothing
<1> QED BY <1>2, <1>4, <1>5

\* A step in which the wallet reads nothing and sends plain requests.
LEMMA SendKept ==
  ASSUME KInv, IInv', connected, NEW N, Plain(mined, N), Sends(N),
         UNCHANGED <<mined, pool, announced, filter, connected, fromNode, bloomFilter, addrs>>,
         NEW cs, cs = <<>> \/ \E c \in Calls : cs = <<c>> /\ (c \in UpdateCalls => ~ctx.needsUpdate /\ ctx'.needsUpdate),
         pongs' = pongs \o cs, ctx.needsUpdate => ctx'.needsUpdate,
         ctx'.known = ctx.known, ctx'.knownTx = ctx.knownTx, Grown, Live', Noted', PaymentsKept', Generated'
  PROVE  KInv'
<1>1. IInv /\ NodeTypes /\ NodeTypes' /\ Loaded /\ InUse /\ Updating /\ addrs \in Nat /\ addrs' \in Nat /\ addrs <= addrs'
  BY DEF KInv, IInv, Coverage
<1>2. mined \in 0 .. Len(Chain)
  BY <1>1, WayTypes
<1>3. /\ N \in Seq(Asked(mined)) /\ ~Meets(N, Loads) /\ ~Meets(N, Matched) /\ (\A t : ~Meets(N, Bearers(t)))
      /\ \A y \in ToSet(N) : y.type # "getdata"
  BY <1>2, PlainFacts
<1>4. PICK M : M = <<>>
  OBVIOUS
<1>5. Moves(M, N) /\ Marks(M) = 0 /\ (\A A : ~Meets(M, A)) /\ ToSet(fromNode') \subseteq ToSet(fromNode)
  BY <1>3, <1>4, SendMoves
<1>6. Loaded' /\ InUse'
  <2>1. bloomFilter' \in {bloomFilter, None}
    OBVIOUS
  <2> QED BY <1>1, <1>3, <1>5, <2>1, MovesFilter
<1>7. Updating'
  BY <1>1, <1>3, <1>5, UpdatingKept
<1>8. ctx.knownTx \subseteq announced
  BY DEF KInv, Pooled
<1> QED BY <1>3, <1>5, <1>6, <1>7, <1>8, WalletKeepsRest

\* The time for an answer to a mempool request is over.
LEMMA MempoolTimeoutKept == ASSUME KInv, MempoolTimeout PROVE KInv'
<1>1. IInv' /\ IInv /\ ctx \in Contexts /\ mined \in 0 .. Len(Chain)
  <2>1. IInv' /\ IInv
    BY MempoolTimeoutKeeps DEF KInv
  <2> QED BY <2>1, WayTypes DEF IInv, WalletTypes
<1>2. PICK N, cs : N = Ping /\ cs = <<"mempoolDone">>
  OBVIOUS
<1>3. /\ ctx.mempoolCallback /\ ctx' = [ctx EXCEPT !.mempoolCallback = FALSE]
      /\ Sends(N) /\ pongs' = pongs \o cs
      /\ UNCHANGED <<mined, pool, announced, filter, fromNode, connected, bloomFilter, orphans, relayed, height, addrs, lastBlock>>
  BY <1>2 DEF MempoolTimeout, Pings, NodeUnchanged, manager, wallet, node
<1>4. connected
  <2> SUFFICES ASSUME ~connected PROVE FALSE
    OBVIOUS
  <2>1. ctx = NewContext(0)
    BY <1>1 DEF IInv, Closed
  <2> QED BY <1>3, <2>1 DEF NewContext
<1>5. Plain(mined, N)
  BY <1>1, <1>2, PlainSent
<1>6. /\ ctx'.needsUpdate = ctx.needsUpdate /\ ctx'.known = ctx.known /\ ctx'.knownTx = ctx.knownTx
      /\ ctx'.current = ctx.current /\ ctx'.left = ctx.left
  BY <1>1, <1>3 DEF Contexts
<1>7. Grown /\ addrs \in Nat /\ addrs' \in Nat
  BY <1>1, <1>3 DEF Grown, IInv, Coverage
<1>8. Live' /\ Noted'
  BY <1>3, <1>6, <1>7, LiveKept, NotedKept DEF KInv
<1>9. PaymentsKept' /\ Generated'
  BY <1>3 DEF KInv, PaymentsKept, Generated
<1>10. \E c \in Calls : cs = <<c>> /\ (c \in UpdateCalls => ~ctx.needsUpdate /\ ctx'.needsUpdate)
  BY <1>2 DEF Calls, UpdateCalls
<1> QED BY <1>1, <1>3, <1>4, <1>5, <1>6, <1>7, <1>8, <1>9, <1>10, SendKept

\* What the relayed block leaves of the context.
Same(c, degraded) ==
  /\ c \in Contexts /\ c.needsUpdate = (ctx.needsUpdate \/ degraded)
  /\ c.known = ctx.known /\ c.knownTx = ctx.knownTx /\ c.current = ctx.current /\ c.left = ctx.left

\* It stays that.
LEMMA SameStays ==
  ASSUME NEW degraded, NEW c, Same(c, degraded)
  PROVE  /\ Same(SentMempool(c, TRUE), degraded)
         /\ \A b \in BOOLEAN : Same([c EXCEPT !.timer = b], degraded)
         /\ c.timer \in BOOLEAN
<1>1. c \in Contexts
  BY DEF Same
<1>2. c.timer \in BOOLEAN /\ c.mempoolCallback \in BOOLEAN /\ c.sentMempool \in BOOLEAN
  BY <1>1 DEF Contexts
<1>3. ASSUME NEW r, /\ r \in Contexts /\ r.needsUpdate = c.needsUpdate /\ r.known = c.known /\ r.knownTx = c.knownTx
                    /\ r.current = c.current /\ r.left = c.left
      PROVE  Same(r, degraded)
  BY <1>3 DEF Same
<1>4. ASSUME NEW b \in BOOLEAN PROVE Same([c EXCEPT !.timer = b], degraded)
  <2>1. PICK r : r = [c EXCEPT !.timer = b]
    OBVIOUS
  <2>2. /\ r \in Contexts /\ r.needsUpdate = c.needsUpdate /\ r.known = c.known /\ r.knownTx = c.knownTx
        /\ r.current = c.current /\ r.left = c.left
    BY <1>1, <2>1 DEF Contexts
  <2> QED BY <1>3, <2>1, <2>2
<1>5. Same(SentMempool(c, TRUE), degraded)
  <2>1. PICK b, e : b = TRUE /\ e = (c.mempoolCallback \/ (b /\ ~c.sentMempool))
    OBVIOUS
  <2>2. SentMempool(c, b) = [c EXCEPT !.sentMempool = TRUE, !.mempoolCallback = e]
    BY <2>1 DEF SentMempool
  <2>3. e \in BOOLEAN
    BY <2>1
  <2>4. PICK r : r = [c EXCEPT !.sentMempool = TRUE, !.mempoolCallback = e]
    OBVIOUS
  <2>5. /\ r \in Contexts /\ r.needsUpdate = c.needsUpdate /\ r.known = c.known /\ r.knownTx = c.knownTx
        /\ r.current = c.current /\ r.left = c.left
    BY <1>1, <2>3, <2>4 DEF Contexts
  <2>6. Same(r, degraded)
    BY <1>3, <2>5
  <2> QED BY <2>1, <2>2, <2>4, <2>6
<1> QED BY <1>2, <1>4, <1>5

\* So it is at first.
LEMMA SameFacts ==
  ASSUME ctx \in Contexts, NEW degraded \in BOOLEAN, NEW c, c = [ctx EXCEPT !.needsUpdate = @ \/ degraded]
  PROVE  Same(c, degraded)
<1>1. PICK d : d = (ctx.needsUpdate \/ degraded)
  OBVIOUS
<1>2. d \in BOOLEAN /\ c = [ctx EXCEPT !.needsUpdate = d]
  BY <1>1
<1>3. /\ c \in Contexts /\ c.needsUpdate = d /\ c.known = ctx.known /\ c.knownTx = ctx.knownTx
      /\ c.current = ctx.current /\ c.left = ctx.left
  BY <1>2 DEF Contexts
<1> QED BY <1>1, <1>3 DEF Same

\* The block relayed next was an orphan; the orphans left are those there were, or the block that was relayed.
Left == /\ relayed' # None => \E h \in 1 .. Len(Chain) : orphans[h] # None /\ relayed'.height = h /\ relayed'.txs = orphans[h]
        /\ \A h \in 1 .. Len(Chain) :
             orphans'[h] # None => orphans'[h] = orphans[h] \/ (h = relayed.height /\ orphans'[h] = relayed.txs)

\* So it is when the orphan that follows is relayed.
LEMMA FollowsLeft ==
  ASSUME OrphanTypes, NEW h \in Nat, Follows(h)
  PROVE  Left
<1>1. CASE h < Len(Chain) /\ orphans[h + 1] # None
  <2>1. PICK l, T : l = h + 1 /\ T = orphans[h + 1]
    OBVIOUS
  <2>2. relayed' = [height |-> l, txs |-> T] /\ orphans' = [orphans EXCEPT ![l] = None]
    BY <1>1, <2>1 DEF Follows
  <2>3. l \in 1 .. Len(Chain)
    BY <1>1, <2>1, FilterAssumption
  <2>4. relayed'.height = l /\ relayed'.txs = orphans[l] /\ orphans[l] # None
    BY <1>1, <2>1, <2>2
  <2>5. \A g \in 1 .. Len(Chain) : orphans'[g] # None => orphans'[g] = orphans[g]
    BY <2>2 DEF OrphanTypes
  <2> QED BY <2>3, <2>4, <2>5 DEF Left
<1>2. CASE ~(h < Len(Chain) /\ orphans[h + 1] # None)
  <2>1. relayed' = None /\ orphans' = orphans
    BY <1>2 DEF Follows
  <2> QED BY <2>1 DEF Left
<1> QED BY <1>1, <1>2

\* The blocks that are here were matched with the filter in use, and are noted.
LEMMA LeftKept ==
  ASSUME KInv, relayed # None, Left, fromNode' = fromNode, bloomFilter' = bloomFilter, addrs' = addrs,
         ctx'.current = ctx.current, ctx'.left = ctx.left, Grown
  PROVE  Live' /\ Noted'
<1>1. Live /\ Noted
  BY DEF KInv
<1>2. Live'
  <2> PICK n : n = bloomFilter
    OBVIOUS
  <2> SUFFICES ASSUME bloomFilter' # None PROVE MatchedBy(n, fromNode, ctx.current, relayed', orphans')
    BY DEF Live
  <2>1. /\ \A m \in ToSet(fromNode) : m.type = "merkleblock" => Ours(n, m.height) \subseteq m.txs
        /\ ctx.current # None => Ours(n, ctx.current.height) \subseteq ctx.current.txs
        /\ Ours(n, relayed.height) \subseteq relayed.txs
        /\ \A h \in 1 .. Len(Chain) : orphans[h] # None => Ours(n, h) \subseteq orphans[h]
    BY <1>1 DEF Live, MatchedBy
  <2>2. relayed' # None => Ours(n, relayed'.height) \subseteq relayed'.txs
    BY <2>1 DEF Left
  <2>3. \A h \in 1 .. Len(Chain) : orphans'[h] # None => Ours(n, h) \subseteq orphans'[h]
    BY <2>1 DEF Left
  <2> QED BY <2>1, <2>2, <2>3 DEF MatchedBy
<1>3. Noted'
  <2>1. \A u : Pays2Wallet(u)' <=> Pays2Wallet(u)
    BY DEF Pays2Wallet
  <2>2. Registered(height) \subseteq Registered(height') /\ \A t \in Payments : height'[t] # Foreign
    BY <1>1 DEF Noted, Grown
  <2>3. relayed' # None => relayed'.txs \intersect Payments \subseteq Registered(height')
    BY <1>1, <2>2 DEF Left, Noted
  <2>4. \A h \in 1 .. Len(Chain) : orphans'[h] # None => orphans'[h] \intersect Payments \subseteq Registered(height')
    BY <1>1, <2>2 DEF Left, Noted
  <2>5. ctx'.current # None =>
          \A u \in ctx'.current.txs \intersect Payments : Pays2Wallet(u)' /\ (u \in Registered(height') \/ u \in ctx'.left)
    BY <1>1, <2>1, <2>2 DEF Noted
  <2> QED BY <1>1, <2>1, <2>2, <2>3, <2>4, <2>5 DEF Noted
<1> QED BY <1>2, <1>3

\* A block is relayed, in each of the ways.
LEMMA RelayKept ==
  ASSUME KInv, IInv', relayed # None, connected, Left, PaymentsKept', Generated', Grown,
         UNCHANGED <<mined, pool, announced, filter, connected, fromNode, bloomFilter, addrs>>,
         NEW degraded \in BOOLEAN, Same(ctx', degraded), NEW N, Plain(mined, N), Sends(N),
         NEW cs, cs = IF degraded /\ UpdateNeeded(ctx) THEN <<"updateFilterPingDone">> ELSE <<>>, pongs' = pongs \o cs
  PROVE  KInv'
<1>1. /\ ctx'.needsUpdate = (ctx.needsUpdate \/ degraded) /\ ctx'.known = ctx.known /\ ctx'.knownTx = ctx.knownTx
      /\ ctx'.current = ctx.current /\ ctx'.left = ctx.left
  BY DEF Same
<1>2. Live' /\ Noted'
  BY <1>1, LeftKept
<1>3. cs = <<>> \/ \E c \in Calls : cs = <<c>> /\ (c \in UpdateCalls => ~ctx.needsUpdate /\ ctx'.needsUpdate)
  <2>1. "updateFilterPingDone" \in Calls
    BY DEF Calls, UpdateCalls
  <2> QED BY <1>1, <2>1 DEF UpdateNeeded
<1>4. ctx.needsUpdate => ctx'.needsUpdate
  BY <1>1
<1> QED BY <1>1, <1>2, <1>3, <1>4, SendKept

\* An address that was paid before keeps the gap of the filter after it.
LEMMA PaidBefore ==
  ASSUME Coverage, bloomFilter # None, NEW t \in Registered(height), NEW u \in Pays[t], u < addrs, NEW i \in Nat, i <= u + Gap
  PROVE  i < bloomFilter
<1>1. /\ height \in Heights /\ addrs \in Nat /\ bloomFilter \in Nat /\ Gap \in Nat
      /\ FirstUnused(height, addrs) + Gap <= bloomFilter
  BY FilterAssumption DEF Coverage
<1>2. u \in Used(height) /\ u \in Nat
  <2>1. t \in Tx
    BY DEF Registered
  <2>2. Pays[t] \subseteq Nat
    BY <2>1, FilterAssumption
  <2>3. u \in Used(height)
    BY DEF Used
  <2> QED BY <2>2, <2>3
<1>3. u + 1 <= FirstUnused(height, addrs) /\ FirstUnused(height, addrs) \in Nat
  BY <1>1, <1>2, FirstUnusedFacts
<1> QED BY <1>1, <1>2, <1>3

\* So is one within the gap from the first.
LEMMA FirstOnes ==
  ASSUME Coverage, bloomFilter # None, NEW i \in Nat, i < Gap
  PROVE  i < bloomFilter
<1>1. /\ height \in Heights /\ addrs \in Nat /\ bloomFilter \in Nat /\ Gap \in Nat
      /\ FirstUnused(height, addrs) + Gap <= bloomFilter
  BY FilterAssumption DEF Coverage
<1>2. FirstUnused(height, addrs) \in Nat
  BY <1>1, FirstUnusedFacts
<1> QED BY <1>1, <1>2

\* Every address the next block pays is in the filter it was matched with.
LEMMA PaidInFilter ==
  ASSUME KInv, Premises, bloomFilter # None, relayed # None, NEW H, H = relayed.height, H = lastBlock + 1, H \in 1 .. Len(Chain)
  PROVE  \A t \in ToSet(Chain[H]) : \A i \in Pays[t] : i < bloomFilter
<1>1. /\ Coverage /\ PaymentsKept /\ Generated /\ Live /\ Noted /\ WalletTypes /\ NodeTypes
      /\ addrs \in Nat /\ bloomFilter \in Nat /\ bloomFilter <= addrs
  BY DEF KInv, IInv, Coverage
<1>2. lastBlock \in Nat /\ Len(Chain) \in Nat
  BY <1>1, FilterAssumption DEF WalletTypes, NodeTypes
<1>3. PICK q : q = Chain[H]
  OBVIOUS
<1>4. q \in Seq(Tx) /\ Len(q) \in Nat /\ DOMAIN q = 1 .. Len(q)
  <2>1. Chain[H] \in Seq(Tx)
    <3>1. Len(Chain) \in 0 .. Len(Chain)
      BY <1>2
    <3> QED BY <3>1, ChainFacts
  <2> QED BY <1>3, <2>1
<1>5. \A k \in 1 .. Len(q) : Pays[q[k]] \subseteq Nat
  BY <1>4, FilterAssumption
<1> DEFINE bad == {k \in 1 .. Len(q) : \E i \in Pays[q[k]] : ~(i < bloomFilter)}
<1>6. SUFFICES bad = {}
  <2>1. ASSUME bad = {}, NEW t \in ToSet(q), NEW i \in Pays[t] PROVE i < bloomFilter
    <3>1. PICK k \in 1 .. Len(q) : t = q[k]
      BY <1>4 DEF ToSet
    <3> QED BY <2>1, <3>1
  <2> QED BY <1>3, <2>1
<1>7. SUFFICES ASSUME bad # {} PROVE FALSE
  OBVIOUS
<1>8. PICK k \in 1 .. Len(q) : (\E i \in Pays[q[k]] : ~(i < bloomFilter)) /\ \A l \in 1 .. Len(q) : l < k => l \notin bad
  <2>1. bad \in SUBSET Nat
    BY <1>4
  <2>2. PICK k : k = Min(bad)
    OBVIOUS
  <2>3. k \in bad /\ \A x \in bad : k <= x
    <3> HIDE DEF bad
    <3> QED BY <1>7, <2>1, <2>2, MinFacts
  <2> QED BY <1>4, <2>3
<1>9. PICK i \in Pays[q[k]] : ~(i < bloomFilter)
  BY <1>8
<1>10. i \in Nat
  BY <1>5, <1>9
<1>11. \/ i < Gap
       \/ \E g \in 1 .. H : \E l \in 1 .. Len(Chain[g]) : (g < H \/ l < k) /\ \E u \in Pays[Chain[g][l]] : i <= u + Gap
  BY <1>3, <1>9 DEF Premises, GapKept
<1>12. CASE i < Gap
  BY <1>1, <1>9, <1>10, <1>12, FirstOnes
<1>13. ASSUME NEW g \in 1 .. H, NEW l \in 1 .. Len(Chain[g]), g < H \/ l < k, NEW u \in Pays[Chain[g][l]], i <= u + Gap
       PROVE  FALSE
  <2>1. PICK t : t = Chain[g][l]
    OBVIOUS
  <2>2. g \in 1 .. Len(Chain) /\ Chain[g] \in Seq(Tx) /\ t \in Tx /\ t \in ToSet(Chain[g])
    <3>1. g \in 1 .. Len(Chain) /\ Len(Chain) \in 0 .. Len(Chain)
      BY <1>2, <1>13
    <3>2. Chain[g] \in Seq(Tx)
      BY <3>1, ChainFacts
    <3>3. PICK p \in Seq(Tx) : p = Chain[g]
      BY <3>2
    <3>4. t = p[l] /\ l \in 1 .. Len(p) /\ DOMAIN p = 1 .. Len(p)
      BY <1>13, <2>1, <3>3
    <3>5. t \in Tx /\ t \in ToSet(p)
      BY <3>4 DEF ToSet
    <3> QED BY <3>1, <3>2, <3>3, <3>5
  <2>3. u \in Pays[t]
    BY <1>13, <2>1
  <2>4. t \in Registered(height) /\ u < addrs
    <3>1. CASE g < H
      <4>1. g \in 1 .. lastBlock
        BY <1>2, <1>13, <3>1
      <4>2. height[t] = g /\ u < addrs
        BY <1>1, <2>2, <2>3, <4>1 DEF PaymentsKept, Generated
      <4>3. height[t] # Absent /\ height[t] # Foreign
        BY <4>1, <4>2 DEF Absent, Foreign
      <4> QED BY <2>2, <4>2, <4>3 DEF Registered
    <3>2. CASE ~(g < H)
      <4>1. g = H /\ l < k /\ Chain[g] = q
        BY <1>2, <1>3, <1>13, <3>2
      <4>2. l \in 1 .. Len(q) /\ l \notin bad /\ t = q[l]
        BY <1>8, <1>13, <2>1, <4>1
      <4>3. u < bloomFilter
        BY <2>3, <4>2
      <4>4. t \in Ours(bloomFilter, H)
        BY <2>2, <2>3, <4>1, <4>3 DEF Ours
      <4>5. Ours(bloomFilter, H) \subseteq relayed.txs
        BY <1>1 DEF Live, MatchedBy
      <4>6. t \in Payments
        BY <2>2, <2>3 DEF Payments
      <4>7. t \in Registered(height)
        BY <1>1, <4>4, <4>5, <4>6 DEF Noted
      <4>8. u \in Nat
        BY <2>2, <2>3, FilterAssumption
      <4> QED BY <1>1, <4>3, <4>7, <4>8
    <3> QED BY <3>1, <3>2
  <2>5. i < bloomFilter
    BY <1>1, <1>10, <1>13, <2>3, <2>4, PaidBefore
  <2> QED BY <1>9, <2>5
<1> QED BY <1>11, <1>12, <1>13

\* The heights g are the wallet's, with txs confirmed at h.
ConfirmedWell(g, txs, h) ==
  /\ Registered(g) = Registered(height)
  /\ \A t \in txs \intersect Registered(height) : g[t] = h
  /\ \A t \in Tx : t \notin txs => g[t] = height[t]
  /\ \A t \in Tx : height[t] # Foreign => g[t] # Foreign

\* A confirmation yields such heights.
LEMMA ConfirmedIsWell ==
  ASSUME height \in Heights, addrs \in Nat, NEW txs, txs \in SUBSET Tx, NEW h, h \in Nat,
         NEW g, g = Confirmed(txs, h)
  PROVE  ConfirmedWell(g, txs, h)
<1>1. /\ Registered(g) = Registered(height)
      /\ \A t \in txs \intersect Registered(height) : g[t] = h
  BY ConfirmedFacts
<1>2. \A t \in Tx : t \notin txs => g[t] = height[t]
  BY ConfirmedFacts
<1>3. \A t \in Tx : height[t] # Foreign => g[t] # Foreign
  BY ConfirmedFacts
<1> QED BY <1>1, <1>2, <1>3, Zenon DEF ConfirmedWell

\* The payments in a block are confirmed at its height.
LEMMA PaymentsConfirmed ==
  ASSUME KInv, Premises, relayed # None, height' = Confirmed(relayed.txs, relayed.height), addrs' = addrs,
         lastBlock' = lastBlock \/ (lastBlock' = lastBlock + 1 /\ relayed.height = lastBlock + 1 /\ bloomFilter # None)
  PROVE  PaymentsKept' /\ Generated' /\ Grown
<1>1. /\ Coverage /\ PaymentsKept /\ Generated /\ Live /\ Noted /\ WalletTypes /\ NodeTypes
      /\ height \in Heights /\ addrs \in Nat /\ lastBlock \in Nat /\ relayed \in Blocks(mined) /\ mined \in Nat
      /\ mined \in 0 .. Len(Chain) /\ Len(Chain) \in Nat /\ lastBlock <= mined
  <2>1. Coverage /\ PaymentsKept /\ Generated /\ Live /\ Noted /\ WalletTypes /\ NodeTypes
    BY DEF KInv, IInv
  <2> QED BY <2>1, FilterAssumption DEF NodeTypes, WalletTypes, Coverage
<1>2. PICK txs, H : txs = relayed.txs /\ H = relayed.height
  OBVIOUS
<1>3. txs \in SUBSET Tx /\ H \in Nat /\ H \in 1 .. Len(Chain) /\ txs \subseteq ToSet(Chain[H])
  BY <1>1, <1>2, BlockFacts
<1>4. /\ Registered(height') = Registered(height)
      /\ \A t \in txs \intersect Registered(height) : height'[t] = H
      /\ \A t \in Tx : t \notin txs => height'[t] = height[t]
      /\ \A t \in Tx : height[t] # Foreign => height'[t] # Foreign
  <2>1. PICK g : g = Confirmed(txs, H)
    OBVIOUS
  <2>2. /\ Registered(g) = Registered(height)
        /\ \A t \in txs \intersect Registered(height) : g[t] = H
        /\ \A t \in Tx : t \notin txs => g[t] = height[t]
        /\ \A t \in Tx : height[t] # Foreign => g[t] # Foreign
    <3>1. height \in Heights /\ addrs \in Nat /\ txs \in SUBSET Tx /\ H \in Nat
      BY <1>1, <1>3
    <3>2. ConfirmedWell(g, txs, H)
      BY <2>1, <3>1, ConfirmedIsWell, Zenon
    <3> QED BY <3>2, Zenon DEF ConfirmedWell
  <2>3. height' = g
    BY <1>2, <2>1
  <2> QED BY <2>2, <2>3
<1>5. Grown
  BY <1>1, <1>4 DEF Grown, Payments
<1>6. \A h \in 1 .. lastBlock : h \in 1 .. Len(Chain) /\ h # Absent /\ h # Foreign
  BY <1>1 DEF Absent, Foreign
<1>7. \A h \in 1 .. Len(Chain) : ToSet(Chain[h]) \subseteq Tx
  <2>1. Len(Chain) \in 0 .. Len(Chain)
    BY <1>1
  <2> QED BY <2>1, ChainFacts
<1>8. ASSUME NEW h \in 1 .. lastBlock, NEW t \in ToSet(Chain[h]), Pays[t] # {} PROVE height'[t] = h
  <2>1. height[t] = h /\ t \in Tx /\ t \in Payments
    BY <1>1, <1>6, <1>7, <1>8 DEF PaymentsKept, Payments
  <2>2. CASE t \notin txs
    BY <1>4, <2>1, <2>2
  <2>3. CASE t \in txs
    <3>1. h = H
      BY <1>3, <1>6, <2>1, <2>3 DEF Premises, Ordinary
    <3>2. t \in Registered(height)
      BY <1>6, <2>1 DEF Registered
    <3> QED BY <1>4, <2>3, <3>1, <3>2
  <2> QED BY <2>2, <2>3
<1>9. \A h \in 1 .. lastBlock : \A t \in ToSet(Chain[h]) : \A i \in Pays[t] : i < addrs
  BY <1>1 DEF Generated
<1>10. CASE lastBlock' = lastBlock
  <2>1. PaymentsKept'
    BY <1>8, <1>10 DEF PaymentsKept
  <2>2. Generated'
    BY <1>9, <1>10 DEF Generated
  <2> QED BY <1>5, <2>1, <2>2
<1>11. CASE lastBlock' = lastBlock + 1 /\ relayed.height = lastBlock + 1 /\ bloomFilter # None
  <2>1. \A t \in ToSet(Chain[H]) : \A i \in Pays[t] : i < bloomFilter
    BY <1>2, <1>3, <1>11, PaidInFilter
  <2>2. ASSUME NEW t \in ToSet(Chain[H]), Pays[t] # {} PROVE height'[t] = H
    <3>1. t \in Ours(bloomFilter, H)
      BY <2>1, <2>2 DEF Ours
    <3>2. t \in txs
      BY <1>1, <1>2, <1>11, <3>1 DEF Live, MatchedBy
    <3>3. t \in Payments
      BY <1>3, <2>2, <3>2 DEF Payments
    <3>4. t \in Registered(height)
      BY <1>1, <1>2, <3>2, <3>3 DEF Noted
    <3> QED BY <1>4, <3>2, <3>4
  <2>3. ASSUME NEW t \in ToSet(Chain[H]), NEW i \in Pays[t] PROVE i < addrs
    <3>1. i < bloomFilter /\ i \in Nat
      BY <1>3, <1>7, <2>1, FilterAssumption
    <3>2. bloomFilter \in Nat /\ bloomFilter <= addrs
      BY <1>1, <1>11 DEF Coverage
    <3> QED BY <1>1, <3>1, <3>2
  <2>4. \A h \in 1 .. lastBlock' : h \in 1 .. lastBlock \/ h = H
    BY <1>1, <1>2, <1>11
  <2>5. PaymentsKept'
    BY <1>8, <2>2, <2>4 DEF PaymentsKept
  <2>6. Generated'
    BY <1>9, <2>3, <2>4 DEF Generated
  <2> QED BY <1>5, <2>5, <2>6
<1> QED BY <1>10, <1>11

\* A block is relayed.
LEMMA RelayedKept == ASSUME KInv, Premises, RelayedBlock PROVE KInv'
<1>1. IInv' /\ IInv /\ ctx \in Contexts /\ mined \in 0 .. Len(Chain) /\ lastBlock \in Nat /\ OrphanTypes /\ WalletTypes
  <2>1. IInv' /\ IInv
    BY RelayedKeeps DEF KInv
  <2>2. mined \in 0 .. Len(Chain) /\ mined \in Nat
    BY <2>1, WayTypes DEF IInv
  <2> QED BY <2>1, <2>2 DEF IInv, WalletTypes
<1> PICK degraded \in BOOLEAN :
      LET callbacks == IF degraded /\ UpdateNeeded(ctx) THEN <<"updateFilterPingDone">> ELSE <<>>
          c == [ctx EXCEPT !.needsUpdate = @ \/ degraded]
      IN \/ IgnoreBlock(c, callbacks)
         \/ IgnoreOrphan(c, callbacks)
         \/ AddOrphan(c, callbacks)
         \/ ExtendChain(c, callbacks)
         \/ ExistingBlock(c, callbacks)
  BY Zenon DEF RelayedBlock
<1> PICK cs : cs = IF degraded /\ UpdateNeeded(ctx) THEN <<"updateFilterPingDone">> ELSE <<>>
  OBVIOUS
<1> PICK c : c = [ctx EXCEPT !.needsUpdate = @ \/ degraded]
  OBVIOUS
<1>2. /\ cs = IF degraded /\ UpdateNeeded(ctx) THEN <<"updateFilterPingDone">> ELSE <<>>
      /\ \/ IgnoreBlock(c, cs) \/ IgnoreOrphan(c, cs) \/ AddOrphan(c, cs) \/ ExtendChain(c, cs) \/ ExistingBlock(c, cs)
  BY Zenon
<1>3. Same(c, degraded)
  BY <1>1, SameFacts
<1>4. Same(SentMempool(c, TRUE), degraded) /\ (\A b \in BOOLEAN : Same([c EXCEPT !.timer = b], degraded)) /\ c.timer \in BOOLEAN
  BY <1>3, SameStays
<1>5. relayed # None /\ UNCHANGED <<mined, pool, announced, filter, fromNode, connected>>
  BY DEF RelayedBlock, NodeUnchanged, node
<1>6. connected
  BY <1>1, <1>5 DEF IInv, Closed
<1>7. Plain(mined, PingMessages(cs))
  <2>1. cs = <<>> \/ \E x \in Calls : cs = <<x>>
    BY <1>2 DEF Calls, UpdateCalls
  <2> QED BY <1>1, <2>1, PingsPlain
<1>8. /\ Plain(mined, <<>>) /\ Plain(mined, GetBlocks(lastBlock)) /\ Plain(mined, Mempool(c))
  BY <1>1, PlainSent
\* with the frame of all of them
<1>9. ASSUME Left, PaymentsKept', Generated', Grown, UNCHANGED <<bloomFilter, addrs>>, Same(ctx', degraded),
             NEW N, Plain(mined, N), Sends(N), pongs' = pongs \o cs
      PROVE  KInv'
  BY <1>1, <1>2, <1>5, <1>6, <1>9, RelayKept
<1>10. ASSUME UNCHANGED <<height, addrs, lastBlock>> PROVE PaymentsKept' /\ Generated' /\ Grown
  <2>1. addrs \in Nat
    BY <1>1 DEF IInv, Coverage
  <2> QED BY <1>10, <2>1 DEF KInv, PaymentsKept, Generated, Grown
<1>11. ASSUME IgnoreBlock(c, cs) \/ IgnoreOrphan(c, cs) PROVE KInv'
  <2>1. /\ relayed' = None /\ Sends(PingMessages(cs)) /\ pongs' = pongs \o cs
        /\ UNCHANGED <<bloomFilter, lastBlock, orphans, height, addrs>>
        /\ ctx' = [c EXCEPT !.timer = @ \/ lastBlock < estimatedHeight] \/ ctx' = c
    BY <1>11 DEF IgnoreBlock, IgnoreOrphan, Pings, manager, wallet
  <2>2. Same(ctx', degraded)
    <3>1. PICK b : b = (c.timer \/ lastBlock < estimatedHeight)
      OBVIOUS
    <3>2. b \in BOOLEAN /\ (ctx' = [c EXCEPT !.timer = b] \/ ctx' = c)
      BY <1>4, <2>1, <3>1
    <3> QED BY <1>3, <1>4, <3>2
  <2>3. Left
    BY <2>1 DEF Left
  <2> QED BY <1>7, <1>9, <1>10, <2>1, <2>2, <2>3
<1>12. ASSUME AddOrphan(c, cs) PROVE KInv'
  <2>1. PICK P, asks : /\ P = PingMessages(cs)
                       /\ asks = IF lastBlock >= c.lastblock /\ lastOrphan # relayed.height - 1 THEN GetBlocks(lastBlock) ELSE <<>>
    OBVIOUS
  <2>2. /\ orphans' = [orphans EXCEPT ![relayed.height] = relayed.txs] /\ ctx' = c /\ relayed' = None
        /\ Sends(P \o asks) /\ pongs' = pongs \o cs
        /\ UNCHANGED <<bloomFilter, lastBlock, height, addrs>>
    BY <1>12, <2>1 DEF AddOrphan, Pings, wallet
  <2>3. Plain(mined, P \o asks)
    <3>1. Plain(mined, P) /\ Plain(mined, asks)
      BY <1>7, <1>8, <2>1
    <3> QED BY <1>1, <3>1, PlainJoin
  <2>4. Left
    <3>1. \A h \in 1 .. Len(Chain) : IF h = relayed.height THEN orphans'[h] = relayed.txs ELSE orphans'[h] = orphans[h]
      BY <1>1, <2>2 DEF OrphanTypes
    <3> QED BY <2>2, <3>1 DEF Left
  <2>5. Same(ctx', degraded)
    BY <1>3, <2>2
  <2> QED BY <1>9, <1>10, <2>2, <2>3, <2>4, <2>5
<1>13. relayed.height \in Nat
  <2>1. mined \in Nat
    BY <1>1, FilterAssumption
  <2> QED BY <1>1, <1>5, <2>1, BlockFacts DEF WalletTypes
<1>14. ASSUME ExistingBlock(c, cs) PROVE KInv'
  <2>1. /\ height' = Confirmed(relayed.txs, relayed.height) /\ ctx' = c /\ Follows(relayed.height)
        /\ Sends(PingMessages(cs)) /\ pongs' = pongs \o cs
        /\ UNCHANGED <<bloomFilter, lastBlock, addrs>>
    BY <1>14 DEF ExistingBlock, Pings
  <2>2. PaymentsKept' /\ Generated' /\ Grown
    BY <1>5, <2>1, PaymentsConfirmed
  <2>3. Left
    BY <1>1, <1>13, <2>1, FollowsLeft
  <2>4. Same(ctx', degraded)
    BY <1>3, <2>1
  <2> QED BY <1>7, <1>9, <2>1, <2>2, <2>3, <2>4
<1>15. ASSUME ExtendChain(c, cs) PROVE KInv'
  <2>1. /\ bloomFilter # None /\ relayed.height = lastBlock + 1 /\ lastBlock' = lastBlock + 1
        /\ height' = Confirmed(relayed.txs, relayed.height)
    BY <1>15 DEF ExtendChain
  <2>2. PICK P, Q : P = PingMessages(cs) /\ Q = Mempool(c)
    OBVIOUS
  <2>3. /\ Follows(relayed.height) /\ pongs' = pongs \o cs /\ UNCHANGED <<addrs, bloomFilter>>
        /\ \/ ctx' = SentMempool(c, TRUE) /\ Sends(P \o Q)
           \/ ctx' = [c EXCEPT !.timer = @ \/ relayed.height < estimatedHeight] /\ Sends(P)
    <3>1. CASE relayed.height = estimatedHeight
      <4>1. PICK degrades \in DegradedAtEnd :
              \/ degrades
              \/ /\ ctx' = SentMempool(c, TRUE) /\ Sends(P \o Q) /\ Pings(cs)
                 /\ Follows(relayed.height) /\ UNCHANGED <<addrs, bloomFilter>>
        BY <1>15, <2>2, <3>1 DEF ExtendChain
      <4>2. ~degrades
        BY DEF Premises
      <4> QED BY <4>1, <4>2 DEF Pings
    <3>2. CASE relayed.height # estimatedHeight
      BY <1>15, <2>2, <3>2 DEF ExtendChain, Pings
    <3> QED BY <3>1, <3>2
  <2>4. PaymentsKept' /\ Generated' /\ Grown
    BY <1>5, <2>1, <2>3, PaymentsConfirmed
  <2>5. Left
    BY <1>1, <1>13, <2>3, FollowsLeft
  <2>6. Plain(mined, P) /\ Plain(mined, P \o Q)
    <3>1. Plain(mined, P) /\ Plain(mined, Q)
      BY <1>7, <1>8, <2>2
    <3> QED BY <1>1, <3>1, PlainJoin
  <2>7. CASE ctx' = SentMempool(c, TRUE) /\ Sends(P \o Q)
    <3>1. Same(ctx', degraded)
      BY <1>4, <2>7
    <3> QED BY <1>9, <2>3, <2>4, <2>5, <2>6, <2>7, <3>1
  <2>8. CASE ctx' = [c EXCEPT !.timer = @ \/ relayed.height < estimatedHeight] /\ Sends(P)
    <3>1. PICK b : b = (c.timer \/ relayed.height < estimatedHeight)
      OBVIOUS
    <3>2. b \in BOOLEAN /\ ctx' = [c EXCEPT !.timer = b]
      BY <1>4, <2>8, <3>1
    <3>3. Same(ctx', degraded)
      BY <1>4, <3>2
    <3> QED BY <1>9, <2>3, <2>4, <2>5, <2>6, <2>8, <3>3
  <2> QED BY <2>3, <2>7, <2>8
<1> QED BY <1>2, <1>11, <1>12, <1>14, <1>15

\* When nothing but requests that concern no block or transaction is on its way, all of it is kept.
LEMMA AfreshKept ==
  ASSUME KInv, IInv', NEW n, Fresh(ctx', n), fromNode' = <<>>, pongs' = <<>>, relayed' = None,
         UNCHANGED <<mined, pool, announced, height, lastBlock>>, addrs <= addrs',
         orphans' = NoOrphans \/ UNCHANGED <<orphans, bloomFilter>>, way' = toNode',
         \A y \in ToSet(toNode') : y.type # "getdata",
         \A t : ~Meets(toNode', Bearers(t)) /\ ~Meets(toNode', Tellers(t)) /\ ~Meets(toNode', Revealers(t)),
         Loaded', InUse'
  PROVE  KInv'
<1>1. /\ Live /\ Noted /\ Pooled /\ PaymentsKept /\ Generated /\ addrs \in Nat /\ addrs' \in Nat
      /\ lastBlock \in 0 .. Len(Chain)
  <2>1. Live /\ Noted /\ Pooled /\ PaymentsKept /\ Generated /\ IInv
    BY DEF KInv
  <2>2. lastBlock \in 0 .. mined /\ mined \in 0 .. Len(Chain)
    BY <2>1 DEF IInv, WalletTypes, NodeTypes
  <2>3. lastBlock \in 0 .. Len(Chain)
    BY <2>2, FilterAssumption
  <2> QED BY <2>1, <2>3 DEF IInv, Coverage
<1>2. ctx'.known = <<>> /\ ctx'.knownTx = {} /\ ctx'.current = None
  BY DEF Fresh
<1>3. ToSet(fromNode') = {} /\ TxsOf(ctx'.known) = {}
  BY <1>2, OfNothing
<1>4. Updating'
  <2>1. PICK ps : ps = pongs'
    OBVIOUS
  <2>2. 1 .. Len(ps) = {}
    BY <2>1
  <2>3. Updates(way', ps, ctx'.needsUpdate)
    BY <2>2 DEF Updates
  <2> QED BY <2>1, <2>3 DEF Updating
<1>5. Live'
  <2>1. \A h \in 1 .. Len(Chain) : NoOrphans[h] = None
    BY DEF NoOrphans
  <2>2. CASE orphans' = NoOrphans
    BY <1>2, <1>3, <2>1, <2>2 DEF Live, MatchedBy
  <2>3. CASE UNCHANGED <<orphans, bloomFilter>>
    BY <1>1, <1>2, <1>3, <2>3 DEF Live, MatchedBy
  <2> QED BY <2>2, <2>3
<1>6. Noted'
  <2>1. \A h \in 1 .. Len(Chain) : NoOrphans[h] = None
    BY DEF NoOrphans
  <2>2. \A h \in 1 .. Len(Chain) : orphans'[h] # None => orphans'[h] \intersect Payments \subseteq Registered(height')
    BY <1>1, <2>1 DEF Noted
  <2>3. \A t \in Payments : height'[t] # Foreign
    BY <1>1 DEF Noted
  <2> QED BY <1>2, <1>3, <2>2, <2>3 DEF Noted
<1>7. Known'
  BY <1>2 DEF Known
<1>8. ToldFirst'
  <2>0. SUFFICES ASSUME NEW t \in Tx PROVE ToldBefore(t, way', ctx'.known)
    BY Zenon DEF ToldFirst
  <2>1. PICK q : q = toNode'
    OBVIOUS
  <2>2. ~Meets(q, Tellers(t)) /\ ~Meets(q, Revealers(t)) /\ way' = q
    BY <2>1
  <2>3. NoneAfter(q, Revealers(t), Tellers(t))
    BY <2>2 DEF NoneAfter, Meets
  <2>4. t \notin TxsOf(ctx'.known)
    BY <1>3
  <2> QED BY <2>2, <2>3, <2>4, Zenon DEF ToldBefore
<1>9. Pooled'
  <2>1. \A t \in Payments : Pays2Wallet(t) => Pays2Wallet(t)'
    BY <1>1, PaysStill
  <2>2. Mined' = Mined
    BY DEF Mined
  <2> QED BY <1>1, <1>2, <1>3, <2>1, <2>2 DEF Pooled
<1>10. PaymentsKept' /\ Generated'
  BY <1>1, KeptStill
<1> QED BY <1>4, <1>5, <1>6, <1>7, <1>8, <1>9, <1>10 DEF KInv

\* A connection ends.
LEMMA DisconnectedKept == ASSUME KInv, Disconnected PROVE KInv'
<1>1. IInv /\ IInv'
  BY DisconnectedKeeps DEF KInv
<1>2. /\ connected' = FALSE /\ toNode' = <<>> /\ fromNode' = <<>> /\ pongs' = <<>> /\ filter' = None
      /\ ctx' = NewContext(0) /\ relayed' = None
      /\ UNCHANGED <<mined, pool, announced, height, lastBlock, addrs, orphans, bloomFilter>>
  BY DEF Disconnected, node, wallet
<1>3. Fresh(ctx', 0)
  <2>1. 0 \in Nat
    OBVIOUS
  <2> QED BY <1>2, <2>1, NewContextFacts
<1>4. addrs <= addrs'
  <2>1. addrs \in Nat
    BY <1>1 DEF IInv, Coverage
  <2> QED BY <1>2, <2>1
<1>5. way' = <<>>
  <2>1. <<>> \o <<>> = <<>>
    OBVIOUS
  <2> QED BY <1>2, <2>1 DEF way
<1>6. ToSet(toNode') = {} /\ (\A A : ~Meets(toNode', A)) /\ NoneAfter(way', Matched, Loads)
  BY <1>2, <1>5, OfNothing
<1>7. Loaded'
  BY <1>2 DEF Loaded
<1>8. InUse'
  <2>1. FilterBelow(addrs', filter', toNode')
    BY <1>2, <1>6 DEF FilterBelow
  <2> QED BY <1>2, <1>6, <2>1 DEF InUse
<1> QED BY <1>1, <1>2, <1>3, <1>4, <1>5, <1>6, <1>7, <1>8, AfreshKept

\* A connection begins, with a filter.
LEMMA ConnectKept == ASSUME KInv, Connect PROVE KInv'
<1>1. IInv /\ IInv'
  BY ConnectKeeps DEF KInv
<1>2. /\ ~connected /\ connected' = TRUE /\ NewFilter
      /\ UNCHANGED <<mined, pool, announced, filter, fromNode, pongs, lastBlock, relayed, height>>
  BY DEF Connect, bounds, node
<1>3. /\ NodeTypes /\ WalletTypes /\ Coverage /\ fromNode = <<>> /\ relayed = None /\ pongs = <<>> /\ filter = None
      /\ mined \in 0 .. Len(Chain) /\ mined \in Nat /\ lastBlock \in Nat
  BY <1>1, <1>2, FilterAssumption DEF IInv, Closed, NodeTypes, WalletTypes
<1>4. PICK c, a : c = NewContext(mined) /\ a = FilterAddrs
  OBVIOUS
<1>5. IF lastBlock < mined
      THEN toNode' = FilterLoad(a) \o GetBlocks(lastBlock) /\ ctx' = [c EXCEPT !.timer = TRUE]
      ELSE toNode' = FilterLoad(a) \o Mempool(c) /\ ctx' = SentMempool(c, TRUE)
  BY <1>4 DEF Connect
<1>6. Fresh(ctx', mined)
  BY <1>3, <1>4, <1>5, NewContextFacts
<1>7. addrs' = a /\ bloomFilter' = a /\ orphans' = NoOrphans
  BY <1>2, <1>4 DEF NewFilter
<1>8. a \in Nat /\ addrs <= addrs' /\ addrs' \in Nat /\ a <= a
  BY <1>3, <1>4, <1>7, NewFilterFacts DEF FilterAddrs
<1>9. PICK N : N = toNode'
  OBVIOUS
<1>10. Loading(mined, N, a)
  <2>1. PICK Q : Q = IF lastBlock < mined THEN GetBlocks(lastBlock) ELSE Mempool(c)
    OBVIOUS
  <2>2. Plain(mined, Q)
    BY <1>3, <2>1, PlainSent
  <2>3. N = FilterLoad(a) \o Q
    BY <1>5, <1>9, <2>1
  <2> QED BY <1>3, <1>8, <2>2, <2>3, LoadingSent
<1>11. /\ N \in Seq(Messages) /\ N # <<>> /\ Head(N).type = "filterload"
       /\ \A y \in ToSet(N) : (y.type = "filterload" => y.filter.addrs = a) /\ y.type # "getdata"
       /\ \E y \in ToSet(N) : y.type = "filterload"
       /\ NoneAfter(N, Matched, Loads)
       /\ \A t : ~Meets(N, Bearers(t)) /\ ~Meets(N, Tellers(t)) /\ ~Meets(N, Revealers(t))
  BY <1>10 DEF Loading
<1>12. way' = N
  <2>1. PICK S : S = Messages
    OBVIOUS
  <2>2. N \in Seq(S)
    BY <1>11, <2>1
  <2>3. <<>> \o N = N
    BY <2>2
  <2> QED BY <1>2, <1>3, <1>9, <2>3 DEF way
<1>13. filter = None /\ filter' = None
  BY <1>2, <1>3
<1>14. Loaded'
  BY <1>9, <1>11, <1>13 DEF Loaded
<1>15. InUse'
  <2>1. FilterIs(a, filter', N)
    BY <1>11 DEF FilterIs
  <2>2. FilterBelow(a, filter', N)
    BY <1>8, <1>11, <1>13 DEF FilterBelow
  <2> QED BY <1>7, <1>9, <1>11, <1>12, <2>1, <2>2 DEF InUse
<1>16. fromNode' = <<>> /\ pongs' = <<>> /\ relayed' = None
  BY <1>2, <1>3
<1> QED BY <1>1, <1>2, <1>6, <1>7, <1>8, <1>9, <1>11, <1>12, <1>14, <1>15, <1>16, AfreshKept

\* All of it holds at first.
LEMMA InitKept == Init => KInv
<1> SUFFICES ASSUME Init PROVE KInv
  OBVIOUS
<1>1. /\ IInv /\ pool = {} /\ announced = {} /\ filter = None /\ connected = FALSE
      /\ toNode = <<>> /\ fromNode = <<>> /\ ctx = NewContext(0) /\ pongs = <<>>
      /\ bloomFilter = None /\ lastBlock = 0 /\ orphans = NoOrphans
      /\ relayed = None /\ height = [t \in Tx |-> Absent]
  BY InitInvariant DEF Init
<1>2. ctx.known = <<>> /\ ctx.knownTx = {} /\ ctx.current = None
  <2>1. 0 \in Nat
    OBVIOUS
  <2>2. Fresh(NewContext(0), 0)
    BY <2>1, NewContextFacts
  <2> QED BY <1>1, <2>2 DEF Fresh
<1>3. way = <<>>
  <2>1. <<>> \o <<>> = <<>>
    OBVIOUS
  <2> QED BY <1>1, <2>1 DEF way
<1>4. \A h \in 1 .. Len(Chain) : orphans[h] = None
  BY <1>1 DEF NoOrphans
<1>5. ToSet(<<>>) = {} /\ TxsOf(<<>>) = {} /\ (\A A : ~Meets(<<>>, A)) /\ (\A A, B : NoneAfter(<<>>, A, B))
  BY OfNothing
<1>6. Loaded
  BY <1>1 DEF Loaded
<1>7. Updating
  <2>1. PICK ps : ps = pongs
    OBVIOUS
  <2>2. 1 .. Len(ps) = {}
    BY <1>1, <2>1
  <2>3. Updates(way, ps, ctx.needsUpdate)
    BY <2>2 DEF Updates
  <2> QED BY <2>1, <2>3 DEF Updating
<1>8. InUse
  <2>1. FilterBelow(addrs, filter, toNode)
    BY <1>1, <1>5 DEF FilterBelow
  <2> QED BY <1>1, <1>3, <1>5, <2>1 DEF InUse
<1>9. Live
  BY <1>1 DEF Live
<1>10. Noted
  <2>1. \A t \in Payments : height[t] # Foreign
    BY <1>1 DEF Payments, Absent, Foreign
  <2>2. ToSet(fromNode) = {}
    BY <1>1, <1>5
  <2> QED BY <1>1, <1>2, <1>4, <2>1, <2>2 DEF Noted
<1>11. Known
  BY <1>2 DEF Known
<1>12. ToldFirst
  <2>0. SUFFICES ASSUME NEW t \in Tx PROVE ToldBefore(t, way, ctx.known)
    BY Zenon DEF ToldFirst
  <2>1. t \notin TxsOf(ctx.known) /\ ~Meets(way, Tellers(t)) /\ NoneAfter(way, Revealers(t), Tellers(t))
    BY <1>2, <1>3, <1>5
  <2> QED BY <2>1, Zenon DEF ToldBefore
<1>13. Pooled
  <2>1. ToSet(fromNode) = {} /\ ToSet(toNode) = {}
    BY <1>1, <1>5
  <2> QED BY <1>1, <1>2, <2>1 DEF Pooled
<1>14. PaymentsKept /\ Generated
  <2>1. 1 .. lastBlock = {}
    BY <1>1
  <2> QED BY <2>1 DEF PaymentsKept, Generated
<1> QED BY <1>1, <1>6, <1>7, <1>8, <1>9, <1>10, <1>11, <1>12, <1>13, <1>14 DEF KInv

\* Every step keeps it.
LEMMA NextKept == KInv /\ Premises /\ [Next]_vars => KInv'
<1> SUFFICES ASSUME KInv, Premises, [Next]_vars PROVE KInv'
  OBVIOUS
<1>1. CASE NodeNext
  BY <1>1, NodeNextKept
<1>2. CASE Mine
  BY <1>2, MineKept
<1>3. CASE \E t \in Unmined : Broadcast(t)
  BY <1>3, BroadcastKept
<1>4. CASE WalletNext
  <2>1. CASE AcceptInv
    BY <2>1, InvKept
  <2>2. CASE AcceptMerkleblock
    BY <2>2, MerkleblockKept
  <2>3. CASE AcceptTx
    BY <2>3, TxKept
  <2>4. CASE RelayedBlock
    BY <2>4, RelayedKept
  <2>5. CASE UpdateFilterPingDone
    BY <2>5, PingDoneKept
  <2>6. CASE UpdateFilterLoadDone
    BY <2>6, LoadDoneKept
  <2>7. CASE UpdateFilterRerequestDone \/ LoadBloomFilterDone \/ MempoolDone
    BY <2>7, PlainCompletions
  <2>8. CASE MempoolTimeout
    BY <2>8, MempoolTimeoutKept
  <2> QED BY <1>4, <2>1, <2>2, <2>3, <2>4, <2>5, <2>6, <2>7, <2>8 DEF WalletNext
<1>5. CASE Connect
  BY <1>5, ConnectKept
<1>6. CASE Lose \/ Timeout
  <2>1. Disconnected
    BY <1>6 DEF Lose, Timeout
  <2> QED BY <2>1, DisconnectedKept
<1>7. CASE UNCHANGED vars
  <2>1. UNCHANGED <<mined, pool, announced, filter, connected, toNode, fromNode, ctx, pongs, bloomFilter, lastBlock,
                    orphans, relayed, height, addrs>>
    BY <1>7 DEF vars, node, wire, manager, wallet
  <2>2. IInv'
    BY NextKeeps DEF KInv
  <2>3. way' = way /\ Mined' = Mined
    BY <2>1 DEF way, Mined
  <2>4. Loaded' /\ Updating' /\ InUse' /\ Live'
    BY <2>1, <2>3 DEF KInv, Loaded, Updating, InUse, Live
  <2>5. \A t : Pays2Wallet(t)' <=> Pays2Wallet(t)
    BY <2>1 DEF Pays2Wallet
  <2>6. Noted'
    BY <2>1, <2>5 DEF KInv, Noted
  <2>7. Known' /\ ToldFirst'
    BY <2>1, <2>3 DEF KInv, Known, ToldFirst
  <2>8. Pooled'
    BY <2>1, <2>3, <2>5 DEF KInv, Pooled
  <2>9. PaymentsKept' /\ Generated'
    BY <2>1 DEF KInv, PaymentsKept, Generated
  <2> QED BY <2>2, <2>4, <2>6, <2>7, <2>8, <2>9 DEF KInv
<1> QED BY <1>1, <1>2, <1>3, <1>4, <1>5, <1>6, <1>7 DEF Next

\* However messages, blocks, transactions and losses interleave, every payment in a block that the manager has
\* is in the wallet at the height of that block, if payments keep to the gap (SEQUENCE_GAP_LIMIT_EXTERNAL),
\* spend none of the others and are each in one block, the node serves what it announced, and the filter is
\* not found degraded at the end of a download, where another is loaded without a pause (PM:615).
THEOREM PaymentsCorrect == ASSUME Premises PROVE Spec => []PaymentsKept
<1>1. Init => KInv
  BY InitKept
<1>2. KInv /\ [Next]_vars => KInv'
  BY NextKept
<1>3. KInv => PaymentsKept
  BY DEF KInv
<1> QED BY <1>1, <1>2, <1>3, PTL DEF Spec
=============================================================================
