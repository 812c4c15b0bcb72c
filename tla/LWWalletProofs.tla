--------------------------- MODULE LWWalletProofs ---------------------------
(***************************************************************************)
(* What one pass of _LWWalletUpdateBalance computes, and what the wallet   *)
(* keeps across its operations.                                            *)
(***************************************************************************)
EXTENDS LWWallet, LWUpdateBalance, LWIntegers, FiniteSetTheorems, SequenceTheorems

-----------------------------------------------------------------------------
(***************************************************************************)
(* The loop of _LWWalletUpdateBalance, for every list of transactions,     *)
(* every assignment of heights and every set of addresses. Which           *)
(* transactions are invalid, which outputs are spent and which remain are  *)
(* defined by one another, so that no part of the loop invariant can be    *)
(* shown without the others; the balance needs that amounts of outputs add *)
(* up, whichever one is taken first.                                       *)
(***************************************************************************)

\* Of some finite sets one has the least cardinality.
LEMMA Smallest ==
  ASSUME NEW B, B # {}, \A s \in B : IsFiniteSet(s)
  PROVE  \E s \in B : \A r \in B : r \subseteq s => r = s
<1> DEFINE N == {k \in Nat : \E s \in B : Cardinality(s) = k}
<1>1. \A s \in B : Cardinality(s) \in Nat /\ Cardinality(s) \in N
  BY FS_CardinalityType
<1>2. N \in SUBSET Nat /\ N # {}
  BY <1>1
<1>3. PICK k \in N : \A j \in N : k <= j
  BY <1>2, Least
<1>4. PICK s \in B : Cardinality(s) = k
  OBVIOUS
<1>5. ASSUME NEW r \in B, r \subseteq s PROVE r = s
  <2>1. Cardinality(r) <= Cardinality(s) /\ (Cardinality(s) = Cardinality(r) => s = r)
    BY <1>5, FS_Subset
  <2>2. k <= Cardinality(r)
    BY <1>1, <1>3
  <2> QED
    BY <1>1, <1>4, <2>1, <2>2
<1> QED
  BY <1>5

-----------------------------------------------------------------------------
(* The sum of the amounts of a finite set of outputs.                        *)

AllOutpoints == UNION {Outpoint(t) : t \in Tx}
AmountOf(o) == Outputs[o.hash][o.n].amount
Chosen(s) == CHOOSE x \in s : TRUE
Sums(f, S) == f = [s \in SUBSET S |-> IF s = {} THEN 0 ELSE AmountOf(Chosen(s)) + f[s \ {Chosen(s)}]]

\* An outpoint of a transaction known has an amount and an address.
LEMMA OutpointFacts ==
  \A o \in AllOutpoints : AmountOf(o) \in Nat /\ o.hash \in Tx /\ AddressOf(o) \in Address
<1> SUFFICES ASSUME NEW t \in Tx, NEW n \in DOMAIN Outputs[t]
             PROVE  LET o == [hash |-> t, n |-> n]
                    IN  AmountOf(o) \in Nat /\ o.hash \in Tx /\ AddressOf(o) \in Address
  BY DEF AllOutpoints, Outpoint
<1>1. Outputs[t] \in Seq([addr : Address, amount : Nat])
  BY LedgerAssumption
<1>2. Outputs[t][n] \in [addr : Address, amount : Nat]
  <2> DEFINE R == [addr : Address, amount : Nat]
             s == Outputs[t]
  <2>1. s \in Seq(R)
    BY <1>1
  <2> HIDE DEF R, s
  <2>2. \A k \in DOMAIN s : s[k] \in R
    BY <2>1
  <2> QED
    BY <2>2 DEF R, s
<1> QED
  BY <1>2 DEF AmountOf, AddressOf

\* The values of the function that adds the amounts up.
LEMMA SumsValue ==
  ASSUME NEW S, NEW f, Sums(f, S), NEW s \in SUBSET S
  PROVE  f[s] = IF s = {} THEN 0 ELSE AmountOf(Chosen(s)) + f[s \ {Chosen(s)}]
<1> DEFINE g == [x \in SUBSET S |-> IF x = {} THEN 0 ELSE AmountOf(Chosen(x)) + f[x \ {Chosen(x)}]]
<1>1. f = g
  BY DEF Sums
<1>2. g[s] = IF s = {} THEN 0 ELSE AmountOf(Chosen(s)) + f[s \ {Chosen(s)}]
  OBVIOUS
<1> HIDE DEF g
<1> QED
  BY <1>1, <1>2

\* The outpoint that is added next.
LEMMA AnyIn == \A s : s # {} => Chosen(s) \in s
BY DEF Chosen

\* Two such functions agree where both are defined.
LEMMA SumsUnique ==
  ASSUME NEW S, NEW T, NEW f, NEW g, Sums(f, S), Sums(g, T), IsFiniteSet(S)
  PROVE  \A s \in SUBSET (S \cap T) : f[s] = g[s]
<1> DEFINE B == {s \in SUBSET (S \cap T) : f[s] # g[s]}
<1> SUFFICES ASSUME B # {} PROVE FALSE
  OBVIOUS
<1>1. \A s \in B : IsFiniteSet(s)
  BY FS_Subset
<1>2. PICK s \in B : \A r \in B : r \subseteq s => r = s
  <2> HIDE DEF B
  <2> QED
    BY <1>1, Smallest
<1>3. s \in SUBSET S /\ s \in SUBSET T /\ f[s] # g[s]
  OBVIOUS
<1>4. s # {}
  BY <1>3, SumsValue
<1>5. Chosen(s) \in s
  BY <1>4, AnyIn
<1>6. f[s \ {Chosen(s)}] = g[s \ {Chosen(s)}]
  BY <1>2, <1>5
<1> HIDE DEF B
<1> QED
  BY <1>3, <1>4, <1>6, SumsValue

SumOf(s) == (CHOOSE f : Sums(f, s))[s]

\* There is one for every finite set.
LEMMA SumsExist ==
  ASSUME NEW S, IsFiniteSet(S)
  PROVE  \E f : Sums(f, S)
<1> DEFINE B == {T \in SUBSET S : ~ \E f : Sums(f, T)}
<1> SUFFICES ASSUME B # {} PROVE FALSE
  OBVIOUS
<1>1. \A s \in B : IsFiniteSet(s)
  BY FS_Subset
<1>2. PICK T \in B : \A r \in B : r \subseteq T => r = T
  <2> HIDE DEF B
  <2> QED
    BY <1>1, Smallest
<1>3. T \in SUBSET S /\ ~ \E f : Sums(f, T)
  OBVIOUS
<1>4. ASSUME NEW s \in SUBSET T, s # T PROVE IsFiniteSet(s) /\ Sums(CHOOSE f : Sums(f, s), s)
  <2>1. s \in SUBSET S /\ s \notin B
    BY <1>2, <1>3, <1>4
  <2>2. \E f : Sums(f, s)
    BY <2>1
  <2> QED
    BY <2>1, <2>2, FS_Subset
<1> HIDE DEF B
<1> DEFINE F == [s \in SUBSET T |-> IF s = {} THEN 0 ELSE AmountOf(Chosen(s)) + SumOf(s \ {Chosen(s)})]
<1>5. ASSUME NEW s \in SUBSET T, s # T PROVE SumOf(s) = F[s]
  <2> DEFINE f == CHOOSE f : Sums(f, s)
             r == s \ {Chosen(s)}
             g == CHOOSE g : Sums(g, r)
  <2>1. Sums(f, s) /\ IsFiniteSet(s)
    BY <1>4, <1>5
  <2>2. f[s] = IF s = {} THEN 0 ELSE AmountOf(Chosen(s)) + f[r]
    BY <2>1, SumsValue
  <2>3. ASSUME s # {} PROVE f[r] = SumOf(r)
    <3>1. r \in SUBSET T /\ r # T /\ r \subseteq s
      BY <1>5
    <3>2. Sums(g, r)
      BY <1>4, <3>1
    <3> HIDE DEF f, g, r
    <3>3. f[r] = g[r]
      BY <2>1, <3>1, <3>2, SumsUnique
    <3> QED
      BY <3>3 DEF SumOf, g
  <2>4. SumOf(s) = f[s]
    BY DEF SumOf
  <2> HIDE DEF f
  <2> QED
    BY <2>2, <2>3, <2>4
<1>6. ASSUME NEW s \in SUBSET T, s # {} PROVE SumOf(s \ {Chosen(s)}) = F[s \ {Chosen(s)}]
  <2>1. Chosen(s) \in s
    BY <1>6, AnyIn
  <2> QED
    BY <1>5, <2>1
<1>7. F = [s \in SUBSET T |-> IF s = {} THEN 0 ELSE AmountOf(Chosen(s)) + F[s \ {Chosen(s)}]]
  <2>1. \A s \in SUBSET T : F[s] = IF s = {} THEN 0 ELSE AmountOf(Chosen(s)) + F[s \ {Chosen(s)}]
    BY <1>6
  <2>2. F = [s \in SUBSET T |-> F[s]]
    OBVIOUS
  <2> HIDE DEF F
  <2> QED
    BY <2>1, <2>2
<1> QED
  BY <1>3, <1>7 DEF Sums

\* Amount is that sum.
LEMMA AmountDef ==
  ASSUME NEW S, IsFiniteSet(S)
  PROVE  Amount(S) = IF S = {} THEN 0 ELSE AmountOf(Chosen(S)) + Amount(S \ {Chosen(S)})
<1>1. \A T : Amount(T) = SumOf(T)
  BY DEF Amount, MapThenSumSet, MapThenFoldSet, SumOf, Sums, Chosen, AmountOf
<1> DEFINE f == CHOOSE f : Sums(f, S)
           r == S \ {Chosen(S)}
           g == CHOOSE g : Sums(g, r)
<1>2. IsFiniteSet(r) /\ r \in SUBSET (S \cap r)
  BY FS_Subset
<1>3. Sums(f, S)
  BY SumsExist
<1>4. Sums(g, r)
  BY <1>2, SumsExist
<1>5. SumOf(S) = f[S] /\ SumOf(r) = g[r]
  BY DEF SumOf
<1> HIDE DEF f, g
<1>6. f[S] = IF S = {} THEN 0 ELSE AmountOf(Chosen(S)) + f[r]
  BY <1>3, SumsValue
<1> HIDE DEF r
<1>7. f[r] = g[r]
  BY <1>2, <1>3, <1>4, SumsUnique
<1> QED
  BY <1>1, <1>5, <1>6, <1>7 DEF r

\* Any element can be taken out first.
LEMMA AmountOfAll ==
  ASSUME NEW S \in SUBSET AllOutpoints, IsFiniteSet(S)
  PROVE  /\ Amount(S) \in Nat
         /\ \A y \in S : Amount(S) = AmountOf(y) + Amount(S \ {y})
<1> DEFINE OK(T) == /\ Amount(T) \in Nat
                    /\ \A y \in T : Amount(T) = AmountOf(y) + Amount(T \ {y})
           B == {T \in SUBSET S : ~ OK(T)}
<1> SUFFICES ASSUME B # {} PROVE FALSE
  OBVIOUS
<1>1. \A T \in SUBSET S : IsFiniteSet(T)
  BY FS_Subset
<1>2. PICK T \in B : \A r \in B : r \subseteq T => r = T
  <2> HIDE DEF B, OK
  <2>1. \A T \in B : IsFiniteSet(T)
    BY <1>1 DEF B
  <2> QED
    BY <2>1, Smallest
<1>3. T \in SUBSET S /\ ~ OK(T)
  OBVIOUS
<1>4. \A r \in SUBSET T : r # T => OK(r)
  BY <1>2, <1>3
<1> HIDE DEF B
<1> DEFINE x == Chosen(T)
<1>5. T # {}
  BY <1>1, <1>3, AmountDef
<1>6. x \in T
  BY <1>5, AnyIn
<1>7. Amount(T) = AmountOf(x) + Amount(T \ {x})
  BY <1>1, <1>3, <1>5, AmountDef
<1> HIDE DEF x
<1>8. \A y \in T : AmountOf(y) \in Nat
  BY <1>3, OutpointFacts
<1>9. \A y \in T : Amount(T \ {y}) \in Nat
  BY <1>4
<1>10. ASSUME NEW y \in T, y # x PROVE Amount(T) = AmountOf(y) + Amount(T \ {y})
  <2> DEFINE R == (T \ {x}) \ {y}
  <2>1. Amount(T \ {x}) = AmountOf(y) + Amount((T \ {x}) \ {y})
    BY <1>4, <1>6, <1>10
  <2>2. Amount(T \ {y}) = AmountOf(x) + Amount((T \ {y}) \ {x})
    BY <1>4, <1>6, <1>10
  <2>3. (T \ {y}) \ {x} = R
    OBVIOUS
  <2>4. R \in SUBSET T /\ R # T
    BY <1>6
  <2>5. Amount(R) \in Nat
    BY <1>4, <2>4
  <2>6. Amount(T \ {x}) = AmountOf(y) + Amount(R) /\ Amount(T \ {y}) = AmountOf(x) + Amount(R)
    BY <2>1, <2>2, <2>3
  <2> HIDE DEF R
  <2> QED
    BY <1>6, <1>7, <1>8, <2>5, <2>6
<1>11. Amount(T) \in Nat
  BY <1>6, <1>7, <1>8, <1>9
<1>12. \A y \in T : Amount(T) = AmountOf(y) + Amount(T \ {y})
  BY <1>7, <1>10
<1> QED
  BY <1>3, <1>11, <1>12

\* Nothing amounts to nothing.
LEMMA AmountNone == Amount({}) = 0
BY AmountDef, FS_EmptySet

\* The amounts of two sets without an output in common add up.
LEMMA AmountUnion ==
  ASSUME NEW S \in SUBSET AllOutpoints, IsFiniteSet(S),
         NEW T \in SUBSET AllOutpoints, IsFiniteSet(T), S \cap T = {}
  PROVE  Amount(S \cup T) = Amount(S) + Amount(T)
<1> DEFINE B == {r \in SUBSET T : Amount(S \cup r) # Amount(S) + Amount(r)}
<1> SUFFICES ASSUME B # {} PROVE FALSE
  OBVIOUS
<1>1. \A r \in SUBSET T : IsFiniteSet(r)
  BY FS_Subset
<1>2. PICK r \in B : \A q \in B : q \subseteq r => q = r
  <2> HIDE DEF B
  <2>1. \A q \in B : IsFiniteSet(q)
    BY <1>1 DEF B
  <2> QED
    BY <2>1, Smallest
<1>3. r \in SUBSET T /\ Amount(S \cup r) # Amount(S) + Amount(r)
  OBVIOUS
<1>4. \A q \in SUBSET r : q # r => Amount(S \cup q) = Amount(S) + Amount(q)
  BY <1>2, <1>3
<1> HIDE DEF B
<1>5. Amount(S) \in Nat
  BY AmountOfAll
<1>6. r # {}
  <2>1. S \cup {} = S
    OBVIOUS
  <2> QED
    BY <1>3, <1>5, <2>1, AmountNone
<1>7. PICK y \in r : TRUE
  BY <1>6
<1> DEFINE q == r \ {y}
           U == S \cup r
<1>8. /\ IsFiniteSet(U) /\ U \in SUBSET AllOutpoints /\ U \ {y} = S \cup q /\ y \in U
      /\ IsFiniteSet(r) /\ r \in SUBSET AllOutpoints
      /\ IsFiniteSet(q) /\ q \in SUBSET AllOutpoints /\ q \in SUBSET r /\ q # r
  <2>1. y \in T /\ y \notin S
    <3>1. y \in T
      BY <1>3, <1>7
    <3> QED
      BY <3>1
  <2>2. U \ {y} = S \cup q
    BY <2>1
  <2>3. IsFiniteSet(U)
    BY <1>1, <1>3, FS_Union
  <2>4. r \in SUBSET AllOutpoints /\ q \in SUBSET AllOutpoints /\ U \in SUBSET AllOutpoints
    BY <1>3
  <2>5. IsFiniteSet(r) /\ IsFiniteSet(q)
    BY <1>1, <1>3
  <2>6. y \in U /\ q \in SUBSET r /\ q # r
    OBVIOUS
  <2> HIDE DEF U, q
  <2> QED
    BY <2>2, <2>3, <2>4, <2>5, <2>6
<1> HIDE DEF U
<1>9. Amount(U) = AmountOf(y) + Amount(U \ {y})
  BY <1>8, AmountOfAll
<1>10. Amount(r) = AmountOf(y) + Amount(q)
  BY <1>8, AmountOfAll
<1>11. Amount(q) \in Nat /\ AmountOf(y) \in Nat
  <2>1. AmountOf(y) \in Nat
    BY <1>8, OutpointFacts
  <2>2. Amount(q) \in Nat
    BY <1>8, AmountOfAll
  <2> QED
    BY <2>1, <2>2
<1>12. Amount(S \cup q) = Amount(S) + Amount(q)
  BY <1>4, <1>8
<1> HIDE DEF q
<1> QED
  BY <1>3, <1>5, <1>8, <1>9, <1>10, <1>11, <1>12 DEF U
-----------------------------------------------------------------------------
(* One turn of the loop.                                                     *)

Fields == {"utxos", "spentOutputs", "invalidTx", "pendingTx", "usedAddrs",
           "balance", "balanceHist", "totalSent", "totalReceived"}

\* No address is past index b of its chain.
Below(S, b) == \A a \in S : a = Elsewhere \/ a \in Chains \X (0 .. b)

\* What the fields are once the first n are counted.
CountedTypes(w, n) ==
  /\ DOMAIN w = Fields
  /\ w.utxos \subseteq AllOutpoints /\ IsFiniteSet(w.utxos)
  /\ w.balance = Amount(w.utxos)
  /\ w.balanceHist \in Seq(Int) /\ Len(w.balanceHist) = n
  /\ \E b \in Nat : Below(w.usedAddrs, b)

CountedSets(w, list, n) ==
  /\ w.invalidTx \subseteq FirstOf(list, n)
  /\ w.pendingTx \subseteq FirstOf(list, n) \ w.invalidTx

CountedFacts(w, list, n, heights, addrs) ==
  /\ CountedTypes(w, n) /\ CountedSets(w, list, n)
  /\ InvalidOf(w, list, n, heights) /\ SpentOf(w, list, n) /\ UnspentOf(w, list, n, addrs)

\* The fields that the loop starts with.
LEMMA ClearedFacts ==
  ASSUME NEW list, NEW heights, NEW addrs
  PROVE  CountedFacts(Cleared, list, 0, heights, addrs)
<1>1. /\ DOMAIN Cleared = Fields
      /\ Cleared.utxos = {} /\ Cleared.spentOutputs = {}
      /\ Cleared.invalidTx = {} /\ Cleared.pendingTx = {} /\ Cleared.usedAddrs = {}
      /\ Cleared.balance = 0 /\ Cleared.balanceHist = <<>>
  BY DEF Cleared, Fields
<1>2. FirstOf(list, 0) = {}
  BY DEF FirstOf
<1>3. 0 \in Nat /\ Below({}, 0)
  BY DEF Below
<1>4. CountedTypes(Cleared, 0)
  BY <1>1, <1>3, AmountNone, FS_EmptySet DEF CountedTypes
<1>5. CountedSets(Cleared, list, 0)
  BY <1>1, <1>2 DEF CountedSets
<1>6. InvalidOf(Cleared, list, 0, heights)
  BY DEF InvalidOf
<1>7. SpentOf(Cleared, list, 0) /\ UnspentOf(Cleared, list, 0, addrs)
  BY <1>1, <1>2 DEF SpentOf, UnspentOf
<1> QED
  BY <1>4, <1>5, <1>6, <1>7 DEF CountedFacts

\* Finitely many natural numbers have a bound.
LEMMA SequenceBounded ==
  ASSUME NEW n \in Nat, NEW f \in [1 .. n -> Nat]
  PROVE  \E b \in Nat : \A i \in 1 .. n : f[i] <= b
<1> DEFINE P == {k \in 0 .. n : \E b \in Nat : \A i \in 1 .. k : f[i] <= b}
<1>1. 0 \in P
  <2>1. 0 \in Nat /\ \A i \in 1 .. 0 : f[i] <= 0
    OBVIOUS
  <2>2. 0 \in 0 .. n
    OBVIOUS
  <2> QED
    BY <2>1, <2>2
<1>2. ASSUME NEW k \in 0 .. n - 1, k \in P PROVE k + 1 \in P
  <2>1. PICK b \in Nat : \A i \in 1 .. k : f[i] <= b
    BY <1>2
  <2>2. k + 1 \in 1 .. n /\ f[k + 1] \in Nat
    OBVIOUS
  <2>3. PICK c \in Nat : b <= c /\ f[k + 1] <= c
    <3>1. b <= f[k + 1] \/ f[k + 1] <= b
      BY <2>2
    <3> QED
      BY <2>2, <3>1
  <2>4. ASSUME NEW i \in 1 .. k + 1 PROVE f[i] <= c
    <3>1. CASE i = k + 1
      BY <2>3, <3>1
    <3>2. CASE i \in 1 .. k
      <4>1. f[i] <= b /\ f[i] \in Nat
        BY <2>1, <3>2
      <4> QED
        BY <2>3, <4>1
    <3> QED
      BY <3>1, <3>2
  <2>5. k + 1 \in 0 .. n
    OBVIOUS
  <2> QED
    BY <2>4, <2>5
<1>3. \A k \in 0 .. n : k \in P
  <2> HIDE DEF P
  <2> QED
    BY <1>1, <1>2, Induct
<1>4. n \in P
  <2> HIDE DEF P
  <2>1. n \in 0 .. n
    OBVIOUS
  <2> QED
    BY <1>3, <2>1
<1> QED
  BY <1>4

\* The outputs of a transaction are finitely many.
LEMMA OwnFacts ==
  ASSUME NEW t \in Tx, NEW addrs
  PROVE  /\ Own(t, addrs) \subseteq AllOutpoints /\ IsFiniteSet(Own(t, addrs))
         /\ \E b \in Nat : Below({AddressOf(o) : o \in Outpoint(t)}, b)
<1>1. Own(t, addrs) \subseteq Outpoint(t) /\ Outpoint(t) \subseteq AllOutpoints
  BY DEF Own, AllOutpoints
<1> DEFINE f == [n \in DOMAIN Outputs[t] |-> [hash |-> t, n |-> n]]
<1>2. f \in Surjection(DOMAIN Outputs[t], Outpoint(t))
  BY DEF Surjection, Outpoint
<1>3. DOMAIN Outputs[t] = 1 .. Len(Outputs[t]) /\ Len(Outputs[t]) \in Nat
  BY LedgerAssumption
<1>4. IsFiniteSet(Outpoint(t))
  <2>1. IsFiniteSet(DOMAIN Outputs[t])
    <3> DEFINE n == Len(Outputs[t])
    <3>1. n \in Nat /\ n \in Int /\ 1 \in Int
      BY <1>3
    <3> HIDE DEF n
    <3>2. IsFiniteSet(1 .. n)
      BY <3>1, FS_Interval
    <3> QED
      BY <1>3, <3>2 DEF n
  <2> HIDE DEF f
  <2> QED
    BY <1>2, <2>1, FS_Surjection
<1>5. IsFiniteSet(Own(t, addrs))
  BY <1>1, <1>4, FS_Subset
<1>6. \E b \in Nat : Below({AddressOf(o) : o \in Outpoint(t)}, b)
  <2> DEFINE m == Len(Outputs[t])
             indexOf == [n \in 1 .. m |-> IF Outputs[t][n].addr = Elsewhere THEN 0 ELSE Outputs[t][n].addr[2]]
  <2>1. \A n \in 1 .. m : Outputs[t][n].addr \in Address
    <3> SUFFICES ASSUME NEW n \in 1 .. m PROVE Outputs[t][n].addr \in Address
      OBVIOUS
    <3> DEFINE o == [hash |-> t, n |-> n]
    <3>1. o \in Outpoint(t) /\ AddressOf(o) = Outputs[t][n].addr
      BY <1>3 DEF Outpoint, AddressOf
    <3>2. o \in AllOutpoints
      BY <3>1 DEF AllOutpoints
    <3> HIDE DEF o
    <3> QED
      BY <3>1, <3>2, OutpointFacts
  <2>2. \A n \in 1 .. m : Outputs[t][n].addr = Elsewhere \/ Outputs[t][n].addr \in Chains \X Nat
    BY <2>1 DEF Address
  <2>3. indexOf \in [1 .. m -> Nat]
    BY <2>2
  <2>4. PICK b \in Nat : \A n \in 1 .. m : indexOf[n] <= b
    <3>1. m \in Nat
      BY <1>3
    <3> HIDE DEF m, indexOf
    <3> QED
      BY <2>3, <3>1, SequenceBounded
  <2>5. ASSUME NEW n \in 1 .. m
        PROVE  Outputs[t][n].addr = Elsewhere \/ Outputs[t][n].addr \in Chains \X (0 .. b)
    <3>1. CASE Outputs[t][n].addr = Elsewhere
      BY <3>1
    <3>2. CASE Outputs[t][n].addr # Elsewhere
      <4> DEFINE a == Outputs[t][n].addr
      <4>1. a \in Chains \X Nat
        BY <2>2, <3>2
      <4>2. indexOf[n] = a[2] /\ indexOf[n] <= b
        BY <2>4, <3>2
      <4> HIDE DEF a, indexOf
      <4>3. a = <<a[1], a[2]>> /\ a[1] \in Chains /\ a[2] \in 0 .. b
        BY <4>1, <4>2
      <4>4. a \in Chains \X (0 .. b)
        BY <4>3
      <4> QED
        BY <4>4 DEF a
    <3> QED
      BY <3>1, <3>2
  <2>6. \A o \in Outpoint(t) : AddressOf(o) = Elsewhere \/ AddressOf(o) \in Chains \X (0 .. b)
    BY <1>3, <2>5 DEF Outpoint, AddressOf
  <2> QED
    BY <2>6 DEF Below
<1> QED
  BY <1>1, <1>5, <1>6

-----------------------------------------------------------------------------
(* What the transaction t becomes, w being the fields before it is counted   *)
(* and v those after.                                                        *)

FoundInvalid(v, w, t, h) ==
  /\ h = Unconfirmed /\ IsInvalid(w, t)
  /\ v.invalidTx = w.invalidTx \cup {t}
  /\ v.pendingTx = w.pendingTx
  /\ v.spentOutputs = w.spentOutputs
  /\ v.utxos = w.utxos

FoundPending(v, w, t, h) ==
  /\ h = Unconfirmed /\ ~ IsInvalid(w, t)
  /\ v.invalidTx = w.invalidTx
  /\ v.pendingTx = w.pendingTx \cup {t}
  /\ v.spentOutputs = w.spentOutputs \cup Inputs[t]
  /\ v.utxos = w.utxos

FoundValid(v, w, t, h, addrs) ==
  /\ h = Unconfirmed => ~ IsInvalid(w, t)
  /\ v.invalidTx = w.invalidTx
  /\ v.pendingTx = w.pendingTx
  /\ v.spentOutputs = w.spentOutputs \cup Inputs[t]
  /\ v.utxos = (w.utxos \cup Own(t, addrs)) \ v.spentOutputs

Found(v, w, t, h, addrs) ==
  FoundInvalid(v, w, t, h) \/ FoundPending(v, w, t, h) \/ FoundValid(v, w, t, h, addrs)

\* The fields that an invalid or a pending one does not change.
LEMMA SkippedTypes ==
  ASSUME NEW w, NEW n \in Nat, CountedTypes(w, n), NEW t, NEW set \in {"invalidTx", "pendingTx"}
  PROVE  CountedTypes(Skipped(w, set, t), n + 1)
<1> DEFINE v == Skipped(w, set, t)
<1>1. DOMAIN w = Fields
  BY DEF CountedTypes
<1>2. /\ DOMAIN v = Fields /\ v.utxos = w.utxos /\ v.balance = w.balance /\ v.usedAddrs = w.usedAddrs
      /\ v.balanceHist = Append(w.balanceHist, w.balance)
  BY <1>1 DEF Skipped, Fields
<1> HIDE DEF v
<1>3. w.utxos \subseteq AllOutpoints /\ IsFiniteSet(w.utxos) /\ w.balance = Amount(w.utxos)
  BY DEF CountedTypes
<1>4. w.balance \in Int
  <2> DEFINE U == w.utxos
  <2>1. U \in SUBSET AllOutpoints /\ IsFiniteSet(U)
    BY <1>3
  <2> HIDE DEF U
  <2>2. Amount(U) \in Nat
    BY <2>1, AmountOfAll
  <2> QED
    BY <1>3, <2>2 DEF U
<1>5. w.balanceHist \in Seq(Int) /\ Len(w.balanceHist) = n
  BY DEF CountedTypes
<1>6. v.balanceHist \in Seq(Int) /\ Len(v.balanceHist) = n + 1
  BY <1>2, <1>4, <1>5
<1>7. \E b \in Nat : Below(v.usedAddrs, b)
  BY <1>2 DEF CountedTypes
<1>8. CountedTypes(v, n + 1)
  BY <1>2, <1>3, <1>6, <1>7 DEF CountedTypes
<1> QED
  BY <1>8 DEF v

\* What _LWWalletUpdateBalance keeps of a transaction it does not count.
LEMMA SkippedFields ==
  ASSUME NEW w, DOMAIN w = Fields, NEW t
  PROVE  /\ LET v == Skipped(w, "invalidTx", t) IN
            /\ v.invalidTx = w.invalidTx \cup {t} /\ v.pendingTx = w.pendingTx
            /\ v.spentOutputs = w.spentOutputs /\ v.utxos = w.utxos
         /\ LET v == Skipped(w, "pendingTx", t) IN
            /\ v.invalidTx = w.invalidTx /\ v.pendingTx = w.pendingTx \cup {t}
            /\ v.spentOutputs = w.spentOutputs /\ v.utxos = w.utxos
BY DEF Skipped, Fields

\* Spend changes spentOutputs only.
LEMMA SpendFields ==
  ASSUME NEW w, NEW n \in Nat, CountedTypes(w, n), NEW t
  PROVE  LET v == Spend(w, t) IN
         /\ CountedTypes(v, n)
         /\ v.invalidTx = w.invalidTx
         /\ v.pendingTx = w.pendingTx
         /\ v.spentOutputs = w.spentOutputs \cup Inputs[t]
         /\ v.utxos = w.utxos
         /\ v.balance = w.balance
<1> DEFINE v == Spend(w, t)
<1>1. DOMAIN w = Fields
  BY DEF CountedTypes
<1>2. /\ DOMAIN v = Fields /\ v.utxos = w.utxos /\ v.balance = w.balance /\ v.usedAddrs = w.usedAddrs
      /\ v.balanceHist = w.balanceHist
      /\ v.invalidTx = w.invalidTx /\ v.pendingTx = w.pendingTx
      /\ v.spentOutputs = w.spentOutputs \cup Inputs[t]
  BY <1>1 DEF Spend, Fields
<1> HIDE DEF v
<1>3. CountedTypes(v, n)
  BY <1>2 DEF CountedTypes
<1> QED
  BY <1>2, <1>3 DEF v

\* Of a transaction that counts the outputs are added, and what is spent is
\* taken out; the balance goes by what was added and taken out.
LEMMA AddedFields ==
  ASSUME NEW w, NEW n \in Nat, CountedTypes(w, n), NEW t \in Tx, NEW addrs,
         w.utxos \cap Own(t, addrs) = {}
  PROVE  LET v == AddOutputs(w, t, addrs) IN
         /\ CountedTypes(v, n + 1)
         /\ v.invalidTx = w.invalidTx
         /\ v.pendingTx = w.pendingTx
         /\ v.spentOutputs = w.spentOutputs
         /\ v.utxos = (w.utxos \cup Own(t, addrs)) \ w.spentOutputs
<1> DEFINE v == AddOutputs(w, t, addrs)
           own == Own(t, addrs)
           added == w.utxos \cup own
           gone == added \cap w.spentOutputs
           left == added \ w.spentOutputs
           balance == w.balance + Amount(own) - Amount(gone)
           paid == {AddressOf(o) : o \in Outpoint(t)}
<1>1. DOMAIN w = Fields
  BY DEF CountedTypes
<1>2. /\ DOMAIN v = Fields /\ v.utxos = left /\ v.balance = balance
      /\ v.usedAddrs = w.usedAddrs \cup paid /\ v.balanceHist = Append(w.balanceHist, balance)
      /\ v.invalidTx = w.invalidTx /\ v.pendingTx = w.pendingTx /\ v.spentOutputs = w.spentOutputs
  BY <1>1 DEF AddOutputs, Fields
<1> HIDE DEF v
<1>3. w.utxos \subseteq AllOutpoints /\ IsFiniteSet(w.utxos) /\ w.balance = Amount(w.utxos)
  BY DEF CountedTypes
<1>4. own \subseteq AllOutpoints /\ IsFiniteSet(own)
  BY OwnFacts
<1>5. added \subseteq AllOutpoints /\ IsFiniteSet(added)
  BY <1>3, <1>4, FS_Union
<1>6. /\ left \in SUBSET AllOutpoints /\ IsFiniteSet(left)
      /\ gone \in SUBSET AllOutpoints /\ IsFiniteSet(gone)
  BY <1>5, FS_Subset
<1>7. balance = Amount(left)
  <2> DEFINE U == w.utxos
  <2>1. U \in SUBSET AllOutpoints /\ IsFiniteSet(U)
        /\ own \in SUBSET AllOutpoints /\ U \cap own = {}
    BY <1>3, <1>4
  <2>2. Amount(added) = Amount(U) + Amount(own)
    <3> HIDE DEF U, own
    <3>1. Amount(U \cup own) = Amount(U) + Amount(own)
      BY <1>4, <2>1, AmountUnion
    <3> QED
      BY <3>1 DEF U
  <2>3. Amount(added) = Amount(left) + Amount(gone)
    <3>1. left \cap gone = {} /\ left \cup gone = added
      OBVIOUS
    <3> HIDE DEF left, gone, added
    <3> QED
      BY <1>6, <3>1, AmountUnion
  <2>4. Amount(U) \in Nat /\ Amount(own) \in Nat /\ Amount(left) \in Nat /\ Amount(gone) \in Nat
    <3> HIDE DEF U, own, left, gone
    <3>1. Amount(U) \in Nat
      BY <2>1, AmountOfAll
    <3>2. Amount(own) \in Nat
      BY <1>4, <2>1, AmountOfAll
    <3>3. Amount(left) \in Nat
      BY <1>6, AmountOfAll
    <3>4. Amount(gone) \in Nat
      BY <1>6, AmountOfAll
    <3> QED
      BY <3>1, <3>2, <3>3, <3>4
  <2>5. w.balance = Amount(U)
    BY <1>3
  <2> HIDE DEF U, own, left, gone, added
  <2> QED
    BY <2>2, <2>3, <2>4, <2>5
<1>8. balance \in Int
  <2> HIDE DEF balance, left
  <2>1. Amount(left) \in Nat
    BY <1>6, AmountOfAll
  <2> QED
    BY <1>7, <2>1
<1>9. w.balanceHist \in Seq(Int) /\ Len(w.balanceHist) = n
  BY DEF CountedTypes
<1>10. v.balanceHist \in Seq(Int) /\ Len(v.balanceHist) = n + 1
  <2> HIDE DEF balance
  <2> QED
    BY <1>2, <1>8, <1>9
<1>11. \E b \in Nat : Below(v.usedAddrs, b)
  <2>1. PICK b \in Nat : Below(w.usedAddrs, b)
    BY DEF CountedTypes
  <2>2. PICK c \in Nat : Below(paid, c)
    BY OwnFacts
  <2>3. PICK d \in Nat : b <= d /\ c <= d
    <3>1. b <= c \/ c <= b
      OBVIOUS
    <3> QED
      BY <3>1
  <2>4. 0 .. b \subseteq 0 .. d /\ 0 .. c \subseteq 0 .. d
    BY <2>3
  <2> HIDE DEF paid
  <2>5. Below(w.usedAddrs, d)
    BY <2>1, <2>4 DEF Below
  <2>6. Below(paid, d)
    BY <2>2, <2>4 DEF Below
  <2>7. Below(w.usedAddrs \cup paid, d)
    BY <2>5, <2>6 DEF Below
  <2> QED
    BY <1>2, <2>7
<1> HIDE DEF balance, left
<1>12. CountedTypes(v, n + 1)
  BY <1>2, <1>6, <1>7, <1>10, <1>11 DEF CountedTypes
<1> QED
  BY <1>2, <1>12 DEF v, left

\* The next one is found to be one of the three.
LEMMA CountedFinds ==
  ASSUME NEW w, NEW n \in Nat, CountedTypes(w, n), NEW t \in Tx, NEW h, NEW tip, NEW addrs,
         w.utxos \cap Own(t, addrs) = {}
  PROVE  LET v == Counted(w, t, h, tip, addrs)
         IN  CountedTypes(v, n + 1) /\ Found(v, w, t, h, addrs)
<1> DEFINE v == Counted(w, t, h, tip, addrs)
           spent == Spend(w, t)
<1>1. /\ CountedTypes(spent, n)
      /\ spent.invalidTx = w.invalidTx /\ spent.pendingTx = w.pendingTx
      /\ spent.spentOutputs = w.spentOutputs \cup Inputs[t]
      /\ spent.utxos = w.utxos
  BY SpendFields
<1>0. v = IF h = Unconfirmed /\ IsInvalid(w, t) THEN Skipped(w, "invalidTx", t)
           ELSE IF h = Unconfirmed /\ IsPending(w, t, tip)
                THEN Skipped(spent, "pendingTx", t)
                ELSE AddOutputs(spent, t, addrs)
  BY DEF Counted
<1> HIDE DEF spent, v
<1>2. DOMAIN w = Fields /\ DOMAIN spent = Fields
  BY <1>1 DEF CountedTypes
<1>3. ASSUME h = Unconfirmed /\ IsInvalid(w, t)
      PROVE  CountedTypes(v, n + 1) /\ Found(v, w, t, h, addrs)
  <2>1. v = Skipped(w, "invalidTx", t)
    BY <1>0, <1>3
  <2>2. CountedTypes(v, n + 1)
    BY <2>1, SkippedTypes
  <2>3. FoundInvalid(v, w, t, h)
    BY <2>1, <1>2, <1>3, SkippedFields DEF FoundInvalid
  <2> QED
    BY <2>2, <2>3 DEF Found
<1>4. ASSUME h = Unconfirmed /\ ~ IsInvalid(w, t) /\ IsPending(w, t, tip)
      PROVE  CountedTypes(v, n + 1) /\ Found(v, w, t, h, addrs)
  <2>1. v = Skipped(spent, "pendingTx", t)
    BY <1>0, <1>4
  <2>2. CountedTypes(v, n + 1)
    BY <1>1, <2>1, SkippedTypes
  <2>3. FoundPending(v, w, t, h)
    BY <2>1, <1>1, <1>2, <1>4, SkippedFields DEF FoundPending
  <2> QED
    BY <2>2, <2>3 DEF Found
<1>5. ASSUME ~ (h = Unconfirmed /\ IsInvalid(w, t)),
             ~ (h = Unconfirmed /\ IsPending(w, t, tip))
      PROVE  CountedTypes(v, n + 1) /\ Found(v, w, t, h, addrs)
  <2>1. v = AddOutputs(spent, t, addrs)
    BY <1>0, <1>5
  <2>2. spent.utxos \cap Own(t, addrs) = {}
    BY <1>1
  <2>3. /\ CountedTypes(v, n + 1)
        /\ v.invalidTx = spent.invalidTx /\ v.pendingTx = spent.pendingTx
        /\ v.spentOutputs = spent.spentOutputs
        /\ v.utxos = (spent.utxos \cup Own(t, addrs)) \ spent.spentOutputs
    BY <1>1, <2>1, <2>2, AddedFields
  <2>4. FoundValid(v, w, t, h, addrs)
    BY <2>3, <1>1, <1>5 DEF FoundValid
  <2> QED
    BY <2>3, <2>4 DEF Found
<1>6. CountedTypes(v, n + 1) /\ Found(v, w, t, h, addrs)
  BY <1>3, <1>4, <1>5
<1> QED
  BY <1>6 DEF v

-----------------------------------------------------------------------------
(* The facts, one part at a time.                                            *)

\* The transaction counted next was not counted before.
LEMMA NextIsNew ==
  ASSUME NEW list \in Seq(Tx), IsInjective(list), NEW n \in Nat, n < Len(list)
  PROVE  /\ list[n + 1] \in Tx
         /\ list[n + 1] \notin FirstOf(list, n)
         /\ FirstOf(list, n + 1) = FirstOf(list, n) \cup {list[n + 1]}
         /\ \A k \in 1 .. n : list[k] \in FirstOf(list, n)
<1>1. Len(list) \in Nat /\ DOMAIN list = 1 .. Len(list)
  OBVIOUS
<1>2. /\ n + 1 \in DOMAIN list /\ n + 1 \notin 1 .. n
      /\ 1 .. n \subseteq DOMAIN list /\ 1 .. (n + 1) = 1 .. n \cup {n + 1}
  BY <1>1
<1>3. list[n + 1] \in Tx
  BY <1>2
<1>4. list[n + 1] \notin FirstOf(list, n)
  BY <1>2 DEF FirstOf, IsInjective
<1>5. FirstOf(list, n + 1) = FirstOf(list, n) \cup {list[n + 1]}
  BY <1>2 DEF FirstOf
<1> QED
  BY <1>3, <1>4, <1>5 DEF FirstOf

\* Only what was counted is invalid or pending.
LEMMA SetsStep ==
  ASSUME NEW list \in Seq(Tx), IsInjective(list), NEW n \in Nat, n < Len(list),
         NEW v, NEW w, NEW h, NEW addrs,
         CountedSets(w, list, n), Found(v, w, list[n + 1], h, addrs)
  PROVE  CountedSets(v, list, n + 1)
<1> DEFINE t == list[n + 1]
<1>1. t \notin FirstOf(list, n) /\ FirstOf(list, n + 1) = FirstOf(list, n) \cup {t}
  BY NextIsNew
<1>2. FoundInvalid(v, w, t, h) \/ FoundPending(v, w, t, h) \/ FoundValid(v, w, t, h, addrs)
  BY DEF Found
<1> HIDE DEF t
<1> QED
  BY <1>1, <1>2 DEF CountedSets, FoundInvalid, FoundPending, FoundValid

\* What was found of a transaction stays so, and of the next one it is
\* IsInvalid that decides.
LEMMA InvalidStep ==
  ASSUME NEW list \in Seq(Tx), IsInjective(list), NEW n \in Nat, n < Len(list),
         NEW v, NEW w, NEW heights, NEW addrs,
         CountedSets(w, list, n), SpentOf(w, list, n), InvalidOf(w, list, n, heights),
         Found(v, w, list[n + 1], heights[list[n + 1]], addrs)
  PROVE  InvalidOf(v, list, n + 1, heights)
<1> DEFINE t == list[n + 1]
<1>1. t \notin FirstOf(list, n) /\ \A k \in 1 .. n : list[k] \in FirstOf(list, n)
  BY NextIsNew
<1>2. v.invalidTx = w.invalidTx \cup
        (IF heights[t] = Unconfirmed /\ IsInvalid(w, t) THEN {t} ELSE {})
  BY DEF Found, FoundInvalid, FoundPending, FoundValid
<1>3. w.invalidTx \subseteq FirstOf(list, n)
  BY DEF CountedSets
<1>4. IsInvalid(w, t) <=>
        \E j \in 1 .. n : \/ list[j] \notin w.invalidTx /\ Inputs[list[j]] \cap Inputs[t] # {}
                          \/ list[j] \in w.invalidTx \cap Parents(t)
  <2>1. Inputs[t] \cap w.spentOutputs # {} <=>
          \E j \in 1 .. n : list[j] \notin w.invalidTx /\ Inputs[list[j]] \cap Inputs[t] # {}
    BY DEF SpentOf, FirstOf
  <2>2. Parents(t) \cap w.invalidTx # {} <=>
          \E j \in 1 .. n : list[j] \in w.invalidTx \cap Parents(t)
    BY <1>3 DEF FirstOf
  <2> QED
    BY <2>1, <2>2 DEF IsInvalid
<1> DEFINE Reason(k, S) ==
             \E j \in 1 .. k - 1 : \/ list[j] \notin S /\ Inputs[list[j]] \cap Inputs[list[k]] # {}
                                   \/ list[j] \in S \cap Parents(list[k])
<1>5. \A j \in 1 .. n : list[j] \in v.invalidTx <=> list[j] \in w.invalidTx
  BY <1>1, <1>2
<1>6. \A k \in 1 .. n + 1 : Reason(k, v.invalidTx) <=> Reason(k, w.invalidTx)
  <2> SUFFICES ASSUME NEW k \in 1 .. n + 1
               PROVE  Reason(k, v.invalidTx) <=> Reason(k, w.invalidTx)
    OBVIOUS
  <2>1. 1 .. k - 1 \subseteq 1 .. n
    OBVIOUS
  <2> QED
    BY <2>1, <1>5
<1>7. \A k \in 1 .. n : list[k] \in w.invalidTx <=>
                          heights[list[k]] = Unconfirmed /\ Reason(k, w.invalidTx)
  BY DEF InvalidOf
<1>8. t \in v.invalidTx <=> heights[t] = Unconfirmed /\ Reason(n + 1, w.invalidTx)
  <2>1. (n + 1) - 1 = n
    OBVIOUS
  <2>2. IsInvalid(w, t) <=> Reason(n + 1, w.invalidTx)
    BY <2>1, <1>4
  <2>3. t \in v.invalidTx <=> heights[t] = Unconfirmed /\ IsInvalid(w, t)
    BY <1>1, <1>2, <1>3
  <2> QED
    BY <2>2, <2>3
<1>9. \A k \in 1 .. n + 1 : list[k] \in v.invalidTx <=>
                              heights[list[k]] = Unconfirmed /\ Reason(k, v.invalidTx)
  <2> HIDE DEF Reason
  <2> SUFFICES ASSUME NEW k \in 1 .. n + 1
               PROVE  list[k] \in v.invalidTx <=>
                        heights[list[k]] = Unconfirmed /\ Reason(k, v.invalidTx)
    OBVIOUS
  <2>1. CASE k = n + 1
    BY <2>1, <1>6, <1>8
  <2>2. CASE k \in 1 .. n
    BY <2>2, <1>5, <1>6, <1>7
  <2> QED
    BY <2>1, <2>2
<1> QED
  BY <1>9 DEF InvalidOf

\* The inputs of a transaction that is not invalid are spent.
LEMMA SpentStep ==
  ASSUME NEW list \in Seq(Tx), IsInjective(list), NEW n \in Nat, n < Len(list),
         NEW v, NEW w, NEW h, NEW addrs,
         CountedSets(w, list, n), SpentOf(w, list, n), Found(v, w, list[n + 1], h, addrs)
  PROVE  SpentOf(v, list, n + 1)
<1> DEFINE t == list[n + 1]
           F == FirstOf(list, n)
           G == FirstOf(list, n + 1)
<1>1. t \notin F /\ G = F \cup {t}
  BY NextIsNew
<1>2. FoundInvalid(v, w, t, h) \/ FoundPending(v, w, t, h) \/ FoundValid(v, w, t, h, addrs)
  BY DEF Found
<1>3. w.invalidTx \subseteq F
  BY DEF CountedSets
<1>4. w.spentOutputs = UNION {Inputs[u] : u \in F \ w.invalidTx}
  BY DEF SpentOf
<1> HIDE DEF t, F, G
<1>5. v.spentOutputs = UNION {Inputs[u] : u \in G \ v.invalidTx}
  <2>1. CASE FoundInvalid(v, w, t, h)
    <3>1. G \ v.invalidTx = F \ w.invalidTx
      BY <2>1, <1>1 DEF FoundInvalid
    <3> QED
      BY <3>1, <2>1, <1>4 DEF FoundInvalid
  <2>2. CASE FoundPending(v, w, t, h) \/ FoundValid(v, w, t, h, addrs)
    <3>1. G \ v.invalidTx = (F \ w.invalidTx) \cup {t}
      BY <2>2, <1>1, <1>3 DEF FoundPending, FoundValid
    <3>2. v.spentOutputs = w.spentOutputs \cup Inputs[t]
      BY <2>2 DEF FoundPending, FoundValid
    <3> QED
      BY <3>1, <3>2, <1>4
  <2> QED
    BY <2>1, <2>2, <1>2
<1> QED
  BY <1>5 DEF SpentOf, G

\* Outputs are added when their transaction counts and taken out when one that
\* counts is found to spend them; what a pending one spends stays.
LEMMA UnspentStep ==
  ASSUME NEW list \in Seq(Tx), IsInjective(list), NEW n \in Nat, n < Len(list),
         NEW v, NEW w, NEW h, NEW addrs,
         CountedSets(w, list, n), UnspentOf(w, list, n, addrs), Found(v, w, list[n + 1], h, addrs)
  PROVE  UnspentOf(v, list, n + 1, addrs)
<1> DEFINE t == list[n + 1]
           F == FirstOf(list, n)
           G == FirstOf(list, n + 1)
           counted == F \ (w.invalidTx \cup w.pendingTx)
           now == G \ (v.invalidTx \cup v.pendingTx)
           own == UNION {Own(u, addrs) : u \in counted}
           ownNow == UNION {Own(u, addrs) : u \in now}
<1>1. t \notin F /\ G = F \cup {t}
  BY NextIsNew
<1>2. FoundInvalid(v, w, t, h) \/ FoundPending(v, w, t, h) \/ FoundValid(v, w, t, h, addrs)
  BY DEF Found
<1>3. w.invalidTx \subseteq F /\ w.pendingTx \subseteq F
  BY DEF CountedSets
<1>4. /\ w.utxos \subseteq own
      /\ own \ w.spentOutputs \subseteq w.utxos
      /\ \A o \in w.utxos \cap w.spentOutputs : \E u \in w.pendingTx : o \in Inputs[u]
  BY DEF UnspentOf
<1> HIDE DEF t, F, G
<1>5. /\ v.utxos \subseteq ownNow /\ ownNow \ v.spentOutputs \subseteq v.utxos
      /\ \A o \in v.utxos \cap v.spentOutputs : \E u \in v.pendingTx : o \in Inputs[u]
  <2>1. CASE FoundInvalid(v, w, t, h) \/ FoundPending(v, w, t, h)
    <3>1. now = counted
      BY <1>1, <1>3, <2>1 DEF FoundInvalid, FoundPending
    <3>2. ownNow = own
      BY <3>1
    <3>3. v.utxos = w.utxos /\ w.spentOutputs \subseteq v.spentOutputs
      BY <2>1 DEF FoundInvalid, FoundPending
    <3>4. \A o \in v.utxos \cap v.spentOutputs : \E u \in v.pendingTx : o \in Inputs[u]
      <4> HIDE DEF own
      <4> QED
        BY <1>4, <2>1 DEF FoundInvalid, FoundPending
    <3> HIDE DEF own, ownNow
    <3> QED
      BY <3>2, <3>3, <3>4, <1>4
  <2>2. CASE FoundValid(v, w, t, h, addrs)
    <3>1. now = counted \cup {t}
      BY <1>1, <1>3, <2>2 DEF FoundValid
    <3>2. ownNow = own \cup Own(t, addrs)
      BY <3>1
    <3>3. /\ v.spentOutputs = w.spentOutputs \cup Inputs[t]
          /\ v.utxos = (w.utxos \cup Own(t, addrs)) \ v.spentOutputs
      BY <2>2 DEF FoundValid
    <3> HIDE DEF own, ownNow
    <3> QED
      BY <3>2, <3>3, <1>4
  <2> QED
    BY <1>2, <2>1, <2>2
<1> QED
  BY <1>5 DEF UnspentOf, G

\* What remains of the outputs is of transactions counted.
LEMMA UtxosCounted ==
  ASSUME NEW list, NEW n \in Nat, NEW w, NEW addrs, UnspentOf(w, list, n, addrs),
         NEW t, t \notin FirstOf(list, n)
  PROVE  w.utxos \cap Own(t, addrs) = {}
<1>1. \A o \in w.utxos : \E u \in FirstOf(list, n) : o \in Own(u, addrs)
  BY DEF UnspentOf
<1>2. \A u, o : o \in Own(u, addrs) => o.hash = u
  BY DEF Own, Outpoint
<1> QED
  BY <1>1, <1>2

\* A turn of the loop keeps them all.
LEMMA CountedStep ==
  ASSUME NEW list \in Seq(Tx), IsInjective(list), NEW n \in Nat, n < Len(list),
         NEW w, NEW heights, NEW tip, NEW addrs, CountedFacts(w, list, n, heights, addrs)
  PROVE  CountedFacts(Counted(w, list[n + 1], heights[list[n + 1]], tip, addrs),
                      list, n + 1, heights, addrs)
<1> DEFINE t == list[n + 1]
           v == Counted(w, t, heights[t], tip, addrs)
<1>1. t \in Tx /\ t \notin FirstOf(list, n)
  BY NextIsNew
<1>2. /\ CountedTypes(w, n) /\ CountedSets(w, list, n)
      /\ InvalidOf(w, list, n, heights) /\ SpentOf(w, list, n) /\ UnspentOf(w, list, n, addrs)
  BY DEF CountedFacts
<1>3. w.utxos \cap Own(t, addrs) = {}
  BY <1>1, <1>2, UtxosCounted
<1>4. CountedTypes(v, n + 1) /\ Found(v, w, t, heights[t], addrs)
  BY <1>1, <1>2, <1>3, CountedFinds
<1> HIDE DEF v
<1>5. CountedSets(v, list, n + 1)
  BY <1>2, <1>4, SetsStep
<1>6. InvalidOf(v, list, n + 1, heights)
  BY <1>2, <1>4, InvalidStep
<1>7. SpentOf(v, list, n + 1)
  BY <1>2, <1>4, SpentStep
<1>8. UnspentOf(v, list, n + 1, addrs)
  BY <1>2, <1>4, UnspentStep
<1>9. CountedFacts(v, list, n + 1, heights, addrs)
  BY <1>4, <1>5, <1>6, <1>7, <1>8 DEF CountedFacts
<1> QED
  BY <1>9 DEF v

-----------------------------------------------------------------------------
(* The theorems.                                                             *)

LoopInd ==
  /\ registered \in Seq(Tx) /\ IsInjective(registered)
  /\ heightOf \in [Tx -> Nat] /\ tipHeight \in Nat /\ ownAddrs \subseteq Chains \X Nat
  /\ done \in 0 .. Len(registered)
  /\ CountedFacts(computed, registered, done, heightOf, ownAddrs)

\* The inductive invariant is about more than the run's.
LEMMA LoopIndImplies == LoopInd => LoopInv
<1> SUFFICES ASSUME LoopInd PROVE LoopInv
  OBVIOUS
<1>1. /\ CountedTypes(computed, done) /\ CountedSets(computed, registered, done)
      /\ InvalidOf(computed, registered, done, heightOf) /\ SpentOf(computed, registered, done)
      /\ UnspentOf(computed, registered, done, ownAddrs)
  BY DEF LoopInd, CountedFacts
<1>2. DOMAIN Cleared = Fields
  BY DEF Cleared, Fields
<1>3. LoopTypeOK
  BY <1>1, <1>2 DEF LoopInd, LoopTypeOK, CountedTypes, CountedSets, Seen
<1>4. computed.balance = Amount(computed.utxos)
  BY <1>1 DEF CountedTypes
<1> QED
  BY <1>1, <1>3, <1>4 DEF LoopInv, InvalidExactly, SpentExactly, UnspentExactly

\* The ledger is cleared before the loop.
LEMMA LoopIndStarts == LoopInit => LoopInd
<1> SUFFICES ASSUME LoopInit PROVE LoopInd
  OBVIOUS
<1>1. done = 0 /\ computed = Cleared /\ registered \in Seq(Tx)
  BY DEF LoopInit
<1>2. done \in 0 .. Len(registered)
  BY <1>1
<1>3. CountedFacts(computed, registered, done, heightOf, ownAddrs)
  BY <1>1, ClearedFacts
<1> QED
  BY <1>2, <1>3 DEF LoopInit, LoopInd

\* One round of the loop.
LEMMA LoopIndStep == LoopInd /\ [CountNext]_loopVars => LoopInd'
<1> SUFFICES ASSUME LoopInd, [CountNext]_loopVars PROVE LoopInd'
  OBVIOUS
<1>1. CASE CountNext
  <2>1. /\ registered \in Seq(Tx) /\ IsInjective(registered) /\ Len(registered) \in Nat
        /\ done \in 0 .. Len(registered) /\ done < Len(registered)
        /\ CountedFacts(computed, registered, done, heightOf, ownAddrs)
    BY <1>1 DEF LoopInd, CountNext
  <2>2. done \in Nat /\ done + 1 \in 0 .. Len(registered)
    BY <2>1
  <2>3. /\ done' = done + 1
        /\ computed' = Counted(computed, registered[done + 1], heightOf[registered[done + 1]],
                               tipHeight, ownAddrs)
        /\ registered' = registered /\ heightOf' = heightOf /\ tipHeight' = tipHeight
        /\ ownAddrs' = ownAddrs
    BY <1>1 DEF CountNext
  <2>4. CountedFacts(computed', registered, done + 1, heightOf, ownAddrs)
    BY <2>1, <2>2, <2>3, CountedStep
  <2>5. CountedFacts(computed, registered, done, heightOf, ownAddrs)'
    BY <2>3, <2>4
  <2> QED
    BY <2>2, <2>3, <2>5 DEF LoopInd
<1>2. CASE UNCHANGED loopVars
  <2>1. /\ registered' = registered /\ heightOf' = heightOf /\ tipHeight' = tipHeight
        /\ ownAddrs' = ownAddrs /\ done' = done /\ computed' = computed
    BY <1>2 DEF loopVars
  <2>2. CountedFacts(computed, registered, done, heightOf, ownAddrs)'
    BY <2>1 DEF LoopInd
  <2> QED
    BY <2>1, <2>2 DEF LoopInd
<1> QED
  BY <1>1, <1>2

\* LoopInv holds before and after each turn of the loop of
\* _LWWalletUpdateBalance: the balance is the sum of the unspent outputs, these are
\* what is left of the wallet's own, and each transaction is where it belongs.
THEOREM LoopInvariant == LoopSpec => []LoopInv
BY LoopIndStarts, LoopIndStep, LoopIndImplies, PTL DEF LoopSpec

\* The fields have the sets of transactions they are to have, and no transaction
\* is invalid and pending at once.
THEOREM LoopTypeCorrect == LoopSpec => []LoopTypeOK
<1>1. LoopInv => LoopTypeOK
  BY DEF LoopInv
<1> QED
  BY <1>1, LoopInvariant, PTL

\* An unconfirmed transaction is invalid if and only if one before it that is
\* not spends the same output, or one of its inputs is of an invalid one before
\* it: for all lists of transactions, heights and addresses.
THEOREM ValidityRule == LoopSpec => []InvalidExactly
<1>1. LoopInv => InvalidExactly
  BY DEF LoopInv
<1> QED
  BY <1>1, LoopInvariant, PTL

\* The spent outputs are the inputs of the transactions that are not invalid.
THEOREM SpentOutputsCorrect == LoopSpec => []SpentExactly
<1>1. LoopInv => SpentExactly
  BY DEF LoopInv
<1> QED
  BY <1>1, LoopInvariant, PTL

\* However the list is ordered, the unspent outputs are the wallet's own outputs
\* of the transactions that count, none lost and none spent, but for what a
\* pending transaction spends.
THEOREM UnspentOutputsCorrect == LoopSpec => []UnspentExactly
<1>1. LoopInv => UnspentExactly
  BY DEF LoopInv
<1> QED
  BY <1>1, LoopInvariant, PTL

-----------------------------------------------------------------------------
(***************************************************************************)
(* The wallet. Its list stays sorted, of two transactions that spend the   *)
(* same output one is invalid, and the unspent outputs are those that are  *)
(* left, whatever is registered, mined, reorganized away, removed and      *)
(* reloaded. The invariant relates the heights in the list to the blocks   *)
(* mined: two confirmed transactions are in one chain, and so do not       *)
(* conflict.                                                               *)
(***************************************************************************)
HeightOf == (1 .. MaxHeight) \cup {Unconfirmed}

Sorted(list, heights) ==
  \A i, j \in DOMAIN list : i < j => heights[list[i]] <= heights[list[j]]

\* the list is sorted, of transactions known, and what is not known has no height
ListOK(list, all, heights) ==
  /\ list \in Seq(Tx) /\ IsInjective(list)
  /\ all \in SUBSET Tx /\ ToSet(list) \subseteq all
  /\ heights \in [Tx -> HeightOf]
  /\ Sorted(list, heights)
  /\ \A t \in Tx \ all : heights[t] = Unconfirmed

\* what pays to the wallet is in its list, and what is in its list is its own
OwnListed(list, all, addrs) ==
  /\ \A t \in all : Own(t, addrs) # {} => t \in ToSet(list)
  /\ \A t \in ToSet(list) : ContainsTx(t, all, addrs)

\* blocks have no transaction twice, none that conflicts with another, and the
\* parents of each
ChainOK(blocks) ==
  /\ blocks \in Seq(Seq(Tx)) /\ Len(blocks) <= MaxHeight
  /\ \A g, h \in DOMAIN blocks : ToSet(blocks[g]) \cap ToSet(blocks[h]) # {} => g = h
  /\ \A g, h \in DOMAIN blocks : \A t \in ToSet(blocks[g]), u \in ToSet(blocks[h]) :
       t # u => Inputs[t] \cap Inputs[u] = {}
  /\ \A h \in DOMAIN blocks : \A t \in ToSet(blocks[h]) : \A p \in Parents(t) \cap Tx :
       \E g \in 1 .. h : p \in ToSet(blocks[g])

\* a height is that of the block a transaction is in
InBlock(list, heights, blocks) ==
  \A t \in ToSet(list) :
    heights[t] # Unconfirmed => /\ heights[t] \in DOMAIN blocks
                                /\ t \in ToSet(blocks[heights[t]])

\* what is mined and pays to the wallet is known to be confirmed
MinedConfirmed(list, heights, blocks, addrs) ==
  \A h \in DOMAIN blocks : \A t \in ToSet(blocks[h]) :
    Own(t, addrs) # {} => t \in ToSet(list) /\ heights[t] # Unconfirmed

\* what is to be removed is unconfirmed
RemovingUnconfirmed(stack, heights) ==
  stack \in Seq(Tx) /\ \A i \in DOMAIN stack : heights[stack[i]] = Unconfirmed

\* what was computed
LedgerOK(w, list, heights, addrs) ==
  LET listed == ToSet(list) IN
  /\ w.invalidTx \cup w.pendingTx \subseteq listed
  /\ w.balance = Amount(w.utxos)
  /\ Len(w.balanceHist) = Len(list)
  /\ \E b \in Nat : Below(w.usedAddrs, b)
  /\ \A t, u \in listed :
       t # u /\ Inputs[t] \cap Inputs[u] # {} => {t, u} \cap w.invalidTx # {}
  /\ \A t \in w.invalidTx : heights[t] = Unconfirmed /\
       \/ \E u \in listed \ w.invalidTx : u # t /\ Inputs[t] \cap Inputs[u] # {}
       \/ Parents(t) \cap w.invalidTx # {}
  /\ w.pendingTx = {} => w.utxos =
       (UNION {Own(t, addrs) : t \in listed \ (w.invalidTx \cup w.pendingTx)})
       \ (UNION {Inputs[t] : t \in listed \ w.invalidTx})

WalletInv ==
  /\ ListOK(transactions, allTx, height)
  /\ OwnListed(transactions, allTx, AllAddrs(generated))
  /\ blockHeight \in Nat /\ generated \in [Chains -> Nat]
  /\ ChainOK(mined)
  /\ InBlock(transactions, height, mined)
  /\ MinedConfirmed(transactions, height, mined, AllAddrs(generated))
  /\ RemovingUnconfirmed(removing, height)
  /\ LedgerOK(ledger, transactions, height, AllAddrs(generated))

-----------------------------------------------------------------------------
(* Numbers and sequences.                                                    *)

\* Max and Min are what they are called.
LEMMA MaxOf ==
  ASSUME NEW S \in SUBSET Int, S # {}, NEW n \in Int, \A k \in S : k <= n
  PROVE  Max(S) \in S /\ \A k \in S : k <= Max(S)
<1>1. \E m \in S : \A k \in S : k <= m
  BY Greatest
<1>2. \E m \in S : \A k \in S : m >= k
  BY <1>1
<1>3. Max(S) \in S /\ \A k \in S : Max(S) >= k
  BY <1>2, Zenon DEF Max
<1> QED
  BY <1>3

\* The least of a set is one of them.
LEMMA MinOf ==
  ASSUME NEW S \in SUBSET Nat, S # {}
  PROVE  Min(S) \in S /\ \A k \in S : Min(S) <= k
<1>1. \E m \in S : \A k \in S : m <= k
  BY Least
<1> QED
  BY <1>1, Zenon DEF Min

\* The elements of a sequence with one more.
LEMMA InsertAtFacts ==
  ASSUME NEW list \in Seq(Tx), NEW p \in 1 .. Len(list) + 1, NEW t \in Tx
  PROVE  LET r == InsertAt(list, p, t) IN
         /\ r \in Seq(Tx) /\ Len(r) = Len(list) + 1
         /\ r[p] = t
         /\ \A i \in 1 .. p - 1 : r[i] = list[i]
         /\ \A i \in p + 1 .. Len(list) + 1 : r[i] = list[i - 1]
<1> DEFINE s1 == SubSeq(list, 1, p - 1)
           s2 == SubSeq(list, p, Len(list))
           r == InsertAt(list, p, t)
<1>1. Len(list) \in Nat /\ p \in Nat
  OBVIOUS
<1>2. s1 \in Seq(Tx) /\ Len(s1) = p - 1 /\ \A i \in 1 .. p - 1 : s1[i] = list[i]
  BY <1>1
<1>3. /\ s2 \in Seq(Tx) /\ Len(s2) = Len(list) - p + 1
      /\ \A i \in 1 .. Len(list) - p + 1 : s2[i] = list[p + i - 1]
  BY <1>1
<1>4. r = s1 \o <<t>> \o s2
  BY DEF InsertAt
<1> HIDE DEF s1, s2, r
<1>5. /\ s1 \o <<t>> \in Seq(Tx) /\ Len(s1 \o <<t>>) = p
      /\ (s1 \o <<t>>)[p] = t /\ \A i \in 1 .. p - 1 : (s1 \o <<t>>)[i] = list[i]
  BY <1>1, <1>2
<1> DEFINE q == s1 \o <<t>>
<1> HIDE DEF q
<1>6. r = q \o s2 /\ q \in Seq(Tx) /\ Len(q) = p /\ q[p] = t /\ \A i \in 1 .. p - 1 : q[i] = list[i]
  BY <1>4, <1>5 DEF q
<1>7. r \in Seq(Tx) /\ Len(r) = Len(list) + 1
  <2>1. r \in Seq(Tx) /\ Len(r) = Len(q) + Len(s2)
    BY <1>3, <1>6, ConcatProperties
  <2> QED
    BY <1>1, <1>3, <1>6, <2>1
<1>8. \A i \in 1 .. p : r[i] = q[i]
  BY <1>1, <1>3, <1>6
<1>9. \A i \in p + 1 .. Len(list) + 1 : r[i] = s2[i - p]
  BY <1>1, <1>3, <1>6
<1>10. ASSUME NEW i \in p + 1 .. Len(list) + 1 PROVE r[i] = list[i - 1]
  <2>1. i - p \in 1 .. Len(list) - p + 1 /\ p + (i - p) - 1 = i - 1
    BY <1>1
  <2> QED
    BY <1>3, <1>9, <2>1
<1>11. \A i \in 1 .. p - 1 : r[i] = list[i]
  BY <1>1, <1>6, <1>8
<1>12. r[p] = t
  BY <1>1, <1>6, <1>8
<1> QED
  BY <1>7, <1>10, <1>11, <1>12 DEF r

\* The elements of a sequence with one less.
LEMMA RemoveAtFacts ==
  ASSUME NEW list \in Seq(Tx), NEW p \in 1 .. Len(list)
  PROVE  LET r == RemoveAt(list, p) IN
         /\ r \in Seq(Tx) /\ Len(r) = Len(list) - 1
         /\ \A i \in 1 .. p - 1 : r[i] = list[i]
         /\ \A i \in p .. Len(list) - 1 : r[i] = list[i + 1]
<1> DEFINE s1 == SubSeq(list, 1, p - 1)
           s2 == SubSeq(list, p + 1, Len(list))
           r == RemoveAt(list, p)
<1>1. Len(list) \in Nat /\ p \in Nat
  OBVIOUS
<1>2. s1 \in Seq(Tx) /\ Len(s1) = p - 1 /\ \A i \in 1 .. p - 1 : s1[i] = list[i]
  BY <1>1
<1>3. /\ s2 \in Seq(Tx) /\ Len(s2) = Len(list) - p
      /\ \A i \in 1 .. Len(list) - p : s2[i] = list[p + i]
  BY <1>1
<1>4. r = s1 \o s2
  BY DEF RemoveAt
<1> HIDE DEF s1, s2, r
<1>5. r \in Seq(Tx) /\ Len(r) = Len(list) - 1
  <2>1. r \in Seq(Tx) /\ Len(r) = Len(s1) + Len(s2)
    BY <1>2, <1>3, <1>4, ConcatProperties
  <2> QED
    BY <1>1, <1>2, <1>3, <2>1
<1>6. \A i \in 1 .. p - 1 : r[i] = s1[i]
  BY <1>1, <1>2, <1>3, <1>4
<1>7. \A i \in p .. Len(list) - 1 : r[i] = s2[i - p + 1]
  BY <1>1, <1>2, <1>3, <1>4
<1>8. ASSUME NEW i \in p .. Len(list) - 1 PROVE r[i] = list[i + 1]
  <2>1. i - p + 1 \in 1 .. Len(list) - p /\ p + (i - p + 1) = i + 1
    BY <1>1
  <2> QED
    BY <1>3, <1>7, <2>1
<1> QED
  BY <1>2, <1>5, <1>6, <1>8 DEF r

\* RemoveFirst takes out the place where the transaction is.
LEMMA RemoveFirstFacts ==
  ASSUME NEW list \in Seq(Tx), IsInjective(list), NEW t
  PROVE  \/ t \notin ToSet(list) /\ RemoveFirst(list, t) = list
         \/ \E p \in 1 .. Len(list) : list[p] = t /\ RemoveFirst(list, t) = RemoveAt(list, p)
<1>1. DOMAIN list = 1 .. Len(list) /\ Len(list) \in Nat
  OBVIOUS
<1> DEFINE at == {i \in 1 .. Len(list) : list[i] = t}
<1>2. CASE at = {}
  BY <1>1, <1>2 DEF RemoveFirst, ToSet
<1>3. CASE at # {}
  <2>1. at \in SUBSET Nat
    BY <1>1
  <2>2. Min(at) \in at
    <3> HIDE DEF at
    <3> QED
      BY <1>3, <2>1, MinOf
  <2>3. SelectInSeq(list, LAMBDA v : v = t) = Min(at)
    BY <1>3 DEF SelectInSeq
  <2>4. \E i \in 1 .. Len(list) : list[i] = t
    BY <1>3
  <2>5. RemoveFirst(list, t) = RemoveAt(list, Min(at))
    BY <2>3, <2>4 DEF RemoveFirst
  <2> QED
    BY <2>2, <2>5
<1> QED
  BY <1>2, <1>3

-----------------------------------------------------------------------------
(* The order of the list.                                                    *)

\* Whatever leads from one to the other, the higher one is above the lower.
LEMMA HigherAscends ==
  ASSUME NEW heights \in [Tx -> Nat], NEW t \in Tx, NEW u \in Tx, NEW all
  PROVE  /\ heights[t] > heights[u] => TxIsAscending(t, u, all, heights)
         /\ heights[t] < heights[u] => ~ TxIsAscending(t, u, all, heights)
BY DEF TxIsAscending

\* So the comparison goes by the height first.
LEMMA HigherAfter ==
  ASSUME NEW heights \in [Tx -> Nat], NEW t \in Tx, NEW u \in Tx, NEW all, NEW lengths
  PROVE  /\ heights[t] > heights[u] => ComesAfter(t, u, all, heights, lengths)
         /\ heights[t] < heights[u] => ~ ComesAfter(t, u, all, heights, lengths)
<1>1. heights[t] > heights[u] => ComesAfter(t, u, all, heights, lengths)
  BY HigherAscends DEF ComesAfter
<1>2. ASSUME heights[t] < heights[u] PROVE ~ ComesAfter(t, u, all, heights, lengths)
  <2>1. ~ TxIsAscending(t, u, all, heights)
    BY <1>2, HigherAscends
  <2>2. heights[u] > heights[t]
    BY <1>2
  <2>3. TxIsAscending(u, t, all, heights)
    BY <2>2, HigherAscends
  <2> QED
    BY <2>1, <2>3 DEF ComesAfter
<1> QED
  BY <1>1, <1>2

\* A place between what is not above t and what is not below it.
LEMMA InsertTxPlace ==
  ASSUME NEW list \in Seq(Tx), NEW t \in Tx, NEW heights \in [Tx -> Nat], Sorted(list, heights),
         NEW all, NEW lengths
  PROVE  \E p \in 1 .. Len(list) + 1 :
           /\ InsertTx(list, t, all, heights, lengths) = InsertAt(list, p, t)
           /\ \A i \in 1 .. p - 1 : heights[list[i]] <= heights[t]
           /\ \A i \in p .. Len(list) : heights[t] <= heights[list[i]]
<1>1. Len(list) \in Nat /\ DOMAIN list = 1 .. Len(list) /\ \A i \in 1 .. Len(list) : list[i] \in Tx
  OBVIOUS
<1> DEFINE before == {i \in DOMAIN list : ~ ComesAfter(list[i], t, all, heights, lengths)}
           B == before \cup {0}
           m == Max(B)
<1>2. m \in B /\ \A k \in B : k <= m
  <2>1. B \in SUBSET Int /\ B # {} /\ Len(list) \in Int /\ \A k \in B : k <= Len(list)
    BY <1>1
  <2> HIDE DEF B
  <2> QED
    BY <2>1, MaxOf
<1>3. InsertTx(list, t, all, heights, lengths) = InsertAt(list, m + 1, t)
  BY DEF InsertTx
<1> HIDE DEF m
<1>4. m \in 0 .. Len(list) /\ m + 1 \in 1 .. Len(list) + 1 /\ (m + 1) - 1 = m
  BY <1>1, <1>2
<1>5. ASSUME NEW i \in 1 .. m PROVE heights[list[i]] <= heights[t]
  <2>1. m \in before /\ m \in 1 .. Len(list)
    BY <1>1, <1>2, <1>4
  <2>2. ~ ComesAfter(list[m], t, all, heights, lengths) /\ list[m] \in Tx
    BY <1>1, <2>1
  <2> HIDE DEF B, before
  <2>3. ~ (heights[list[m]] > heights[t])
    BY <2>2, HigherAfter
  <2>4. i \in 1 .. Len(list) /\ list[i] \in Tx /\ (i = m \/ i < m)
    BY <1>1, <2>1
  <2>5. heights[list[i]] <= heights[list[m]]
    BY <1>1, <2>1, <2>2, <2>4 DEF Sorted
  <2> QED
    BY <2>2, <2>3, <2>4, <2>5
<1>6. ASSUME NEW i \in m + 1 .. Len(list) PROVE heights[t] <= heights[list[i]]
  <2>1. i \in 1 .. Len(list) /\ list[i] \in Tx /\ ~ (i <= m)
    BY <1>1, <1>4
  <2>2. i \notin before
    BY <1>2, <2>1
  <2>3. ComesAfter(list[i], t, all, heights, lengths)
    BY <1>1, <2>1, <2>2
  <2> HIDE DEF B, before
  <2> QED
    BY <2>1, <2>3, HigherAfter
<1> HIDE DEF B, before
<1> QED
  BY <1>3, <1>4, <1>5, <1>6

\* What is put there is in the list once, and the list stays sorted.
LEMMA InsertTxFacts ==
  ASSUME NEW list \in Seq(Tx), IsInjective(list), NEW t \in Tx, t \notin ToSet(list),
         NEW heights \in [Tx -> Nat], Sorted(list, heights), NEW all, NEW lengths
  PROVE  LET r == InsertTx(list, t, all, heights, lengths) IN
         /\ r \in Seq(Tx) /\ IsInjective(r) /\ Len(r) = Len(list) + 1
         /\ ToSet(r) = ToSet(list) \cup {t}
         /\ Sorted(r, heights)
<1> DEFINE r == InsertTx(list, t, all, heights, lengths)
<1>1. Len(list) \in Nat /\ DOMAIN list = 1 .. Len(list) /\ \A i \in 1 .. Len(list) : list[i] \in Tx
  OBVIOUS
<1>2. PICK p \in 1 .. Len(list) + 1 :
        /\ r = InsertAt(list, p, t)
        /\ \A i \in 1 .. p - 1 : heights[list[i]] <= heights[t]
        /\ \A i \in p .. Len(list) : heights[t] <= heights[list[i]]
  BY InsertTxPlace
<1> HIDE DEF r
<1>3. /\ r \in Seq(Tx) /\ Len(r) = Len(list) + 1
      /\ r[p] = t
      /\ \A i \in 1 .. p - 1 : r[i] = list[i]
      /\ \A i \in p + 1 .. Len(list) + 1 : r[i] = list[i - 1]
  <2> DEFINE q == InsertAt(list, p, t)
  <2>1. /\ q \in Seq(Tx) /\ Len(q) = Len(list) + 1
        /\ q[p] = t
        /\ \A i \in 1 .. p - 1 : q[i] = list[i]
        /\ \A i \in p + 1 .. Len(list) + 1 : q[i] = list[i - 1]
    BY InsertAtFacts
  <2>2. r = q
    BY <1>2
  <2> HIDE DEF q
  <2> QED
    BY <2>1, <2>2
<1>4. DOMAIN r = 1 .. Len(list) + 1
  BY <1>3
<1> DEFINE from(i) == IF i < p THEN i ELSE i - 1
<1>5. ASSUME NEW i \in 1 .. Len(list) + 1, i # p
      PROVE  from(i) \in 1 .. Len(list) /\ r[i] = list[from(i)] /\ (i < p <=> from(i) <= p - 1)
  BY <1>1, <1>3, <1>5
<1>6. ToSet(r) = ToSet(list) \cup {t}
  <2>1. ASSUME NEW i \in 1 .. Len(list) PROVE \E j \in 1 .. Len(list) + 1 : r[j] = list[i]
    <3>1. CASE i < p
      <4>1. i \in 1 .. p - 1 /\ i \in 1 .. Len(list) + 1
        BY <1>1, <3>1
      <4> QED
        BY <1>3, <4>1
    <3>2. CASE ~ (i < p)
      <4>1. i + 1 \in p + 1 .. Len(list) + 1 /\ (i + 1) - 1 = i /\ i + 1 \in 1 .. Len(list) + 1
        BY <1>1, <3>2
      <4> QED
        BY <1>3, <4>1
    <3> QED
      BY <3>1, <3>2
  <2>2. \A j \in 1 .. Len(list) + 1 : r[j] = t \/ \E i \in 1 .. Len(list) : r[j] = list[i]
    BY <1>3, <1>5
  <2>3. ToSet(r) \subseteq ToSet(list) \cup {t}
    BY <1>1, <1>4, <2>2 DEF ToSet
  <2>4. ToSet(list) \subseteq ToSet(r)
    BY <1>1, <1>4, <2>1 DEF ToSet
  <2>5. t \in ToSet(r)
    BY <1>3, <1>4 DEF ToSet
  <2> QED
    BY <2>3, <2>4, <2>5
<1>7. IsInjective(r)
  <2> SUFFICES ASSUME NEW i \in 1 .. Len(list) + 1, NEW j \in 1 .. Len(list) + 1, r[i] = r[j]
               PROVE  i = j
    BY <1>4 DEF IsInjective
  <2>1. \A k \in 1 .. Len(list) : list[k] # t
    BY <1>1 DEF ToSet
  <2>2. (i # p /\ j # p) \/ (i = p /\ j = p)
    <3>1. ASSUME NEW k \in 1 .. Len(list) + 1, k # p PROVE r[k] # t
      <4>1. from(k) \in 1 .. Len(list) /\ r[k] = list[from(k)]
        BY <1>5, <3>1
      <4> HIDE DEF from
      <4> QED
        BY <2>1, <4>1
    <3>2. r[p] = t /\ r[i] = r[j]
      BY <1>3
    <3>3. i # p => r[i] # t
      BY <3>1
    <3>4. j # p => r[j] # t
      BY <3>1
    <3> QED
      BY <3>2, <3>3, <3>4
  <2>3. CASE i # p /\ j # p
    <3>1. list[from(i)] = list[from(j)] /\ from(i) \in 1 .. Len(list) /\ from(j) \in 1 .. Len(list)
      BY <1>5, <2>3
    <3>2. from(i) = from(j)
      BY <1>1, <3>1 DEF IsInjective
    <3> QED
      BY <1>1, <2>3, <3>2
  <2> QED
    BY <2>2, <2>3
<1>8. Sorted(r, heights)
  <2> SUFFICES ASSUME NEW i \in 1 .. Len(list) + 1, NEW j \in 1 .. Len(list) + 1, i < j
               PROVE  heights[r[i]] <= heights[r[j]]
    BY <1>4 DEF Sorted
  <2>1. CASE i = p
    <3>1. from(j) \in p .. Len(list) /\ r[j] = list[from(j)]
      BY <1>1, <1>5, <2>1
    <3> QED
      BY <1>2, <1>3, <2>1, <3>1
  <2>2. CASE j = p
    <3>1. from(i) \in 1 .. p - 1 /\ r[i] = list[from(i)]
      BY <1>1, <1>5, <2>2
    <3> QED
      BY <1>2, <1>3, <2>2, <3>1
  <2>3. CASE i # p /\ j # p
    <3>1. /\ r[i] = list[from(i)] /\ r[j] = list[from(j)]
          /\ from(i) \in DOMAIN list /\ from(j) \in DOMAIN list /\ from(i) < from(j)
      BY <1>1, <1>5, <2>3
    <3> HIDE DEF from
    <3> QED
      BY <3>1 DEF Sorted
  <2> QED
    BY <2>1, <2>2, <2>3
<1> QED
  BY <1>3, <1>6, <1>7, <1>8 DEF r

\* The sequence r has t besides the elements of list, each once and in the order of the heights.
IsInsertion(list, t, r, heights) ==
  r \in Seq(Tx) /\ IsInjective(r) /\ ToSet(r) = ToSet(list) \cup {t} /\ Sorted(r, heights)

\* An insertion yields such a sequence.
LEMMA InsertTxKeeps ==
  ASSUME NEW list, list \in Seq(Tx), IsInjective(list), NEW t, t \in Tx, t \notin ToSet(list),
         NEW heights, heights \in [Tx -> Nat], Sorted(list, heights), NEW all, NEW lengths
  PROVE  IsInsertion(list, t, InsertTx(list, t, all, heights, lengths), heights)
BY InsertTxFacts DEF IsInsertion

\* What is taken out is not in the list any more, which stays sorted.
LEMMA RemoveFirstKeeps ==
  ASSUME NEW list \in Seq(Tx), IsInjective(list), NEW t, NEW heights, Sorted(list, heights)
  PROVE  LET r == RemoveFirst(list, t) IN
         /\ r \in Seq(Tx) /\ IsInjective(r)
         /\ Len(r) = IF t \in ToSet(list) THEN Len(list) - 1 ELSE Len(list)
         /\ ToSet(r) = ToSet(list) \ {t}
         /\ Sorted(r, heights)
<1> DEFINE r == RemoveFirst(list, t)
<1>1. Len(list) \in Nat /\ DOMAIN list = 1 .. Len(list)
  OBVIOUS
<1>2. \/ t \notin ToSet(list) /\ r = list
      \/ \E p \in 1 .. Len(list) : list[p] = t /\ r = RemoveAt(list, p)
  BY RemoveFirstFacts
<1> HIDE DEF r
<1>3. CASE t \notin ToSet(list) /\ r = list
  BY <1>3 DEF r
<1>4. ASSUME NEW p \in 1 .. Len(list), list[p] = t, r = RemoveAt(list, p)
      PROVE  /\ r \in Seq(Tx) /\ IsInjective(r)
             /\ Len(r) = IF t \in ToSet(list) THEN Len(list) - 1 ELSE Len(list)
             /\ ToSet(r) = ToSet(list) \ {t}
             /\ Sorted(r, heights)
  <2>1. /\ r \in Seq(Tx) /\ Len(r) = Len(list) - 1
        /\ \A i \in 1 .. p - 1 : r[i] = list[i]
        /\ \A i \in p .. Len(list) - 1 : r[i] = list[i + 1]
    BY <1>4, RemoveAtFacts
  <2>2. DOMAIN r = 1 .. Len(list) - 1
    BY <2>1
  <2> DEFINE from(i) == IF i < p THEN i ELSE i + 1
  <2>3. ASSUME NEW i \in 1 .. Len(list) - 1
        PROVE  from(i) \in 1 .. Len(list) /\ from(i) # p /\ r[i] = list[from(i)]
    <3>1. CASE i < p
      <4>1. i \in 1 .. p - 1 /\ from(i) = i /\ i \in 1 .. Len(list)
        BY <1>1, <3>1
      <4> QED
        BY <2>1, <3>1, <4>1
    <3>2. CASE ~ (i < p)
      <4>1. i \in p .. Len(list) - 1 /\ from(i) = i + 1 /\ i + 1 \in 1 .. Len(list) /\ i + 1 # p
        BY <1>1, <3>2
      <4> HIDE DEF from
      <4> QED
        BY <2>1, <4>1
    <3> QED
      BY <3>1, <3>2
  <2>4. t \in ToSet(list)
    BY <1>1, <1>4 DEF ToSet
  <2>5. ToSet(r) = ToSet(list) \ {t}
    <3>1. ASSUME NEW i \in 1 .. Len(list), list[i] # t PROVE \E j \in 1 .. Len(list) - 1 : r[j] = list[i]
      <4>1. i # p
        BY <1>4, <3>1
      <4>2. CASE i < p
        BY <1>1, <2>1, <4>2
      <4>3. CASE i > p
        <5>1. i - 1 \in p .. Len(list) - 1 /\ (i - 1) + 1 = i /\ i - 1 \in 1 .. Len(list) - 1
          BY <1>1, <4>3
        <5> QED
          BY <2>1, <5>1
      <4> QED
        BY <4>1, <4>2, <4>3
    <3>2. ASSUME NEW j \in 1 .. Len(list) - 1 PROVE r[j] # t /\ \E i \in 1 .. Len(list) : r[j] = list[i]
      <4>1. list[from(j)] # list[p]
        BY <1>1, <2>3 DEF IsInjective
      <4> QED
        BY <1>4, <2>3, <4>1
    <3>3. ToSet(r) \subseteq ToSet(list) \ {t}
      BY <1>1, <2>2, <3>2 DEF ToSet
    <3>4. ToSet(list) \ {t} \subseteq ToSet(r)
      BY <1>1, <2>2, <3>1 DEF ToSet
    <3> QED
      BY <3>3, <3>4
  <2>6. IsInjective(r)
    <3> SUFFICES ASSUME NEW i \in 1 .. Len(list) - 1, NEW j \in 1 .. Len(list) - 1, r[i] = r[j]
                 PROVE  i = j
      BY <2>2 DEF IsInjective
    <3>1. from(i) = from(j)
      BY <1>1, <2>3 DEF IsInjective
    <3> QED
      BY <3>1
  <2>7. Sorted(r, heights)
    <3> SUFFICES ASSUME NEW i \in 1 .. Len(list) - 1, NEW j \in 1 .. Len(list) - 1, i < j
                 PROVE  heights[r[i]] <= heights[r[j]]
      BY <2>2 DEF Sorted
    <3>1. /\ r[i] = list[from(i)] /\ r[j] = list[from(j)]
          /\ from(i) \in DOMAIN list /\ from(j) \in DOMAIN list /\ from(i) < from(j)
      BY <1>1, <2>3
    <3> HIDE DEF from
    <3> QED
      BY <3>1 DEF Sorted
  <2> QED
    BY <2>1, <2>4, <2>5, <2>6, <2>7
<1> QED
  <2>1. /\ r \in Seq(Tx) /\ IsInjective(r)
        /\ Len(r) = IF t \in ToSet(list) THEN Len(list) - 1 ELSE Len(list)
        /\ ToSet(r) = ToSet(list) \ {t}
        /\ Sorted(r, heights)
    BY <1>2, <1>3, <1>4
  <2> QED
    BY <2>1 DEF r

-----------------------------------------------------------------------------
(* The balance, computed from the whole list.                                *)

Balances(f, n, list, heights, tip, lengths) ==
  f = [k \in 0 .. n |->
         IF k = 0 THEN Cleared
         ELSE Counted(f[k - 1], list[k], heights[list[k]], tip, AllAddrs(lengths))]

\* The values of such a function.
LEMMA BalancesValue ==
  ASSUME NEW n \in Nat, NEW list, NEW heights, NEW tip, NEW lengths,
         NEW f, Balances(f, n, list, heights, tip, lengths)
  PROVE  /\ f[0] = Cleared
         /\ \A k \in 0 .. n - 1 :
              f[k + 1] = Counted(f[k], list[k + 1], heights[list[k + 1]], tip, AllAddrs(lengths))
<1> DEFINE g == [k \in 0 .. n |->
                   IF k = 0 THEN Cleared
                   ELSE Counted(f[k - 1], list[k], heights[list[k]], tip, AllAddrs(lengths))]
<1>1. f = g
  BY DEF Balances
<1>2. g[0] = Cleared
  OBVIOUS
<1>3. ASSUME NEW k \in 0 .. n - 1
      PROVE  g[k + 1] = Counted(f[k], list[k + 1], heights[list[k + 1]], tip, AllAddrs(lengths))
  <2>1. k + 1 \in 0 .. n /\ k + 1 # 0 /\ (k + 1) - 1 = k
    OBVIOUS
  <2>2. g[k + 1] = Counted(f[(k + 1) - 1], list[k + 1], heights[list[k + 1]], tip, AllAddrs(lengths))
    BY <2>1
  <2> HIDE DEF g
  <2> QED
    BY <2>1, <2>2
<1> HIDE DEF g
<1> QED
  BY <1>1, <1>2, <1>3

\* There is one for each length.
LEMMA BalancesExist ==
  ASSUME NEW n \in Nat, NEW list, NEW heights, NEW tip, NEW lengths
  PROVE  \E f : Balances(f, n, list, heights, tip, lengths)
<1> DEFINE P == {k \in 0 .. n : \E f : Balances(f, k, list, heights, tip, lengths)}
           Step(w, k) == Counted(w, list[k], heights[list[k]], tip, AllAddrs(lengths))
<1>1. 0 \in P
  <2> DEFINE f == [k \in {0} |-> Cleared]
  <2>1. 0 .. 0 = {0} /\ 0 \in 0 .. n
    OBVIOUS
  <2>2. f = [k \in 0 .. 0 |-> IF k = 0 THEN Cleared ELSE Step(f[k - 1], k)]
    BY <2>1
  <2>3. Balances(f, 0, list, heights, tip, lengths)
    BY <2>2 DEF Balances
  <2> QED
    BY <2>1, <2>3
<1>2. ASSUME NEW k \in 0 .. n - 1, k \in P PROVE k + 1 \in P
  <2>1. PICK f : Balances(f, k, list, heights, tip, lengths)
    BY <1>2
  <2>2. k \in Nat /\ k + 1 \in 0 .. n
    OBVIOUS
  <2>3. f[0] = Cleared /\ \A j \in 0 .. k - 1 : f[j + 1] = Step(f[j], j + 1)
    BY <2>1, <2>2, BalancesValue
  <2> DEFINE g == [j \in 0 .. k + 1 |-> IF j <= k THEN f[j] ELSE Step(f[k], k + 1)]
             e(j) == IF j = 0 THEN Cleared ELSE Step(g[j - 1], j)
  <2>4. ASSUME NEW j \in 0 .. k + 1 PROVE g[j] = e(j)
    <3>1. CASE j = 0
      BY <2>2, <2>3, <3>1
    <3>2. CASE j # 0
      <4>1. j - 1 \in 0 .. k /\ j - 1 \in 0 .. k + 1 /\ j - 1 <= k /\ (j - 1) + 1 = j
        BY <2>2, <3>2
      <4>2. g[j - 1] = f[j - 1]
        BY <4>1
      <4>3. CASE j <= k
        <5>1. j - 1 \in 0 .. k - 1
          BY <2>2, <3>2, <4>3
        <5>2. f[j] = Step(f[j - 1], j)
          <6> HIDE DEF g, Step
          <6> QED
            BY <2>3, <4>1, <5>1
        <5>3. g[j] = f[j]
          BY <4>3
        <5> HIDE DEF g, Step
        <5> QED
          BY <3>2, <4>2, <5>2, <5>3
      <4>4. CASE ~ (j <= k)
        <5>1. j = k + 1 /\ j - 1 = k
          BY <2>2, <4>4
        <5>2. g[j] = Step(f[k], k + 1)
          BY <2>2, <4>4
        <5> HIDE DEF g, Step
        <5> QED
          BY <3>2, <4>2, <5>1, <5>2
      <4> QED
        BY <4>3, <4>4
    <3> QED
      BY <3>1, <3>2
  <2>5. g = [j \in 0 .. k + 1 |-> e(j)]
    <3>1. g = [j \in 0 .. k + 1 |-> g[j]]
      OBVIOUS
    <3> HIDE DEF g, e
    <3> QED
      BY <2>4, <3>1
  <2>6. Balances(g, k + 1, list, heights, tip, lengths)
    <3> HIDE DEF g
    <3> QED
      BY <2>5 DEF Balances
  <2> HIDE DEF g
  <2> QED
    BY <2>2, <2>6
<1>3. \A k \in 0 .. n : k \in P
  <2> HIDE DEF P
  <2> QED
    BY <1>1, <1>2, Induct
<1>4. n \in P
  BY <1>3
<1> QED
  BY <1>4

\* What is computed has the facts that the loop keeps.
LEMMA UpdateBalanceFacts ==
  ASSUME NEW list \in Seq(Tx), IsInjective(list), NEW heights, NEW tip, NEW lengths
  PROVE  CountedFacts(UpdateBalance(list, heights, tip, lengths), list, Len(list), heights,
                      AllAddrs(lengths))
<1> DEFINE n == Len(list)
           addrs == AllAddrs(lengths)
           f == CHOOSE f : Balances(f, n, list, heights, tip, lengths)
           P == {k \in 0 .. n : CountedFacts(f[k], list, k, heights, addrs)}
<1>1. n \in Nat
  OBVIOUS
<1>2. UpdateBalance(list, heights, tip, lengths) = f[n]
  BY DEF UpdateBalance, Balances
<1>3. Balances(f, n, list, heights, tip, lengths)
  BY <1>1, BalancesExist
<1> HIDE DEF f
<1>4. /\ f[0] = Cleared
      /\ \A k \in 0 .. n - 1 : f[k + 1] = Counted(f[k], list[k + 1], heights[list[k + 1]], tip, addrs)
  <2> HIDE DEF n
  <2> QED
    BY <1>1, <1>3, BalancesValue
<1>5. 0 \in P
  BY <1>1, <1>4, ClearedFacts
<1>6. ASSUME NEW k \in 0 .. n - 1, k \in P PROVE k + 1 \in P
  <2>1. k \in Nat /\ k < Len(list) /\ k + 1 \in 0 .. n
    BY <1>1
  <2>2. CountedFacts(f[k], list, k, heights, addrs)
    BY <1>6
  <2>3. CountedFacts(Counted(f[k], list[k + 1], heights[list[k + 1]], tip, addrs),
                     list, k + 1, heights, addrs)
    <3> HIDE DEF addrs
    <3> QED
      BY <2>1, <2>2, CountedStep
  <2>4. f[k + 1] = Counted(f[k], list[k + 1], heights[list[k + 1]], tip, addrs)
    BY <1>4
  <2> HIDE DEF addrs
  <2> QED
    BY <2>1, <2>3, <2>4
<1>7. \A k \in 0 .. n : k \in P
  <2> HIDE DEF P, n
  <2> QED
    BY <1>1, <1>5, <1>6, Induct
<1>8. n \in P
  BY <1>1, <1>7
<1> QED
  BY <1>2, <1>8

\* No two of the list that are confirmed spend the same output.
Apart(list, heights) ==
  \A t, u \in ToSet(list) :
    t # u /\ heights[t] # Unconfirmed /\ heights[u] # Unconfirmed => Inputs[t] \cap Inputs[u] = {}

\* Of two that do, the later one in the list is unconfirmed, and found to be invalid.
LEMMA LaterInvalid ==
  ASSUME NEW list \in Seq(Tx), NEW heights \in [Tx -> HeightOf], Sorted(list, heights),
         Apart(list, heights), NEW w, InvalidOf(w, list, Len(list), heights),
         NEW i \in 1 .. Len(list), NEW j \in 1 .. Len(list), i < j, list[i] # list[j],
         Inputs[list[i]] \cap Inputs[list[j]] # {}
  PROVE  {list[i], list[j]} \cap w.invalidTx # {}
<1>1. Len(list) \in Nat /\ DOMAIN list = 1 .. Len(list) /\ i \in 1 .. j - 1
  OBVIOUS
<1>2. /\ list[i] \in Tx /\ list[j] \in Tx /\ list[i] \in ToSet(list) /\ list[j] \in ToSet(list)
      /\ heights[list[i]] <= heights[list[j]]
  BY <1>1 DEF ToSet, Sorted
<1>3. \A h \in HeightOf : h \in Int /\ h <= Unconfirmed /\ (h # Unconfirmed => h < Unconfirmed)
  BY LedgerAssumption, WalletAssumption DEF HeightOf
<1>4. heights[list[i]] \in HeightOf /\ heights[list[j]] \in HeightOf
  BY <1>2
<1>5. heights[list[j]] # Unconfirmed => heights[list[i]] # Unconfirmed
  <2> DEFINE a == heights[list[i]]
             b == heights[list[j]]
  <2>1. a \in HeightOf /\ b \in HeightOf /\ a <= b
    BY <1>2, <1>4
  <2> HIDE DEF a, b
  <2>2. b # Unconfirmed => a # Unconfirmed
    <3>1. a \in Int /\ b \in Int /\ b <= Unconfirmed /\ (b # Unconfirmed => b < Unconfirmed)
      BY <1>3, <2>1
    <3> QED BY <2>1, <3>1
  <2> QED BY <2>2 DEF a, b
<1>6. heights[list[j]] = Unconfirmed
  BY <1>2, <1>5 DEF Apart
<1>7. list[i] \notin w.invalidTx => list[j] \in w.invalidTx
  BY <1>1, <1>6 DEF InvalidOf
<1> QED
  BY <1>7

\* The properties that the last computation has.
LEMMA CountedLedger ==
  ASSUME NEW list \in Seq(Tx), IsInjective(list), NEW heights \in [Tx -> HeightOf],
         Sorted(list, heights), Apart(list, heights), NEW addrs,
         NEW w, CountedFacts(w, list, Len(list), heights, addrs)
  PROVE  LedgerOK(w, list, heights, addrs)
<1> DEFINE n == Len(list)
           listed == ToSet(list)
<1>1. n \in Nat /\ DOMAIN list = 1 .. n /\ FirstOf(list, n) = listed
  BY DEF FirstOf, ToSet
<1>2. /\ CountedTypes(w, n) /\ CountedSets(w, list, n)
      /\ InvalidOf(w, list, n, heights) /\ SpentOf(w, list, n) /\ UnspentOf(w, list, n, addrs)
  BY DEF CountedFacts
<1>3. /\ w.balance = Amount(w.utxos) /\ Len(w.balanceHist) = Len(list)
      /\ \E b \in Nat : Below(w.usedAddrs, b)
  BY <1>2 DEF CountedTypes
<1>4. w.invalidTx \subseteq listed /\ w.pendingTx \subseteq listed
  BY <1>1, <1>2 DEF CountedSets
<1>5. ASSUME NEW t \in listed, NEW u \in listed, t # u, Inputs[t] \cap Inputs[u] # {}
      PROVE  {t, u} \cap w.invalidTx # {}
  <2>1. PICK i \in 1 .. n : t = list[i]
    BY <1>1 DEF ToSet
  <2>2. PICK j \in 1 .. n : u = list[j]
    BY <1>1 DEF ToSet
  <2>3. i # j
    BY <1>5, <2>1, <2>2
  <2>4. CASE i < j
    BY <1>2, <1>5, <2>1, <2>2, <2>4, LaterInvalid
  <2>5. CASE j < i
    <3>1. Inputs[list[j]] \cap Inputs[list[i]] # {} /\ list[j] # list[i]
      BY <1>5, <2>1, <2>2
    <3>2. {list[j], list[i]} \cap w.invalidTx # {}
      BY <1>2, <2>5, <3>1, LaterInvalid
    <3> QED
      BY <2>1, <2>2, <3>2
  <2> QED
    BY <1>1, <2>3, <2>4, <2>5
<1>6. ASSUME NEW t \in w.invalidTx
      PROVE  /\ heights[t] = Unconfirmed
             /\ \/ \E u \in listed \ w.invalidTx : u # t /\ Inputs[t] \cap Inputs[u] # {}
                \/ Parents(t) \cap w.invalidTx # {}
  <2>1. PICK k \in 1 .. n : t = list[k]
    BY <1>1, <1>4 DEF ToSet
  <2>2. /\ heights[list[k]] = Unconfirmed
        /\ \E j \in 1 .. k - 1 :
             \/ /\ list[j] \notin w.invalidTx
                /\ Inputs[list[j]] \cap Inputs[list[k]] # {}
             \/ list[j] \in w.invalidTx \cap Parents(list[k])
    BY <1>2, <2>1 DEF InvalidOf
  <2>3. PICK j \in 1 .. k - 1 :
          \/ list[j] \notin w.invalidTx /\ Inputs[list[j]] \cap Inputs[t] # {}
          \/ list[j] \in w.invalidTx \cap Parents(t)
    BY <2>1, <2>2
  <2>4. j \in 1 .. n /\ j # k
    BY <1>1
  <2>5. list[j] \in listed /\ list[j] # t
    BY <1>1, <2>1, <2>4 DEF ToSet, IsInjective
  <2> QED
    BY <2>1, <2>2, <2>3, <2>5
<1>7. ASSUME w.pendingTx = {}
      PROVE  w.utxos = (UNION {Own(t, addrs) : t \in listed \ (w.invalidTx \cup w.pendingTx)})
                       \ (UNION {Inputs[t] : t \in listed \ w.invalidTx})
  <2> DEFINE own == UNION {Own(t, addrs) : t \in listed \ (w.invalidTx \cup w.pendingTx)}
             spent == UNION {Inputs[t] : t \in listed \ w.invalidTx}
  <2>1. w.spentOutputs = spent
    BY <1>1, <1>2 DEF SpentOf
  <2>2. /\ w.utxos \subseteq own /\ own \ w.spentOutputs \subseteq w.utxos
        /\ \A o \in w.utxos \cap w.spentOutputs : \E t \in w.pendingTx : o \in Inputs[t]
    <3> HIDE DEF listed
    <3> QED
      BY <1>1, <1>2 DEF UnspentOf
  <2> HIDE DEF own, spent
  <2>3. w.utxos = own \ w.spentOutputs
    BY <1>7, <2>2
  <2>4. w.utxos = own \ spent
    BY <2>1, <2>3
  <2> QED
    BY <2>4 DEF own, spent
<1> HIDE DEF listed
<1>8. w.invalidTx \cup w.pendingTx \subseteq listed
  BY <1>4
<1> QED
  BY <1>3, <1>5, <1>6, <1>7, <1>8 DEF LedgerOK, listed

\* _LWWalletUpdateBalance computes a ledger that is right for every sorted list
\* in which no two confirmed transactions conflict.
LEMMA LedgerRecomputed ==
  ASSUME NEW list \in Seq(Tx), IsInjective(list), NEW heights \in [Tx -> HeightOf],
         Sorted(list, heights), Apart(list, heights), NEW tip, NEW lengths
  PROVE  LedgerOK(UpdateBalance(list, heights, tip, lengths), list, heights, AllAddrs(lengths))
<1> DEFINE w == UpdateBalance(list, heights, tip, lengths)
           addrs == AllAddrs(lengths)
<1>1. CountedFacts(w, list, Len(list), heights, addrs)
  BY UpdateBalanceFacts
<1> HIDE DEF w, addrs
<1>2. LedgerOK(w, list, heights, addrs)
  BY <1>1, CountedLedger
<1> QED
  BY <1>2 DEF w, addrs

\* They stay when the list is in another order, what is invalid keeps its
\* height, and what is listed pays to the wallet as before.
LEMMA LedgerKept ==
  ASSUME NEW w, NEW list, NEW heights, NEW addrs, LedgerOK(w, list, heights, addrs),
         NEW now, ToSet(now) = ToSet(list), Len(now) = Len(list),
         NEW heightsNow, \A t \in w.invalidTx : heightsNow[t] = heights[t],
         NEW addrsNow, \A t \in ToSet(list) : Own(t, addrsNow) = Own(t, addrs)
  PROVE  LedgerOK(w, now, heightsNow, addrsNow)
<1> DEFINE listed == ToSet(list)
           rest == listed \ (w.invalidTx \cup w.pendingTx)
<1>1. /\ w.invalidTx \cup w.pendingTx \subseteq listed
      /\ w.balance = Amount(w.utxos)
      /\ Len(w.balanceHist) = Len(list)
      /\ \E b \in Nat : Below(w.usedAddrs, b)
      /\ \A t, u \in listed :
           t # u /\ Inputs[t] \cap Inputs[u] # {} => {t, u} \cap w.invalidTx # {}
      /\ \A t \in w.invalidTx : heights[t] = Unconfirmed /\
           \/ \E u \in listed \ w.invalidTx : u # t /\ Inputs[t] \cap Inputs[u] # {}
           \/ Parents(t) \cap w.invalidTx # {}
  BY DEF LedgerOK
<1>2. w.pendingTx = {} => w.utxos =
        (UNION {Own(t, addrs) : t \in rest}) \ (UNION {Inputs[t] : t \in listed \ w.invalidTx})
  BY DEF LedgerOK
<1>3. UNION {Own(t, addrs) : t \in rest} = UNION {Own(t, addrsNow) : t \in rest}
  OBVIOUS
<1>4. w.pendingTx = {} => w.utxos =
        (UNION {Own(t, addrsNow) : t \in rest}) \ (UNION {Inputs[t] : t \in listed \ w.invalidTx})
  BY <1>2, <1>3
<1>5. \A t \in w.invalidTx : heightsNow[t] = Unconfirmed /\
        \/ \E u \in listed \ w.invalidTx : u # t /\ Inputs[t] \cap Inputs[u] # {}
        \/ Parents(t) \cap w.invalidTx # {}
  BY <1>1
<1>6. ToSet(now) = listed
  OBVIOUS
<1>7. Len(w.balanceHist) = Len(now)
  BY <1>1
<1> HIDE DEF listed
<1> QED
  BY <1>1, <1>4, <1>5, <1>6, <1>7 DEF LedgerOK

\* Blocks of a chain have no two that spend the same output.
LEMMA ChainApart ==
  ASSUME NEW list, NEW heights, NEW blocks, ChainOK(blocks), InBlock(list, heights, blocks)
  PROVE  Apart(list, heights)
<1> SUFFICES ASSUME NEW t \in ToSet(list), NEW u \in ToSet(list), t # u,
                    heights[t] # Unconfirmed, heights[u] # Unconfirmed
             PROVE  Inputs[t] \cap Inputs[u] = {}
  BY DEF Apart
<1>1. heights[t] \in DOMAIN blocks /\ t \in ToSet(blocks[heights[t]])
  BY DEF InBlock
<1>2. heights[u] \in DOMAIN blocks /\ u \in ToSet(blocks[heights[u]])
  BY DEF InBlock
<1> QED
  BY <1>1, <1>2 DEF ChainOK

-----------------------------------------------------------------------------
(* Transactions told to be in a block, or verified.                          *)

\* The place of one transaction in the list goes by its new height.
LEMMA Moved ==
  ASSUME NEW list, NEW all, NEW heights, ListOK(list, all, heights),
         NEW t \in ToSet(list), NEW h \in HeightOf, NEW lengths
  PROVE  LET heightsNow == [heights EXCEPT ![t] = h]
             now == InsertTx(RemoveFirst(list, t), t, all, heightsNow, lengths) IN
         ListOK(now, all, heightsNow) /\ ToSet(now) = ToSet(list) /\ Len(now) = Len(list)
<1> DEFINE heightsNow == [heights EXCEPT ![t] = h]
           rest == RemoveFirst(list, t)
           now == InsertTx(rest, t, all, heightsNow, lengths)
<1>1. /\ list \in Seq(Tx) /\ IsInjective(list) /\ all \in SUBSET Tx /\ ToSet(list) \subseteq all
      /\ heights \in [Tx -> HeightOf] /\ Sorted(list, heights)
      /\ \A u \in Tx \ all : heights[u] = Unconfirmed
  BY DEF ListOK
<1>2. t \in Tx /\ t \in all
  BY <1>1
<1>3. heightsNow \in [Tx -> HeightOf] /\ \A u \in Tx \ {t} : heightsNow[u] = heights[u]
  BY <1>1, <1>2
<1>4. /\ rest \in Seq(Tx) /\ IsInjective(rest) /\ Len(rest) = Len(list) - 1
      /\ ToSet(rest) = ToSet(list) \ {t} /\ Sorted(rest, heights)
  BY <1>1, RemoveFirstKeeps
<1> HIDE DEF heightsNow, rest
<1>5. \A i \in DOMAIN rest : rest[i] \in Tx /\ rest[i] # t
  BY <1>4 DEF ToSet
<1>6. Sorted(rest, heightsNow)
  BY <1>3, <1>4, <1>5 DEF Sorted
<1>7. heightsNow \in [Tx -> Nat]
  BY <1>3, LedgerAssumption DEF HeightOf
<1>8. /\ now \in Seq(Tx) /\ IsInjective(now) /\ Len(now) = Len(rest) + 1
      /\ ToSet(now) = ToSet(rest) \cup {t} /\ Sorted(now, heightsNow)
  <2>1. t \notin ToSet(rest)
    BY <1>4
  <2> QED
    BY <1>2, <1>4, <1>6, <1>7, <2>1, InsertTxFacts
<1> HIDE DEF now
<1>9. \A u \in Tx \ all : heightsNow[u] = Unconfirmed
  BY <1>1, <1>2, <1>3
<1>10. ToSet(now) = ToSet(list)
  BY <1>4, <1>8
<1>11. Len(now) = Len(list)
  <2>1. Len(list) \in Nat
    BY <1>1
  <2> QED
    BY <1>4, <1>8, <2>1
<1>12. ListOK(now, all, heightsNow)
  BY <1>1, <1>3, <1>8, <1>9, <1>10 DEF ListOK
<1> QED
  BY <1>10, <1>11, <1>12 DEF now, rest, heightsNow

\* What the hashes told so far, S, made of the list and of the heights.
Updated(w, h, S) ==
  /\ DOMAIN w = {"transactions", "allTx", "height", "needsUpdate"}
  /\ ListOK(w.transactions, w.allTx, w.height)
  /\ OwnListed(w.transactions, w.allTx, AllAddrs(generated))
  /\ ToSet(w.transactions) = Listed /\ Len(w.transactions) = Len(transactions)
  /\ w.allTx \subseteq allTx
  /\ \A t \in Listed : w.height[t] = IF t \in S THEN h ELSE height[t]
  /\ w.needsUpdate \in BOOLEAN
  /\ ~ w.needsUpdate => \A t \in ledger.invalidTx : w.height[t] = height[t]

\* A transaction of the wallet that is told.
LEMMA UpdateOwn ==
  ASSUME NEW w, NEW h \in HeightOf, NEW S, Updated(w, h, S), NEW t \in w.allTx,
         NEW v, DOMAIN v = DOMAIN w, v.height = [w.height EXCEPT ![t] = h], v.allTx = w.allTx,
         v.transactions = IF Contains(w.transactions, t)
                          THEN InsertTx(RemoveFirst(w.transactions, t), t, w.allTx, v.height, generated)
                          ELSE w.transactions,
         v.needsUpdate = (w.needsUpdate \/ OutOfDate(t))
  PROVE  Updated(v, h, S \cup {t})
<1>1. /\ ListOK(w.transactions, w.allTx, w.height)
      /\ OwnListed(w.transactions, w.allTx, AllAddrs(generated))
      /\ ToSet(w.transactions) = Listed /\ Len(w.transactions) = Len(transactions)
      /\ w.allTx \subseteq allTx
      /\ \A u \in Listed : w.height[u] = IF u \in S THEN h ELSE height[u]
      /\ w.needsUpdate \in BOOLEAN
      /\ ~ w.needsUpdate => \A u \in ledger.invalidTx : w.height[u] = height[u]
  BY DEF Updated
<1>2. /\ w.transactions \in Seq(Tx) /\ w.allTx \in SUBSET Tx /\ w.height \in [Tx -> HeightOf]
      /\ IsInjective(w.transactions) /\ ToSet(w.transactions) \subseteq w.allTx
      /\ Sorted(w.transactions, w.height)
      /\ \A u \in Tx \ w.allTx : w.height[u] = Unconfirmed
  BY <1>1 DEF ListOK
<1>3. /\ v.height \in [Tx -> HeightOf] /\ v.height[t] = h
      /\ \A u \in Tx \ {t} : v.height[u] = w.height[u]
  BY <1>2
<1>4. Contains(w.transactions, t) <=> t \in Listed
  BY <1>1, <1>2 DEF Contains, ToSet
<1>5. /\ ListOK(v.transactions, v.allTx, v.height)
      /\ ToSet(v.transactions) = Listed /\ Len(v.transactions) = Len(transactions)
  <2>1. CASE t \in Listed
    <3>1. t \in ToSet(w.transactions)
      BY <1>1, <2>1
    <3> DEFINE list == w.transactions
               all == w.allTx
               heights == w.height
               heightsNow == [heights EXCEPT ![t] = h]
               now == InsertTx(RemoveFirst(list, t), t, all, heightsNow, generated)
    <3>2. ListOK(now, all, heightsNow) /\ ToSet(now) = ToSet(list) /\ Len(now) = Len(list)
      <4>1. ListOK(list, all, heights) /\ t \in ToSet(list)
        BY <1>1, <3>1
      <4> HIDE DEF list, all, heights
      <4> QED
        BY <4>1, Moved
    <3>3. v.transactions = now /\ v.allTx = all /\ v.height = heightsNow
      BY <1>4, <2>1
    <3> HIDE DEF now, heightsNow, all
    <3> QED
      BY <1>1, <3>2, <3>3
  <2>2. CASE t \notin Listed
    <3>1. v.transactions = w.transactions
      BY <1>4, <2>2
    <3>2. \A i \in DOMAIN w.transactions : w.transactions[i] \in Tx /\ w.transactions[i] # t
      BY <1>1, <1>2, <2>2 DEF ToSet
    <3>3. Sorted(v.transactions, v.height)
      BY <1>2, <1>3, <3>1, <3>2 DEF Sorted
    <3>4. \A u \in Tx \ v.allTx : v.height[u] = Unconfirmed
      BY <1>2, <1>3
    <3> QED
      BY <1>1, <1>2, <1>3, <3>1, <3>3, <3>4 DEF ListOK
  <2> QED
    BY <2>1, <2>2
<1>6. OwnListed(v.transactions, v.allTx, AllAddrs(generated))
  BY <1>1, <1>5 DEF OwnListed
<1>7. \A u \in Listed : v.height[u] = IF u \in S \cup {t} THEN h ELSE height[u]
  <2>1. \A u \in Listed : u \in Tx
    BY <1>1, <1>2
  <2> QED
    BY <1>1, <1>3, <2>1
<1>8. v.needsUpdate \in BOOLEAN
  BY <1>1 DEF OutOfDate
<1>9. ~ v.needsUpdate => \A u \in ledger.invalidTx : v.height[u] = height[u]
  <2>1. ASSUME ~ v.needsUpdate, NEW u \in ledger.invalidTx PROVE v.height[u] = height[u]
    <3>1. ~ w.needsUpdate /\ t \notin ledger.invalidTx
      BY <2>1 DEF OutOfDate
    <3>2. w.height[u] = height[u] /\ u # t
      BY <1>1, <3>1
    <3>3. v.height[u] = w.height[u]
      BY <1>2, <3>2
    <3> QED
      BY <3>2, <3>3
  <2> QED
    BY <2>1
<1>10. v.allTx \subseteq allTx
  BY <1>1
<1>11. DOMAIN v = {"transactions", "allTx", "height", "needsUpdate"}
  BY DEF Updated
<1> QED
  BY <1>5, <1>6, <1>7, <1>8, <1>9, <1>10, <1>11 DEF Updated

\* A transaction of others that is dropped.
LEMMA UpdateOther ==
  ASSUME NEW w, NEW h \in HeightOf, NEW S, Updated(w, h, S), NEW t \in w.allTx,
         ~ ContainsTx(t, w.allTx, AllAddrs(generated)),
         NEW v, DOMAIN v = DOMAIN w, v.height = [w.height EXCEPT ![t] = Unconfirmed],
         v.allTx = w.allTx \ {t}, v.transactions = w.transactions, v.needsUpdate = w.needsUpdate,
         ledger.invalidTx \subseteq Listed
  PROVE  Updated(v, h, S \cup {t})
<1> DEFINE addrs == AllAddrs(generated)
<1>1. /\ ListOK(w.transactions, w.allTx, w.height)
      /\ OwnListed(w.transactions, w.allTx, addrs)
      /\ ToSet(w.transactions) = Listed /\ Len(w.transactions) = Len(transactions)
      /\ w.allTx \subseteq allTx
      /\ \A u \in Listed : w.height[u] = IF u \in S THEN h ELSE height[u]
      /\ w.needsUpdate \in BOOLEAN
      /\ ~ w.needsUpdate => \A u \in ledger.invalidTx : w.height[u] = height[u]
  BY DEF Updated
<1>2. /\ w.transactions \in Seq(Tx) /\ w.allTx \in SUBSET Tx /\ w.height \in [Tx -> HeightOf]
      /\ IsInjective(w.transactions) /\ ToSet(w.transactions) \subseteq w.allTx
      /\ Sorted(w.transactions, w.height)
      /\ \A u \in Tx \ w.allTx : w.height[u] = Unconfirmed
  BY <1>1 DEF ListOK
<1>3. t \notin Listed /\ Own(t, addrs) = {}
  BY <1>1 DEF OwnListed, ContainsTx
<1>4. /\ v.height \in [Tx -> HeightOf] /\ v.height[t] = Unconfirmed
      /\ \A u \in Tx \ {t} : v.height[u] = w.height[u]
  BY <1>2, LedgerAssumption DEF HeightOf
<1>5. \A i \in DOMAIN w.transactions : w.transactions[i] \in Tx /\ w.transactions[i] # t
  BY <1>1, <1>2, <1>3 DEF ToSet
<1>6. ListOK(v.transactions, v.allTx, v.height)
  <2>1. Sorted(v.transactions, v.height)
    BY <1>2, <1>4, <1>5 DEF Sorted
  <2>2. \A u \in Tx \ v.allTx : v.height[u] = Unconfirmed
    BY <1>2, <1>4
  <2>3. ToSet(v.transactions) \subseteq v.allTx /\ v.allTx \in SUBSET Tx
    BY <1>1, <1>2, <1>3
  <2> QED
    BY <1>2, <1>4, <2>1, <2>2, <2>3 DEF ListOK
<1>7. OwnListed(v.transactions, v.allTx, addrs)
  <2>1. ASSUME NEW u \in ToSet(v.transactions) PROVE ContainsTx(u, v.allTx, addrs)
    <3>1. ContainsTx(u, w.allTx, addrs)
      BY <1>1, <2>1 DEF OwnListed
    <3>2. \A o : o \in Own(o.hash, addrs) => o.hash # t
      BY <1>3
    <3> HIDE DEF addrs
    <3> QED
      BY <3>1, <3>2 DEF ContainsTx
  <2>2. \A u \in v.allTx : Own(u, addrs) # {} => u \in ToSet(v.transactions)
    BY <1>1 DEF OwnListed
  <2> QED
    BY <2>1, <2>2 DEF OwnListed
<1>8. \A u \in Listed : v.height[u] = IF u \in S \cup {t} THEN h ELSE height[u]
  <2>1. \A u \in Listed : u \in Tx /\ u # t
    BY <1>1, <1>2, <1>3
  <2> QED
    BY <1>1, <1>4, <2>1
<1>9. ~ v.needsUpdate => \A u \in ledger.invalidTx : v.height[u] = height[u]
  <2>1. \A u \in ledger.invalidTx : u \in Tx /\ u # t
    BY <1>1, <1>2, <1>3
  <2> QED
    BY <1>1, <1>4, <2>1
<1>10. v.allTx \subseteq allTx /\ v.needsUpdate \in BOOLEAN
  BY <1>1
<1>11. /\ DOMAIN v = {"transactions", "allTx", "height", "needsUpdate"}
       /\ ToSet(v.transactions) = Listed /\ Len(v.transactions) = Len(transactions)
  BY <1>1 DEF Updated
<1> QED
  BY <1>6, <1>7, <1>8, <1>9, <1>10, <1>11 DEF Updated

\* One hash of the list.
LEMMA UpdateStep ==
  ASSUME NEW w, NEW h \in HeightOf, NEW S, Updated(w, h, S), NEW t, ledger.invalidTx \subseteq Listed
  PROVE  Updated(UpdateTx(w, t, h), h, S \cup {t})
<1> DEFINE addrs == AllAddrs(generated)
           heights == [w.height EXCEPT ![t] = h]
           v == UpdateTx(w, t, h)
           T == S \cup {t}
           own == [w EXCEPT
                     !.height = heights,
                     !.transactions = IF Contains(@, t)
                                      THEN InsertTx(RemoveFirst(@, t), t, w.allTx, heights, generated)
                                      ELSE @,
                     !.needsUpdate = @ \/ OutOfDate(t)]
           other == [w EXCEPT !.allTx = @ \ {t}, !.height = Freed(@, t)]
<1>1. /\ DOMAIN w = {"transactions", "allTx", "height", "needsUpdate"}
      /\ ToSet(w.transactions) = Listed /\ Listed \subseteq w.allTx
      /\ OwnListed(w.transactions, w.allTx, addrs)
      /\ \A u \in Listed : w.height[u] = IF u \in S THEN h ELSE height[u]
  BY DEF Updated, ListOK
<1>2. v = IF t \notin w.allTx \/ (w.height[t] = h /\ h # Unconfirmed) THEN w
          ELSE IF ContainsTx(t, w.allTx, addrs) THEN own
               ELSE IF h # Unconfirmed THEN other ELSE w
  BY DEF UpdateTx
<1> HIDE DEF v
<1>3. ASSUME t \in Listed => w.height[t] = h, v = w PROVE Updated(v, h, T)
  <2>1. \A u \in Listed : w.height[u] = IF u \in S \cup {t} THEN h ELSE height[u]
    BY <1>1, <1>3
  <2> QED
    BY <1>3, <2>1 DEF Updated
<1> HIDE DEF T
<1>4. ASSUME t \notin w.allTx \/ (w.height[t] = h /\ h # Unconfirmed)
      PROVE  Updated(v, h, T)
  <2>1. v = w
    BY <1>2, <1>4
  <2>2. t \in Listed => w.height[t] = h
    BY <1>1, <1>4
  <2> QED
    BY <1>3, <2>1, <2>2
<1>5. ASSUME t \in w.allTx /\ ~ (w.height[t] = h /\ h # Unconfirmed)
      PROVE  Updated(v, h, T)
  <2>1. CASE ContainsTx(t, w.allTx, addrs)
    <3>1. v = own
      BY <1>2, <1>5, <2>1
    <3>2. own.height = heights /\ own.allTx = w.allTx /\ DOMAIN own = DOMAIN w
      BY <1>1
    <3>3. own.transactions = IF Contains(w.transactions, t)
                             THEN InsertTx(RemoveFirst(w.transactions, t), t, w.allTx, heights, generated)
                             ELSE w.transactions
      BY <1>1
    <3>4. own.needsUpdate = (w.needsUpdate \/ OutOfDate(t))
      BY <1>1
    <3> HIDE DEF own
    <3> QED
      BY <1>5, <3>1, <3>2, <3>3, <3>4, UpdateOwn DEF T
  <2>2. CASE ~ ContainsTx(t, w.allTx, addrs) /\ h # Unconfirmed
    <3>1. v = other
      BY <1>2, <1>5, <2>2
    <3>2. other.height = [w.height EXCEPT ![t] = Unconfirmed] /\ other.allTx = w.allTx \ {t}
      BY <1>1 DEF Freed
    <3>3. /\ DOMAIN other = DOMAIN w /\ other.transactions = w.transactions
          /\ other.needsUpdate = w.needsUpdate
      BY <1>1
    <3> HIDE DEF other
    <3> QED
      BY <1>5, <2>2, <3>1, <3>2, <3>3, UpdateOther DEF T
  <2>3. CASE ~ ContainsTx(t, w.allTx, addrs) /\ h = Unconfirmed
    <3>1. v = w
      BY <1>2, <1>5, <2>3
    <3>2. t \notin Listed
      BY <1>1, <2>3 DEF OwnListed
    <3> QED
      BY <1>3, <3>1, <3>2
  <2> QED
    BY <2>1, <2>2, <2>3
<1>6. Updated(v, h, T)
  BY <1>4, <1>5
<1> QED
  BY <1>6 DEF v, T

Unchanged ==
  [transactions |-> transactions, allTx |-> allTx, height |-> height, needsUpdate |-> FALSE]

Updates(f, n, hashes, h) ==
  f = [k \in 0 .. n |->
         IF k = 0 THEN Unchanged
         ELSE UpdateTx(f[k - 1], hashes[k], h)]

\* The values of the function that goes through the hashes.
LEMMA UpdatesValue ==
  ASSUME NEW n \in Nat, NEW hashes, NEW h, NEW f, Updates(f, n, hashes, h)
  PROVE  /\ f[0] = Unchanged
         /\ \A k \in 0 .. n - 1 :
              f[k + 1] = UpdateTx(f[k], hashes[k + 1], h)
<1> DEFINE g == [k \in 0 .. n |->
                   IF k = 0 THEN Unchanged
                   ELSE UpdateTx(f[k - 1], hashes[k], h)]
<1>1. f = g
  BY DEF Updates
<1>2. g[0] = Unchanged
  OBVIOUS
<1>3. ASSUME NEW k \in 0 .. n - 1
      PROVE  g[k + 1] = UpdateTx(f[k], hashes[k + 1], h)
  <2>1. k + 1 \in 0 .. n /\ k + 1 # 0 /\ (k + 1) - 1 = k
    OBVIOUS
  <2>2. g[k + 1] = UpdateTx(f[(k + 1) - 1], hashes[k + 1], h)
    BY <2>1
  <2> HIDE DEF g
  <2> QED
    BY <2>1, <2>2
<1> HIDE DEF g
<1> QED
  BY <1>1, <1>2, <1>3

\* There is one.
LEMMA UpdatesExist ==
  ASSUME NEW n \in Nat, NEW hashes, NEW h
  PROVE  \E f : Updates(f, n, hashes, h)
<1> DEFINE P == {k \in 0 .. n : \E f : Updates(f, k, hashes, h)}
           Step(w, k) == UpdateTx(w, hashes[k], h)
<1>1. 0 \in P
  <2> DEFINE f == [k \in {0} |-> Unchanged]
  <2>1. 0 .. 0 = {0} /\ 0 \in 0 .. n
    OBVIOUS
  <2>2. f = [k \in 0 .. 0 |-> IF k = 0 THEN Unchanged ELSE Step(f[k - 1], k)]
    BY <2>1
  <2>3. Updates(f, 0, hashes, h)
    BY <2>2 DEF Updates
  <2> QED
    BY <2>1, <2>3
<1>2. ASSUME NEW k \in 0 .. n - 1, k \in P PROVE k + 1 \in P
  <2>1. PICK f : Updates(f, k, hashes, h)
    BY <1>2
  <2>2. k \in Nat /\ k + 1 \in 0 .. n
    OBVIOUS
  <2>3. f[0] = Unchanged /\ \A j \in 0 .. k - 1 : f[j + 1] = Step(f[j], j + 1)
    BY <2>1, <2>2, UpdatesValue
  <2> DEFINE g == [j \in 0 .. k + 1 |-> IF j <= k THEN f[j] ELSE Step(f[k], k + 1)]
             e(j) == IF j = 0 THEN Unchanged ELSE Step(g[j - 1], j)
  <2>4. ASSUME NEW j \in 0 .. k + 1 PROVE g[j] = e(j)
    <3>1. CASE j = 0
      BY <2>2, <2>3, <3>1
    <3>2. CASE j # 0
      <4>1. j - 1 \in 0 .. k /\ j - 1 \in 0 .. k + 1 /\ j - 1 <= k /\ (j - 1) + 1 = j
        BY <2>2, <3>2
      <4>2. g[j - 1] = f[j - 1]
        BY <4>1
      <4>3. CASE j <= k
        <5>1. j - 1 \in 0 .. k - 1
          BY <2>2, <3>2, <4>3
        <5>2. f[j] = Step(f[j - 1], j)
          <6> HIDE DEF g, Step
          <6> QED
            BY <2>3, <4>1, <5>1
        <5>3. g[j] = f[j]
          BY <4>3
        <5> HIDE DEF g, Step
        <5> QED
          BY <3>2, <4>2, <5>2, <5>3
      <4>4. CASE ~ (j <= k)
        <5>1. j = k + 1 /\ j - 1 = k
          BY <2>2, <4>4
        <5>2. g[j] = Step(f[k], k + 1)
          BY <2>2, <4>4
        <5> HIDE DEF g, Step
        <5> QED
          BY <3>2, <4>2, <5>1, <5>2
      <4> QED
        BY <4>3, <4>4
    <3> QED
      BY <3>1, <3>2
  <2>5. g = [j \in 0 .. k + 1 |-> e(j)]
    <3>1. g = [j \in 0 .. k + 1 |-> g[j]]
      OBVIOUS
    <3> HIDE DEF g, e
    <3> QED
      BY <2>4, <3>1
  <2>6. Updates(g, k + 1, hashes, h)
    <3> HIDE DEF g
    <3> QED
      BY <2>5 DEF Updates
  <2> HIDE DEF g
  <2> QED
    BY <2>2, <2>6
<1>3. \A k \in 0 .. n : k \in P
  <2> HIDE DEF P
  <2> QED
    BY <1>1, <1>2, Induct
<1>4. n \in P
  BY <1>3
<1> QED
  BY <1>4

\* What the hashes change.
LEMMA UpdateTransactionsFacts ==
  ASSUME ListOK(transactions, allTx, height),
         OwnListed(transactions, allTx, AllAddrs(generated)), ledger.invalidTx \subseteq Listed,
         NEW hashes \in Seq(Tx), NEW h \in HeightOf, UpdateTransactions(hashes, h)
  PROVE  \E w : /\ Updated(w, h, ToSet(hashes))
                /\ transactions' = w.transactions /\ allTx' = w.allTx /\ height' = w.height
                /\ blockHeight' = IF h > blockHeight THEN h ELSE blockHeight
                /\ ledger' = IF w.needsUpdate
                             THEN UpdateBalance(w.transactions, w.height, blockHeight', generated)
                             ELSE ledger
                /\ UNCHANGED <<generated, removing>>
<1> DEFINE n == Len(hashes)
           f == CHOOSE f : Updates(f, n, hashes, h)
           P == {k \in 0 .. n : Updated(f[k], h, FirstOf(hashes, k))}
<1>1. n \in Nat
  OBVIOUS
<1>2. /\ transactions' = f[n].transactions /\ allTx' = f[n].allTx /\ height' = f[n].height
      /\ blockHeight' = IF h > blockHeight THEN h ELSE blockHeight
      /\ ledger' = IF f[n].needsUpdate
                   THEN UpdateBalance(f[n].transactions, f[n].height, blockHeight', generated)
                   ELSE ledger
      /\ UNCHANGED <<generated, removing>>
  BY DEF UpdateTransactions, Updates, Unchanged
<1>3. Updates(f, n, hashes, h)
  BY <1>1, UpdatesExist
<1> HIDE DEF f
<1>4. f[0] = Unchanged /\ \A k \in 0 .. n - 1 : f[k + 1] = UpdateTx(f[k], hashes[k + 1], h)
  <2> HIDE DEF n
  <2> QED
    BY <1>1, <1>3, UpdatesValue
<1>5. 0 \in P
  <2>1. FirstOf(hashes, 0) = {}
    BY DEF FirstOf
  <2>2. /\ Unchanged.transactions = transactions /\ Unchanged.allTx = allTx
        /\ Unchanged.height = height /\ Unchanged.needsUpdate = FALSE
        /\ DOMAIN Unchanged = {"transactions", "allTx", "height", "needsUpdate"}
    BY DEF Unchanged
  <2>3. Updated(Unchanged, h, {})
    BY <2>2 DEF Updated, Listed
  <2>4. Updated(f[0], h, FirstOf(hashes, 0))
    BY <1>4, <2>1, <2>3
  <2> QED
    BY <1>1, <2>4
<1>6. ASSUME NEW k \in 0 .. n - 1, k \in P PROVE k + 1 \in P
  <2> DEFINE S == FirstOf(hashes, k)
             T == FirstOf(hashes, k + 1)
             t == hashes[k + 1]
  <2>1. k + 1 \in 0 .. n
    BY <1>1
  <2>2. T = S \cup {t}
    <3>1. 1 .. k + 1 = 1 .. k \cup {k + 1}
      BY <1>1
    <3> QED
      BY <3>1 DEF FirstOf
  <2>3. Updated(f[k], h, S)
    BY <1>6
  <2> HIDE DEF S, T, t
  <2>4. Updated(UpdateTx(f[k], t, h), h, S \cup {t})
    BY <2>3, UpdateStep
  <2>5. Updated(f[k + 1], h, T)
    BY <1>4, <2>2, <2>4 DEF t
  <2> QED
    BY <2>1, <2>5 DEF T
<1>7. \A k \in 0 .. n : k \in P
  <2> HIDE DEF P, n
  <2> QED
    BY <1>1, <1>5, <1>6, Induct
<1>8. Updated(f[n], h, ToSet(hashes))
  <2>1. n \in P
    BY <1>1, <1>7
  <2>2. FirstOf(hashes, n) = ToSet(hashes)
    BY <1>1 DEF FirstOf, ToSet
  <2> QED
    BY <2>1, <2>2
<1> HIDE DEF n
<1> QED
  BY <1>2, <1>8

\* What hashes told do to the invariant, when the blocks they are of are there.
LEMMA ToldKeeps ==
  ASSUME WalletInv, removing = <<>>, NEW hashes \in Seq(Tx), NEW h \in HeightOf,
         UpdateTransactions(hashes, h), ChainOK(mined'),
         \A g \in DOMAIN mined : g \in DOMAIN mined' /\ mined'[g] = mined[g],
         \A t \in ToSet(hashes) :
           IF h = Unconfirmed THEN height[t] = Unconfirmed
           ELSE h \in DOMAIN mined' /\ t \in ToSet(mined'[h]),
         \A g \in DOMAIN mined' \ DOMAIN mined : \A t \in ToSet(mined'[g]) :
           Own(t, AllAddrs(generated)) # {} =>
             t \in Listed /\ t \in ToSet(hashes) /\ h # Unconfirmed
  PROVE  WalletInv'
<1> DEFINE addrs == AllAddrs(generated)
<1>1. /\ ListOK(transactions, allTx, height) /\ OwnListed(transactions, allTx, addrs)
      /\ blockHeight \in Nat /\ generated \in [Chains -> Nat] /\ ChainOK(mined)
      /\ InBlock(transactions, height, mined)
      /\ MinedConfirmed(transactions, height, mined, addrs)
      /\ LedgerOK(ledger, transactions, height, addrs)
  BY DEF WalletInv
<1>2. ledger.invalidTx \subseteq Listed
  BY <1>1 DEF LedgerOK, Listed
<1>3. PICK w : /\ Updated(w, h, ToSet(hashes))
               /\ transactions' = w.transactions /\ allTx' = w.allTx /\ height' = w.height
               /\ blockHeight' = IF h > blockHeight THEN h ELSE blockHeight
               /\ ledger' = IF w.needsUpdate
                            THEN UpdateBalance(w.transactions, w.height, blockHeight', generated)
                            ELSE ledger
               /\ UNCHANGED <<generated, removing>>
  BY <1>1, <1>2, UpdateTransactionsFacts
<1>4. /\ ListOK(transactions', allTx', height') /\ OwnListed(transactions', allTx', addrs)
      /\ ToSet(transactions') = Listed /\ Len(transactions') = Len(transactions)
      /\ \A t \in Listed : height'[t] = IF t \in ToSet(hashes) THEN h ELSE height[t]
      /\ ~ w.needsUpdate => \A t \in ledger.invalidTx : height'[t] = height[t]
  BY <1>3 DEF Updated
<1>5. blockHeight' \in Nat /\ generated' = generated /\ removing' = <<>>
  BY <1>1, <1>3, LedgerAssumption, WalletAssumption DEF HeightOf
<1> HIDE DEF addrs
<1>6. InBlock(transactions', height', mined')
  <2> SUFFICES ASSUME NEW t \in Listed, height'[t] # Unconfirmed
               PROVE  height'[t] \in DOMAIN mined' /\ t \in ToSet(mined'[height'[t]])
    BY <1>4 DEF InBlock
  <2>1. CASE t \in ToSet(hashes)
    <3>1. height'[t] = h
      BY <1>4, <2>1
    <3> QED
      BY <2>1, <3>1
  <2>2. CASE t \notin ToSet(hashes)
    <3>1. height'[t] = height[t]
      BY <1>4, <2>2
    <3>2. height[t] \in DOMAIN mined /\ t \in ToSet(mined[height[t]])
      BY <1>1, <3>1 DEF InBlock, Listed
    <3> QED
      BY <3>1, <3>2
  <2> QED
    BY <2>1, <2>2
<1>7. MinedConfirmed(transactions', height', mined', addrs)
  <2> SUFFICES ASSUME NEW g \in DOMAIN mined', NEW t \in ToSet(mined'[g]), Own(t, addrs) # {}
               PROVE  t \in Listed /\ height'[t] # Unconfirmed
    BY <1>4 DEF MinedConfirmed
  <2>1. CASE g \in DOMAIN mined
    <3>1. t \in Listed /\ height[t] # Unconfirmed
      BY <1>1, <2>1 DEF MinedConfirmed, Listed
    <3>2. h = Unconfirmed => t \notin ToSet(hashes)
      BY <3>1
    <3> QED
      BY <1>4, <3>1, <3>2
  <2>2. CASE g \notin DOMAIN mined
    <3>1. t \in Listed /\ t \in ToSet(hashes) /\ h # Unconfirmed
      BY <2>2 DEF addrs
    <3> QED
      BY <1>4, <3>1
  <2> QED
    BY <2>1, <2>2
<1>8. LedgerOK(ledger', transactions', height', addrs)
  <2>1. CASE w.needsUpdate
    <3>1. ledger' = UpdateBalance(transactions', height', blockHeight', generated)
      BY <1>3, <2>1
    <3>2. Apart(transactions', height')
      BY <1>6, ChainApart
    <3>3. /\ transactions' \in Seq(Tx) /\ IsInjective(transactions')
          /\ height' \in [Tx -> HeightOf] /\ Sorted(transactions', height')
      BY <1>4 DEF ListOK
    <3> QED
      BY <3>1, <3>2, <3>3, LedgerRecomputed DEF addrs
  <2>2. CASE ~ w.needsUpdate
    <3>1. ledger' = ledger /\ \A t \in ledger.invalidTx : height'[t] = height[t]
      BY <1>3, <1>4, <2>2
    <3>2. ToSet(transactions') = ToSet(transactions)
      BY <1>4 DEF Listed
    <3> QED
      BY <1>1, <1>4, <3>1, <3>2, LedgerKept
  <2> QED
    BY <2>1, <2>2
<1>9. RemovingUnconfirmed(removing', height')
  BY <1>5 DEF RemovingUnconfirmed
<1>10. AllAddrs(generated)' = addrs
  BY <1>5 DEF AllAddrs, addrs
<1>11. /\ ListOK(transactions, allTx, height)'
       /\ OwnListed(transactions, allTx, AllAddrs(generated))'
       /\ (blockHeight \in Nat)' /\ (generated \in [Chains -> Nat])'
  <2>1. ListOK(transactions, allTx, height)'
    BY <1>4 DEF ListOK
  <2>2. OwnListed(transactions, allTx, AllAddrs(generated))'
    BY <1>4, <1>10 DEF OwnListed
  <2> QED
    BY <1>1, <1>5, <2>1, <2>2
<1> QED
  BY <1>6, <1>7, <1>8, <1>9, <1>10, <1>11 DEF WalletInv

\* One or two transactions are a sequence.
LEMMA BatchSeq == \A batch \in Batches : batch \in Seq(Tx)
<1> SUFFICES ASSUME NEW batch \in Batches PROVE batch \in Seq(Tx)
  OBVIOUS
<1>1. CASE batch = <<>>
  BY <1>1
<1>2. ASSUME NEW t \in Tx, batch = <<t>> PROVE batch \in Seq(Tx)
  BY <1>2
<1>3. ASSUME batch \in Tx \X Tx PROVE batch \in Seq(Tx)
  <2>1. batch = <<batch[1], batch[2]>> /\ batch[1] \in Tx /\ batch[2] \in Tx
    BY <1>3
  <2> DEFINE a == batch[1]
             b == batch[2]
  <2>2. batch = <<a, b>> /\ a \in Tx /\ b \in Tx
    BY <2>1
  <2> HIDE DEF a, b
  <2> QED
    BY <2>2
<1> QED
  BY <1>1, <1>2, <1>3 DEF Batches

\* What is mined is in one of the blocks.
LEMMA MinedIn ==
  ASSUME NEW t
  PROVE  t \in Mined <=> \E g \in 1 .. Len(mined) : t \in ToSet(mined[g])
BY DEF Mined, MinedUpTo

\* The next block leaves the chain one without conflicts.
LEMMA ChainGrows ==
  ASSUME ChainOK(mined), Len(mined) < MaxHeight, NEW batch \in Seq(Tx), Fits(batch),
         mined' = Append(mined, batch)
  PROVE  ChainOK(mined')
<1> DEFINE n == Len(mined)
           next == Append(mined, batch)
<1>1. /\ mined \in Seq(Seq(Tx)) /\ n \in Nat /\ DOMAIN mined = 1 .. n
      /\ \A g, h \in DOMAIN mined : ToSet(mined[g]) \cap ToSet(mined[h]) # {} => g = h
      /\ \A g, h \in DOMAIN mined : \A t \in ToSet(mined[g]), u \in ToSet(mined[h]) :
           t # u => Inputs[t] \cap Inputs[u] = {}
      /\ \A h \in DOMAIN mined : \A t \in ToSet(mined[h]) : \A p \in Parents(t) \cap Tx :
           \E g \in 1 .. h : p \in ToSet(mined[g])
  BY DEF ChainOK
<1>2. /\ next \in Seq(Seq(Tx)) /\ Len(next) = n + 1 /\ DOMAIN next = 1 .. n + 1
      /\ next[n + 1] = batch /\ \A g \in 1 .. n : next[g] = mined[g]
  BY <1>1
<1>3. DOMAIN batch = 1 .. Len(batch) /\ Len(batch) \in Nat
  OBVIOUS
<1>4. ASSUME NEW i \in DOMAIN batch, NEW u, u \in Mined \/ u \in FirstOf(batch, i - 1)
      PROVE  u # batch[i] /\ Inputs[u] \cap Inputs[batch[i]] = {}
  BY <1>4 DEF Fits
<1>5. ASSUME NEW i \in DOMAIN batch, NEW p \in Parents(batch[i]) \cap Tx
      PROVE  p \in Mined \/ p \in FirstOf(batch, i - 1)
  BY DEF Fits
<1> HIDE DEF n, next
<1>6. ASSUME NEW g \in 1 .. n, NEW t \in ToSet(next[g]), NEW u \in ToSet(batch)
      PROVE  t # u /\ Inputs[t] \cap Inputs[u] = {}
  <2>1. t \in Mined
    BY <1>2, MinedIn DEF n
  <2>2. PICK i \in DOMAIN batch : u = batch[i]
    BY DEF ToSet
  <2> QED
    BY <1>4, <2>1, <2>2
<1>7. ASSUME NEW t \in ToSet(batch), NEW u \in ToSet(batch), t # u
      PROVE  Inputs[t] \cap Inputs[u] = {}
  <2>1. PICK i \in DOMAIN batch : t = batch[i]
    BY DEF ToSet
  <2>2. PICK j \in DOMAIN batch : u = batch[j]
    BY DEF ToSet
  <2>3. CASE i < j
    <3>1. t \in FirstOf(batch, j - 1)
      BY <1>3, <2>1, <2>3 DEF FirstOf
    <3> QED
      BY <1>4, <2>2, <3>1
  <2>4. CASE j < i
    <3>1. u \in FirstOf(batch, i - 1)
      BY <1>3, <2>2, <2>4 DEF FirstOf
    <3>2. Inputs[u] \cap Inputs[t] = {}
      BY <1>4, <2>1, <3>1
    <3> QED
      BY <3>2
  <2>5. i # j
    BY <1>7, <2>1, <2>2
  <2> QED
    BY <1>3, <2>3, <2>4, <2>5
<1>8. \A g \in 1 .. n + 1 : g \in 1 .. n \/ g = n + 1
  BY <1>1
<1>9. ASSUME NEW g \in 1 .. n + 1, NEW h \in 1 .. n + 1, ToSet(next[g]) \cap ToSet(next[h]) # {}
      PROVE  g = h
  <2>1. PICK t : t \in ToSet(next[g]) /\ t \in ToSet(next[h])
    BY <1>9
  <2>2. CASE g \in 1 .. n /\ h \in 1 .. n
    BY <1>1, <1>2, <1>9, <2>2
  <2>3. CASE g \in 1 .. n /\ h = n + 1
    BY <1>2, <1>6, <2>1, <2>3
  <2>4. CASE g = n + 1 /\ h \in 1 .. n
    BY <1>2, <1>6, <2>1, <2>4
  <2> QED
    BY <1>8, <2>2, <2>3, <2>4
<1>10. ASSUME NEW g \in 1 .. n + 1, NEW h \in 1 .. n + 1,
              NEW t \in ToSet(next[g]), NEW u \in ToSet(next[h]), t # u
       PROVE  Inputs[t] \cap Inputs[u] = {}
  <2>1. CASE g \in 1 .. n /\ h \in 1 .. n
    <3>1. next[g] = mined[g] /\ next[h] = mined[h] /\ g \in DOMAIN mined /\ h \in DOMAIN mined
      BY <1>1, <1>2, <2>1
    <3>2. t \in ToSet(mined[g]) /\ u \in ToSet(mined[h])
      BY <3>1
    <3> QED
      BY <1>1, <1>10, <3>1, <3>2
  <2>2. CASE g \in 1 .. n /\ h = n + 1
    BY <1>2, <1>6, <2>2
  <2>3. CASE g = n + 1 /\ h \in 1 .. n
    <3>1. Inputs[u] \cap Inputs[t] = {}
      BY <1>2, <1>6, <2>3
    <3> QED
      BY <3>1
  <2>4. CASE g = n + 1 /\ h = n + 1
    BY <1>2, <1>7, <1>10, <2>4
  <2> QED
    BY <1>8, <2>1, <2>2, <2>3, <2>4
<1>11. ASSUME NEW h \in 1 .. n + 1, NEW t \in ToSet(next[h]), NEW p \in Parents(t) \cap Tx
       PROVE  \E g \in 1 .. h : p \in ToSet(next[g])
  <2>1. CASE h \in 1 .. n
    <3>1. PICK g \in 1 .. h : p \in ToSet(mined[g])
      BY <1>1, <1>2, <2>1
    <3>2. g \in 1 .. n
      BY <1>1, <2>1
    <3> QED
      BY <1>2, <3>1, <3>2
  <2>2. CASE h = n + 1
    <3>1. PICK i \in DOMAIN batch : t = batch[i]
      BY <1>2, <2>2 DEF ToSet
    <3>2. p \in Mined \/ p \in FirstOf(batch, i - 1)
      BY <1>5, <3>1
    <3>3. CASE p \in Mined
      <4>1. PICK g \in 1 .. n : p \in ToSet(mined[g])
        BY <3>3, MinedIn DEF n
      <4>2. g \in 1 .. h
        BY <1>1, <2>2
      <4> QED
        BY <1>2, <4>1, <4>2
    <3>4. CASE p \in FirstOf(batch, i - 1)
      <4>1. PICK j \in 1 .. i - 1 : p = batch[j]
        BY <3>4 DEF FirstOf
      <4>2. j \in DOMAIN batch
        BY <1>3
      <4>3. p \in ToSet(next[h])
        BY <1>2, <2>2, <4>1, <4>2 DEF ToSet
      <4>4. h \in 1 .. h
        BY <1>1, <2>2
      <4> QED
        BY <4>3, <4>4
    <3> QED
      BY <3>2, <3>3, <3>4
  <2> QED
    BY <1>8, <2>1, <2>2
<1>12. n + 1 <= MaxHeight
  BY <1>1, WalletAssumption DEF n
<1>13. ChainOK(next)
  BY <1>2, <1>9, <1>10, <1>11, <1>12 DEF ChainOK
<1> QED
  BY <1>13 DEF next

\* A block after the tip confirms what it has: _peerRelayedBlock.
LEMMA BlockMinedKeeps == WalletInv /\ BlockMined => WalletInv'
<1> SUFFICES ASSUME WalletInv, BlockMined PROVE WalletInv'
  OBVIOUS
<1> DEFINE n == Len(mined)
           h == n + 1
<1>1. /\ ChainOK(mined) /\ mined \in Seq(Seq(Tx)) /\ n \in Nat /\ DOMAIN mined = 1 .. n
      /\ OwnListed(transactions, allTx, AllAddrs(generated))
  BY DEF WalletInv, ChainOK
<1>2. PICK batch \in Batches :
        /\ Fits(batch) /\ Relayed(batch)
        /\ mined' = Append(mined, batch) /\ UpdateTransactions(batch, h)
  BY DEF BlockMined
<1>3. removing = <<>> /\ n < MaxHeight
  BY DEF BlockMined
<1>4. batch \in Seq(Tx)
  BY BatchSeq
<1>5. ChainOK(mined')
  BY <1>1, <1>2, <1>3, <1>4, ChainGrows
<1>6. /\ DOMAIN mined' = 1 .. n + 1 /\ mined'[n + 1] = batch
      /\ \A g \in 1 .. n : mined'[g] = mined[g]
  BY <1>1, <1>2, <1>4
<1>7. h \in HeightOf /\ h # Unconfirmed
  BY <1>1, <1>3, WalletAssumption, LedgerAssumption DEF HeightOf
<1> HIDE DEF n
<1>8. \A g \in DOMAIN mined : g \in DOMAIN mined' /\ mined'[g] = mined[g]
  BY <1>1, <1>6
<1>9. \A t \in ToSet(batch) : h \in DOMAIN mined' /\ t \in ToSet(mined'[h])
  BY <1>1, <1>6
<1>10. ASSUME NEW g \in DOMAIN mined' \ DOMAIN mined, NEW t \in ToSet(mined'[g]),
              Own(t, AllAddrs(generated)) # {}
       PROVE  t \in Listed /\ t \in ToSet(batch)
  <2>1. g = n + 1 /\ t \in ToSet(batch)
    BY <1>1, <1>6
  <2>2. ContainsTx(t, allTx, AllAddrs(generated))
    BY <1>10 DEF ContainsTx
  <2>3. t \in allTx
    BY <1>2, <2>1, <2>2 DEF Relayed
  <2> QED
    BY <1>1, <1>10, <2>1, <2>3 DEF OwnListed, Listed
<1> HIDE DEF h
<1> QED
  BY <1>2, <1>3, <1>4, <1>5, <1>7, <1>8, <1>9, <1>10, ToldKeeps

\* A block told again, as in a rescan, changes no height but to what it was.
LEMMA BlockAgainKeeps == WalletInv /\ BlockAgain => WalletInv'
<1> SUFFICES ASSUME WalletInv, BlockAgain PROVE WalletInv'
  OBVIOUS
<1>1. ChainOK(mined) /\ mined \in Seq(Seq(Tx)) /\ Len(mined) <= MaxHeight
  BY DEF WalletInv, ChainOK
<1>2. removing = <<>> /\ mined' = mined
  BY DEF BlockAgain
<1>3. PICK h \in DOMAIN mined : UpdateTransactions(mined[h], h)
  BY DEF BlockAgain
<1>4. h \in HeightOf /\ h # Unconfirmed
  BY <1>1, WalletAssumption, LedgerAssumption DEF HeightOf
<1> DEFINE batch == mined[h]
<1>5. batch \in Seq(Tx)
  <2> DEFINE R == Seq(Tx)
  <2>1. mined \in Seq(R)
    BY <1>1
  <2> HIDE DEF R
  <2>2. batch \in R
    BY <2>1
  <2> QED
    BY <2>2 DEF R
<1>6. \A t \in ToSet(batch) : h \in DOMAIN mined' /\ t \in ToSet(mined'[h])
  BY <1>2
<1>7. ChainOK(mined') /\ \A g \in DOMAIN mined : g \in DOMAIN mined' /\ mined'[g] = mined[g]
  BY <1>1, <1>2
<1>8. \A g \in DOMAIN mined' : g \in DOMAIN mined
  BY <1>2
<1>9. UpdateTransactions(batch, h)
  BY <1>3
<1> HIDE DEF batch
<1> QED
  BY <1>2, <1>4, <1>5, <1>6, <1>7, <1>8, <1>9, ToldKeeps

\* An unconfirmed transaction told again by enough peers stays unconfirmed.
LEMMA VerifiedKeeps == WalletInv /\ Verified => WalletInv'
<1> SUFFICES ASSUME WalletInv, Verified PROVE WalletInv'
  OBVIOUS
<1>1. ChainOK(mined) /\ allTx \in SUBSET Tx
  BY DEF WalletInv, ListOK
<1>2. removing = <<>> /\ mined' = mined
  BY DEF Verified
<1>3. PICK t \in allTx : height[t] = Unconfirmed /\ UpdateTransactions(<<t>>, Unconfirmed)
  BY DEF Verified
<1> DEFINE hashes == <<t>>
<1>4. hashes \in Seq(Tx) /\ ToSet(hashes) = {t}
  BY <1>1 DEF ToSet
<1>5. \A u \in ToSet(hashes) : height[u] = Unconfirmed
  BY <1>3, <1>4
<1>6. UpdateTransactions(hashes, Unconfirmed)
  BY <1>3
<1>7. ChainOK(mined') /\ \A g \in DOMAIN mined : g \in DOMAIN mined' /\ mined'[g] = mined[g]
  BY <1>1, <1>2
<1>8. \A g \in DOMAIN mined' : g \in DOMAIN mined
  BY <1>2
<1>9. Unconfirmed \in HeightOf
  BY DEF HeightOf
<1> HIDE DEF hashes
<1> QED
  BY <1>2, <1>4, <1>5, <1>6, <1>7, <1>8, <1>9, ToldKeeps

-----------------------------------------------------------------------------
(* Blocks taken back.                                                        *)

\* The loop from the end of the list finds all that is above h.
LEMMA AboveIs ==
  ASSUME ListOK(transactions, allTx, height), NEW h \in Nat
  PROVE  Above(h) = {t \in Listed : height[t] > h}
<1>1. /\ DOMAIN transactions = 1 .. Len(transactions) /\ Len(transactions) \in Nat
      /\ \A k \in DOMAIN transactions : transactions[k] \in Tx
      /\ height \in [Tx -> HeightOf] /\ Sorted(transactions, height)
  BY DEF ListOK
<1>2. \A t \in Tx : height[t] \in Int
  BY <1>1, WalletAssumption, LedgerAssumption DEF HeightOf
<1>3. ASSUME NEW k \in DOMAIN transactions, height[transactions[k]] > h,
             NEW j \in k .. Len(transactions)
      PROVE  height[transactions[j]] > h
  <2>1. j \in DOMAIN transactions /\ (j = k \/ k < j)
    BY <1>1
  <2>2. height[transactions[k]] <= height[transactions[j]]
    BY <1>1, <1>2, <2>1 DEF Sorted
  <2> QED
    BY <1>1, <1>2, <1>3, <2>1, <2>2
<1>4. \A k \in DOMAIN transactions : k \in k .. Len(transactions)
  BY <1>1
<1> QED
  BY <1>3, <1>4 DEF Above, Listed, ToSet

\* A chain cut off is one.
LEMMA ChainCut ==
  ASSUME ChainOK(mined), NEW h \in 0 .. Len(mined), mined' = SubSeq(mined, 1, h)
  PROVE  ChainOK(mined') /\ DOMAIN mined' = 1 .. h /\ \A g \in 1 .. h : mined'[g] = mined[g]
<1> DEFINE n == Len(mined)
           cut == SubSeq(mined, 1, h)
<1>1. /\ mined \in Seq(Seq(Tx)) /\ n \in Nat /\ DOMAIN mined = 1 .. n /\ n <= MaxHeight
      /\ \A g, i \in DOMAIN mined : ToSet(mined[g]) \cap ToSet(mined[i]) # {} => g = i
      /\ \A g, i \in DOMAIN mined : \A t \in ToSet(mined[g]), u \in ToSet(mined[i]) :
           t # u => Inputs[t] \cap Inputs[u] = {}
      /\ \A i \in DOMAIN mined : \A t \in ToSet(mined[i]) : \A p \in Parents(t) \cap Tx :
           \E g \in 1 .. i : p \in ToSet(mined[g])
  BY DEF ChainOK
<1>2. h \in 0 .. n
  OBVIOUS
<1>3. /\ cut \in Seq(Seq(Tx)) /\ Len(cut) = h /\ DOMAIN cut = 1 .. h
      /\ \A g \in 1 .. h : cut[g] = mined[g]
  <2> DEFINE R == Seq(Tx)
  <2>1. mined \in Seq(R)
    BY <1>1
  <2> HIDE DEF R
  <2>2. /\ cut \in Seq(R) /\ Len(cut) = h /\ DOMAIN cut = 1 .. h
        /\ \A g \in 1 .. h : cut[g] = mined[g]
    BY <1>1, <1>2, <2>1
  <2> QED
    BY <2>2 DEF R
<1> HIDE DEF n, cut
<1>4. \A g \in 1 .. h : g \in DOMAIN mined
  BY <1>1, <1>2
<1>5. h <= MaxHeight
  BY <1>1, <1>2, WalletAssumption
<1>6. \A g, i \in 1 .. h : ToSet(cut[g]) \cap ToSet(cut[i]) # {} => g = i
  BY <1>1, <1>3, <1>4
<1>7. ASSUME NEW g \in 1 .. h, NEW i \in 1 .. h, NEW t \in ToSet(cut[g]), NEW u \in ToSet(cut[i]), t # u
      PROVE  Inputs[t] \cap Inputs[u] = {}
  <2>1. t \in ToSet(mined[g]) /\ u \in ToSet(mined[i]) /\ g \in DOMAIN mined /\ i \in DOMAIN mined
    BY <1>3, <1>4
  <2> QED
    BY <1>1, <1>7, <2>1
<1>8. ASSUME NEW i \in 1 .. h, NEW t \in ToSet(cut[i]), NEW p \in Parents(t) \cap Tx
      PROVE  \E g \in 1 .. i : p \in ToSet(cut[g])
  <2>1. PICK g \in 1 .. i : p \in ToSet(mined[g])
    BY <1>1, <1>3, <1>4
  <2>2. g \in 1 .. h
    BY <1>2
  <2> QED
    BY <1>3, <2>1, <2>2
<1>9. ChainOK(cut)
  BY <1>3, <1>5, <1>6, <1>7, <1>8 DEF ChainOK
<1> QED
  BY <1>3, <1>9 DEF cut

\* LWWalletSetTxUnconfirmedAfter takes the heights back of exactly the blocks
\* that leave the chain.
LEMMA ReorganizedKeeps == WalletInv /\ Reorganized => WalletInv'
<1> SUFFICES ASSUME WalletInv, Reorganized PROVE WalletInv'
  OBVIOUS
<1> DEFINE addrs == AllAddrs(generated)
<1>1. /\ ListOK(transactions, allTx, height) /\ OwnListed(transactions, allTx, addrs)
      /\ generated \in [Chains -> Nat] /\ ChainOK(mined)
      /\ InBlock(transactions, height, mined)
      /\ MinedConfirmed(transactions, height, mined, addrs)
      /\ LedgerOK(ledger, transactions, height, addrs)
  BY DEF WalletInv
<1>2. /\ transactions \in Seq(Tx) /\ IsInjective(transactions) /\ Sorted(transactions, height)
      /\ allTx \in SUBSET Tx /\ Listed \subseteq allTx /\ height \in [Tx -> HeightOf]
      /\ \A t \in Tx \ allTx : height[t] = Unconfirmed
  BY <1>1 DEF ListOK, Listed
<1>3. PICK h \in 0 .. Len(mined) - 1 :
        mined' = SubSeq(mined, 1, h) /\ SetTxUnconfirmedAfter(h)
  BY DEF Reorganized
<1>4. Len(mined) \in Nat /\ DOMAIN mined = 1 .. Len(mined) /\ h \in Nat /\ h \in 0 .. Len(mined)
      /\ Len(mined) <= MaxHeight
  BY <1>1 DEF ChainOK
<1> DEFINE heights == [t \in Tx |-> IF t \in Above(h) THEN Unconfirmed ELSE height[t]]
<1>5. /\ height' = heights /\ blockHeight' = h /\ removing = <<>>
      /\ ledger' = IF Above(h) = {} THEN ledger
                   ELSE UpdateBalance(transactions, heights, h, generated)
      /\ UNCHANGED <<transactions, allTx, generated, removing>>
  BY <1>3 DEF SetTxUnconfirmedAfter, Reorganized
<1>6. ChainOK(mined') /\ DOMAIN mined' = 1 .. h /\ \A g \in 1 .. h : mined'[g] = mined[g]
  BY <1>1, <1>3, <1>4, ChainCut
<1>7. /\ \A t \in Tx : height[t] \in Int /\ height[t] <= Unconfirmed
      /\ Unconfirmed \in Int /\ h < Unconfirmed
  BY <1>2, <1>4, WalletAssumption, LedgerAssumption DEF HeightOf
<1>8. Above(h) = {t \in Listed : height[t] > h}
  BY <1>1, <1>4, AboveIs
<1>9. heights \in [Tx -> HeightOf]
  BY <1>2 DEF HeightOf
<1>10. /\ \A t \in Listed : heights[t] = IF height[t] > h THEN Unconfirmed ELSE height[t]
       /\ \A t \in Tx \ Listed : heights[t] = height[t]
  BY <1>2, <1>8
<1> HIDE DEF heights, addrs
<1>11. Sorted(transactions, heights)
  <2> SUFFICES ASSUME NEW i \in DOMAIN transactions, NEW j \in DOMAIN transactions, i < j
               PROVE  heights[transactions[i]] <= heights[transactions[j]]
    BY DEF Sorted
  <2> DEFINE t == transactions[i]
             u == transactions[j]
  <2>1. t \in Listed /\ u \in Listed /\ t \in Tx /\ u \in Tx /\ height[t] <= height[u]
    BY <1>2 DEF Listed, ToSet, Sorted
  <2> HIDE DEF t, u
  <2>2. heights[t] <= heights[u]
    BY <1>4, <1>7, <1>10, <2>1
  <2> QED
    BY <2>2 DEF t, u
<1>12. \A t \in Tx \ allTx : heights[t] = Unconfirmed
  BY <1>2, <1>10
<1>13. ListOK(transactions, allTx, heights)
  BY <1>2, <1>9, <1>11, <1>12 DEF ListOK, Listed
<1>14. InBlock(transactions, heights, mined')
  <2> SUFFICES ASSUME NEW t \in Listed, heights[t] # Unconfirmed
               PROVE  heights[t] \in DOMAIN mined' /\ t \in ToSet(mined'[heights[t]])
    BY DEF InBlock, Listed
  <2>1. heights[t] = height[t] /\ ~ (height[t] > h) /\ height[t] \in Int
    BY <1>2, <1>7, <1>10
  <2>2. height[t] \in DOMAIN mined /\ t \in ToSet(mined[height[t]])
    BY <1>1, <2>1 DEF InBlock, Listed
  <2>3. height[t] \in 1 .. h
    BY <1>4, <2>1, <2>2
  <2> QED
    BY <1>6, <2>1, <2>2, <2>3
<1>15. MinedConfirmed(transactions, heights, mined', addrs)
  <2> SUFFICES ASSUME NEW g \in 1 .. h, NEW t \in ToSet(mined[g]), Own(t, addrs) # {}
               PROVE  t \in Listed /\ heights[t] # Unconfirmed
    BY <1>6 DEF MinedConfirmed, Listed
  <2>1. g \in DOMAIN mined
    BY <1>4
  <2>2. t \in Listed /\ height[t] # Unconfirmed
    BY <1>1, <2>1 DEF MinedConfirmed, Listed
  <2>3. height[t] \in DOMAIN mined /\ t \in ToSet(mined[height[t]])
    BY <1>1, <2>2 DEF InBlock, Listed
  <2>4. height[t] = g
    BY <1>1, <2>1, <2>3 DEF ChainOK
  <2>5. ~ (height[t] > h)
    BY <1>4, <2>4
  <2> QED
    BY <1>10, <2>2, <2>5
<1>16. LedgerOK(ledger', transactions, heights, addrs)
  <2>1. CASE Above(h) = {}
    <3>1. \A t \in Listed : heights[t] = height[t]
      BY <1>8, <1>10, <2>1
    <3>2. ledger.invalidTx \subseteq Listed
      BY <1>1 DEF LedgerOK, Listed
    <3>3. \A t \in ledger.invalidTx : heights[t] = height[t]
      BY <3>1, <3>2
    <3>4. LedgerOK(ledger, transactions, heights, addrs)
      BY <1>1, <3>3, LedgerKept
    <3> QED
      BY <1>5, <2>1, <3>4
  <2>2. CASE Above(h) # {}
    <3>1. Apart(transactions, heights)
      BY <1>6, <1>14, ChainApart
    <3>2. ledger' = UpdateBalance(transactions, heights, h, generated)
      BY <1>5, <2>2
    <3> QED
      BY <1>2, <1>9, <1>11, <3>1, <3>2, LedgerRecomputed DEF addrs
  <2> QED
    BY <2>1, <2>2
<1>17. RemovingUnconfirmed(removing', height')
  BY <1>5 DEF RemovingUnconfirmed
<1>18. AllAddrs(generated)' = addrs
  BY <1>5 DEF AllAddrs, addrs
<1> QED
  BY <1>1, <1>4, <1>5, <1>6, <1>13, <1>14, <1>15, <1>16, <1>17, <1>18 DEF WalletInv

-----------------------------------------------------------------------------
(* Transactions removed.                                                     *)

Spender(s, k, m, t) ==
  IF k > m /\ transactions[k] # t /\ t \in Parents(transactions[k])
  THEN Append(s, transactions[k]) ELSE s

Spends(f, n, m, t) ==
  f = [k \in 0 .. n |->
         IF k = 0 THEN <<>>
         ELSE Spender(f[k - 1], k, m, t)]

\* The values of the function that goes through the list.
LEMMA SpendsValue ==
  ASSUME NEW n \in Nat, NEW m, NEW t, NEW f, Spends(f, n, m, t)
  PROVE  /\ f[0] = <<>>
         /\ \A k \in 0 .. n - 1 :
              f[k + 1] = Spender(f[k], k + 1, m, t)
<1> DEFINE g == [k \in 0 .. n |->
                   IF k = 0 THEN <<>>
                   ELSE Spender(f[k - 1], k, m, t)]
<1>1. f = g
  BY DEF Spends
<1>2. g[0] = <<>>
  OBVIOUS
<1>3. ASSUME NEW k \in 0 .. n - 1
      PROVE  g[k + 1] = Spender(f[k], k + 1, m, t)
  <2>1. k + 1 \in 0 .. n /\ k + 1 # 0 /\ (k + 1) - 1 = k
    OBVIOUS
  <2>2. g[k + 1] = Spender(f[(k + 1) - 1], k + 1, m, t)
    BY <2>1
  <2> HIDE DEF g
  <2> QED
    BY <2>1, <2>2
<1> HIDE DEF g
<1> QED
  BY <1>1, <1>2, <1>3

\* There is one.
LEMMA SpendsExist ==
  ASSUME NEW n \in Nat, NEW m, NEW t
  PROVE  \E f : Spends(f, n, m, t)
<1> DEFINE P == {k \in 0 .. n : \E f : Spends(f, k, m, t)}
           Step(w, k) == Spender(w, k, m, t)
<1>1. 0 \in P
  <2> DEFINE f == [k \in {0} |-> <<>>]
  <2>1. 0 .. 0 = {0} /\ 0 \in 0 .. n
    OBVIOUS
  <2>2. f = [k \in 0 .. 0 |-> IF k = 0 THEN <<>> ELSE Step(f[k - 1], k)]
    BY <2>1
  <2>3. Spends(f, 0, m, t)
    BY <2>2 DEF Spends
  <2> QED
    BY <2>1, <2>3
<1>2. ASSUME NEW k \in 0 .. n - 1, k \in P PROVE k + 1 \in P
  <2>1. PICK f : Spends(f, k, m, t)
    BY <1>2
  <2>2. k \in Nat /\ k + 1 \in 0 .. n
    OBVIOUS
  <2>3. f[0] = <<>> /\ \A j \in 0 .. k - 1 : f[j + 1] = Step(f[j], j + 1)
    BY <2>1, <2>2, SpendsValue
  <2> DEFINE g == [j \in 0 .. k + 1 |-> IF j <= k THEN f[j] ELSE Step(f[k], k + 1)]
             e(j) == IF j = 0 THEN <<>> ELSE Step(g[j - 1], j)
  <2>4. ASSUME NEW j \in 0 .. k + 1 PROVE g[j] = e(j)
    <3>1. CASE j = 0
      BY <2>2, <2>3, <3>1
    <3>2. CASE j # 0
      <4>1. j - 1 \in 0 .. k /\ j - 1 \in 0 .. k + 1 /\ j - 1 <= k /\ (j - 1) + 1 = j
        BY <2>2, <3>2
      <4>2. g[j - 1] = f[j - 1]
        BY <4>1
      <4>3. CASE j <= k
        <5>1. j - 1 \in 0 .. k - 1
          BY <2>2, <3>2, <4>3
        <5>2. f[j] = Step(f[j - 1], j)
          <6> HIDE DEF g, Step
          <6> QED
            BY <2>3, <4>1, <5>1
        <5>3. g[j] = f[j]
          BY <4>3
        <5> HIDE DEF g, Step
        <5> QED
          BY <3>2, <4>2, <5>2, <5>3
      <4>4. CASE ~ (j <= k)
        <5>1. j = k + 1 /\ j - 1 = k
          BY <2>2, <4>4
        <5>2. g[j] = Step(f[k], k + 1)
          BY <2>2, <4>4
        <5> HIDE DEF g, Step
        <5> QED
          BY <3>2, <4>2, <5>1, <5>2
      <4> QED
        BY <4>3, <4>4
    <3> QED
      BY <3>1, <3>2
  <2>5. g = [j \in 0 .. k + 1 |-> e(j)]
    <3>1. g = [j \in 0 .. k + 1 |-> g[j]]
      OBVIOUS
    <3> HIDE DEF g, e
    <3> QED
      BY <2>4, <3>1
  <2>6. Spends(g, k + 1, m, t)
    <3> HIDE DEF g
    <3> QED
      BY <2>5 DEF Spends
  <2> HIDE DEF g
  <2> QED
    BY <2>2, <2>6
<1>3. \A k \in 0 .. n : k \in P
  <2> HIDE DEF P
  <2> QED
    BY <1>1, <1>2, Induct
<1>4. n \in P
  BY <1>3
<1> QED
  BY <1>4

\* What SpendersAfter finds: those after the first m that spend from t, and all
\* of them if it finds none.
LEMMA SpendersFacts ==
  ASSUME transactions \in Seq(Tx), NEW m \in Nat, NEW t \in Tx
  PROVE  LET s == SpendersAfter(m, t) IN
         /\ s \in Seq(Tx)
         /\ \A i \in DOMAIN s : \E k \in DOMAIN transactions : k > m /\ s[i] = transactions[k]
         /\ s = <<>> => \A k \in DOMAIN transactions : k > m => t \notin Parents(transactions[k])
<1> DEFINE n == Len(transactions)
           found == SpendersAfter(m, t)
           f == CHOOSE f : Spends(f, n, m, t)
           OK(s, k) ==
             /\ s \in Seq(Tx)
             /\ \A i \in DOMAIN s : \E j \in 1 .. n : j > m /\ s[i] = transactions[j]
             /\ s = <<>> => \A j \in 1 .. k : j > m => t \notin Parents(transactions[j])
           P == {k \in 0 .. n : OK(f[k], k)}
<1>1. n \in Nat /\ DOMAIN transactions = 1 .. n /\ \A k \in 1 .. n : transactions[k] \in Tx
  OBVIOUS
<1>2. found = f[n]
  BY DEF SpendersAfter, Spends, Spender
<1>3. Spends(f, n, m, t)
  BY <1>1, SpendsExist
<1> HIDE DEF f
<1>4. f[0] = <<>> /\ \A k \in 0 .. n - 1 : f[k + 1] = Spender(f[k], k + 1, m, t)
  <2> HIDE DEF n
  <2> QED
    BY <1>1, <1>3, SpendsValue
<1> HIDE DEF n
<1>5. 0 \in P
  <2>1. OK(<<>>, 0)
    OBVIOUS
  <2>2. OK(f[0], 0) /\ 0 \in 0 .. n
    BY <1>1, <1>4, <2>1
  <2> QED
    BY <2>2
<1>6. ASSUME NEW k \in 0 .. n - 1, k \in P PROVE k + 1 \in P
  <2> DEFINE u == transactions[k + 1]
             s == f[k]
             r == f[k + 1]
  <2>1. k \in Nat /\ k + 1 \in 1 .. n /\ k + 1 \in 0 .. n /\ 1 .. k + 1 = 1 .. k \cup {k + 1}
    BY <1>1
  <2>2. /\ s \in Seq(Tx)
        /\ \A i \in DOMAIN s : \E j \in 1 .. n : j > m /\ s[i] = transactions[j]
        /\ s = <<>> => \A j \in 1 .. k : j > m => t \notin Parents(transactions[j])
    BY <1>6
  <2>3. u \in Tx
    BY <1>1, <2>1
  <2>4. r = IF k + 1 > m /\ u # t /\ t \in Parents(u) THEN Append(s, u) ELSE s
    BY <1>4 DEF Spender
  <2>5. t \notin Parents(t)
    BY LedgerAssumption
  <2> HIDE DEF s, r
  <2>6. CASE k + 1 > m /\ u # t /\ t \in Parents(u)
    <3>1. r = Append(s, u)
      BY <2>4, <2>6
    <3>2. /\ r \in Seq(Tx) /\ Len(r) = Len(s) + 1 /\ r # <<>> /\ DOMAIN r = 1 .. Len(s) + 1
          /\ r[Len(s) + 1] = u /\ Len(s) \in Nat /\ DOMAIN s = 1 .. Len(s)
          /\ \A i \in 1 .. Len(s) : r[i] = s[i]
      <4> HIDE DEF u
      <4> QED
        BY <2>2, <2>3, <3>1
    <3>3. ASSUME NEW i \in DOMAIN r PROVE \E j \in 1 .. n : j > m /\ r[i] = transactions[j]
      <4>1. CASE i = Len(s) + 1
        BY <2>1, <2>6, <3>2, <4>1
      <4>2. CASE i # Len(s) + 1
        <5>1. i \in DOMAIN s /\ r[i] = s[i]
          BY <3>2, <4>2
        <5> QED
          BY <2>2, <5>1
      <4> QED
        BY <4>1, <4>2
    <3>4. OK(r, k + 1)
      BY <3>2, <3>3
    <3> QED
      BY <2>1, <3>4 DEF r
  <2>7. CASE ~ (k + 1 > m /\ u # t /\ t \in Parents(u))
    <3>1. r = s
      BY <2>4, <2>7
    <3>2. k + 1 > m => t \notin Parents(u)
      BY <2>5, <2>7
    <3>3. OK(r, k + 1)
      BY <2>1, <2>2, <3>1, <3>2
    <3> QED
      BY <2>1, <3>3 DEF r
  <2> QED
    BY <2>6, <2>7
<1>7. \A k \in 0 .. n : k \in P
  <2> HIDE DEF P
  <2> QED
    BY <1>1, <1>5, <1>6, Induct
<1>8. OK(f[n], n)
  BY <1>1, <1>7
<1>9. OK(found, n)
  BY <1>2, <1>8
<1> HIDE DEF found
<1>10. /\ found \in Seq(Tx)
       /\ \A i \in DOMAIN found : \E k \in DOMAIN transactions : k > m /\ found[i] = transactions[k]
       /\ found = <<>> => \A k \in DOMAIN transactions : k > m => t \notin Parents(transactions[k])
  BY <1>1, <1>9
<1> QED
  BY <1>10 DEF found

\* What depends on an unconfirmed transaction and is looked at is unconfirmed.
LEMMA DependentsFacts ==
  ASSUME ListOK(transactions, allTx, height), NEW t \in Tx, height[t] = Unconfirmed
  PROVE  /\ Dependents(t) \in Seq(Tx)
         /\ \A i \in DOMAIN Dependents(t) : height[Dependents(t)[i]] = Unconfirmed
         /\ Dependents(t) = <<>> =>
              \A u \in Listed : height[u] = Unconfirmed => t \notin Parents(u)
<1> DEFINE below == {i \in DOMAIN transactions : height[transactions[i]] < height[t]}
           B == below \cup {0}
           m == Max(B)
           s == SpendersAfter(m, t)
<1>1. /\ transactions \in Seq(Tx) /\ height \in [Tx -> HeightOf]
      /\ DOMAIN transactions = 1 .. Len(transactions) /\ Len(transactions) \in Nat
      /\ \A k \in DOMAIN transactions : transactions[k] \in Tx
      /\ Sorted(transactions, height)
  BY DEF ListOK
<1>2. \A u \in Tx : height[u] \in Int /\ height[u] <= Unconfirmed /\ Unconfirmed \in Int
  BY <1>1, WalletAssumption, LedgerAssumption DEF HeightOf
<1>3. m \in B /\ \A k \in B : k <= m
  <2>1. B \in SUBSET Int /\ B # {} /\ Len(transactions) \in Int /\ \A k \in B : k <= Len(transactions)
    BY <1>1
  <2> HIDE DEF B
  <2> QED
    BY <2>1, MaxOf
<1>4. Dependents(t) = s
  BY DEF Dependents
<1> HIDE DEF m
<1>5. m \in Nat
  BY <1>1, <1>3
<1>6. /\ s \in Seq(Tx)
      /\ \A i \in DOMAIN s : \E k \in DOMAIN transactions : k > m /\ s[i] = transactions[k]
      /\ s = <<>> => \A k \in DOMAIN transactions : k > m => t \notin Parents(transactions[k])
  BY <1>1, <1>5, SpendersFacts
<1> HIDE DEF s
<1>7. ASSUME NEW k \in DOMAIN transactions, k > m PROVE height[transactions[k]] = Unconfirmed
  <2>1. k \notin below
    BY <1>1, <1>3, <1>5, <1>7
  <2>2. ~ (height[transactions[k]] < Unconfirmed)
    BY <2>1
  <2> QED
    BY <1>1, <1>2, <2>2
<1>8. ASSUME NEW k \in DOMAIN transactions, height[transactions[k]] = Unconfirmed PROVE k > m
  <2>1. SUFFICES ASSUME k <= m PROVE FALSE
    BY <1>1, <1>5
  <2>2. m \in below
    BY <1>1, <1>3, <2>1
  <2>3. m \in DOMAIN transactions /\ height[transactions[m]] < Unconfirmed
    BY <2>2
  <2>4. height[transactions[k]] <= height[transactions[m]]
    <3>1. k = m \/ k < m
      BY <1>1, <1>5, <2>1
    <3> QED
      BY <1>1, <1>2, <2>3, <3>1 DEF Sorted
  <2> QED
    BY <1>1, <1>2, <1>8, <2>3, <2>4
<1>9. \A i \in DOMAIN s : height[s[i]] = Unconfirmed
  BY <1>6, <1>7
<1>10. s = <<>> => \A u \in Listed : height[u] = Unconfirmed => t \notin Parents(u)
  BY <1>6, <1>8 DEF Listed, ToSet
<1> QED
  BY <1>4, <1>6, <1>9, <1>10

\* The call of LWWalletRemoveTransaction for an unconfirmed transaction.
LEMMA RemoveTransactionKeeps ==
  ASSUME WalletInv, NEW t \in Tx, RemoveTransaction(t)
  PROVE  WalletInv'
<1>1. /\ removing' = <<t>> /\ height[t] = Unconfirmed
      /\ UNCHANGED <<transactions, allTx, height, blockHeight, ledger, generated, mined>>
  BY DEF RemoveTransaction
<1>2. RemovingUnconfirmed(removing', height')
  <2> DEFINE s == <<t>>
  <2>1. s \in Seq(Tx) /\ \A i \in DOMAIN s : s[i] = t
    OBVIOUS
  <2> HIDE DEF s
  <2>2. RemovingUnconfirmed(s, height)
    BY <1>1, <2>1 DEF RemovingUnconfirmed
  <2> QED
    BY <1>1, <2>2 DEF s
<1> QED
  BY <1>1, <1>2 DEF WalletInv, AllAddrs

\* The end of what is still to be removed.
LEMMA TailUnconfirmed ==
  ASSUME NEW s, s # <<>>, NEW heights, RemovingUnconfirmed(s, heights)
  PROVE  /\ Head(s) \in Tx /\ heights[Head(s)] = Unconfirmed
         /\ RemovingUnconfirmed(Tail(s), heights)
<1>1. s \in Seq(Tx) /\ Len(s) \in Nat /\ Len(s) > 0 /\ DOMAIN s = 1 .. Len(s)
  BY DEF RemovingUnconfirmed
<1>2. Head(s) = s[1] /\ 1 \in DOMAIN s /\ s[1] \in Tx
  BY <1>1
<1>3. /\ Tail(s) \in Seq(Tx) /\ DOMAIN Tail(s) = 1 .. Len(s) - 1
      /\ \A i \in 1 .. Len(s) - 1 : Tail(s)[i] = s[i + 1] /\ i + 1 \in DOMAIN s
  BY <1>1
<1> QED
  BY <1>2, <1>3 DEF RemovingUnconfirmed

\* LWWalletRemoveTransaction for one that is gone by then.
LEMMA RemoveNothingKeeps == WalletInv /\ RemoveNothing => WalletInv'
<1> SUFFICES ASSUME WalletInv, RemoveNothing PROVE WalletInv'
  OBVIOUS
<1>1. /\ removing # <<>> /\ removing' = Tail(removing)
      /\ UNCHANGED <<transactions, allTx, height, blockHeight, ledger, generated, mined>>
  BY DEF RemoveNothing
<1>2. RemovingUnconfirmed(removing, height)
  BY DEF WalletInv
<1>3. RemovingUnconfirmed(removing', height')
  BY <1>1, <1>2, TailUnconfirmed
<1> QED
  BY <1>1, <1>3 DEF WalletInv, AllAddrs

\* LWWalletRemoveTransaction calls itself for those that depend, which are
\* unconfirmed too.
LEMMA RemoveDependentsKeeps == WalletInv /\ RemoveDependents => WalletInv'
<1> SUFFICES ASSUME WalletInv, RemoveDependents PROVE WalletInv'
  OBVIOUS
<1> DEFINE t == Head(removing)
           s == Dependents(t)
<1>1. /\ removing # <<>> /\ removing' = s \o removing
      /\ UNCHANGED <<transactions, allTx, height, blockHeight, ledger, generated, mined>>
  BY DEF RemoveDependents
<1>2. RemovingUnconfirmed(removing, height) /\ ListOK(transactions, allTx, height)
  BY DEF WalletInv
<1>3. t \in Tx /\ height[t] = Unconfirmed
  BY <1>1, <1>2, TailUnconfirmed
<1>4. s \in Seq(Tx) /\ \A i \in DOMAIN s : height[s[i]] = Unconfirmed
  BY <1>2, <1>3, DependentsFacts
<1> HIDE DEF s
<1>5. removing \in Seq(Tx) /\ \A i \in DOMAIN removing : height[removing[i]] = Unconfirmed
  BY <1>2 DEF RemovingUnconfirmed
<1> DEFINE r == s \o removing
<1>6. r \in Seq(Tx) /\ Len(r) = Len(s) + Len(removing)
      /\ \A i \in 1 .. Len(s) + Len(removing) :
           r[i] = IF i <= Len(s) THEN s[i] ELSE removing[i - Len(s)]
  BY <1>4, <1>5, ConcatProperties
<1> HIDE DEF r
<1>7. Len(s) \in Nat /\ Len(removing) \in Nat
  BY <1>4, <1>5
<1>8. \A i \in DOMAIN r : height[r[i]] = Unconfirmed
  <2> SUFFICES ASSUME NEW i \in 1 .. Len(s) + Len(removing) PROVE height[r[i]] = Unconfirmed
    BY <1>6
  <2>1. CASE i <= Len(s)
    <3>1. i \in DOMAIN s /\ r[i] = s[i]
      BY <1>4, <1>6, <1>7, <2>1
    <3> QED
      BY <1>4, <3>1
  <2>2. CASE ~ (i <= Len(s))
    <3>1. i - Len(s) \in DOMAIN removing /\ r[i] = removing[i - Len(s)]
      BY <1>5, <1>6, <1>7, <2>2
    <3> QED
      BY <1>5, <3>1
  <2> QED
    BY <2>1, <2>2
<1>9. RemovingUnconfirmed(removing', height')
  BY <1>1, <1>6, <1>8 DEF RemovingUnconfirmed, r
<1> QED
  BY <1>1, <1>9 DEF WalletInv, AllAddrs

\* LWWalletRemoveTransaction takes out one that nothing in the list depends on:
\* what spends from it and is confirmed is the wallet's for another reason.
LEMMA RemoveOneKeeps == WalletInv /\ RemoveOne => WalletInv'
<1> SUFFICES ASSUME WalletInv, RemoveOne PROVE WalletInv'
  OBVIOUS
<1> DEFINE t == Head(removing)
           addrs == AllAddrs(generated)
           list == RemoveFirst(transactions, t)
           all == allTx \ {t}
<1>1. /\ ListOK(transactions, allTx, height) /\ OwnListed(transactions, allTx, addrs)
      /\ blockHeight \in Nat /\ generated \in [Chains -> Nat] /\ ChainOK(mined)
      /\ InBlock(transactions, height, mined)
      /\ MinedConfirmed(transactions, height, mined, addrs)
      /\ RemovingUnconfirmed(removing, height)
  BY DEF WalletInv
<1>2. /\ transactions \in Seq(Tx) /\ IsInjective(transactions) /\ Sorted(transactions, height)
      /\ allTx \in SUBSET Tx /\ Listed \subseteq allTx /\ height \in [Tx -> HeightOf]
      /\ \A u \in Tx \ allTx : height[u] = Unconfirmed
  BY <1>1 DEF ListOK, Listed
<1>3. /\ removing # <<>> /\ t \in allTx /\ Dependents(t) = <<>>
      /\ removing' = Tail(removing) /\ allTx' = all /\ transactions' = list
      /\ height' = Freed(height, t)
      /\ ledger' = UpdateBalance(list, height, blockHeight, generated)
      /\ UNCHANGED <<blockHeight, generated, mined>>
  BY DEF RemoveOne
<1>4. t \in Tx /\ height[t] = Unconfirmed /\ RemovingUnconfirmed(Tail(removing), height)
  BY <1>1, <1>3, TailUnconfirmed
<1> HIDE DEF t, addrs
<1>5. height' = height
  BY <1>2, <1>3, <1>4 DEF Freed
<1>6. /\ list \in Seq(Tx) /\ IsInjective(list)
      /\ ToSet(list) = Listed \ {t} /\ Sorted(list, height)
  BY <1>2, RemoveFirstKeeps DEF Listed
<1> HIDE DEF list
<1>7. ListOK(list, all, height)
  BY <1>2, <1>4, <1>6 DEF ListOK
<1>8. \A u \in Listed : height[u] = Unconfirmed => t \notin Parents(u)
  BY <1>1, <1>3, <1>4, DependentsFacts
<1>9. ASSUME NEW u \in Listed, height[u] # Unconfirmed, t \in Parents(u) PROVE Own(t, addrs) = {}
  <2>1. height[u] \in DOMAIN mined /\ u \in ToSet(mined[height[u]])
    BY <1>1, <1>9 DEF InBlock, Listed
  <2>2. PICK g \in 1 .. height[u] : t \in ToSet(mined[g])
    BY <1>1, <1>4, <1>9, <2>1 DEF ChainOK
  <2>3. g \in DOMAIN mined
    <3>1. DOMAIN mined = 1 .. Len(mined) /\ Len(mined) \in Nat
      BY <1>1 DEF ChainOK
    <3> QED
      BY <2>1, <2>2, <3>1
  <2> QED
    BY <1>1, <1>4, <2>2, <2>3 DEF MinedConfirmed
<1>10. OwnListed(list, all, addrs)
  <2>1. \A u \in all : Own(u, addrs) # {} => u \in ToSet(list)
    BY <1>1, <1>6 DEF OwnListed, Listed
  <2>2. ASSUME NEW u \in ToSet(list) PROVE ContainsTx(u, all, addrs)
    <3>1. u \in Listed /\ u # t
      BY <1>6
    <3>2. ContainsTx(u, allTx, addrs)
      BY <1>1, <3>1 DEF OwnListed, Listed
    <3>3. t \in Parents(u) => Own(t, addrs) = {}
      BY <1>8, <1>9, <3>1
    <3>4. \A o \in Inputs[u] : o \in Own(o.hash, addrs) => o.hash # t
      BY <3>3 DEF Parents
    <3> QED
      BY <3>2, <3>4 DEF ContainsTx
  <2> QED
    BY <2>1, <2>2 DEF OwnListed
<1>11. InBlock(list, height, mined)
  BY <1>1, <1>6 DEF InBlock, Listed
<1>12. MinedConfirmed(list, height, mined, addrs)
  BY <1>1, <1>4, <1>6 DEF MinedConfirmed, Listed
<1>13. LedgerOK(ledger', list, height, addrs)
  <2>1. Apart(list, height)
    BY <1>1, <1>11, ChainApart
  <2> QED
    BY <1>2, <1>3, <1>6, <2>1, LedgerRecomputed DEF addrs
<1>14. AllAddrs(generated)' = addrs
  BY <1>3 DEF AllAddrs, addrs
<1> HIDE DEF all
<1> QED
  BY <1>1, <1>3, <1>4, <1>5, <1>7, <1>10, <1>11, <1>12, <1>13, <1>14 DEF WalletInv

-----------------------------------------------------------------------------
(* The addresses.                                                            *)

\* The lengths of the chains that unusedAddrs makes.
LEMMA UnusedAddrsType ==
  ASSUME NEW used, NEW b \in Nat, Below(used, b), NEW c \in Chains, NEW n \in Nat, NEW gap \in Nat
  PROVE  UnusedAddrs(c, n, used, gap) \in Nat
<1> DEFINE indexes == {a[2] : a \in {x \in used \ {Elsewhere} : x[1] = c}}
           I == indexes \cup {0}
           top == n + gap + Max(I) + 1
           S == {k \in n .. top : FirstUnused(c, k, used) + gap <= k}
<1>1. \A a \in used \ {Elsewhere} : a \in Chains \X (0 .. b)
  BY DEF Below
<1>2. \A a \in used \ {Elsewhere} : a[2] \in 0 .. b
  BY <1>1
<1>3. I \in SUBSET Nat /\ 0 \in I /\ \A i \in I : i <= b
  BY <1>2
<1>4. Max(I) \in I /\ \A i \in I : i <= Max(I)
  <2>1. I \in SUBSET Int /\ I # {} /\ b \in Int
    BY <1>3
  <2> HIDE DEF I
  <2> QED
    BY <1>3, <2>1, MaxOf
<1>5. \A i \in Nat : <<c, i>> \in used => i \in I
  <2> SUFFICES ASSUME NEW i \in Nat, <<c, i>> \in used PROVE i \in indexes
    OBVIOUS
  <2>1. <<c, i>> # Elsewhere
    BY LedgerAssumption
  <2>2. <<c, i>>[1] = c /\ <<c, i>>[2] = i
    OBVIOUS
  <2> QED
    BY <2>1, <2>2
<1> DEFINE m == Max(I)
<1>6. m \in Nat /\ \A i \in I : i <= m
  BY <1>3, <1>4
<1> HIDE DEF I, m
<1>7. top \in Nat /\ top = n + gap + m + 1
  BY <1>6 DEF m
<1>8. FirstUnused(c, top, used) \in Int /\ FirstUnused(c, top, used) <= m + 1
  <2> DEFINE F == {i + 1 : i \in {k \in 0 .. top - 1 : <<c, k>> \in used}} \cup {0}
  <2>1. \A x \in F : x \in Int /\ x <= m + 1
    <3> HIDE DEF top
    <3>1. \A k \in 0 .. top - 1 : <<c, k>> \in used => k \in Nat /\ k <= m
      BY <1>5, <1>6, <1>7
    <3>2. \A x \in F : x = 0 \/ \E k \in 0 .. top - 1 : <<c, k>> \in used /\ x = k + 1
      OBVIOUS
    <3> HIDE DEF F
    <3>3. ASSUME NEW x \in F PROVE x \in Int /\ x <= m + 1
      <4>1. CASE x = 0
        BY <1>6, <4>1
      <4>2. CASE x # 0
        <5>1. PICK k \in 0 .. top - 1 : <<c, k>> \in used /\ x = k + 1
          BY <3>2, <4>2
        <5>2. k \in Nat /\ k <= m
          BY <3>1, <5>1
        <5> QED
          BY <1>6, <5>1, <5>2
      <4> QED
        BY <4>1, <4>2
    <3> QED
      BY <3>3
  <2>2. F \in SUBSET Int /\ F # {} /\ m + 1 \in Int
    BY <1>6, <2>1
  <2>3. Max(F) \in F
    <3> HIDE DEF F
    <3> QED
      BY <2>1, <2>2, MaxOf
  <2>4. FirstUnused(c, top, used) = Max(F)
    BY DEF FirstUnused
  <2> HIDE DEF F
  <2> QED
    BY <2>1, <2>3, <2>4
<1>9. top \in S
  <2>1. top \in n .. top
    BY <1>6, <1>7
  <2>2. FirstUnused(c, top, used) + gap <= top
    BY <1>6, <1>7, <1>8
  <2> QED
    BY <2>1, <2>2
<1>10. S \in SUBSET Nat /\ S # {}
  BY <1>7, <1>9
<1>11. UnusedAddrs(c, n, used, gap) = Min(S)
  BY DEF UnusedAddrs, I
<1> HIDE DEF S
<1> QED
  BY <1>10, <1>11, MinOf

\* So they have their type for both chains.
LEMMA WithGapType ==
  ASSUME NEW used, NEW b \in Nat, Below(used, b), NEW lengths \in [Chains -> Nat]
  PROVE  WithGap(lengths, used) \in [Chains -> Nat]
<1>1. \A c \in Chains : lengths[c] \in Nat /\ GapLimit[c] \in Nat
  BY WalletAssumption
<1>2. \A c \in Chains : UnusedAddrs(c, lengths[c], used, GapLimit[c]) \in Nat
  BY <1>1, UnusedAddrsType
<1> QED
  BY <1>2 DEF WithGap

\* What is near pays to the same addresses of the wallet when it has more.
LEMMA NearSame ==
  ASSUME NEW t, NEW l \in [Chains -> Nat], NEW m \in [Chains -> Nat],
         PaysNear(t, l), PaysNear(t, m)
  PROVE  Own(t, AllAddrs(l)) = Own(t, AllAddrs(m))
<1>1. \A k : Elsewhere \notin AllAddrs(k)
  BY LedgerAssumption DEF AllAddrs
<1>2. \A o \in Outpoint(t) : /\ AddressOf(o) \in AllAddrs(l) \/ AddressOf(o) = Elsewhere
                             /\ AddressOf(o) \in AllAddrs(m) \/ AddressOf(o) = Elsewhere
  BY DEF PaysNear
<1> QED
  BY <1>1, <1>2 DEF Own

\* Chains that grow keep the invariant.
LEMMA AddrsKeep ==
  ASSUME WalletInv, NearStep, generated' \in [Chains -> Nat],
         UNCHANGED <<transactions, allTx, height, blockHeight, ledger, removing, mined>>
  PROVE  WalletInv'
<1> DEFINE before == AllAddrs(generated)
           after == AllAddrs(generated')
<1>1. /\ ListOK(transactions, allTx, height) /\ OwnListed(transactions, allTx, before)
      /\ generated \in [Chains -> Nat] /\ ChainOK(mined)
      /\ MinedConfirmed(transactions, height, mined, before)
      /\ LedgerOK(ledger, transactions, height, before)
  BY DEF WalletInv
<1>2. allTx' = allTx /\ Mined' = Mined
  BY DEF Mined, MinedUpTo
<1>3. ASSUME NEW t \in allTx \cup Mined PROVE Own(t, before) = Own(t, after)
  <2>1. PaysNear(t, generated) /\ PaysNear(t, generated')
    BY <1>2 DEF NearStep
  <2> QED
    BY <1>1, <2>1, NearSame
<1> HIDE DEF before, after
<1>4. OwnListed(transactions, allTx, after)
  <2>1. \A t \in allTx : Own(t, after) # {} => t \in ToSet(transactions)
    BY <1>1, <1>3 DEF OwnListed
  <2>2. ASSUME NEW t \in ToSet(transactions) PROVE ContainsTx(t, allTx, after)
    <3>1. ContainsTx(t, allTx, before) /\ t \in allTx
      BY <1>1 DEF OwnListed, ListOK
    <3> QED
      BY <1>3, <3>1 DEF ContainsTx
  <2> QED
    BY <2>1, <2>2 DEF OwnListed
<1>5. MinedConfirmed(transactions, height, mined, after)
  <2>1. \A h \in DOMAIN mined : \A t \in ToSet(mined[h]) : t \in Mined
    <3>1. DOMAIN mined = 1 .. Len(mined)
      BY <1>1 DEF ChainOK
    <3> QED
      BY <3>1, MinedIn
  <2> QED
    BY <1>1, <1>3, <2>1 DEF MinedConfirmed
<1>6. LedgerOK(ledger, transactions, height, after)
  <2>1. \A t \in ToSet(transactions) : Own(t, after) = Own(t, before)
    BY <1>1, <1>3 DEF ListOK
  <2> QED
    BY <1>1, <2>1, LedgerKept
<1> QED
  BY <1>4, <1>5, <1>6 DEF WalletInv, after

\* LWWalletReceiveAddress makes no address but on the chain.
LEMMA ReceiveAddressKeeps == WalletInv /\ NearStep /\ ReceiveAddress => WalletInv'
<1> SUFFICES ASSUME WalletInv, NearStep, ReceiveAddress PROVE WalletInv'
  OBVIOUS
<1>1. generated \in [Chains -> Nat] /\ External \in Chains /\ \E b \in Nat : Below(ledger.usedAddrs, b)
  BY WalletAssumption DEF WalletInv, LedgerOK
<1>2. UnusedAddrs(External, generated[External], ledger.usedAddrs, 1) \in Nat
  BY <1>1, UnusedAddrsType
<1>3. generated' \in [Chains -> Nat]
  BY <1>1, <1>2 DEF ReceiveAddress
<1> QED
  BY <1>3, AddrsKeep DEF ReceiveAddress

\* _LWPeerManagerLoadBloomFilter makes more on both chains.
LEMMA FilterAddrsKeeps == WalletInv /\ NearStep /\ FilterAddrs => WalletInv'
<1> SUFFICES ASSUME WalletInv, NearStep, FilterAddrs PROVE WalletInv'
  OBVIOUS
<1>1. generated \in [Chains -> Nat] /\ \E b \in Nat : Below(ledger.usedAddrs, b)
  BY DEF WalletInv, LedgerOK
<1>2. \A c \in Chains : generated[c] \in Nat /\ GapLimit[c] + FilterGap \in Nat
  BY <1>1, WalletAssumption
<1>3. \A c \in Chains : UnusedAddrs(c, generated[c], ledger.usedAddrs, GapLimit[c] + FilterGap) \in Nat
  BY <1>1, <1>2, UnusedAddrsType
<1>4. generated' \in [Chains -> Nat]
  BY <1>3 DEF FilterAddrs
<1> QED
  BY <1>4, AddrsKeep DEF FilterAddrs

-----------------------------------------------------------------------------
(* Transactions registered.                                                  *)

\* What is known of a transaction more than before makes the wallet no poorer.
LEMMA ContainsMore ==
  ASSUME NEW t, NEW all, NEW addrs, ContainsTx(t, all, addrs), NEW more, NEW addrsNow,
         all \subseteq more, \A u \in all \cup {t} : Own(u, addrsNow) = Own(u, addrs)
  PROVE  ContainsTx(t, more, addrsNow)
BY DEF ContainsTx

\* LWWalletRegisterTransaction puts a transaction that is new, and the wallet's,
\* in its place in the list and counts again.
LEMMA RegisterKeeps ==
  ASSUME WalletInv, NearStep, NEW t \in Tx, RegisterTransaction(t)
  PROVE  WalletInv'
<1> DEFINE before == AllAddrs(generated)
           after == AllAddrs(generated')
           all == allTx \cup {t}
           list == InsertTx(transactions, t, all, height, generated)
<1>1. /\ ListOK(transactions, allTx, height) /\ OwnListed(transactions, allTx, before)
      /\ blockHeight \in Nat /\ generated \in [Chains -> Nat] /\ ChainOK(mined)
      /\ InBlock(transactions, height, mined)
      /\ MinedConfirmed(transactions, height, mined, before)
      /\ RemovingUnconfirmed(removing, height)
      /\ LedgerOK(ledger, transactions, height, before)
  BY DEF WalletInv
<1>2. /\ transactions \in Seq(Tx) /\ IsInjective(transactions) /\ Sorted(transactions, height)
      /\ allTx \in SUBSET Tx /\ Listed \subseteq allTx /\ height \in [Tx -> HeightOf]
      /\ \A u \in Tx \ allTx : height[u] = Unconfirmed
  BY <1>1 DEF ListOK, Listed
<1>3. /\ t \notin allTx /\ allTx' = all
      /\ UNCHANGED <<height, blockHeight, removing, mined>>
      /\ IF ContainsTx(t, allTx, before)
         THEN /\ transactions' = list
              /\ ledger' = UpdateBalance(list, height, blockHeight, generated)
              /\ generated' = WithGap(generated, ledger'.usedAddrs)
         ELSE UNCHANGED <<transactions, ledger, generated>>
  BY DEF RegisterTransaction
<1>4. t \notin Listed /\ height[t] = Unconfirmed /\ height \in [Tx -> Nat]
  BY <1>2, <1>3, LedgerAssumption DEF HeightOf
<1>5. /\ list \in Seq(Tx) /\ IsInjective(list) /\ ToSet(list) = Listed \cup {t} /\ Sorted(list, height)
  <2> HIDE DEF all
  <2> QED
    BY <1>2, <1>4, InsertTxFacts DEF Listed
<1> HIDE DEF list
<1>6. InBlock(list, height, mined)
  BY <1>1, <1>4, <1>5 DEF InBlock, Listed
<1>7. generated' \in [Chains -> Nat] /\ LedgerOK(ledger', transactions', height, before)
  <2>1. CASE ContainsTx(t, allTx, before)
    <3>1. Apart(list, height)
      BY <1>1, <1>6, ChainApart
    <3>2. LedgerOK(ledger', list, height, before)
      BY <1>2, <1>3, <1>5, <2>1, <3>1, LedgerRecomputed
    <3>3. PICK b \in Nat : Below(ledger'.usedAddrs, b)
      BY <3>2 DEF LedgerOK
    <3>4. generated' \in [Chains -> Nat]
      BY <1>1, <1>3, <2>1, <3>3, WithGapType
    <3> QED
      BY <1>3, <2>1, <3>2, <3>4
  <2>2. CASE ~ ContainsTx(t, allTx, before)
    BY <1>1, <1>3, <2>2
  <2> QED
    BY <2>1, <2>2
<1>8. ASSUME NEW u \in all \cup Mined PROVE Own(u, after) = Own(u, before)
  <2>1. Mined' = Mined
    BY <1>3 DEF Mined, MinedUpTo
  <2>2. PaysNear(u, generated) /\ PaysNear(u, generated')
    BY <1>3, <2>1 DEF NearStep
  <2> QED
    BY <1>1, <1>7, <2>2, NearSame
<1>9. /\ transactions' \in Seq(Tx) /\ IsInjective(transactions') /\ Sorted(transactions', height)
      /\ ToSet(transactions') = IF ContainsTx(t, allTx, before) THEN Listed \cup {t} ELSE Listed
  BY <1>2, <1>3, <1>5 DEF Listed
<1> HIDE DEF before, after
<1>10. ListOK(transactions', all, height)
  BY <1>2, <1>9 DEF ListOK
<1>11. OwnListed(transactions', all, after)
  <2>1. ASSUME NEW u \in all, Own(u, after) # {} PROVE u \in ToSet(transactions')
    <3>1. Own(u, before) # {}
      BY <1>8, <2>1
    <3>2. CASE u = t
      BY <1>9, <3>1, <3>2 DEF ContainsTx
    <3>3. CASE u # t
      BY <1>1, <1>9, <3>1, <3>3 DEF OwnListed, Listed
    <3> QED
      BY <3>2, <3>3
  <2>2. ASSUME NEW u \in ToSet(transactions') PROVE ContainsTx(u, all, after)
    <3>1. ContainsTx(u, allTx, before) /\ u \in all
      BY <1>1, <1>2, <1>9 DEF OwnListed, Listed
    <3>2. \A v \in allTx \cup {u} : Own(v, after) = Own(v, before)
      BY <1>8, <3>1
    <3> QED
      BY <3>1, <3>2, ContainsMore
  <2> QED
    BY <2>1, <2>2 DEF OwnListed
<1>12. InBlock(transactions', height, mined)
  BY <1>1, <1>4, <1>9 DEF InBlock, Listed
<1>13. MinedConfirmed(transactions', height, mined, after)
  <2>1. \A h \in DOMAIN mined : \A u \in ToSet(mined[h]) : u \in Mined
    <3>1. DOMAIN mined = 1 .. Len(mined)
      BY <1>1 DEF ChainOK
    <3> QED
      BY <3>1, MinedIn
  <2> SUFFICES ASSUME NEW h \in DOMAIN mined, NEW u \in ToSet(mined[h]), Own(u, after) # {}
               PROVE  u \in ToSet(transactions') /\ height[u] # Unconfirmed
    BY DEF MinedConfirmed
  <2>2. Own(u, before) # {}
    BY <1>8, <2>1
  <2>3. u \in Listed /\ height[u] # Unconfirmed
    BY <1>1, <2>2 DEF MinedConfirmed, Listed
  <2> QED
    BY <1>9, <2>3
<1>14. LedgerOK(ledger', transactions', height, after)
  <2>1. \A u \in ToSet(transactions') : Own(u, after) = Own(u, before)
    BY <1>2, <1>8, <1>9
  <2> QED
    BY <1>7, <2>1, LedgerKept
<1> HIDE DEF all
<1> QED
  BY <1>1, <1>3, <1>7, <1>10, <1>11, <1>12, <1>13, <1>14 DEF WalletInv, after

-----------------------------------------------------------------------------
(* The wallet loaded from the application's store.                           *)

\* An order of a finite set has each of its elements once.
LEMMA OrderFacts ==
  ASSUME NEW S \in SUBSET Tx, IsFiniteSet(S), NEW order \in SetToSeqs(S)
  PROVE  order \in Seq(Tx) /\ IsInjective(order) /\ ToSet(order) = S
<1> DEFINE D == 1 .. Cardinality(S)
<1>1. Cardinality(S) \in Nat
  BY FS_CardinalityType
<1>2. order \in [D -> S] /\ \A i, j \in D : i # j => order[i] # order[j]
  BY DEF SetToSeqs
<1>3. DOMAIN order = D /\ IsInjective(order)
  BY <1>2 DEF IsInjective
<1>4. order \in Seq(Tx)
  <2> DEFINE n == Cardinality(S)
  <2>1. n \in Nat /\ order \in [1 .. n -> Tx]
    BY <1>1, <1>2
  <2> HIDE DEF n
  <2> QED
    BY <2>1
<1>5. IsFiniteSet(D) /\ Cardinality(D) = Cardinality(S)
  <2> DEFINE n == Cardinality(S)
  <2>1. n \in Nat /\ n \in Int /\ 1 \in Int
    BY <1>1
  <2> HIDE DEF n
  <2>2. IsFiniteSet(1 .. n) /\ Cardinality(1 .. n) = IF 1 > n THEN 0 ELSE n - 1 + 1
    BY <2>1, FS_Interval
  <2>3. Cardinality(1 .. n) = n
    BY <2>1, <2>2
  <2> QED
    BY <2>2, <2>3 DEF n
<1>6. order \in Injection(D, S)
  BY <1>2, <1>3 DEF Injection
<1>7. order \in Surjection(D, S)
  <2> HIDE DEF D
  <2> QED
    BY <1>5, <1>6, FS_Injection
<1>8. ToSet(order) = S
  BY <1>2, <1>3, <1>7 DEF ToSet, Surjection
<1> QED
  BY <1>3, <1>4, <1>8

\* A list has finitely many elements.
LEMMA ListFinite == ASSUME NEW list \in Seq(Tx) PROVE IsFiniteSet(ToSet(list))
<1> DEFINE n == Len(list)
<1>1. n \in Nat /\ n \in Int /\ 1 \in Int /\ DOMAIN list = 1 .. n
  OBVIOUS
<1>2. list \in Surjection(1 .. n, ToSet(list))
  BY <1>1 DEF Surjection, ToSet
<1> HIDE DEF n
<1>3. IsFiniteSet(1 .. n)
  BY <1>1, FS_Interval
<1> QED
  BY <1>2, <1>3, FS_Surjection

\* So the addresses they pay to are below some index.
LEMMA UsedBelow ==
  ASSUME NEW list \in Seq(Tx)
  PROVE  \E b \in Nat : Below(UsedBy(ToSet(list)), b)
<1> DEFINE n == Len(list)
           paid(k) == UsedBy(FirstOf(list, k))
           P == {k \in 0 .. n : \E b \in Nat : Below(paid(k), b)}
<1>1. n \in Nat /\ DOMAIN list = 1 .. n /\ \A k \in 1 .. n : list[k] \in Tx
  OBVIOUS
<1> HIDE DEF n
<1>2. 0 \in P
  <2>1. paid(0) = {}
    BY DEF UsedBy, FirstOf
  <2>2. 0 \in Nat /\ Below({}, 0) /\ 0 \in 0 .. n
    BY <1>1 DEF Below
  <2> QED
    BY <2>1, <2>2
<1>3. ASSUME NEW k \in 0 .. n - 1, k \in P PROVE k + 1 \in P
  <2> DEFINE t == list[k + 1]
             more == {AddressOf(o) : o \in Outpoint(t)}
  <2>1. k + 1 \in 1 .. n /\ k + 1 \in 0 .. n /\ 1 .. k + 1 = 1 .. k \cup {k + 1} /\ t \in Tx
    BY <1>1
  <2>2. FirstOf(list, k + 1) = FirstOf(list, k) \cup {t}
    BY <2>1 DEF FirstOf
  <2>3. paid(k + 1) = paid(k) \cup more
    BY <2>2 DEF UsedBy
  <2>4. PICK b \in Nat : Below(paid(k), b)
    BY <1>3
  <2>5. PICK c \in Nat : Below(more, c)
    <3> HIDE DEF t
    <3> QED
      BY <2>1, OwnFacts
  <2>6. PICK d \in Nat : b <= d /\ c <= d
    <3>1. b <= c \/ c <= b
      OBVIOUS
    <3> QED
      BY <3>1
  <2>7. 0 .. b \subseteq 0 .. d /\ 0 .. c \subseteq 0 .. d
    BY <2>6
  <2> DEFINE some == paid(k)
  <2> HIDE DEF more
  <2>8. Below(some, d)
    <3>1. Below(some, b)
      BY <2>4
    <3> HIDE DEF some
    <3> QED
      BY <2>7, <3>1 DEF Below
  <2>9. Below(more, d)
    BY <2>5, <2>7 DEF Below
  <2>10. Below(some \cup more, d)
    <3> HIDE DEF some
    <3> QED
      BY <2>8, <2>9 DEF Below
  <2>11. Below(paid(k + 1), d)
    BY <2>3, <2>10
  <2> HIDE DEF paid
  <2> QED
    BY <2>1, <2>11
<1>4. \A k \in 0 .. n : k \in P
  <2> HIDE DEF P
  <2> QED
    BY <1>1, <1>2, <1>3, Induct
<1>5. \E b \in Nat : Below(paid(n), b)
  BY <1>1, <1>4
<1>6. FirstOf(list, n) = ToSet(list)
  BY <1>1 DEF FirstOf, ToSet
<1> QED
  BY <1>5, <1>6

Inserts(f, n, order) ==
  f = [k \in 0 .. n |->
         IF k = 0 THEN <<>>
         ELSE InsertTx(f[k - 1], order[k], FirstOf(order, k), height, NoAddrs)]

\* The values of the function that inserts them one by one.
LEMMA InsertsValue ==
  ASSUME NEW n \in Nat, NEW order, NEW f, Inserts(f, n, order)
  PROVE  /\ f[0] = <<>>
         /\ \A k \in 0 .. n - 1 :
              f[k + 1] = InsertTx(f[k], order[k + 1], FirstOf(order, k + 1), height, NoAddrs)
<1> DEFINE g == [k \in 0 .. n |->
                   IF k = 0 THEN <<>>
                   ELSE InsertTx(f[k - 1], order[k], FirstOf(order, k), height, NoAddrs)]
<1>1. f = g
  BY DEF Inserts
<1>2. g[0] = <<>>
  OBVIOUS
<1>3. ASSUME NEW k \in 0 .. n - 1
      PROVE  g[k + 1] = InsertTx(f[k], order[k + 1], FirstOf(order, k + 1), height, NoAddrs)
  <2>1. k + 1 \in 0 .. n /\ k + 1 # 0 /\ (k + 1) - 1 = k
    OBVIOUS
  <2>2. g[k + 1] = InsertTx(f[(k + 1) - 1], order[k + 1], FirstOf(order, k + 1), height, NoAddrs)
    BY <2>1
  <2> HIDE DEF g
  <2> QED
    BY <2>1, <2>2
<1> HIDE DEF g
<1> QED
  BY <1>1, <1>2, <1>3

\* There is one.
LEMMA InsertsExist ==
  ASSUME NEW n \in Nat, NEW order
  PROVE  \E f : Inserts(f, n, order)
<1> DEFINE P == {k \in 0 .. n : \E f : Inserts(f, k, order)}
           Step(w, k) == InsertTx(w, order[k], FirstOf(order, k), height, NoAddrs)
<1>1. 0 \in P
  <2> DEFINE f == [k \in {0} |-> <<>>]
  <2>1. 0 .. 0 = {0} /\ 0 \in 0 .. n
    OBVIOUS
  <2>2. f = [k \in 0 .. 0 |-> IF k = 0 THEN <<>> ELSE Step(f[k - 1], k)]
    BY <2>1
  <2>3. Inserts(f, 0, order)
    BY <2>2 DEF Inserts
  <2> QED
    BY <2>1, <2>3
<1>2. ASSUME NEW k \in 0 .. n - 1, k \in P PROVE k + 1 \in P
  <2>1. PICK f : Inserts(f, k, order)
    BY <1>2
  <2>2. k \in Nat /\ k + 1 \in 0 .. n
    OBVIOUS
  <2>3. f[0] = <<>> /\ \A j \in 0 .. k - 1 : f[j + 1] = Step(f[j], j + 1)
    BY <2>1, <2>2, InsertsValue
  <2> DEFINE g == [j \in 0 .. k + 1 |-> IF j <= k THEN f[j] ELSE Step(f[k], k + 1)]
             e(j) == IF j = 0 THEN <<>> ELSE Step(g[j - 1], j)
  <2>4. ASSUME NEW j \in 0 .. k + 1 PROVE g[j] = e(j)
    <3>1. CASE j = 0
      BY <2>2, <2>3, <3>1
    <3>2. CASE j # 0
      <4>1. j - 1 \in 0 .. k /\ j - 1 \in 0 .. k + 1 /\ j - 1 <= k /\ (j - 1) + 1 = j
        BY <2>2, <3>2
      <4>2. g[j - 1] = f[j - 1]
        BY <4>1
      <4>3. CASE j <= k
        <5>1. j - 1 \in 0 .. k - 1
          BY <2>2, <3>2, <4>3
        <5>2. f[j] = Step(f[j - 1], j)
          <6> HIDE DEF g, Step
          <6> QED
            BY <2>3, <4>1, <5>1
        <5>3. g[j] = f[j]
          BY <4>3
        <5> HIDE DEF g, Step
        <5> QED
          BY <3>2, <4>2, <5>2, <5>3
      <4>4. CASE ~ (j <= k)
        <5>1. j = k + 1 /\ j - 1 = k
          BY <2>2, <4>4
        <5>2. g[j] = Step(f[k], k + 1)
          BY <2>2, <4>4
        <5> HIDE DEF g, Step
        <5> QED
          BY <3>2, <4>2, <5>1, <5>2
      <4> QED
        BY <4>3, <4>4
    <3> QED
      BY <3>1, <3>2
  <2>5. g = [j \in 0 .. k + 1 |-> e(j)]
    <3>1. g = [j \in 0 .. k + 1 |-> g[j]]
      OBVIOUS
    <3> HIDE DEF g, e
    <3> QED
      BY <2>4, <3>1
  <2>6. Inserts(g, k + 1, order)
    <3> HIDE DEF g
    <3> QED
      BY <2>5 DEF Inserts
  <2> HIDE DEF g
  <2> QED
    BY <2>2, <2>6
<1>3. \A k \in 0 .. n : k \in P
  <2> HIDE DEF P
  <2> QED
    BY <1>1, <1>2, Induct
<1>4. n \in P
  BY <1>3
<1> QED
  BY <1>4

\* Inserted one by one the transactions of an order are sorted by height.
LEMMA InsertedFacts ==
  ASSUME height \in [Tx -> Nat], NEW order \in Seq(Tx), IsInjective(order)
  PROVE  /\ Inserted(order) \in Seq(Tx) /\ IsInjective(Inserted(order))
         /\ ToSet(Inserted(order)) = ToSet(order)
         /\ Sorted(Inserted(order), height)
<1> DEFINE n == Len(order)
           f == CHOOSE f : Inserts(f, n, order)
           OK(s, k) == /\ s \in Seq(Tx) /\ IsInjective(s) /\ ToSet(s) = FirstOf(order, k)
                       /\ Sorted(s, height)
           P == {k \in 0 .. n : OK(f[k], k)}
<1>1. n \in Nat /\ DOMAIN order = 1 .. n
  OBVIOUS
<1>2. Inserted(order) = f[n]
  BY DEF Inserted, Inserts
<1>3. Inserts(f, n, order)
  BY <1>1, InsertsExist
<1> HIDE DEF f
<1>4. /\ f[0] = <<>>
      /\ \A k \in 0 .. n - 1 :
           f[k + 1] = InsertTx(f[k], order[k + 1], FirstOf(order, k + 1), height, NoAddrs)
  <2> HIDE DEF n
  <2> QED
    BY <1>1, <1>3, InsertsValue
<1>5. 0 \in P
  <2>1. <<>> \in Seq(Tx) /\ DOMAIN <<>> = {} /\ FirstOf(order, 0) = {}
    BY DEF FirstOf
  <2>2. IsInjective(<<>>)
    BY <2>1 DEF IsInjective
  <2>3. ToSet(<<>>) = FirstOf(order, 0)
    BY <2>1 DEF ToSet
  <2>4. Sorted(<<>>, height)
    BY <2>1 DEF Sorted
  <2>5. OK(<<>>, 0)
    BY <2>1, <2>2, <2>3, <2>4
  <2> HIDE DEF OK
  <2> QED
    BY <1>1, <1>4, <2>5
<1>6. ASSUME NEW k \in 0 .. n - 1, k \in P PROVE k + 1 \in P
  <2> DEFINE t == order[k + 1]
             s == f[k]
             all == FirstOf(order, k + 1)
             r == InsertTx(s, t, all, height, NoAddrs)
  <2>1. k \in Nat /\ k < Len(order) /\ k + 1 \in 0 .. n
    BY <1>1
  <2>2. s \in Seq(Tx) /\ IsInjective(s) /\ ToSet(s) = FirstOf(order, k) /\ Sorted(s, height)
    BY <1>6
  <2>3. t \in Tx /\ t \notin FirstOf(order, k) /\ all = FirstOf(order, k) \cup {t}
    BY <2>1, NextIsNew
  <2>4. r \in Seq(Tx) /\ IsInjective(r) /\ ToSet(r) = ToSet(s) \cup {t} /\ Sorted(r, height)
    <3>1. t \in Tx /\ t \notin ToSet(s) /\ height \in [Tx -> Nat]
      BY <2>2, <2>3
    <3> HIDE DEF s, t, all
    <3>2. /\ InsertTx(s, t, all, height, NoAddrs) \in Seq(Tx)
          /\ IsInjective(InsertTx(s, t, all, height, NoAddrs))
          /\ ToSet(InsertTx(s, t, all, height, NoAddrs)) = ToSet(s) \cup {t}
          /\ Sorted(InsertTx(s, t, all, height, NoAddrs), height)
      <4>1. IsInsertion(s, t, InsertTx(s, t, all, height, NoAddrs), height)
        BY <2>2, <3>1, InsertTxKeeps, Zenon
      <4> QED
        BY <4>1, Zenon DEF IsInsertion
    <3> QED
      BY <3>2
  <2>5. OK(r, k + 1)
    <3> HIDE DEF r, s, t
    <3> QED
      BY <2>2, <2>3, <2>4
  <2>6. f[k + 1] = r
    BY <1>4
  <2> HIDE DEF r, OK
  <2> QED
    BY <2>1, <2>5, <2>6
<1>7. \A k \in 0 .. n : k \in P
  <2> HIDE DEF P, n
  <2> QED
    BY <1>1, <1>5, <1>6, Induct
<1>8. OK(f[n], n)
  BY <1>1, <1>7
<1>9. ToSet(order) = FirstOf(order, n)
  BY <1>1 DEF ToSet, FirstOf
<1> HIDE DEF n
<1> QED
  BY <1>2, <1>8, <1>9

\* LWWalletNew with what the store has: what was unconfirmed is still there, and
\* the transactions of others are forgotten.
LEMMA RestartKeeps ==
  ASSUME WalletInv, NearStep, Restart
  PROVE  WalletInv'
<1> DEFINE before == AllAddrs(generated)
           after == AllAddrs(generated')
           heights == [t \in Tx |-> IF t \in Listed THEN height[t] ELSE Unconfirmed]
<1>1. /\ ListOK(transactions, allTx, height) /\ OwnListed(transactions, allTx, before)
      /\ generated \in [Chains -> Nat] /\ ChainOK(mined)
      /\ InBlock(transactions, height, mined)
      /\ MinedConfirmed(transactions, height, mined, before)
  BY DEF WalletInv
<1>2. /\ transactions \in Seq(Tx) /\ allTx \in SUBSET Tx /\ Listed \subseteq allTx
      /\ height \in [Tx -> HeightOf]
  BY <1>1 DEF ListOK, Listed
<1>3. PICK order \in SetToSeqs(Listed) :
        /\ transactions' = Inserted(order)
        /\ allTx' = Listed /\ height' = heights /\ blockHeight' = 0
        /\ generated' = Reloaded(Listed)
        /\ ledger' = UpdateBalance(transactions', height', 0, generated')
        /\ removing' = <<>>
        /\ UNCHANGED mined
  BY DEF Restart
<1>4. Listed \in SUBSET Tx /\ IsFiniteSet(Listed)
  BY <1>2, ListFinite DEF Listed
<1>5. order \in Seq(Tx) /\ IsInjective(order) /\ ToSet(order) = Listed
  BY <1>4, OrderFacts
<1>6. height \in [Tx -> Nat]
  BY <1>2, LedgerAssumption DEF HeightOf
<1> DEFINE list == transactions'
<1>7. list \in Seq(Tx) /\ IsInjective(list) /\ ToSet(list) = Listed /\ Sorted(list, height)
  BY <1>3, <1>5, <1>6, InsertedFacts
<1>8. heights \in [Tx -> HeightOf] /\ \A t \in Listed : heights[t] = height[t]
  BY <1>2, <1>4 DEF HeightOf
<1>9. \A t \in Tx \ Listed : heights[t] = Unconfirmed
  OBVIOUS
<1> HIDE DEF heights
<1> HIDE DEF list
<1>10. Sorted(list, heights)
  <2>1. \A i \in DOMAIN list : list[i] \in Listed
    BY <1>7 DEF ToSet
  <2> QED
    BY <1>7, <1>8, <2>1 DEF Sorted
<1>11. ListOK(list, Listed, heights)
  BY <1>4, <1>7, <1>8, <1>9, <1>10 DEF ListOK
<1>12. generated' \in [Chains -> Nat]
  <2>1. PICK b \in Nat : Below(UsedBy(Listed), b)
    BY <1>2, UsedBelow DEF Listed
  <2>2. NoAddrs \in [Chains -> Nat]
    BY DEF NoAddrs
  <2>3. WithGap(NoAddrs, UsedBy(Listed)) \in [Chains -> Nat]
    BY <2>1, <2>2, WithGapType
  <2> QED
    BY <1>3, <2>3 DEF Reloaded
<1>13. ASSUME NEW t \in Listed \cup Mined PROVE Own(t, after) = Own(t, before)
  <2>1. Mined' = Mined
    BY <1>3 DEF Mined, MinedUpTo
  <2>2. PaysNear(t, generated) /\ PaysNear(t, generated')
    BY <1>3, <2>1 DEF NearStep
  <2> QED
    BY <1>1, <1>12, <2>2, NearSame
<1> HIDE DEF before, after
<1>14. OwnListed(list, Listed, after)
  <2> SUFFICES ASSUME NEW t \in Listed PROVE ContainsTx(t, Listed, after)
    BY <1>7 DEF OwnListed
  <2>1. ContainsTx(t, allTx, before)
    BY <1>1 DEF OwnListed, Listed
  <2>2. CASE Own(t, before) # {}
    BY <1>13, <2>2 DEF ContainsTx
  <2>3. CASE Own(t, before) = {}
    <3>1. PICK o \in Inputs[t] : o.hash \in allTx /\ o \in Own(o.hash, before)
      BY <2>1, <2>3 DEF ContainsTx
    <3>2. o.hash \in Listed
      BY <1>1, <3>1 DEF OwnListed, Listed
    <3>3. o \in Own(o.hash, after)
      BY <1>13, <3>1, <3>2
    <3> QED
      BY <3>2, <3>3 DEF ContainsTx
  <2> QED
    BY <2>2, <2>3
<1>15. InBlock(list, heights, mined)
  BY <1>1, <1>7, <1>8 DEF InBlock, Listed
<1>16. MinedConfirmed(list, heights, mined, after)
  <2>1. \A h \in DOMAIN mined : \A t \in ToSet(mined[h]) : t \in Mined
    <3>1. DOMAIN mined = 1 .. Len(mined)
      BY <1>1 DEF ChainOK
    <3> QED
      BY <3>1, MinedIn
  <2> SUFFICES ASSUME NEW h \in DOMAIN mined, NEW t \in ToSet(mined[h]), Own(t, after) # {}
               PROVE  t \in Listed /\ heights[t] # Unconfirmed
    BY <1>7 DEF MinedConfirmed
  <2>2. Own(t, before) # {}
    BY <1>13, <2>1
  <2>3. t \in Listed /\ height[t] # Unconfirmed
    BY <1>1, <2>2 DEF MinedConfirmed, Listed
  <2> QED
    BY <1>8, <2>3
<1>17. LedgerOK(ledger', list, heights, after)
  <2>1. Apart(list, heights)
    BY <1>1, <1>15, ChainApart
  <2>2. ledger' = UpdateBalance(list, heights, 0, generated')
    BY <1>3 DEF list
  <2> QED
    BY <1>7, <1>8, <1>10, <2>1, <2>2, LedgerRecomputed DEF after
<1>18. RemovingUnconfirmed(<<>>, heights)
  BY DEF RemovingUnconfirmed
<1>19. /\ transactions' = list /\ allTx' = Listed /\ height' = heights /\ blockHeight' = 0
       /\ removing' = <<>> /\ mined' = mined
  BY <1>3 DEF list
<1> QED
  BY <1>1, <1>11, <1>12, <1>14, <1>15, <1>16, <1>17, <1>18, <1>19 DEF WalletInv, after

-----------------------------------------------------------------------------
(* The theorems.                                                             *)

\* A wallet without transactions: LWWalletNew with none.
LEMMA InitKeeps == Init => WalletInv
<1> SUFFICES ASSUME Init PROVE WalletInv
  OBVIOUS
<1>1. /\ transactions = <<>> /\ allTx = {} /\ height = [t \in Tx |-> Unconfirmed]
      /\ blockHeight = 0 /\ ledger = Cleared /\ generated = Reloaded({})
      /\ removing = <<>> /\ mined = <<>>
  BY DEF Init
<1> DEFINE addrs == AllAddrs(generated)
<1>2. /\ <<>> \in Seq(Tx) /\ <<>> \in Seq(Seq(Tx)) /\ DOMAIN <<>> = {} /\ Len(<<>>) = 0
      /\ ToSet(<<>>) = {} /\ IsInjective(<<>>)
  BY DEF ToSet, IsInjective
<1>3. height \in [Tx -> HeightOf] /\ \A t \in Tx : height[t] = Unconfirmed
  BY <1>1 DEF HeightOf
<1>4. Sorted(<<>>, height)
  BY <1>2 DEF Sorted
<1>5. ListOK(transactions, allTx, height)
  BY <1>1, <1>2, <1>3, <1>4 DEF ListOK
<1>6. OwnListed(transactions, allTx, addrs)
  BY <1>1, <1>2 DEF OwnListed
<1>7. generated \in [Chains -> Nat]
  <2>1. UsedBy({}) = {}
    BY DEF UsedBy
  <2>2. 0 \in Nat /\ Below({}, 0) /\ NoAddrs \in [Chains -> Nat]
    BY DEF Below, NoAddrs
  <2>3. WithGap(NoAddrs, {}) \in [Chains -> Nat]
    BY <2>2, WithGapType
  <2> QED
    BY <1>1, <2>1, <2>3 DEF Reloaded
<1>8. ChainOK(mined)
  BY <1>1, <1>2, WalletAssumption DEF ChainOK
<1>9. /\ InBlock(transactions, height, mined)
      /\ MinedConfirmed(transactions, height, mined, addrs)
      /\ RemovingUnconfirmed(removing, height)
  BY <1>1, <1>2 DEF InBlock, MinedConfirmed, RemovingUnconfirmed
<1>10. LedgerOK(ledger, transactions, height, addrs)
  <2>1. Apart(transactions, height)
    BY <1>8, <1>9, ChainApart
  <2>2. CountedFacts(Cleared, <<>>, Len(<<>>), height, addrs)
    <3> HIDE DEF addrs
    <3> QED
      BY <1>2, ClearedFacts
  <2> HIDE DEF addrs
  <2> QED
    BY <1>1, <1>2, <1>3, <1>4, <2>1, <2>2, CountedLedger
<1> QED
  BY <1>1, <1>5, <1>6, <1>7, <1>8, <1>9, <1>10 DEF WalletInv

\* The invariant is inductive, for what is near.
LEMMA NextKeeps == WalletInv /\ [Next]_vars /\ [NearStep]_vars => WalletInv'
<1> SUFFICES ASSUME WalletInv, [Next]_vars, [NearStep]_vars PROVE WalletInv'
  OBVIOUS
<1>1. CASE UNCHANGED vars
  <2>1. UNCHANGED <<transactions, allTx, height, blockHeight, ledger, generated, removing, mined>>
    BY <1>1 DEF vars
  <2>2. AllAddrs(generated)' = AllAddrs(generated)
    BY <2>1 DEF AllAddrs
  <2> QED
    BY <2>1, <2>2 DEF WalletInv
<1>2. CASE Next /\ NearStep
  <2>1. ASSUME NEW t \in Tx, RegisterTransaction(t) PROVE WalletInv'
    BY <1>2, <2>1, RegisterKeeps
  <2>2. ASSUME NEW t \in Tx, RemoveTransaction(t) PROVE WalletInv'
    BY <2>2, RemoveTransactionKeeps
  <2>3. CASE RemoveNothing
    BY <2>3, RemoveNothingKeeps
  <2>4. CASE RemoveDependents
    BY <2>4, RemoveDependentsKeeps
  <2>5. CASE RemoveOne
    BY <2>5, RemoveOneKeeps
  <2>6. CASE BlockMined
    BY <2>6, BlockMinedKeeps
  <2>7. CASE BlockAgain
    BY <2>7, BlockAgainKeeps
  <2>8. CASE Reorganized
    BY <2>8, ReorganizedKeeps
  <2>9. CASE Verified
    BY <2>9, VerifiedKeeps
  <2>10. CASE ReceiveAddress
    BY <1>2, <2>10, ReceiveAddressKeeps
  <2>11. CASE FilterAddrs
    BY <1>2, <2>11, FilterAddrsKeeps
  <2>12. CASE Restart
    BY <1>2, <2>12, RestartKeeps
  <2> QED
    BY <1>2, <2>1, <2>2, <2>3, <2>4, <2>5, <2>6, <2>7, <2>8, <2>9, <2>10, <2>11, <2>12 DEF Next
<1> QED
  BY <1>1, <1>2

\* In every behaviour of a wallet whose payments are near, the list, the heights,
\* the blocks and what was computed from them agree as WalletInv says.
THEOREM WalletInvariant == Spec /\ PaymentsNear => []WalletInv
<1>1. Init => WalletInv
  BY InitKeeps
<1>2. WalletInv /\ [Next]_vars /\ [NearStep]_vars => WalletInv'
  BY NextKeeps
<1> QED
  BY <1>1, <1>2, PTL DEF Spec, PaymentsNear

\* The list of LWWallet.c has no transaction twice and is sorted by height,
\* through registrations, blocks, reorganizations, removals and restarts.
THEOREM WellFormedCorrect == Spec /\ PaymentsNear => []WellFormed
<1>1. WalletInv => WellFormed
  <2> SUFFICES ASSUME WalletInv PROVE WellFormed
    OBVIOUS
  <2>1. /\ transactions \in Seq(Tx) /\ IsInjective(transactions)
        /\ allTx \in SUBSET Tx /\ Listed \subseteq allTx
        /\ height \in [Tx -> HeightOf] /\ Sorted(transactions, height)
        /\ blockHeight \in Nat /\ generated \in [Chains -> Nat]
    BY DEF WalletInv, ListOK, Listed
  <2>2. /\ ledger.invalidTx \cup ledger.pendingTx \subseteq Listed
        /\ ledger.balance = Amount(ledger.utxos)
        /\ Len(ledger.balanceHist) = Len(transactions)
    BY DEF WalletInv, LedgerOK, Listed
  <2>3. removing \in Seq(Tx) /\ mined \in Seq(Seq(Tx))
    BY DEF WalletInv, RemovingUnconfirmed, ChainOK
  <2>4. WalletTypeOK
    BY <2>1, <2>2, <2>3 DEF WalletTypeOK, HeightOf
  <2>5. HeightSorted
    BY <2>1 DEF HeightSorted, Sorted
  <2> QED
    BY <2>4, <2>5 DEF WellFormed
<1> QED
  BY <1>1, WalletInvariant, PTL

\* Of two transactions in the list that spend the same output one is found to be
\* invalid by _LWWalletUpdateBalance, and none is without a cause.
THEOREM ConflictsResolvedCorrect == Spec /\ PaymentsNear => []ConflictsResolved
<1>1. WalletInv => ConflictsResolved
  <2> SUFFICES ASSUME WalletInv PROVE ConflictsResolved
    OBVIOUS
  <2>1. LedgerOK(ledger, transactions, height, AllAddrs(generated))
    BY DEF WalletInv
  <2>2. OneSpender
    BY <2>1 DEF OneSpender, LedgerOK, Listed
  <2>3. InvalidForCause
    BY <2>1 DEF InvalidForCause, LedgerOK, Listed
  <2> QED
    BY <2>2, <2>3 DEF ConflictsResolved
<1> QED
  BY <1>1, WalletInvariant, PTL

\* While nothing is pending, wallet->utxos has the outputs of what counts that
\* no transaction but an invalid one spends.
THEOREM UtxosExactCorrect == Spec /\ PaymentsNear => []UtxosExact
<1>1. WalletInv => UtxosExact
  BY DEF WalletInv, LedgerOK, UtxosExact, Listed
<1> QED
  BY <1>1, WalletInvariant, PTL
==========
