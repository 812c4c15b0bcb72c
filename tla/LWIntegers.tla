----------------------------- MODULE LWIntegers -----------------------------
(***************************************************************************)
(* Facts about integers that the proofs keep needing: least and greatest   *)
(* elements, induction over the numbers up to some n, and the arithmetic of an interval of blocks.                            *)
(***************************************************************************)
EXTENDS Integers, WellFoundedInduction, TLAPS

\* A set of natural numbers has a least element.
LEMMA Least ==
  ASSUME NEW S \in SUBSET Nat, S # {}
  PROVE  \E m \in S : \A k \in S : m <= k
<1>1. \E R : IsWellFoundedOn(R, Nat) /\ \A x, y \in Nat : y < x => <<y, x>> \in R
  <2>1. IsWellFoundedOn(OpToRel(<, Nat), Nat)
    BY NatLessThanWellFounded
  <2>2. ASSUME NEW x \in Nat, NEW y \in Nat, y < x PROVE <<y, x>> \in OpToRel(<, Nat)
    <3>1. <<y, x>>[1] < <<y, x>>[2]
      BY <2>2
    <3>2. <<y, x>> \in Nat \X Nat
      OBVIOUS
    <3> QED
      BY <3>1, <3>2, Zenon DEF OpToRel
  <2> QED
    BY <2>1, <2>2
<1>2. PICK R : IsWellFoundedOn(R, Nat) /\ \A x, y \in Nat : y < x => <<y, x>> \in R
  BY <1>1
<1>3. \E x \in S : \A y \in S : ~ (<<y, x>> \in R)
  BY <1>2, WFMin
<1>4. PICK m \in S : \A y \in S : ~ (<<y, m>> \in R)
  BY <1>3
<1>5. ASSUME NEW k \in S PROVE ~ (k < m)
  BY <1>2, <1>4
<1>6. \A k \in S : k \in Nat /\ m \in Nat
  OBVIOUS
<1> QED
  BY <1>5, <1>6

\* A set of integers that are no greater than some bound has a greatest one.
LEMMA Greatest ==
  ASSUME NEW S \in SUBSET Int, S # {}, NEW n \in Int, \A k \in S : k <= n
  PROVE  \E m \in S : \A k \in S : k <= m
<1> DEFINE D == {d \in Nat : \E k \in S : d = n - k}
<1>1. \A k \in S : k \in Int /\ n - k \in Nat /\ n - k \in D
  OBVIOUS
<1>2. D \in SUBSET Nat /\ D # {}
  BY <1>1
<1>3. PICK d \in D : \A e \in D : d <= e
  BY <1>2, Least
<1>4. PICK m \in S : d = n - m
  OBVIOUS
<1>5. ASSUME NEW k \in S PROVE k <= m
  <2>1. d <= n - k
    BY <1>1, <1>3
  <2> HIDE DEF D
  <2> QED
    BY <1>1, <1>4, <2>1
<1> QED
  BY <1>5

\* What holds of 0 and goes on from each number below n to the next holds up to n.
LEMMA Induct ==
  ASSUME NEW n \in Nat, NEW P, 0 \in P, \A k \in 0 .. n - 1 : k \in P => k + 1 \in P
  PROVE  \A k \in 0 .. n : k \in P
<1> DEFINE S == {k \in 0 .. n : k \notin P}
<1> SUFFICES ASSUME S # {} PROVE FALSE
  OBVIOUS
<1>1. S \in SUBSET Nat
  OBVIOUS
<1>2. PICK k \in S : \A j \in S : k <= j
  BY <1>1, Least
<1>3. k \in 0 .. n /\ k \notin P
  OBVIOUS
<1>4. k - 1 \in 0 .. n - 1 /\ k - 1 \in 0 .. n /\ ~ (k <= k - 1) /\ (k - 1) + 1 = k
  <2>1. k # 0
    BY <1>3
  <2> QED
    BY <1>3, <2>1
<1>5. k - 1 \in P
  BY <1>2, <1>4
<1> QED
  BY <1>3, <1>4, <1>5

-----------------------------------------------------------------------------
\* A height is its interval's number times I plus its place in the interval, as
\* height % BLOCK_DIFFICULTY_INTERVAL computes it.
LEMMA DivisionFacts ==
  ASSUME NEW I \in Nat, I >= 2, NEW h \in Nat
  PROVE  /\ h = I * (h \div I) + (h % I)
         /\ (h % I) \in 0 .. (I - 1)
         /\ (h \div I) \in Nat
BY SMT

\* Multiples of I are I apart.
LEMMA MultiplesApart ==
  ASSUME NEW I \in Nat, NEW x \in Int, NEW y \in Int, x < y
  PROVE  I * x + I <= I * y
<1> DEFINE d == y - x - 1
<1>1. d \in Nat /\ y = x + 1 + d
  BY SMT
<1> HIDE DEF d
<1>2. I * y = I * x + I + I * d
  BY <1>1, SMT
<1>3. I * d >= 0
  BY <1>1, SMT
<1> QED BY <1>1, <1>2, <1>3, SMT
=============================================================================
