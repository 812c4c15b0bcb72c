---------------------------- MODULE LWDataProofs ----------------------------
(***************************************************************************)
(* Two of the modules of the wallet's data that keep a state.              *)
(*                                                                         *)
(* LWSet: open addressing with removal by re-insertion, for every hash     *)
(* function and every sequence of calls: LWSet implements LWItems.         *)
(*                                                                         *)
(* LWCoins: what LWWalletCreateTxForOutputs returns, for all amounts,      *)
(* fees, sizes and outputs, and whatever other threads do between its      *)
(* locks: that the fee is neither too small nor larger than it must be,    *)
(* and that it pays less than was asked only if nothing else fits. The     *)
(* first needs that change adds to the size what the loop reserves for it, *)
(* and that a larger transaction costs no less; the second that the        *)
(* invariant holds on to why the first call gave up, for as long as the    *)
(* wallet is the one it looked at.                                         *)
(***************************************************************************)
EXTENDS LWSet, LWCoins, LWIntegers, FiniteSetTheorems, SequenceTheorems

-----------------------------------------------------------------------------
(* The hash set: its invariant.                                              *)

Bucket == 0 .. size - 1

\* b is on the way from bucket a up to bucket z, z not included
On(a, z, b) == IF a <= z THEN a <= b /\ b < z ELSE a <= b \/ b < z

\* The probe for the item in bucket j meets no empty bucket,
Whole(j) == \A b \in Bucket : On(Home(table[j], size), j, b) => table[b] # NULL

\* or, while LWSetRemove cleans up, only some among those it has gone through; then there is none from
\* where it is to j.
Cut(j) ==
  /\ outer = "cleanup" /\ ~On(emptied, next, j)
  /\ \A b \in Bucket : On(Home(table[j], size), j, b) => table[b] # NULL \/ On(emptied, next, b)
  /\ \A b \in Bucket : On(next, j, b) => table[b] # NULL

Types ==
  /\ size \in TableSizes /\ table \in [Bucket -> Item \cup {NULL}]
  /\ itemCount \in Nat /\ result \in Item \cup {NULL}
  /\ op \in {"none", "add", "get", "remove"} /\ item \in Item /\ (op # "none" => i \in Bucket)
  /\ outer \in {"none", "cleanup", "rebuild"} /\ next \in Nat
  /\ (outer = "cleanup" => next \in Bucket /\ emptied \in Bucket)
  /\ \E n \in TableSizes \cup {0} : old \in [0 .. n - 1 -> Item \cup {NULL}]
  /\ keep \subseteq {Key[x] : x \in Item} /\ scan \in -1 .. size

\* which loops can run in which
Nested ==
  /\ outer # "none" => op \in {"none", "add"}
  /\ scan # -1 => outer # "rebuild" /\ op # "get" /\ (op = "add" => outer = "cleanup")

Counted == itemCount = Cardinality(Filled(table))

\* the buckets before one
Past(T, n) == {b \in Filled(T) : b < n}

Adding == IF op = "add" THEN 1 ELSE 0
Loaded ==
  /\ outer = "none" => itemCount <= Limit(size) /\ (op = "add" => itemCount < MaxCount)
  /\ outer = "cleanup" => itemCount + Adding < Limit(size)
  /\ outer = "rebuild" => /\ itemCount + Adding <= Cardinality(Past(old, next))
                          /\ Cardinality(Filled(old)) <= Limit(size)

Reached == \A j \in Filled(table) : Whole(j) \/ Cut(j)

Unequal ==
  /\ \A a, b \in Filled(table) : Key[table[a]] = Key[table[b]] => a = b
  /\ op = "add" /\ outer # "none" => \A b \in Filled(table) : Key[table[b]] # Key[item]

\* what the probe has passed
Passed ==
  op # "none" => \A b \in Bucket : On(Home(item, size), i, b) => table[b] # NULL /\ Key[table[b]] # Key[item]

\* while LWSetRemove cleans up, an empty bucket ends what it has to go through; an item that is added again
\* gets a bucket among those it has gone through
Cleaning ==
  outer = "cleanup" =>
    /\ \E b \in Bucket : On(next, emptied, b) /\ table[b] = NULL
    /\ op = "add" =>
         /\ i # next /\ \E b \in Bucket : Succ(b) = next /\ table[b] = NULL
         /\ \A b \in Bucket : On(i, next, b) => table[b] # NULL \/ On(emptied, next, b)

Rebuilding ==
  outer = "rebuild" =>
    /\ \A a, b \in Filled(old) : Key[old[a]] = Key[old[b]] => a = b
    /\ \A a \in Filled(old), b \in Filled(table) : a >= next => Key[old[a]] # Key[table[b]]
    /\ op = "add" => next - 1 \in Filled(old) /\ item = old[next - 1]

Inv == Types /\ Nested /\ Counted /\ Loaded /\ Reached /\ Unequal /\ Passed /\ Cleaning /\ Rebuilding

\* what LWSetIntersect has gone through is in the other set, though buckets are emptied and filled again
Scanned ==
  scan # -1 =>
    /\ \A b \in Filled(table) : b < scan => Key[table[b]] \in keep
    /\ op = "remove" => scan \in Filled(table) /\ table[scan] = item /\ outer = "none"
    /\ outer = "cleanup" => emptied = scan
    /\ op = "add" => (0 < next /\ next <= scan => Key[item] \in keep)

-----------------------------------------------------------------------------
(* Sizes, buckets and counts.                                                *)

\* An item has a home bucket in every table.
LEMMA HomeIn ==
  ASSUME NEW x \in Item, NEW n \in Nat \ {0}
  PROVE  Home(x, n) \in 0 .. n - 1
<1>1. Hash[x] \in Nat
  BY SetAssumption
<1> QED
  BY <1>1 DEF Home

\* A table has more buckets than the items it may hold.
LEMMA SizeLimits ==
  ASSUME NEW n \in TableSizes
  PROVE  n \in Nat \ {0} /\ Limit(n) \in Nat /\ Limit(n) < n
<1>1. n \in Nat /\ Limit(n) < n
  BY SetAssumption DEF TableSizes
<1>2. (n + 2) \div 3 \in Nat
  BY <1>1
<1>3. Limit(n) \in Nat
  BY <1>2 DEF Limit
<1> QED
  BY <1>1, <1>3

\* The filled buckets of a table are counted.
LEMMA FilledFinite ==
  ASSUME NEW n \in Nat, NEW T \in [0 .. n - 1 -> Item \cup {NULL}]
  PROVE  /\ IsFiniteSet(Filled(T)) /\ Cardinality(Filled(T)) \in Nat
         /\ Filled(T) \subseteq 0 .. n - 1
<1>1. IsFiniteSet(0 .. n - 1)
  BY FS_Interval
<1>2. Filled(T) \subseteq 0 .. n - 1
  BY DEF Filled
<1> QED
  BY <1>1, <1>2, FS_Subset, FS_CardinalityType

\* A table with fewer items than buckets has an empty one.
LEMMA Room ==
  ASSUME NEW n \in Nat, NEW T \in [0 .. n - 1 -> Item \cup {NULL}], Cardinality(Filled(T)) < n
  PROVE  \E b \in 0 .. n - 1 : T[b] = NULL
<1>1. SUFFICES ASSUME \A b \in 0 .. n - 1 : T[b] # NULL PROVE FALSE
  OBVIOUS
<1>2. Filled(T) = 0 .. n - 1
  BY <1>1 DEF Filled
<1>3. Cardinality(0 .. n - 1) = n
  BY FS_Interval
<1> QED
  BY <1>2, <1>3

\* What a bucket that is filled changes of the count.
LEMMA FilledPut ==
  ASSUME NEW S, IsFiniteSet(S), NEW T \in [S -> Item \cup {NULL}], NEW j \in S, NEW x \in Item,
         NEW U \in [S -> Item \cup {NULL}], \A b \in S : U[b] = IF b = j THEN x ELSE T[b]
  PROVE  /\ Filled(U) = Filled(T) \cup {j}
         /\ Cardinality(Filled(U)) = IF T[j] = NULL THEN Cardinality(Filled(T)) + 1 ELSE Cardinality(Filled(T))
<1>1. Filled(U) = Filled(T) \cup {j}
  BY SetAssumption DEF Filled
<1>2. j \in Filled(T) <=> T[j] # NULL
  BY DEF Filled
<1>3. IsFiniteSet(Filled(T))
  BY FS_Subset DEF Filled
<1> QED
  BY <1>1, <1>2, <1>3, FS_AddElement

\* A table without items.
LEMMA EmptyTable ==
  ASSUME NEW n \in Nat
  PROVE  /\ Empty(n) \in [0 .. n - 1 -> Item \cup {NULL}]
         /\ Filled(Empty(n)) = {} /\ Cardinality(Filled(Empty(n))) = 0
<1>1. Filled(Empty(n)) = {}
  BY DEF Filled, Empty
<1> QED
  BY <1>1, FS_EmptySet DEF Empty

-----------------------------------------------------------------------------
(* The way round the table.                                                  *)

\* Of two buckets, one comes first on the way from a third.
LEMMA First ==
  ASSUME NEW n \in Nat, NEW a \in 0 .. n - 1, NEW b \in 0 .. n - 1, NEW c \in 0 .. n - 1
  PROVE  On(a, b, c) \/ b = c \/ On(a, c, b)
BY DEF On

\* Stopping one bucket later adds that bucket.
LEMMA Later ==
  ASSUME size \in Nat, NEW a \in Bucket, NEW z \in Bucket, NEW b \in Bucket
  PROVE  /\ Succ(z) \in Bucket
         /\ On(a, Succ(z), b) => On(a, z, b) \/ b = z
         /\ Succ(z) # a => On(a, Succ(z), z) /\ (On(a, z, b) => On(a, Succ(z), b))
BY DEF On, Succ, Bucket

\* Starting one bucket later leaves the first one out.
LEMMA Sooner ==
  ASSUME size \in Nat, NEW a \in Bucket, NEW z \in Bucket, NEW b \in Bucket, a # z
  PROVE  /\ On(Succ(a), z, b) <=> On(a, z, b) /\ b # a
         /\ On(a, z, a)
BY DEF On, Succ, Bucket

\* What follows a bucket on the way is on the way.
LEMMA Rest ==
  ASSUME NEW n \in Nat, NEW h \in 0 .. n - 1, NEW j \in 0 .. n - 1, NEW z \in 0 .. n - 1, NEW b \in 0 .. n - 1,
         On(h, j, z), On(z, j, b)
  PROVE  On(h, j, b)
BY DEF On

\* The way from z to e and the way from e to z have no bucket in common.
LEMMA Apart ==
  ASSUME NEW n \in Nat, NEW e \in 0 .. n - 1, NEW z \in 0 .. n - 1, NEW b \in 0 .. n - 1, On(z, e, b)
  PROVE  ~On(e, z, b) /\ e # z
BY DEF On

\* A way that goes through z and ends before z goes through all that lies between z and e.
LEMMA Around ==
  ASSUME NEW n \in Nat, NEW h \in 0 .. n - 1, NEW j \in 0 .. n - 1, NEW z \in 0 .. n - 1,
         NEW e \in 0 .. n - 1, NEW k \in 0 .. n - 1,
         On(h, j, z), On(e, z, j), On(z, e, k)
  PROVE  On(h, j, k)
BY DEF On

\* Two buckets have different successors.
LEMMA SuccInjective ==
  ASSUME size \in Nat, NEW a \in Bucket, NEW b \in Bucket, Succ(a) = Succ(b)
  PROVE  a = b
BY DEF Succ, Bucket

-----------------------------------------------------------------------------
(* Each step keeps the invariant.                                            *)

\* What the proofs of the steps take from the types.
LEMMA Facts ==
  ASSUME Inv
  PROVE  /\ size \in Nat \ {0} /\ Bucket = 0 .. size - 1 /\ Limit(size) \in Nat /\ Limit(size) < size
         /\ table \in [0 .. size - 1 -> Item \cup {NULL}] /\ NULL \notin Item
         /\ Filled(table) \subseteq Bucket /\ IsFiniteSet(Filled(table))
         /\ \A b \in Bucket : b \in Filled(table) <=> table[b] # NULL
         /\ \A b \in Filled(table) : table[b] \in Item /\ Home(table[b], size) \in Bucket
         /\ \A x \in Item : Home(x, size) \in Bucket
<1>1. size \in Nat \ {0} /\ Bucket = 0 .. size - 1 /\ Limit(size) \in Nat /\ Limit(size) < size
  BY SizeLimits DEF Inv, Types, Bucket
<1>2. table \in [0 .. size - 1 -> Item \cup {NULL}] /\ NULL \notin Item
  BY SetAssumption DEF Inv, Types, Bucket
<1>3. Filled(table) \subseteq Bucket /\ IsFiniteSet(Filled(table))
  BY <1>1, <1>2, FilledFinite
<1>4. \A b \in Bucket : b \in Filled(table) <=> table[b] # NULL
  BY <1>1, <1>2 DEF Filled
<1>5. \A x \in Item : Home(x, size) \in Bucket
  BY <1>1, HomeIn
<1>6. \A b \in Filled(table) : table[b] \in Item
  BY <1>1, <1>2, <1>3 DEF Filled
<1> QED
  BY <1>1, <1>2, <1>3, <1>4, <1>5, <1>6

\* A set is empty at first.
LEMMA InvInit == Init => Inv
<1> SUFFICES ASSUME Init PROVE Inv
  OBVIOUS
<1>1. size \in TableSizes
  BY SetAssumption DEF Init
<1>2. size \in Nat \ {0} /\ Limit(size) \in Nat
  BY <1>1, SizeLimits
<1>3. table \in [Bucket -> Item \cup {NULL}] /\ Filled(table) = {} /\ Cardinality(Filled(table)) = 0
  BY <1>2, EmptyTable DEF Init, Bucket
<1>4. old \in [0 .. 0 - 1 -> Item \cup {NULL}]
  BY EmptyTable DEF Init
<1>5. item \in Item
  BY SetAssumption DEF Init
<1>6. Types
  BY <1>1, <1>2, <1>3, <1>4, <1>5 DEF Init, Types
<1>7. Nested /\ Counted /\ Loaded
  BY <1>2, <1>3 DEF Init, Nested, Counted, Loaded
<1>8. Reached /\ Unequal /\ Passed /\ Cleaning /\ Rebuilding
  BY <1>3 DEF Init, Reached, Unequal, Passed, Cleaning, Rebuilding
<1> QED
  BY <1>6, <1>7, <1>8 DEF Inv

\* The table, the loops and the counts are as they were: what is said of them stays.
LEMMA Kept ==
  ASSUME Inv, UNCHANGED <<table, size, itemCount, loop>>
  PROVE  /\ Counted' /\ Reached' /\ Bucket' = Bucket
         /\ \A a, b \in Filled(table)' : Key[table[a]'] = Key[table[b]'] => a = b
<1> USE DEF loop
<1>1. Counted' /\ Bucket' = Bucket
  BY DEF Inv, Counted, Bucket, Filled
<1>2. Reached'
  BY DEF Inv, Reached, Whole, Cut, Bucket, Filled, Home
<1> QED
  BY <1>1, <1>2 DEF Inv, Unequal, Filled

\* A call begins at the home bucket of its item.
LEMMA InvCall ==
  ASSUME Inv, NEW name \in {"add", "remove", "get"}, NEW x \in Item,
         Call(name, x), name = "add" => itemCount < MaxCount
  PROVE  Inv'
<1> USE DEF Call, Idle, Starts, loop, intersect
<1>1. Home(x, size) \in Bucket
  BY Facts
<1>2. Types'
  BY <1>1 DEF Inv, Types, Bucket
<1>3. Nested'
  BY DEF Inv, Nested
<1>4. Loaded'
  BY DEF Inv, Loaded
<1>5. Passed'
  BY <1>1 DEF Passed, On, Bucket, Home
<1>6. Counted' /\ Reached'
  BY Kept
<1>7. Unequal' /\ Cleaning' /\ Rebuilding'
  BY DEF Inv, Unequal, Cleaning, Rebuilding, Filled
<1> QED
  BY <1>2, <1>3, <1>4, <1>5, <1>6, <1>7 DEF Inv

\* LWSetClear leaves an empty table.
LEMMA InvClear ==
  ASSUME Inv, LWSetClear
  PROVE  Inv'
<1> USE DEF LWSetClear, Idle, loop, probe, intersect
<1>1. size \in Nat /\ Limit(size) \in Nat
  BY Facts
<1>2. table' \in [0 .. size - 1 -> Item \cup {NULL}] /\ Filled(table') = {} /\ Cardinality(Filled(table')) = 0
  BY <1>1, EmptyTable
<1>3. Types'
  BY <1>2 DEF Inv, Types, Bucket
<1>4. Nested' /\ Counted' /\ Loaded'
  BY <1>1, <1>2 DEF Inv, Nested, Counted, Loaded
<1>5. Reached' /\ Unequal' /\ Passed' /\ Cleaning' /\ Rebuilding'
  BY <1>2 DEF Inv, Reached, Unequal, Passed, Cleaning, Rebuilding
<1> QED
  BY <1>3, <1>4, <1>5 DEF Inv

\* A probe that goes on has passed a bucket with another item.
LEMMA InvProbe ==
  ASSUME Inv, Probe
  PROVE  Inv'
<1> USE DEF Probe, loop, intersect
<1>1. /\ size \in Nat \ {0} /\ Bucket = 0 .. size - 1 /\ i \in Bucket /\ item \in Item
      /\ Home(item, size) \in Bucket /\ table[i] # NULL /\ Key[table[i]] # Key[item]
  BY Facts DEF Inv, Types, Stops
<1>2. Succ(i) \in Bucket
  BY <1>1, Later
<1>3. Types'
  BY <1>2 DEF Inv, Types, Bucket
<1>4. Nested' /\ Loaded'
  BY DEF Inv, Nested, Loaded, Adding, Filled
<1>5. Passed'
  <2>1. \A b \in Bucket : On(Home(item, size), Succ(i), b) => On(Home(item, size), i, b) \/ b = i
    BY <1>1, Later
  <2> QED
    BY <1>1, <2>1 DEF Inv, Passed, Bucket, Home, On
<1>6. Counted' /\ Reached'
  BY Kept
<1>7. Unequal' /\ Rebuilding'
  BY DEF Inv, Unequal, Rebuilding, Filled
<1>8. Cleaning'
  <2> SUFFICES ASSUME outer = "cleanup" PROVE Cleaning'
    BY DEF Cleaning
  <2>1. next \in Bucket /\ emptied \in Bucket /\ \E b \in Bucket : On(next, emptied, b) /\ table[b] = NULL
    BY DEF Inv, Types, Cleaning
  <2>2. CASE op = "add"
    <3>1. /\ i # next /\ \E b \in Bucket : Succ(b) = next /\ table[b] = NULL
          /\ \A b \in Bucket : On(i, next, b) => table[b] # NULL \/ On(emptied, next, b)
      BY <2>2 DEF Inv, Cleaning
    <3>2. Succ(i) # next
      BY <1>1, <3>1, SuccInjective
    <3>3. \A b \in Bucket : On(Succ(i), next, b) => On(i, next, b)
      BY <1>1, <2>1, <3>1, Sooner
    <3> QED
      BY <2>1, <3>1, <3>2, <3>3 DEF Cleaning, Bucket, Succ, On
  <2>3. CASE op # "add"
    BY <2>1, <2>3 DEF Cleaning, Bucket, On
  <2> QED
    BY <2>2, <2>3
<1> QED
  BY <1>3, <1>4, <1>5, <1>6, <1>7, <1>8 DEF Inv

\* A call that only looks changes nothing.
LEMMA InvGet ==
  ASSUME Inv, GetEnds
  PROVE  Inv'
<1> USE DEF GetEnds, loop, intersect
<1>0. size \in Nat /\ table[i] \in Item \cup {NULL}
  BY Facts DEF Inv, Types
<1>1. Types'
  BY <1>0 DEF Inv, Types, Bucket, Returns
<1>2. Nested' /\ Loaded' /\ Unequal' /\ Rebuilding' /\ Passed'
  BY DEF Inv, Nested, Loaded, Unequal, Rebuilding, Passed, Filled, Adding
<1>3. Counted' /\ Reached'
  BY Kept
<1>4. Cleaning'
  BY DEF Inv, Cleaning, Nested
<1> QED
  BY <1>1, <1>2, <1>3, <1>4 DEF Inv

\* LWSetIntersect calls LWSetRemove, or goes on.
LEMMA InvIntersect ==
  ASSUME Inv, IntersectRemoves \/ IntersectNext \/ IntersectEnds
              \/ \E keys \in SUBSET {Key[x] : x \in Item} : LWSetIntersect(keys)
  PROVE  Inv'
<1> USE DEF loop, probe, Idle
<1>1. size \in Nat \ {0} /\ Bucket = 0 .. size - 1
  BY Facts
<1>2. UNCHANGED <<table, size, itemCount, result, loop>> /\ outer = "none"
  BY DEF IntersectRemoves, IntersectNext, IntersectEnds, LWSetIntersect
<1>3. Counted' /\ Reached' /\ Bucket' = Bucket
  BY <1>2, Kept
<1>4. Unequal' /\ Cleaning' /\ Rebuilding'
  BY <1>2 DEF Inv, Unequal, Cleaning, Rebuilding, Filled
<1>5. CASE IntersectRemoves
  <2>1. scan \in Bucket /\ scan \in Filled(table)
    BY <1>1, <1>5, Facts DEF IntersectRemoves
  <2>2. table[scan] \in Item /\ Home(table[scan], size) \in Bucket
    BY <2>1, Facts
  <2>3. item' = table[scan] /\ i' = Home(table[scan], size) /\ op' = "remove"
    BY <1>5 DEF IntersectRemoves, Starts
  <2>4. scan' = scan /\ keep' = keep
    BY <1>5 DEF IntersectRemoves, ScanAgain
  <2>5. Types'
    BY <1>2, <1>3, <2>2, <2>3, <2>4 DEF Inv, Types
  <2>6. Nested' /\ Loaded'
    BY <1>2, <2>3 DEF Inv, Nested, Loaded
  <2>7. Passed'
    BY <1>1, <1>2, <1>3, <2>2, <2>3 DEF Passed, On, Home
  <2> QED
    BY <1>3, <1>4, <2>5, <2>6, <2>7 DEF Inv
<1>6. CASE ~IntersectRemoves
  <2>1. UNCHANGED probe /\ op = "none"
    BY <1>6 DEF IntersectNext, IntersectEnds, LWSetIntersect
  <2>2. keep' \subseteq {Key[x] : x \in Item} /\ scan' \in -1 .. size
    BY <1>1, <1>6 DEF IntersectNext, IntersectEnds, LWSetIntersect, Inv, Types
  <2>3. Types'
    BY <1>2, <1>3, <2>1, <2>2 DEF Inv, Types
  <2>4. Nested' /\ Loaded' /\ Passed'
    BY <1>2, <2>1 DEF Inv, Nested, Loaded, Passed
  <2> QED
    BY <1>3, <1>4, <2>3, <2>4 DEF Inv
<1> QED
  BY <1>5, <1>6

\* Where no loop runs, an item whose probe ends at an empty bucket is not in the table.
LEMMA NotThere ==
  ASSUME Inv, op # "none", outer = "none", table[i] = NULL, NEW b \in Filled(table)
  PROVE  Key[table[b]] # Key[item]
<1> SUFFICES ASSUME Key[table[b]] = Key[item] PROVE FALSE
  OBVIOUS
<1> DEFINE hm == Home(item, size)
<1>1. /\ size \in Nat /\ b \in Bucket /\ i \in Bucket /\ Bucket = 0 .. size - 1 /\ hm \in Bucket
      /\ item \in Item /\ table[b] \in Item /\ table[b] # NULL
  BY Facts DEF Inv, Types
<1>2. Home(table[b], size) = hm
  BY <1>1, SetAssumption DEF Home
<1>3. \A k \in Bucket : On(hm, b, k) => table[k] # NULL
  BY <1>2 DEF Inv, Reached, Whole, Cut
<1>4. ~On(hm, b, i) /\ b # i
  BY <1>1, <1>3
<1>5. On(hm, i, b)
  BY <1>1, <1>4, First
<1> QED
  BY <1>1, <1>5 DEF Inv, Passed

\* In the loops, an item that is added again finds no equal one.
LEMMA AgainNew ==
  ASSUME Inv, op = "add", outer # "none", Stops
  PROVE  table[i] = NULL
<1>1. i \in Bucket /\ (i \in Filled(table) <=> table[i] # NULL)
  BY Facts DEF Inv, Types
<1> QED
  BY <1>1 DEF Inv, Unequal, Stops

\* A new item in the bucket at which its probe ended is reached, and so are the others.
LEMMA ReachedPut ==
  ASSUME Inv, op = "add", Stops, UNCHANGED <<size, outer, next, emptied>>,
         table' = [table EXCEPT ![i] = item]
  PROVE  Reached'
<1>1. /\ size \in Nat /\ i \in Bucket /\ Bucket = 0 .. size - 1 /\ item \in Item /\ Bucket' = Bucket
      /\ table \in [0 .. size - 1 -> Item \cup {NULL}] /\ NULL \notin Item
  BY Facts DEF Inv, Types, Bucket
<1>2. \A b \in Bucket : table'[b] = IF b = i THEN item ELSE table[b]
  BY <1>1
<1>3. \A b \in Bucket : table[b] # NULL => table'[b] # NULL
  BY <1>1, <1>2
<1> SUFFICES ASSUME NEW j \in Bucket, table'[j] # NULL PROVE Whole(j)' \/ Cut(j)'
  BY <1>1, <1>2 DEF Reached, Filled
<1>4. CASE j = i
  <2>1. table'[j] = item
    BY <1>2, <1>4
  <2>2. Whole(j)'
    BY <1>1, <1>3, <1>4, <2>1 DEF Whole, Inv, Passed, Home
  <2> QED
    BY <2>2
<1>5. CASE j # i
  <2>1. table'[j] = table[j] /\ j \in Filled(table)
    BY <1>1, <1>2, <1>5 DEF Filled
  <2>2. Whole(j) \/ Cut(j)
    BY <2>1 DEF Inv, Reached
  <2>3. Whole(j) => Whole(j)'
    BY <1>1, <1>3, <2>1 DEF Whole, Home
  <2>4. Cut(j) => Cut(j)'
    BY <1>1, <1>3, <2>1 DEF Cut, Home
  <2> QED
    BY <2>2, <2>3, <2>4
<1> QED
  BY <1>4, <1>5

\* No loop fills the table up.
LEMMA FullNever ==
  ASSUME Inv, op = "add", outer # "none"
  PROVE  ~Full(itemCount + 1)
<1>1. size \in Nat /\ Limit(size) \in Nat /\ itemCount \in Nat
  BY Facts DEF Inv, Types
<1>2. CASE outer = "cleanup"
  BY <1>1, <1>2 DEF Inv, Loaded, Adding, Full
<1>3. CASE outer = "rebuild"
  <2>1. PICK n \in TableSizes \cup {0} : old \in [0 .. n - 1 -> Item \cup {NULL}]
    BY DEF Inv, Types
  <2>2. n \in Nat
    BY <2>1, SizeLimits
  <2>3. IsFiniteSet(Filled(old)) /\ Cardinality(Filled(old)) \in Nat
    BY <2>1, <2>2, FilledFinite
  <2>4. Cardinality(Past(old, next)) \in Nat /\ Cardinality(Past(old, next)) <= Cardinality(Filled(old))
    BY <2>3, FS_Subset, FS_CardinalityType DEF Past
  <2> QED
    BY <1>1, <1>3, <2>3, <2>4 DEF Inv, Loaded, Adding, Full
<1> QED
  BY <1>2, <1>3 DEF Inv, Types

\* An item that is added, or added again, gets a bucket; a table that becomes too full is rebuilt.
LEMMA InvAdd ==
  ASSUME Inv, AddEnds
  PROVE  Inv'
<1> DEFINE filled == [table EXCEPT ![i] = item]
           count == IF table[i] = NULL THEN itemCount + 1 ELSE itemCount
<1> USE DEF intersect
<1>1. /\ size \in Nat \ {0} /\ i \in Bucket /\ Bucket = 0 .. size - 1 /\ item \in Item /\ Limit(size) \in Nat
      /\ table \in [0 .. size - 1 -> Item \cup {NULL}] /\ NULL \notin Item /\ itemCount \in Nat
      /\ Filled(table) \subseteq Bucket /\ size \in TableSizes
  BY Facts DEF Inv, Types, AddEnds
<1>2. /\ op = "add" /\ Stops /\ op' = "none" /\ UNCHANGED <<item, i, emptied, keep, scan>>
      /\ result' = IF outer = "none" /\ scan = -1 THEN table[i] ELSE result
  BY DEF AddEnds, Returns
<1>3. /\ filled \in [0 .. size - 1 -> Item \cup {NULL}] /\ Filled(filled) = Filled(table) \cup {i}
      /\ Cardinality(Filled(filled)) = count
      /\ \A b \in Bucket : filled[b] = IF b = i THEN item ELSE table[b]
  <2>1. filled \in [0 .. size - 1 -> Item \cup {NULL}]
    BY <1>1
  <2>2. \A b \in Bucket : filled[b] = IF b = i THEN item ELSE table[b]
    BY <1>1
  <2>3. itemCount = Cardinality(Filled(table)) /\ IsFiniteSet(Bucket)
    BY <1>1, FS_Interval DEF Inv, Counted
  <2> HIDE DEF filled
  <2>4. /\ Filled(filled) = Filled(table) \cup {i}
        /\ Cardinality(Filled(filled)) =
             IF table[i] = NULL THEN Cardinality(Filled(table)) + 1 ELSE Cardinality(Filled(table))
    <3>1. Bucket = 0 .. size - 1
      BY <1>1
    <3>2. table \in [Bucket -> Item \cup {NULL}] /\ filled \in [Bucket -> Item \cup {NULL}] /\ i \in Bucket /\ item \in Item
      BY <1>1, <2>1
    <3> HIDE DEF Bucket
    <3> QED
      BY <2>2, <2>3, <3>2, FilledPut
  <2> QED
    BY <2>1, <2>2, <2>3, <2>4
<1>4. result' \in Item \cup {NULL}
  BY <1>1, <1>2 DEF Inv, Types
<1>5. \A a, b \in Filled(filled) : Key[filled[a]] = Key[filled[b]] => a = b
  <2>1. ASSUME NEW b \in Filled(table), b # i PROVE Key[table[b]] # Key[item]
    <3>1. CASE table[i] = NULL /\ outer = "none"
      BY <1>2, <3>1, NotThere
    <3>2. CASE table[i] = NULL /\ outer # "none"
      BY <1>2, <3>2 DEF Inv, Unequal
    <3>3. CASE table[i] # NULL
      <4>1. i \in Filled(table) /\ Key[table[i]] = Key[item]
        BY <1>1, <1>2, <3>3 DEF Filled, Stops
      <4> QED
        BY <2>1, <4>1 DEF Inv, Unequal
    <3> QED
      BY <3>1, <3>2, <3>3
  <2> QED
    BY <1>1, <1>3, <2>1 DEF Inv, Unequal
<1>6. CASE Full(count)
  <2>1. /\ size' = SizeFor(size) /\ table' = Empty(size') /\ itemCount' = 0
        /\ outer' = "rebuild" /\ next' = 0 /\ old' = filled
    BY <1>6 DEF AddEnds
  <2>2. outer = "none"
    <3>1. outer # "none" => count = itemCount + 1
      BY <1>2, AgainNew
    <3> QED
      BY <1>2, <1>6, <3>1, FullNever
  <2>3. itemCount <= Limit(size) /\ itemCount < MaxCount /\ count > Limit(size) /\ scan = -1
    BY <1>2, <1>6, <2>2 DEF Inv, Loaded, Nested, Full
  <2>4. table[i] = NULL /\ count = itemCount + 1 /\ MaxCount > Limit(size) /\ count <= Limit(size) + 1
    BY <1>1, <2>3, SetAssumption
  <2>5. size' \in TableSizes /\ Limit(size) < Limit(size')
    BY <1>1, <2>1, <2>4, SetAssumption
  <2>6. size' \in Nat /\ Limit(size') \in Nat
    BY <2>5, SizeLimits
  <2>7. /\ table' \in [0 .. size' - 1 -> Item \cup {NULL}] /\ Filled(table') = {}
        /\ Cardinality(Filled(table')) = 0
    BY <2>1, <2>6, EmptyTable
  <2>8. Types'
    BY <1>1, <1>2, <1>3, <1>4, <2>1, <2>3, <2>5, <2>6, <2>7 DEF Inv, Types, Bucket
  <2>9. Nested' /\ Counted'
    BY <1>2, <2>1, <2>3, <2>7 DEF Nested, Counted
  <2>10. Loaded'
    <3> HIDE DEF filled
    <3>1. Filled(old') \subseteq 0 .. size - 1 /\ next' = 0
      BY <1>1, <1>3, <2>1
    <3>2. Past(old', next') = {}
      BY <1>1, <3>1 DEF Past
    <3>3. Cardinality(Past(old', next')) = 0
      BY <3>2, FS_EmptySet
    <3>4. Cardinality(Filled(old')) <= Limit(size')
      <4>1. count <= Limit(size')
        BY <1>1, <2>4, <2>5, <2>6
      <4>2. Cardinality(Filled(old')) = count
        BY <1>3, <2>1
      <4> QED
        BY <4>1, <4>2
    <3>5. Adding' = 0
      BY <1>2 DEF Adding
    <3> QED
      BY <2>1, <3>3, <3>4, <3>5 DEF Loaded
  <2>11. Reached' /\ Unequal' /\ Passed' /\ Cleaning'
    BY <1>2, <2>1, <2>7 DEF Reached, Unequal, Passed, Cleaning
  <2>12. Rebuilding'
    BY <1>2, <1>5, <2>1, <2>7 DEF Rebuilding
  <2> QED
    BY <2>8, <2>9, <2>10, <2>11, <2>12 DEF Inv
<1>7. CASE ~Full(count)
  <2>1. table' = filled /\ itemCount' = count /\ UNCHANGED <<size, outer, next, old>> /\ Bucket' = Bucket
    BY <1>7 DEF AddEnds, Bucket
  <2>2. Types'
    BY <1>1, <1>2, <1>3, <1>4, <2>1 DEF Inv, Types
  <2>3. Nested' /\ Counted'
    BY <1>2, <1>3, <2>1 DEF Inv, Nested, Counted
  <2>4. Loaded'
    <3>1. outer # "none" => count = itemCount + 1
      BY <1>2, AgainNew
    <3>2. count <= Limit(size)
      BY <1>1, <1>7 DEF Full
    <3>3. CASE outer = "none"
      BY <1>2, <2>1, <3>2, <3>3 DEF Loaded
    <3>4. CASE outer = "cleanup"
      BY <1>1, <1>2, <2>1, <3>1, <3>4 DEF Inv, Loaded, Adding
    <3>5. CASE outer = "rebuild"
      BY <1>1, <1>2, <2>1, <3>1, <3>5 DEF Inv, Loaded, Adding
    <3> QED
      BY <3>3, <3>4, <3>5 DEF Inv, Types
  <2>5. Reached'
    BY <1>2, <2>1, ReachedPut
  <2>6. Unequal' /\ Passed'
    BY <1>2, <1>5, <2>1 DEF Unequal, Passed
  <2>7. Cleaning'
    <3> SUFFICES ASSUME outer = "cleanup" PROVE Cleaning'
      BY <2>1 DEF Cleaning
    <3>1. next \in Bucket /\ emptied \in Bucket /\ table[i] = NULL
      BY <1>2, AgainNew DEF Inv, Types
    <3>2. PICK k \in Bucket : On(next, emptied, k) /\ table[k] = NULL
      BY DEF Inv, Cleaning
    <3>3. i # next /\ \A b \in Bucket : On(i, next, b) => table[b] # NULL \/ On(emptied, next, b)
      BY <1>2 DEF Inv, Cleaning
    <3>4. On(emptied, next, i)
      BY <1>1, <3>1, <3>3, Sooner
    <3>5. k # i
      BY <1>1, <3>1, <3>2, <3>4, Apart
    <3>6. On(next, emptied, k)' /\ table'[k] = NULL
      BY <1>2, <1>3, <2>1, <3>2, <3>5 DEF On
    <3> QED
      BY <1>2, <2>1, <3>6 DEF Cleaning
  <2>8. Rebuilding'
    <3> SUFFICES ASSUME outer = "rebuild" PROVE Rebuilding'
      BY <2>1 DEF Rebuilding
    <3>1. next - 1 \in Filled(old) /\ item = old[next - 1] /\ next \in Nat
      BY <1>2 DEF Inv, Rebuilding, Types
    <3>2. \A a \in Filled(old) : a \in Int
      BY SizeLimits DEF Inv, Types, Filled
    <3>3. ASSUME NEW a \in Filled(old), NEW b \in Filled(table), a >= next PROVE Key[old[a]] # Key[table[b]]
      BY <3>3 DEF Inv, Rebuilding
    <3>4. ASSUME NEW a \in Filled(old), a >= next PROVE Key[old[a]] # Key[item]
      <4>1. a # next - 1
        BY <3>1, <3>2, <3>4
      <4> QED
        BY <3>1, <4>1 DEF Inv, Rebuilding
    <3>5. \A a \in Filled(old), b \in Filled(filled) : a >= next => Key[old[a]] # Key[filled[b]]
      BY <1>1, <1>3, <3>3, <3>4
    <3> QED
      BY <1>2, <2>1, <3>5 DEF Inv, Rebuilding
  <2> QED
    BY <2>2, <2>3, <2>4, <2>5, <2>6, <2>7, <2>8 DEF Inv
<1> QED
  BY <1>6, <1>7

\* A bucket that is emptied: what is said of the table, the item that was there apart.
LEMMA Taken ==
  ASSUME Inv, NEW k \in Filled(table), size' = size, table' = [table EXCEPT ![k] = NULL]
  PROVE  /\ Bucket' = Bucket /\ table' \in [Bucket -> Item \cup {NULL}]
         /\ Filled(table') = Filled(table) \ {k} /\ Cardinality(Filled(table')) = itemCount - 1
         /\ itemCount - 1 \in Nat
         /\ \A b \in Bucket : table'[b] = IF b = k THEN NULL ELSE table[b]
         /\ \A a, b \in Filled(table') : Key[table'[a]] = Key[table'[b]] => a = b
<1>1. /\ size \in Nat \ {0} /\ Bucket = 0 .. size - 1 /\ k \in Bucket /\ NULL \notin Item /\ table[k] # NULL
      /\ table \in [0 .. size - 1 -> Item \cup {NULL}] /\ Filled(table) \subseteq Bucket
  BY Facts
<1>2. \A b \in Bucket : table'[b] = IF b = k THEN NULL ELSE table[b]
  BY <1>1
<1>3. Bucket' = Bucket /\ table' \in [Bucket -> Item \cup {NULL}] /\ table \in [Bucket -> Item \cup {NULL}]
  BY <1>1 DEF Bucket
<1>4. IsFiniteSet(Bucket) /\ itemCount = Cardinality(Filled(table)) /\ itemCount \in Nat
  BY <1>1, FS_Interval DEF Inv, Counted, Types
<1> HIDE DEF Bucket
<1>5. Filled(table') = Filled(table) \ {k} /\ Cardinality(Filled(table')) = itemCount - 1
  <2>1. Filled(table') = Filled(table) \ {k}
    BY <1>1, <1>2, <1>3 DEF Filled
  <2>2. IsFiniteSet(Filled(table))
    BY <1>1, <1>4, FS_Subset
  <2>3. Cardinality(Filled(table) \ {k}) = Cardinality(Filled(table)) - 1
    BY <2>2, FS_RemoveElement
  <2> QED
    BY <1>4, <2>1, <2>3
<1>6. itemCount # 0
  BY <1>1, <1>4, FS_EmptySet, FS_Subset
<1>7. \A a, b \in Filled(table') : Key[table'[a]] = Key[table'[b]] => a = b
  BY <1>1, <1>2, <1>5 DEF Inv, Unequal
<1>8. itemCount - 1 \in Nat
  BY <1>4, <1>6
<1> QED
  BY <1>2, <1>3, <1>5, <1>7, <1>8

\* A bucket that is emptied begins the loop that takes out what follows.
LEMMA InvRemove ==
  ASSUME Inv, RemoveEnds
  PROVE  Inv'
<1> USE DEF intersect
<1>1. /\ size \in Nat \ {0} /\ i \in Bucket /\ Bucket = 0 .. size - 1 /\ item \in Item /\ Limit(size) \in Nat
      /\ Limit(size) < size /\ itemCount \in Nat /\ table \in [0 .. size - 1 -> Item \cup {NULL}] /\ NULL \notin Item
      /\ Filled(table) \subseteq Bucket /\ \A b \in Bucket : b \in Filled(table) <=> table[b] # NULL
  BY Facts DEF Inv, Types, RemoveEnds
<1>2. /\ op = "remove" /\ outer = "none" /\ op' = "none" /\ UNCHANGED <<size, item, i, old, keep, scan>>
      /\ result' = IF scan = -1 THEN table[i] ELSE result
  BY DEF RemoveEnds, Returns, Inv, Nested
<1>3. result' \in Item \cup {NULL}
  BY <1>1, <1>2 DEF Inv, Types
<1>4. CASE table[i] = NULL
  <2>1. UNCHANGED <<table, itemCount, outer, next, emptied>> /\ Bucket' = Bucket
    BY <1>2, <1>4 DEF RemoveEnds, Bucket
  <2>2. Types'
    BY <1>2, <1>3, <2>1 DEF Inv, Types
  <2>3. Counted' /\ Reached'
    BY <1>2, <2>1, Kept DEF loop
  <2>4. Nested' /\ Loaded' /\ Unequal' /\ Passed' /\ Cleaning' /\ Rebuilding'
    BY <1>2, <2>1 DEF Inv, Nested, Loaded, Unequal, Passed, Cleaning, Rebuilding, Filled
  <2> QED
    BY <2>2, <2>3, <2>4 DEF Inv
<1>5. CASE table[i] # NULL
  <2>1. /\ table' = [table EXCEPT ![i] = NULL] /\ itemCount' = itemCount - 1
        /\ outer' = "cleanup" /\ next' = Succ(i) /\ emptied' = i
    BY <1>5 DEF RemoveEnds, Cleanup
  <2>2. /\ Bucket' = Bucket /\ table' \in [Bucket -> Item \cup {NULL}]
        /\ Filled(table') = Filled(table) \ {i} /\ Cardinality(Filled(table')) = itemCount - 1
        /\ itemCount - 1 \in Nat
        /\ \A b \in Bucket : table'[b] = IF b = i THEN NULL ELSE table[b]
        /\ \A a, b \in Filled(table') : Key[table'[a]] = Key[table'[b]] => a = b
    BY <1>1, <1>2, <1>5, <2>1, Taken
  <2>3. Succ(i) \in Bucket
    BY <1>1, Later
  <2>4. Types'
    BY <1>1, <1>2, <1>3, <2>1, <2>2, <2>3 DEF Inv, Types, Bucket
  <2>5. Nested' /\ Counted'
    BY <1>2, <2>1, <2>2 DEF Inv, Nested, Counted
  <2>6. Loaded'
    BY <1>1, <1>2, <2>1, <2>2 DEF Inv, Loaded, Adding
  <2>7. Unequal' /\ Passed' /\ Rebuilding'
    BY <1>2, <2>1, <2>2 DEF Unequal, Passed, Rebuilding
  <2>8. Cleaning'
    <3>1. Cardinality(Filled(table)) < size
      BY <1>1, <1>2, <2>2 DEF Inv, Loaded, Counted
    <3>2. PICK k \in Bucket : table[k] = NULL
      BY <1>1, <3>1, Room
    <3>3. On(i, i, k) \/ k = i \/ On(Succ(i), i, k)
      BY <1>1 DEF On, Succ, Bucket
    <3>4. On(Succ(i), i, k) /\ table'[k] = NULL
      BY <1>1, <1>5, <2>2, <3>2, <3>3 DEF On
    <3> QED
      BY <1>2, <2>1, <2>2, <3>4 DEF Cleaning, On
  <2>9. Reached'
    <3> SUFFICES ASSUME NEW j \in Filled(table) \ {i} PROVE Whole(j)' \/ Cut(j)'
      BY <2>2 DEF Reached
    <3> DEFINE hm == Home(table[j], size)
    <3>1. j \in Bucket /\ table[j] \in Item /\ hm \in Bucket /\ j # i
      BY Facts
    <3>2. \A b \in Bucket : On(hm, j, b) => table[b] # NULL
      BY <1>2 DEF Inv, Reached, Whole, Cut
    <3>3. table'[j] = table[j] /\ Home(table'[j], size') = hm
      BY <1>2, <2>2, <3>1
    <3>4. CASE ~On(hm, j, i)
      <4>1. \A b \in Bucket : On(hm, j, b) => table'[b] # NULL
        BY <2>2, <3>2, <3>4
      <4> QED
        BY <2>2, <3>3, <4>1 DEF Whole, On
    <3>5. CASE On(hm, j, i)
      <4>1. ~On(i, Succ(i), j)
        BY <1>1, <3>1, Later DEF On
      <4>2. ASSUME NEW b \in Bucket, On(hm, j, b) PROVE table'[b] # NULL \/ On(i, Succ(i), b)
        <5>1. On(i, Succ(i), i)
          BY <1>1, <3>1 DEF On, Succ, Bucket
        <5> QED
          BY <2>2, <3>2, <4>2, <5>1
      <4>3. ASSUME NEW b \in Bucket, On(Succ(i), j, b) PROVE table'[b] # NULL
        <5>1. On(i, j, b) /\ b # i
          BY <1>1, <3>1, <4>3, Sooner
        <5>2. On(hm, j, b)
          BY <1>1, <3>1, <3>5, <5>1, Rest
        <5> QED
          BY <2>2, <3>2, <5>1, <5>2
      <4> HIDE DEF hm
      <4>4. Cut(j)'
        BY <2>1, <2>2, <3>3, <4>1, <4>2, <4>3 DEF Cut, On
      <4> QED
        BY <4>4
    <3> QED
      BY <3>4, <3>5
  <2> QED
    BY <2>4, <2>5, <2>6, <2>7, <2>8, <2>9 DEF Inv
<1> QED
  BY <1>4, <1>5

\* The next of the items that follow is taken out and its addition begins.
LEMMA InvCleanupNext ==
  ASSUME Inv, CleanupNext
  PROVE  Inv'
<1> USE DEF intersect
<1> DEFINE z == next  e == emptied  hm(j) == Home(table[j], size)
<1>1. /\ size \in Nat \ {0} /\ Bucket = 0 .. size - 1 /\ Limit(size) \in Nat /\ itemCount \in Nat
      /\ z \in Bucket /\ e \in Bucket /\ z \in Filled(table) /\ table[z] \in Item /\ hm(z) \in Bucket
      /\ \A b \in Bucket : b \in Filled(table) <=> table[b] # NULL
  BY Facts DEF Inv, Types, CleanupNext
<1>2. /\ outer = "cleanup" /\ op = "none" /\ table' = [table EXCEPT ![z] = NULL] /\ itemCount' = itemCount - 1
      /\ op' = "add" /\ item' = table[z] /\ i' = hm(z) /\ next' = Succ(z)
      /\ UNCHANGED <<size, result, outer, emptied, old, keep, scan>>
  BY DEF CleanupNext, CountWithout, Starts
<1>3. /\ Bucket' = Bucket /\ table' \in [Bucket -> Item \cup {NULL}]
      /\ Filled(table') = Filled(table) \ {z} /\ Cardinality(Filled(table')) = itemCount - 1
      /\ itemCount - 1 \in Nat
      /\ \A b \in Bucket : table'[b] = IF b = z THEN NULL ELSE table[b]
      /\ \A a, b \in Filled(table') : Key[table'[a]] = Key[table'[b]] => a = b
  BY <1>1, <1>2, Taken
<1>4. Succ(z) \in Bucket
  BY <1>1, Later
<1>5. PICK k \in Bucket : On(z, e, k) /\ table[k] = NULL
  BY <1>2 DEF Inv, Cleaning
<1>6. k # z /\ ~On(e, z, k)
  BY <1>1, <1>5, Apart
<1>7. On(Succ(z), e, k) /\ Succ(z) # e /\ e # z
  BY <1>1, <1>5, <1>6 DEF On, Succ, Bucket
<1>8. On(e, Succ(z), z) /\ \A b \in Bucket : On(e, z, b) => On(e, Succ(z), b)
  BY <1>1, <1>7, Later
<1>9. Types'
  BY <1>1, <1>2, <1>3, <1>4 DEF Inv, Types
<1>10. Nested' /\ Counted' /\ Rebuilding'
  BY <1>2, <1>3 DEF Inv, Nested, Counted, Rebuilding
<1>11. Loaded'
  BY <1>1, <1>2 DEF Inv, Loaded, Adding
<1>12. Unequal'
  <2>1. \A b \in Filled(table') : Key[table'[b]] # Key[table[z]]
    BY <1>1, <1>3 DEF Inv, Unequal, Filled
  <2> QED
    BY <1>2, <1>3, <2>1 DEF Unequal
<1>13. Passed'
  BY <1>1, <1>2, <1>3 DEF Passed, On, Home
<1>14. ASSUME NEW b \in Bucket, On(hm(z), z, b) PROVE table[b] # NULL \/ On(e, z, b)
  BY <1>1, <1>14 DEF Inv, Reached, Whole, Cut
<1>15. Cleaning'
  <2>1. hm(z) # Succ(z)
    <3>1. SUFFICES ASSUME hm(z) = Succ(z) PROVE FALSE
      OBVIOUS
    <3>2. On(Succ(z), z, k)
      BY <1>1, <1>6 DEF On, Succ, Bucket
    <3> QED
      BY <1>5, <1>6, <1>14, <3>1, <3>2
  <2>2. ASSUME NEW b \in Bucket, On(hm(z), Succ(z), b) PROVE table'[b] # NULL \/ On(e, Succ(z), b)
    <3>1. On(hm(z), z, b) \/ b = z
      BY <1>1, <2>2, Later
    <3> QED
      BY <1>3, <1>8, <1>14, <3>1
  <2>3. On(Succ(z), e, k) /\ table'[k] = NULL
    BY <1>3, <1>5, <1>6, <1>7
  <2>4. table'[z] = NULL
    BY <1>1, <1>3
  <2> HIDE DEF z, e, hm
  <2>5. (\E b \in Bucket : On(next, emptied, b) /\ table[b] = NULL)'
    BY <1>2, <1>3, <2>3 DEF z, e, On
  <2>6. (\E b \in Bucket : Succ(b) = next /\ table[b] = NULL)'
    BY <1>1, <1>2, <1>3, <2>4 DEF Succ
  <2>7. (i # next)'
    BY <1>2, <2>1
  <2>8. (\A b \in Bucket : On(i, next, b) => table[b] # NULL \/ On(emptied, next, b))'
    BY <1>2, <1>3, <2>2 DEF e, On
  <2> QED
    BY <2>5, <2>6, <2>7, <2>8 DEF Cleaning
<1>16. Reached'
  <2> SUFFICES ASSUME NEW j \in Filled(table) \ {z} PROVE Whole(j)' \/ Cut(j)'
    BY <1>3 DEF Reached
  <2>1. j \in Bucket /\ table[j] \in Item /\ hm(j) \in Bucket /\ j # z /\ table[j] # NULL
    BY <1>1, Facts
  <2>2. table'[j] = table[j]
    BY <1>3, <2>1
  <2>3. CASE Whole(j) /\ ~On(hm(j), j, z)
    BY <1>2, <1>3, <2>2, <2>3 DEF Whole, On, Home
  <2>4. ASSUME ~On(e, z, j),
               \A b \in Bucket : On(hm(j), j, b) => table[b] # NULL \/ On(e, z, b),
               \A b \in Bucket : On(z, j, b) => table[b] # NULL
        PROVE  Cut(j)'
    <3>1. ~On(e, Succ(z), j)
      BY <1>1, <2>1, <2>4, Later
    <3>2. \A b \in Bucket : On(hm(j), j, b) => table'[b] # NULL \/ On(e, Succ(z), b)
      BY <1>3, <1>8, <2>4
    <3>3. ASSUME NEW b \in Bucket, On(Succ(z), j, b) PROVE table'[b] # NULL
      <4>1. On(z, j, b) /\ b # z
        BY <1>1, <2>1, <3>3, Sooner
      <4> QED
        BY <1>3, <2>4, <4>1
    <3> QED
      BY <1>2, <1>3, <2>2, <3>1, <3>2, <3>3 DEF Cut, On, Home
  <2>5. CASE Whole(j) /\ On(hm(j), j, z)
    <3>1. \A b \in Bucket : On(hm(j), j, b) => table[b] # NULL
      BY <2>5 DEF Whole
    <3>2. ~On(e, z, j)
      BY <1>1, <1>5, <2>1, <2>5, <3>1, Around
    <3>3. \A b \in Bucket : On(z, j, b) => table[b] # NULL
      BY <1>1, <2>1, <2>5, <3>1, Rest
    <3> QED
      BY <2>4, <3>1, <3>2, <3>3
  <2>6. CASE Cut(j)
    BY <2>4, <2>6 DEF Cut
  <2> QED
    BY <2>3, <2>5, <2>6 DEF Inv, Reached
<1> QED
  BY <1>9, <1>10, <1>11, <1>12, <1>13, <1>15, <1>16 DEF Inv

\* At an empty bucket, what follows is reached again.
LEMMA InvCleanupEnds ==
  ASSUME Inv, CleanupEnds
  PROVE  Inv'
<1> USE DEF CleanupEnds, probe, intersect
<1>1. /\ size \in Nat \ {0} /\ Bucket = 0 .. size - 1 /\ Limit(size) \in Nat /\ itemCount \in Nat /\ next \in Bucket
      /\ \A b \in Bucket : b \in Filled(table) <=> table[b] # NULL
  BY Facts DEF Inv, Types
<1>2. Bucket' = Bucket
  BY DEF Bucket
<1>3. Types'
  BY <1>2 DEF Inv, Types
<1>4. Nested' /\ Counted' /\ Unequal' /\ Passed' /\ Cleaning' /\ Rebuilding'
  BY DEF Inv, Nested, Counted, Unequal, Passed, Cleaning, Rebuilding
<1>5. Loaded'
  BY <1>1 DEF Inv, Loaded, Adding
<1>6. Reached'
  <2> SUFFICES ASSUME NEW j \in Filled(table) PROVE Whole(j)'
    BY DEF Reached
  <2>1. j \in Bucket /\ table[j] # NULL /\ j # next
    BY <1>1, Facts
  <2>2. ~Cut(j)
    BY <1>1, <2>1, Sooner DEF Cut
  <2>3. Whole(j)
    BY <2>2 DEF Inv, Reached
  <2> QED
    BY <1>2, <2>3 DEF Whole, On, Home
<1> QED
  BY <1>3, <1>4, <1>5, <1>6 DEF Inv

\* One bucket after the other of the old table is added to the new one.
LEMMA InvRebuild ==
  ASSUME Inv, RebuildNext \/ RebuildEnds
  PROVE  Inv'
<1> USE DEF probe, intersect
<1>1. /\ size \in Nat \ {0} /\ Bucket = 0 .. size - 1 /\ Limit(size) \in Nat /\ itemCount \in Nat /\ next \in Nat
      /\ Bucket' = Bucket /\ UNCHANGED <<table, size, itemCount, result, keep, scan, emptied>>
      /\ outer = "rebuild" /\ op = "none"
  BY Facts DEF Inv, Types, RebuildNext, RebuildEnds, Bucket
<1>2. PICK n \in TableSizes \cup {0} : old \in [0 .. n - 1 -> Item \cup {NULL}]
  BY DEF Inv, Types
<1>3. n \in Nat
  BY <1>2, SizeLimits
<1>4. IsFiniteSet(Filled(old)) /\ Cardinality(Filled(old)) \in Nat /\ Filled(old) \subseteq 0 .. n - 1
  BY <1>2, <1>3, FilledFinite
<1>5. IsFiniteSet(Past(old, next)) /\ Cardinality(Past(old, next)) \in Nat
  BY <1>4, FS_Subset, FS_CardinalityType DEF Past
<1>6. itemCount <= Cardinality(Past(old, next)) /\ Cardinality(Filled(old)) <= Limit(size)
  BY <1>1 DEF Inv, Loaded, Adding
<1>7. scan = -1 /\ \A j \in Filled(table) : Whole(j)
  BY <1>1 DEF Inv, Nested, Reached, Cut
<1>8. Counted'
  BY <1>1 DEF Inv, Counted
<1>9. Reached'
  BY <1>1, <1>7 DEF Reached, Whole, On, Home
<1>10. CASE RebuildNext
  <2>1. /\ next \in 0 .. n - 1 /\ next' = next + 1 /\ UNCHANGED <<outer, old>>
    BY <1>2, <1>10 DEF RebuildNext
  <2>2. CASE old[next] = NULL
    <3>1. UNCHANGED <<op, item, i>> /\ Past(old', next') = Past(old, next)
      BY <1>2, <1>4, <1>10, <2>1, <2>2 DEF RebuildNext, Past, Filled
    <3>2. Types' /\ Nested' /\ Loaded'
      BY <1>1, <1>2, <2>1, <3>1 DEF Inv, Types, Nested, Loaded, Adding
    <3>3. Unequal' /\ Passed' /\ Cleaning'
      BY <1>1, <2>1, <3>1 DEF Inv, Unequal, Passed, Cleaning
    <3>4. Rebuilding'
      BY <1>1, <1>4, <2>1, <3>1 DEF Inv, Rebuilding
    <3> QED
      BY <1>8, <1>9, <3>2, <3>3, <3>4 DEF Inv
  <2>3. CASE old[next] # NULL
    <3>1. next \in Filled(old) /\ old[next] \in Item
      BY <1>2, <2>1, <2>3 DEF Filled
    <3>2. op' = "add" /\ item' = old[next] /\ i' = Home(old[next], size)
      BY <1>10, <2>3 DEF RebuildNext, Starts
    <3>3. Home(old[next], size) \in Bucket
      BY <1>1, <3>1, HomeIn
    <3>4. Past(old', next') = Past(old, next) \cup {next} /\ next \notin Past(old, next)
      BY <1>1, <1>4, <2>1, <3>1 DEF Past
    <3>5. Cardinality(Past(old', next')) = Cardinality(Past(old, next)) + 1
      BY <1>5, <3>4, FS_AddElement
    <3>6. Types' /\ Nested'
      BY <1>1, <1>2, <1>7, <2>1, <3>1, <3>2, <3>3 DEF Inv, Types, Nested
    <3>7. Loaded'
      BY <1>1, <1>5, <1>6, <2>1, <3>2, <3>5 DEF Loaded, Adding
    <3>8. Passed' /\ Cleaning'
      BY <1>1, <2>1, <3>2, <3>3 DEF Passed, Cleaning, On, Home
    <3>9. Unequal'
      <4>1. \A b \in Filled(table) : Key[table[b]] # Key[old[next]]
        <5>1. \A a \in Filled(old), b \in Filled(table) : a >= next => Key[old[a]] # Key[table[b]]
          BY <1>1 DEF Inv, Rebuilding
        <5>2. next >= next
          BY <1>1
        <5> QED
          BY <3>1, <5>1, <5>2
      <4> QED
        BY <1>1, <3>2, <4>1 DEF Inv, Unequal
    <3>10. Rebuilding'
      <4>1. \A a \in Filled(old) : a >= next + 1 => a >= next
        BY <1>1, <1>4
      <4>2. next' - 1 = next
        BY <1>1, <2>1
      <4> QED
        BY <1>1, <2>1, <3>1, <3>2, <4>1, <4>2 DEF Inv, Rebuilding
    <3> QED
      BY <1>8, <1>9, <3>6, <3>7, <3>8, <3>9, <3>10 DEF Inv
  <2> QED
    BY <2>2, <2>3
<1>11. CASE RebuildEnds
  <2>1. next \notin 0 .. n - 1 /\ UNCHANGED <<op, item, i>> /\ outer' = "none" /\ next' = 0 /\ old' = Empty(0)
    BY <1>2, <1>11 DEF RebuildEnds
  <2>2. Past(old, next) = Filled(old)
    BY <1>1, <1>3, <1>4, <2>1 DEF Past
  <2>3. old' \in [0 .. 0 - 1 -> Item \cup {NULL}]
    BY <2>1, EmptyTable
  <2>4. Types'
    BY <1>1, <2>1, <2>3 DEF Inv, Types
  <2>5. Loaded'
    BY <1>1, <1>4, <1>6, <2>1, <2>2 DEF Loaded
  <2>6. Nested' /\ Unequal' /\ Passed' /\ Cleaning' /\ Rebuilding'
    BY <1>1, <1>7, <2>1 DEF Inv, Nested, Unequal, Passed, Cleaning, Rebuilding
  <2> QED
    BY <1>8, <1>9, <2>4, <2>5, <2>6 DEF Inv
<1> QED
  BY <1>10, <1>11

\* Every step keeps the invariant.
LEMMA InvNext == Inv /\ [Next]_vars => Inv'
<1> SUFFICES ASSUME Inv, [Next]_vars PROVE Inv'
  OBVIOUS
<1>1. CASE Turn
  BY <1>1, InvProbe, InvAdd, InvGet, InvRemove, InvCleanupNext, InvCleanupEnds, InvRebuild, InvIntersect DEF Turn
<1>2. ASSUME NEW x \in Item, LWSetAdd(x) \/ LWSetRemove(x) \/ LWSetGet(x) PROVE Inv'
  BY <1>2, InvCall DEF LWSetAdd, LWSetRemove, LWSetGet
<1>3. CASE \E keys \in SUBSET {Key[x] : x \in Item} : LWSetIntersect(keys)
  BY <1>3, InvIntersect
<1>4. CASE LWSetClear
  BY <1>4, InvClear
<1>5. CASE UNCHANGED vars
  <2>1. UNCHANGED <<table, size, itemCount, result, op, item, i, outer, next, emptied, old, keep, scan>>
    BY <1>5 DEF vars, probe, loop, intersect
  <2>2. Bucket' = Bucket
    BY <2>1 DEF Bucket
  <2>3. Types' /\ Nested' /\ Counted' /\ Loaded'
    BY <2>1, <2>2 DEF Inv, Types, Nested, Counted, Loaded, Adding
  <2>4. Reached'
    BY <2>1, <2>2, Kept DEF loop
  <2>5. Unequal' /\ Passed' /\ Rebuilding'
    BY <2>1, <2>2 DEF Inv, Unequal, Passed, Rebuilding, Home
  <2>6. Cleaning'
    BY <2>1, <2>2 DEF Inv, Cleaning, Succ
  <2> QED
    BY <2>3, <2>4, <2>5, <2>6 DEF Inv
<1> QED
  BY <1>1, <1>2, <1>3, <1>4, <1>5 DEF Next

\* The invariant holds of every behaviour.
LEMMA Invariance == Spec => []Inv
<1> QED
  BY InvInit, InvNext, PTL DEF Spec

-----------------------------------------------------------------------------
(* What the set promises.                                                    *)

\* Every call leaves the table, its size, its count and the loops among the values they can have.
THEOREM TypeCorrect == Spec => []TypeOK
<1>1. Inv => TypeOK
  <2> SUFFICES ASSUME Inv PROVE TypeOK
    OBVIOUS
  <2> QED
    BY DEF Inv, Types, TypeOK, Bucket
<1> QED
  BY <1>1, Invariance, PTL

\* Whatever is added, removed or rebuilt, an empty bucket is left: no probe goes round for ever.
THEOREM ProbesCorrect == Spec => []ProbesEnd
<1>1. ASSUME Inv PROVE ProbesEnd
  <2>1. /\ size \in Nat \ {0} /\ table \in [0 .. size - 1 -> Item \cup {NULL}]
        /\ Limit(size) \in Nat /\ Limit(size) < size
    BY <1>1, Facts
  <2>2. itemCount \in Nat /\ itemCount = Cardinality(Filled(table)) /\ outer \in {"none", "cleanup", "rebuild"}
    BY <1>1 DEF Inv, Types, Counted
  <2>3. CASE outer = "none"
    <3>1. itemCount <= Limit(size)
      BY <1>1, <2>3 DEF Inv, Loaded
    <3> QED
      BY <2>1, <2>2, <3>1, Room DEF ProbesEnd
  <2>4. CASE outer = "cleanup"
    <3>1. itemCount < Limit(size)
      BY <1>1, <2>1, <2>2, <2>4 DEF Inv, Loaded, Adding
    <3> QED
      BY <2>1, <2>2, <3>1, Room DEF ProbesEnd
  <2>5. CASE outer = "rebuild"
    <3>1. PICK n \in TableSizes \cup {0} : old \in [0 .. n - 1 -> Item \cup {NULL}]
      BY <1>1 DEF Inv, Types
    <3>2. n \in Nat
      BY <3>1, SizeLimits
    <3>3. IsFiniteSet(Filled(old)) /\ Cardinality(Filled(old)) \in Nat
      BY <3>1, <3>2, FilledFinite
    <3>4. Cardinality(Past(old, next)) \in Nat /\ Cardinality(Past(old, next)) <= Cardinality(Filled(old))
      BY <3>3, FS_Subset, FS_CardinalityType DEF Past
    <3>5. itemCount <= Limit(size)
      BY <1>1, <2>1, <2>2, <2>5, <3>3, <3>4 DEF Inv, Loaded, Adding
    <3> QED
      BY <2>1, <2>2, <3>5, Room DEF ProbesEnd
  <2> QED
    BY <2>2, <2>3, <2>4, <2>5
<1> QED
  BY <1>1, Invariance, PTL

\* Where no call adds an item again, the items are those in the table.
LEMMA ItemsInTable ==
  ASSUME Inv, outer = "none"
  PROVE  Items = {table[b] : b \in Filled(table)}
BY DEF Items, Again

\* LWSetCount is the number of items whenever no call runs, for every hash function: what is counted out
\* and in again during a removal or a rebuild comes out even.
THEOREM CountCorrect == Spec => []CountExact
<1>1. Inv => CountExact
  <2> SUFFICES ASSUME Inv, Idle PROVE itemCount = Cardinality(Items)
    BY DEF CountExact
  <2> DEFINE f == [b \in Filled(table) |-> table[b]]
  <2>1. Items = {table[b] : b \in Filled(table)} /\ IsFiniteSet(Filled(table))
    BY ItemsInTable, Facts DEF Idle
  <2>2. f \in Bijection(Filled(table), Items)
    <3>1. f \in [Filled(table) -> Items]
      BY <2>1
    <3>2. \A a, b \in Filled(table) : f[a] = f[b] => a = b
      BY DEF Inv, Unequal
    <3>3. \A x \in Items : \E b \in Filled(table) : f[b] = x
      BY <2>1
    <3> QED
      BY <3>1, <3>2, <3>3 DEF Bijection, Injection, Surjection, IsInjective
  <2>3. Cardinality(Items) = Cardinality(Filled(table))
    BY <2>1, <2>2, FS_Bijection DEF ExistsBijection
  <2> QED
    BY <2>3 DEF Inv, Counted
<1> QED
  BY <1>1, Invariance, PTL

\* A probe that stops has found the only item that is equal, or there is none.
LEMMA Finds ==
  ASSUME Inv, op # "none", outer = "none", Stops
  PROVE  /\ table[i] \in Set!Found(item)
         /\ Set!Equal(item) = IF table[i] = NULL THEN {} ELSE {table[i]}
         /\ table[i] # NULL => i \in Filled(table)
<1>1. Items = {table[b] : b \in Filled(table)}
  BY ItemsInTable
<1>2. i \in Bucket /\ (i \in Filled(table) <=> table[i] # NULL)
  BY Facts DEF Inv, Types
<1>3. CASE table[i] = NULL
  <2>1. Set!Equal(item) = {}
    BY <1>1, <1>3, NotThere DEF Set!Equal
  <2> QED
    BY <1>2, <1>3, <2>1 DEF Set!Found
<1>4. CASE table[i] # NULL
  <2>1. i \in Filled(table) /\ Key[table[i]] = Key[item]
    BY <1>2, <1>4 DEF Stops
  <2>2. \A b \in Filled(table) : Key[table[b]] = Key[item] => b = i
    BY <2>1 DEF Inv, Unequal
  <2>3. Set!Equal(item) = {table[i]}
    BY <1>1, <2>1, <2>2 DEF Set!Equal
  <2> QED
    BY <1>4, <2>1, <2>3 DEF Set!Found
<1> QED
  BY <1>3, <1>4

\* An item that is added takes the place of an equal one.
LEMMA AddIsAdd ==
  ASSUME Inv, AddEnds, outer = "none"
  PROVE  Set!Add(item)
<1>1. /\ size \in Nat \ {0} /\ i \in Bucket /\ Bucket = 0 .. size - 1 /\ item \in Item
      /\ table \in [0 .. size - 1 -> Item \cup {NULL}] /\ NULL \notin Item /\ Filled(table) \subseteq Bucket
  BY Facts DEF Inv, Types, AddEnds
<1>2. op = "add" /\ Stops /\ op' = "none" /\ result' = table[i]
  BY DEF AddEnds, Returns, Inv, Nested
<1>3. Items = {table[b] : b \in Filled(table)}
  BY ItemsInTable
<1>4. /\ table[i] \in Set!Found(item)
      /\ Set!Equal(item) = IF table[i] = NULL THEN {} ELSE {table[i]}
  BY <1>2, Finds
<1> DEFINE filled == [table EXCEPT ![i] = item]
<1>5. \A b \in Bucket : filled[b] = IF b = i THEN item ELSE table[b]
  BY <1>1
<1>6. Filled(filled) = Filled(table) \cup {i}
  BY <1>1, <1>5 DEF Filled
<1>7. {filled[b] : b \in Filled(filled)} = (Items \ Set!Equal(item)) \cup {item}
  <2>1. ASSUME NEW b \in Filled(table), b # i PROVE table[b] \in Items \ Set!Equal(item)
    <3>1. table[i] # NULL => table[b] # table[i]
      BY <1>1, <2>1 DEF Inv, Unequal, Filled
    <3> QED
      BY <1>3, <1>4, <2>1, <3>1
  <2>2. ASSUME NEW x \in Items \ Set!Equal(item) PROVE \E b \in Filled(table) : b # i /\ table[b] = x
    <3>1. PICK b \in Filled(table) : table[b] = x
      BY <1>3, <2>2
    <3>2. table[b] # NULL
      BY <3>1 DEF Filled
    <3> QED
      BY <1>4, <2>2, <3>1, <3>2
  <2> HIDE DEF filled
  <2> QED
    BY <1>1, <1>5, <1>6, <2>1, <2>2
<1>8. Items' = {filled[b] : b \in Filled(filled)}
  <2>1. CASE outer' = "rebuild"
    <3>1. size' = SizeFor(size) /\ table' = Empty(size') /\ next' = 0 /\ old' = filled
      BY <2>1 DEF AddEnds
    <3>2. Filled(table') = {}
      BY <3>1 DEF Filled, Empty
    <3> HIDE DEF filled
    <3>3. Filled(filled) = {c \in Filled(filled) : c >= 0}
      <4>1. Filled(filled) \subseteq Bucket
        BY <1>1, <1>6
      <4>2. \A c \in Bucket : c >= 0
        BY <1>1
      <4> QED
        BY <4>1, <4>2
    <3> QED
      BY <1>2, <2>1, <3>1, <3>2, <3>3 DEF Items, Again
  <2>2. CASE outer' # "rebuild"
    BY <1>2, <2>2 DEF AddEnds, Items, Again
  <2> QED
    BY <2>1, <2>2
<1> QED
  BY <1>2, <1>4, <1>7, <1>8 DEF Set!Add

\* An item that is removed leaves the set, also where LWSetIntersect removes it.
LEMMA RemoveIsRemove ==
  ASSUME Inv, RemoveEnds
  PROVE  Set!Remove(item) \/ (\E x \in Item : Set!Discard(x)) \/ UNCHANGED <<Items, result>>
<1>1. /\ size \in Nat \ {0} /\ i \in Bucket /\ Bucket = 0 .. size - 1 /\ item \in Item
      /\ table \in [0 .. size - 1 -> Item \cup {NULL}] /\ NULL \notin Item /\ Filled(table) \subseteq Bucket
  BY Facts DEF Inv, Types, RemoveEnds
<1>2. op = "remove" /\ Stops /\ outer = "none" /\ op' = "none" /\ size' = size
  BY DEF RemoveEnds, Inv, Nested
<1>3. Items = {table[b] : b \in Filled(table)}
  BY <1>2, ItemsInTable
<1>4. /\ table[i] \in Set!Found(item)
      /\ Set!Equal(item) = IF table[i] = NULL THEN {} ELSE {table[i]}
      /\ table[i] # NULL => i \in Filled(table)
  BY <1>2, Finds
<1>5. CASE table[i] = NULL
  <2>1. UNCHANGED <<table, outer>>
    BY <1>5 DEF RemoveEnds
  <2>2. Items' = Items
    BY <1>2, <2>1 DEF Items, Again
  <2>3. result' = IF scan = -1 THEN table[i] ELSE result
    BY <1>2 DEF RemoveEnds, Returns
  <2> QED
    BY <1>4, <1>5, <2>2, <2>3 DEF Set!Remove
<1>6. CASE table[i] # NULL
  <2>1. table' = [table EXCEPT ![i] = NULL] /\ outer' = "cleanup"
    BY <1>6 DEF RemoveEnds, Cleanup
  <2>2. i \in Filled(table) /\ table[i] \in Item
    BY <1>1, <1>4, <1>6
  <2>3. /\ Filled(table') = Filled(table) \ {i}
        /\ \A b \in Bucket : table'[b] = IF b = i THEN NULL ELSE table[b]
    BY <1>2, <2>1, <2>2, Taken
  <2>4. Items' = {table'[b] : b \in Filled(table')}
    BY <1>2, <2>1 DEF Items, Again
  <2>5. Items' = Items \ {table[i]}
    <3>1. \A b \in Filled(table) : b # i => table[b] # table[i]
      BY <2>2 DEF Inv, Unequal
    <3> QED
      BY <1>1, <1>3, <2>2, <2>3, <2>4, <3>1
  <2>6. result' = IF scan = -1 THEN table[i] ELSE result
    BY <1>2 DEF RemoveEnds, Returns
  <2>7. CASE scan = -1
    BY <1>4, <1>6, <2>5, <2>6, <2>7 DEF Set!Remove
  <2>8. CASE scan # -1
    BY <2>2, <2>5, <2>6, <2>8 DEF Set!Discard
  <2> QED
    BY <2>7, <2>8
<1> QED
  BY <1>5, <1>6

\* An item that is added again during a loop was in the set all the time.
LEMMA AgainStutters ==
  ASSUME Inv, AddEnds, outer # "none"
  PROVE  UNCHANGED <<Items, result>>
<1>1. /\ size \in Nat \ {0} /\ i \in Bucket /\ Bucket = 0 .. size - 1 /\ item \in Item
      /\ table \in [0 .. size - 1 -> Item \cup {NULL}] /\ NULL \notin Item /\ Filled(table) \subseteq Bucket
  BY Facts DEF Inv, Types, AddEnds
<1>2. op = "add" /\ op' = "none" /\ result' = result /\ table[i] = NULL
  BY AgainNew DEF AddEnds, Returns
<1>3. ~Full(itemCount + 1)
  BY FullNever, <1>2 DEF AddEnds
<1>4. table' = [table EXCEPT ![i] = item] /\ UNCHANGED <<outer, next, old>>
  BY <1>2, <1>3 DEF AddEnds
<1>5. /\ \A b \in Bucket : table'[b] = IF b = i THEN item ELSE table[b]
      /\ table' \in [0 .. size - 1 -> Item \cup {NULL}]
  BY <1>1, <1>4
<1>6. Filled(table') = Filled(table) \cup {i}
  BY <1>1, <1>5 DEF Filled
<1>7. {table'[b] : b \in Filled(table')} = {table[b] : b \in Filled(table)} \cup {item}
  <2>1. \A b \in Filled(table) : b # i /\ table'[b] = table[b]
    BY <1>1, <1>2, <1>5 DEF Filled
  <2> QED
    BY <1>1, <1>5, <1>6, <2>1
<1> QED
  BY <1>2, <1>4, <1>7 DEF Items, Again

\* An item that is taken out to be added again stays in the set.
LEMMA CleanupStutters ==
  ASSUME Inv, CleanupNext
  PROVE  UNCHANGED <<Items, result>>
<1>1. next \in Bucket /\ next \in Filled(table) /\ outer = "cleanup" /\ op = "none"
  BY Facts DEF Inv, Types, CleanupNext
<1>2. /\ size' = size /\ table' = [table EXCEPT ![next] = NULL] /\ op' = "add" /\ item' = table[next]
      /\ UNCHANGED <<outer, result>>
  BY DEF CleanupNext, Starts
<1>3. /\ Filled(table') = Filled(table) \ {next}
      /\ \A b \in Bucket : table'[b] = IF b = next THEN NULL ELSE table[b]
  BY <1>1, <1>2, Taken
<1>4. Filled(table) \subseteq Bucket
  BY Facts
<1>5. {table'[b] : b \in Filled(table')} \cup {table[next]} = {table[b] : b \in Filled(table)}
  BY <1>1, <1>3, <1>4
<1> QED
  BY <1>1, <1>2, <1>5 DEF Items, Again

\* An item of the old table stays in the set while it is added to the new one.
LEMMA RebuildStutters ==
  ASSUME Inv, RebuildNext \/ RebuildEnds
  PROVE  UNCHANGED <<Items, result>>
<1>1. outer = "rebuild" /\ op = "none" /\ UNCHANGED <<table, result>> /\ next \in Nat
  BY DEF RebuildNext, RebuildEnds, Inv, Types
<1>2. PICK n \in TableSizes \cup {0} : old \in [0 .. n - 1 -> Item \cup {NULL}]
  BY DEF Inv, Types
<1>3. n \in Nat /\ Filled(old) \subseteq 0 .. n - 1
  BY <1>2, SizeLimits DEF Filled
<1> DEFINE left(k) == {c \in Filled(old) : c >= k}
<1>4. CASE RebuildNext
  <2>1. next' = next + 1 /\ UNCHANGED <<outer, old>>
    BY <1>4 DEF RebuildNext
  <2>2. CASE old[next] = NULL
    <3>1. left(next) = left(next + 1)
      BY <1>1, <1>3, <2>2 DEF Filled
    <3>2. op' = op
      BY <1>4, <2>2 DEF RebuildNext, probe
    <3> QED
      BY <1>1, <2>1, <3>1, <3>2 DEF Items, Again
  <2>3. CASE old[next] # NULL
    <3>1. left(next) = left(next + 1) \cup {next}
      BY <1>1, <1>3, <1>4, <2>3 DEF Filled, RebuildNext
    <3>2. op' = "add" /\ item' = old[next]
      BY <1>4, <2>3 DEF RebuildNext, Starts
    <3>3. {old[c] : c \in left(next)} = {old[c] : c \in left(next + 1)} \cup {old[next]}
      BY <3>1
    <3> QED
      BY <1>1, <2>1, <3>2, <3>3 DEF Items, Again
  <2> QED
    BY <2>2, <2>3
<1>5. CASE RebuildEnds
  <2>1. left(next) = {}
    BY <1>1, <1>2, <1>3, <1>5 DEF RebuildEnds
  <2>2. outer' = "none" /\ op' = op
    BY <1>5 DEF RebuildEnds, probe
  <2> QED
    BY <1>1, <2>1, <2>2 DEF Items, Again
<1> QED
  BY <1>4, <1>5

\* LWSet implements a set of items no two of which are equal, whatever hash() does: a call finds, replaces
\* or removes the item that is equal to its argument, and neither the cleanup after a removal nor the growth
\* of the table loses an item or brings one back.
THEOREM Refinement == Spec => ActsAsSet
<1>1. Init => Set!Init
  <2> SUFFICES ASSUME Init PROVE Set!Init
    OBVIOUS
  <2>1. Filled(table) = {} /\ op = "none" /\ outer = "none" /\ result = NULL
    BY DEF Init, Filled, Empty
  <2> QED
    BY <2>1 DEF Items, Again, Set!Init
<1>2. Inv /\ [Next]_vars => [Set!Next]_Set!vars
  <2> SUFFICES ASSUME Inv, [Next]_vars PROVE Set!Next \/ UNCHANGED <<Items, result>>
    BY DEF Set!vars
  <2>1. CASE Probe \/ CleanupEnds \/ IntersectNext \/ IntersectEnds
             \/ (\E keys \in SUBSET {Key[x] : x \in Item} : LWSetIntersect(keys)) \/ UNCHANGED vars
    <3>1. UNCHANGED <<table, op, item, result>>
      BY <2>1 DEF Probe, CleanupEnds, IntersectNext, IntersectEnds, LWSetIntersect, vars, probe
    <3>2. outer' = outer \/ (op = "none" /\ outer = "cleanup" /\ outer' = "none")
      <4>1. CASE CleanupEnds
        BY <4>1 DEF CleanupEnds
      <4>2. CASE ~CleanupEnds
        BY <2>1, <4>2 DEF Probe, IntersectNext, IntersectEnds, LWSetIntersect, vars, loop
      <4> QED
        BY <4>1, <4>2
    <3>3. next' = next /\ old' = old
      BY <2>1 DEF Probe, CleanupEnds, IntersectNext, IntersectEnds, LWSetIntersect, vars, loop
    <3> QED
      BY <3>1, <3>2, <3>3 DEF Items, Again
  <2>2. CASE IntersectRemoves \/ \E x \in Item : LWSetAdd(x) \/ LWSetRemove(x) \/ LWSetGet(x)
    <3>1. UNCHANGED <<table, result, outer>> /\ outer = "none"
      BY <2>2 DEF IntersectRemoves, LWSetAdd, LWSetRemove, LWSetGet, Call, Idle, loop
    <3> QED
      BY <3>1 DEF Items, Again
  <2>3. CASE AddEnds
    <3>1. item \in Item
      BY DEF Inv, Types
    <3> QED
      BY <2>3, <3>1, AddIsAdd, AgainStutters DEF Set!Next
  <2>4. CASE GetEnds
    <3>1. op = "get" /\ outer = "none" /\ scan = -1 /\ Stops /\ item \in Item
      BY <2>4 DEF GetEnds, Inv, Nested, Types
    <3>2. result' = table[i] /\ UNCHANGED <<table, outer>> /\ op' = "none"
      BY <2>4, <3>1 DEF GetEnds, Returns, loop
    <3>3. table[i] \in Set!Found(item)
      BY <3>1, Finds
    <3>4. Items' = Items
      BY <3>1, <3>2 DEF Items, Again
    <3> QED
      BY <3>1, <3>2, <3>3, <3>4 DEF Set!Next, Set!Get
  <2>5. CASE RemoveEnds
    <3>1. item \in Item
      BY DEF Inv, Types
    <3> QED
      BY <2>5, <3>1, RemoveIsRemove DEF Set!Next
  <2>6. CASE CleanupNext
    BY <2>6, CleanupStutters
  <2>7. CASE RebuildNext \/ RebuildEnds
    BY <2>7, RebuildStutters
  <2>8. CASE LWSetClear
    <3>1. Filled(table') = {} /\ outer' = "none" /\ op' = "none" /\ result' = result
      BY <2>8 DEF LWSetClear, Idle, probe, loop, Filled, Empty
    <3>2. Items' = {}
      BY <3>1 DEF Items, Again
    <3> QED
      BY <3>1, <3>2 DEF Set!Next, Set!Clear
  <2> QED
    BY <2>1, <2>2, <2>3, <2>4, <2>5, <2>6, <2>7, <2>8 DEF Next, Turn
<1> QED
  BY <1>1, <1>2, Invariance, PTL DEF Spec, ActsAsSet, Set!Spec

-----------------------------------------------------------------------------
(* LWSetIntersect.                                                           *)

\* What LWSetIntersect has gone through stays in the other set.
LEMMA ScannedNext == Inv /\ Scanned /\ [Next]_vars => Scanned'
<1> SUFFICES ASSUME Inv, Scanned, [Next]_vars, scan' # -1 PROVE Scanned'
  BY DEF Scanned
<1>1. /\ size \in Nat \ {0} /\ Bucket = 0 .. size - 1 /\ Filled(table) \subseteq Bucket /\ scan \in -1 .. size
      /\ \A b \in Bucket : b \in Filled(table) <=> table[b] # NULL
      /\ table \in [0 .. size - 1 -> Item \cup {NULL}] /\ NULL \notin Item
  BY Facts DEF Inv, Types
<1>2. CASE Probe \/ CleanupEnds \/ UNCHANGED vars
  <2>1. UNCHANGED <<table, op, item, scan, keep, next, emptied>>
    BY <1>2 DEF Probe, CleanupEnds, vars, probe, loop, intersect
  <2>2. outer' = outer \/ (op = "none" /\ outer' = "none")
    BY <1>2 DEF Probe, CleanupEnds, vars, loop
  <2> QED
    BY <2>1, <2>2 DEF Scanned
<1>3. CASE (\E x \in Item : LWSetAdd(x) \/ LWSetRemove(x) \/ LWSetGet(x)) \/ LWSetClear \/ GetEnds
           \/ RebuildNext \/ RebuildEnds \/ IntersectEnds
  <2>1. scan' = -1
    BY <1>3 DEF LWSetAdd, LWSetRemove, LWSetGet, Call, LWSetClear, GetEnds, RebuildNext, RebuildEnds,
                IntersectEnds, intersect, Inv, Nested
  <2> QED
    BY <2>1
<1>4. CASE \E keys \in SUBSET {Key[x] : x \in Item} : LWSetIntersect(keys)
  <2>1. scan' = 0 /\ op' = "none" /\ outer' = "none" /\ table' = table
    BY <1>4 DEF LWSetIntersect, Idle, probe, loop
  <2> QED
    BY <1>1, <2>1 DEF Scanned
<1>5. CASE IntersectRemoves
  <2>1. /\ scan \in Filled(table) /\ scan' = scan /\ keep' = keep /\ table' = table
        /\ op' = "remove" /\ item' = table[scan] /\ outer' = "none"
    BY <1>1, <1>5 DEF IntersectRemoves, ScanAgain, Starts, Idle, loop
  <2> QED
    BY <1>1, <2>1 DEF Scanned
<1>6. CASE IntersectNext
  <2>1. /\ scan \in Bucket /\ scan' = scan + 1 /\ keep' = keep /\ table' = table
        /\ op' = "none" /\ outer' = "none" /\ (scan \in Filled(table) => Key[table[scan]] \in keep)
    BY <1>1, <1>6 DEF IntersectNext, Idle, loop, probe
  <2>2. \A b \in Filled(table) : b < scan + 1 => b < scan \/ b = scan
    BY <1>1, <2>1
  <2> QED
    BY <1>1, <2>1, <2>2 DEF Scanned
<1>7. CASE AddEnds
  <2>1. /\ op = "add" /\ Stops /\ op' = "none" /\ scan' = scan /\ keep' = keep
        /\ outer = "cleanup" /\ item \in Item /\ i \in Bucket /\ next \in Bucket /\ itemCount \in Nat
    BY <1>7 DEF AddEnds, intersect, Inv, Nested, Types
  <2>2. table[i] = NULL /\ ~Full(itemCount + 1)
    BY <2>1, AgainNew, FullNever
  <2>3. table' = [table EXCEPT ![i] = item] /\ UNCHANGED <<outer, next, emptied>>
    BY <1>7, <2>2 DEF AddEnds
  <2>4. Filled(table') = Filled(table) \cup {i} /\ \A b \in Bucket : table'[b] = IF b = i THEN item ELSE table[b]
    BY <1>1, <2>1, <2>3 DEF Filled
  <2>5. emptied = scan /\ (0 < next /\ next <= scan => Key[item] \in keep)
    BY <2>1 DEF Scanned
  <2>6. On(scan, next, i)
    <3>1. i # next /\ \A b \in Bucket : On(i, next, b) => table[b] # NULL \/ On(emptied, next, b)
      BY <2>1 DEF Inv, Cleaning
    <3> QED
      BY <1>1, <2>1, <2>2, <2>5, <3>1, Sooner
  <2>7. i < scan => Key[item] \in keep
    BY <1>1, <2>1, <2>5, <2>6 DEF On
  <2>8. \A b \in Filled(table') : b < scan => Key[table'[b]] \in keep
    BY <1>1, <2>1, <2>4, <2>7 DEF Scanned
  <2> QED
    BY <2>1, <2>3, <2>5, <2>8 DEF Scanned
<1>8. CASE RemoveEnds
  <2>1. /\ op = "remove" /\ Stops /\ op' = "none" /\ outer = "none" /\ scan' = scan /\ keep' = keep /\ size' = size
    BY <1>8 DEF RemoveEnds, intersect, Inv, Nested
  <2>2. scan \in Filled(table) /\ table[scan] = item /\ item \in Item
    BY <2>1 DEF Scanned, Inv, Types
  <2>3. table[i] # NULL
    BY <2>1, <2>2, NotThere
  <2>4. i \in Filled(table) /\ i = scan
    <3>1. i \in Filled(table) /\ Key[table[i]] = Key[item]
      BY <2>1, <2>3, Finds DEF Stops
    <3> QED
      BY <2>2, <3>1 DEF Inv, Unequal
  <2>5. table' = [table EXCEPT ![i] = NULL] /\ outer' = "cleanup" /\ emptied' = i
    BY <1>8, <2>3 DEF RemoveEnds, Cleanup
  <2>6. Filled(table') = Filled(table) \ {i} /\ \A b \in Bucket : table'[b] = IF b = i THEN NULL ELSE table[b]
    BY <2>1, <2>4, <2>5, Taken
  <2>7. \A b \in Filled(table') : b < scan => Key[table'[b]] \in keep
    BY <1>1, <2>1, <2>6 DEF Scanned
  <2> QED
    BY <2>1, <2>4, <2>5, <2>7 DEF Scanned
<1>9. CASE CleanupNext
  <2>1. /\ outer = "cleanup" /\ op' = "add" /\ item' = table[next] /\ next' = Succ(next)
        /\ table' = [table EXCEPT ![next] = NULL]
        /\ UNCHANGED <<outer, emptied, scan, keep, size>> /\ next \in Bucket /\ next \in Filled(table)
    BY <1>1, <1>9 DEF CleanupNext, Starts, intersect, Inv, Types
  <2>2. Filled(table') = Filled(table) \ {next} /\ \A b \in Bucket : table'[b] = IF b = next THEN NULL ELSE table[b]
    BY <2>1, Taken
  <2>3. \A b \in Filled(table') : b < scan => Key[table'[b]] \in keep
    BY <1>1, <2>1, <2>2 DEF Scanned
  <2>4. 0 < Succ(next) /\ Succ(next) <= scan => Key[table[next]] \in keep
    <3>1. 0 < Succ(next) /\ Succ(next) <= scan => next < scan
      BY <1>1, <2>1 DEF Succ, Bucket
    <3> QED
      BY <2>1, <3>1 DEF Scanned
  <2> QED
    BY <2>1, <2>3, <2>4 DEF Scanned
<1> QED
  BY <1>2, <1>3, <1>4, <1>5, <1>6, <1>7, <1>8, <1>9 DEF Next, Turn

\* What LWSetIntersect leaves is in the other set, though every removal may move items from the buckets
\* still ahead to those that it has passed.
THEOREM IntersectCorrect == Spec => []Intersected
<1>1. Init => Scanned
  BY DEF Init, Scanned
<1>2. Inv /\ Scanned => Intersected
  <2> SUFFICES ASSUME Inv, Scanned, Idle, scan = size PROVE \A x \in Items : Key[x] \in keep
    BY DEF Intersected
  <2>1. /\ Items = {table[b] : b \in Filled(table)} /\ Filled(table) \subseteq Bucket
        /\ Bucket = 0 .. size - 1 /\ size \in Nat \ {0}
    BY ItemsInTable, Facts DEF Idle
  <2> QED
    BY <2>1 DEF Scanned
<1>3. Spec => []Scanned
  BY <1>1, ScannedNext, Invariance, PTL DEF Spec
<1> QED
  BY <1>2, <1>3, Invariance, PTL

-----------------------------------------------------------------------------
(* The sum of a sequence of amounts.                                         *)

\* The greatest index of a set of them.
LastOf(s) == CHOOSE x \in s : \A y \in s : x >= y

\* The function that adds the amounts up, the last one last.
Sums(f, amounts, n) ==
  f = [s \in SUBSET (1 .. n) |->
         IF s = {} THEN 0 ELSE f[s \ {LastOf(s)}] + amounts[LastOf(s)]]

\* The last index of the first k is k.
LEMMA LastIsLast ==
  ASSUME NEW k \in Nat, k > 0
  PROVE  LastOf(1 .. k) = k /\ (1 .. k) \ {LastOf(1 .. k)} = 1 .. k - 1
<1>1. k \in 1 .. k /\ \A y \in 1 .. k : k >= y
  OBVIOUS
<1>2. \A x \in 1 .. k : (\A y \in 1 .. k : x >= y) => x = k
  OBVIOUS
<1>3. LastOf(1 .. k) = k
  BY <1>1, <1>2 DEF LastOf
<1> QED BY <1>3

\* Any set of indices has a last one.
LEMMA LastIn ==
  ASSUME NEW n \in Nat, NEW s \in SUBSET (1 .. n), s # {}
  PROVE  LastOf(s) \in s /\ \A y \in s : LastOf(s) >= y
<1>1. s \in SUBSET Int /\ n \in Int /\ \A k \in s : k <= n
  OBVIOUS
<1>2. PICK m \in s : \A k \in s : k <= m
  BY <1>1, Greatest
<1>3. \A y \in s : m >= y
  BY <1>1, <1>2
<1> QED BY <1>2, <1>3 DEF LastOf

\* Such a function exists.
LEMMA SumsExist ==
  ASSUME NEW amounts, NEW n \in Nat
  PROVE  \E f : Sums(f, amounts, n)
<1> DEFINE P == {k \in 0 .. n : \E f : Sums(f, amounts, k)}
<1>1. 0 \in P
  <2> DEFINE f == [s \in SUBSET (1 .. 0) |-> 0]
  <2>1. \A s \in SUBSET (1 .. 0) : s = {}
    OBVIOUS
  <2>2. Sums(f, amounts, 0)
    BY <2>1 DEF Sums
  <2> QED BY <2>2
<1>2. ASSUME NEW k \in 0 .. n - 1, k \in P PROVE k + 1 \in P
  <2>1. PICK f : Sums(f, amounts, k)
    BY <1>2
  <2>2. k + 1 \in 0 .. n /\ k \in Nat /\ k + 1 \in Nat
    OBVIOUS
  <2> DEFINE K == SUBSET (1 .. k)
             K1 == SUBSET (1 .. k + 1)
             Step(h, s) == IF s = {} THEN 0 ELSE h[s \ {LastOf(s)}] + amounts[LastOf(s)]
             g == [s \in K1 |-> IF s \in K THEN f[s] ELSE f[s \ {k + 1}] + amounts[k + 1]]
  <2>3. \A s \in K : f[s] = Step(f, s) /\ s \in K1
    <3>1. f = [s \in K |-> Step(f, s)]
      BY <2>1 DEF Sums
    <3>2. \A s \in K : [x \in K |-> Step(f, x)][s] = Step(f, s)
      OBVIOUS
    <3>3. \A s \in K : s \in K1
      BY <2>2
    <3> HIDE DEF K, K1, Step
    <3> QED BY <3>1, <3>2, <3>3
  <2>4. \A s \in K1 : s # {} => s \ {LastOf(s)} \in K
    <3> SUFFICES ASSUME NEW s \in K1, s # {} PROVE s \ {LastOf(s)} \in K
      OBVIOUS
    <3>1. LastOf(s) \in s /\ \A y \in s : LastOf(s) >= y
      BY <2>2, LastIn
    <3> DEFINE m == LastOf(s)
    <3>2. m \in s /\ \A y \in s : m >= y
      BY <3>1
    <3> HIDE DEF m
    <3>3. \A y \in s \ {m} : y \in 1 .. k
      BY <2>2, <3>2
    <3> QED BY <3>3 DEF m
  <2>5. ASSUME NEW s \in K1 PROVE g[s] = Step(g, s)
    <3>1. CASE s = {}
      BY <2>3, <3>1
    <3>2. CASE s # {} /\ s \in K
      <4>1. g[s] = f[s] /\ s \ {LastOf(s)} \in K
        BY <2>4, <3>2
      <4>2. g[s \ {LastOf(s)}] = f[s \ {LastOf(s)}]
        BY <2>3, <4>1
      <4> QED BY <2>3, <3>2, <4>1, <4>2
    <3>3. CASE s \notin K
      <4>1. s # {} /\ k + 1 \in s
        BY <2>2, <3>3
      <4>2. LastOf(s) = k + 1
        <5> DEFINE m == LastOf(s)
        <5>1. m \in s /\ \A y \in s : m >= y
          BY <2>2, <4>1, LastIn
        <5> HIDE DEF m
        <5>2. m \in 1 .. k + 1 /\ m >= k + 1
          BY <4>1, <5>1
        <5>3. m = k + 1
          BY <2>2, <5>2
        <5> QED BY <5>3 DEF m
      <4>3. s \ {k + 1} \in K
        BY <2>4, <4>1, <4>2
      <4>4. g[s] = f[s \ {k + 1}] + amounts[k + 1] /\ g[s \ {k + 1}] = f[s \ {k + 1}]
        BY <2>3, <3>3, <4>3
      <4> QED BY <4>1, <4>2, <4>4
    <3> QED BY <3>1, <3>2, <3>3
  <2>6. g = [s \in K1 |-> Step(g, s)]
    <3>1. g = [s \in K1 |-> g[s]]
      OBVIOUS
    <3> HIDE DEF g, K1, Step
    <3> QED BY <2>5, <3>1
  <2>7. Sums(g, amounts, k + 1)
    <3> HIDE DEF g
    <3> QED BY <2>6 DEF Sums
  <2> QED BY <2>2, <2>7
<1> HIDE DEF P
<1>3. n \in P
  <2>1. n \in 0 .. n
    OBVIOUS
  <2> QED BY <1>1, <1>2, <2>1, Induct
<1> QED BY <1>3 DEF P

\* Its values on the first k indices.
LEMMA SumsValue ==
  ASSUME NEW amounts, NEW n \in Nat, NEW f, Sums(f, amounts, n), NEW k \in 0 .. n
  PROVE  f[1 .. k] = IF k = 0 THEN 0 ELSE f[1 .. k - 1] + amounts[k]
<1> DEFINE Step(s) == IF s = {} THEN 0 ELSE f[s \ {LastOf(s)}] + amounts[LastOf(s)]
           N == SUBSET (1 .. n)
           s == 1 .. k
<1>1. f = [x \in N |-> Step(x)]
  BY DEF Sums
<1>2. s \in N
  OBVIOUS
<1>3. f[s] = Step(s)
  <2>1. [x \in N |-> Step(x)][s] = Step(s)
    BY <1>2
  <2> HIDE DEF N, s, Step
  <2> QED BY <1>1, <2>1
<1>4. CASE k = 0
  <2>1. s = {}
    BY <1>4
  <2> QED BY <1>3, <1>4, <2>1
<1>5. CASE k > 0
  <2>1. k \in Nat /\ k \in s
    BY <1>5
  <2>2. LastOf(s) = k /\ s \ {LastOf(s)} = 1 .. k - 1
    BY <1>5, <2>1, LastIsLast
  <2> DEFINE r == 1 .. k - 1
  <2>3. s \ {k} = r
    BY <2>2
  <2> HIDE DEF s, r
  <2>4. Step(s) = f[r] + amounts[k]
    BY <2>1, <2>2, <2>3
  <2> HIDE DEF Step
  <2>5. f[s] = IF k = 0 THEN 0 ELSE f[r] + amounts[k]
    BY <1>3, <1>5, <2>4
  <2> QED BY <2>5 DEF s, r
<1> QED BY <1>4, <1>5

\* Total is that sum.
LEMMA TotalIs ==
  ASSUME NEW amounts \in Seq(Int)
  PROVE  \E f : Sums(f, amounts, Len(amounts)) /\ Total(amounts) = f[1 .. Len(amounts)]
<1> DEFINE n == Len(amounts)
<1>1. n \in Nat /\ DOMAIN amounts = 1 .. n
  BY LenProperties
<1>2. Total(amounts) = (CHOOSE f : Sums(f, amounts, n))[1 .. n]
  BY <1>1 DEF Total, FoldLeft, MapThenFoldSet, Sums, LastOf, Max
<1>3. \E f : Sums(f, amounts, n)
  BY <1>1, SumsExist
<1> HIDE DEF n
<1> QED BY <1>2, <1>3 DEF n

\* It adds up the amounts one by one, and is the same for sequences that begin alike.
LEMMA TotalOf ==
  ASSUME NEW a \in Seq(Int)
  PROVE  \E f : /\ \A k \in 0 .. Len(a) : f[k] \in Int
                /\ f[0] = 0
                /\ \A k \in 1 .. Len(a) : f[k] = f[k - 1] + a[k]
                /\ \A b \in Seq(Int) :
                     (Len(b) <= Len(a) /\ \A q \in 1 .. Len(b) : b[q] = a[q]) => Total(b) = f[Len(b)]
<1> DEFINE n == Len(a)
<1>1. n \in Nat /\ \A k \in 1 .. n : a[k] \in Int
  BY LenProperties
<1> HIDE DEF n
<1>2. PICK g : Sums(g, a, n)
  BY <1>1, SumsExist
<1> DEFINE f == [k \in 0 .. n |-> g[1 .. k]]
<1>3. f[0] = 0
  BY <1>1, <1>2, SumsValue
<1>4. ASSUME NEW k \in 1 .. n PROVE f[k] = f[k - 1] + a[k]
  <2>1. k \in 0 .. n /\ k - 1 \in 0 .. n /\ k # 0
    BY <1>1
  <2>2. g[1 .. k] = g[1 .. k - 1] + a[k]
    BY <1>1, <1>2, <2>1, SumsValue
  <2>3. f[k] = g[1 .. k] /\ f[k - 1] = g[1 .. k - 1]
    BY <2>1
  <2> QED BY <2>2, <2>3
<1> HIDE DEF f
<1>5. \A k \in 0 .. n : f[k] \in Int
  <2> DEFINE P == {k \in Nat : f[k] \in Int}
  <2>1. 0 \in P
    BY <1>3
  <2>2. ASSUME NEW k \in 0 .. n - 1, k \in P PROVE k + 1 \in P
    <3>1. k + 1 \in 1 .. n /\ (k + 1) - 1 = k /\ k + 1 \in Nat
      BY <1>1
    <3> QED BY <1>1, <1>4, <2>2, <3>1
  <2> HIDE DEF P
  <2>3. \A k \in 0 .. n : k \in P
    BY <1>1, <2>1, <2>2, Induct
  <2> QED BY <2>3 DEF P
<1>6. ASSUME NEW b \in Seq(Int), Len(b) <= n, \A q \in 1 .. Len(b) : b[q] = a[q]
      PROVE  Total(b) = f[Len(b)]
  <2> DEFINE m == Len(b)
  <2>1. m \in Nat /\ m <= n
    BY <1>6, LenProperties
  <2>2. PICK h : Sums(h, b, m) /\ Total(b) = h[1 .. m]
    BY TotalIs
  <2>3. \A q \in 1 .. m : b[q] = a[q]
    BY <1>6
  <2> HIDE DEF m
  <2> DEFINE P == {k \in Nat : h[1 .. k] = f[k]}
  <2>4. 0 \in P
    <3>1. 0 \in 0 .. m
      BY <2>1
    <3>2. h[1 .. 0] = 0
      BY <2>1, <2>2, <3>1, SumsValue
    <3> QED BY <1>3, <3>2
  <2>5. ASSUME NEW k \in 0 .. m - 1, k \in P PROVE k + 1 \in P
    <3>1. k + 1 \in 0 .. m /\ k + 1 \in 1 .. m /\ k + 1 \in 1 .. n /\ (k + 1) - 1 = k /\ k + 1 # 0 /\ k + 1 \in Nat
      BY <1>1, <2>1
    <3>2. h[1 .. k + 1] = IF k + 1 = 0 THEN 0 ELSE h[1 .. (k + 1) - 1] + b[k + 1]
      BY <2>1, <2>2, <3>1, SumsValue
    <3>3. h[1 .. k + 1] = h[1 .. k] + b[k + 1]
      BY <3>1, <3>2
    <3>4. f[k + 1] = f[(k + 1) - 1] + a[k + 1]
      BY <1>4, <3>1
    <3>5. b[k + 1] = a[k + 1] /\ h[1 .. k] = f[k]
      BY <2>3, <2>5, <3>1
    <3> QED BY <3>1, <3>3, <3>4, <3>5
  <2> HIDE DEF P
  <2>6. m \in P
    <3>1. m \in 0 .. m
      BY <2>1
    <3> QED BY <2>1, <2>4, <2>5, <3>1, Induct
  <2> QED BY <2>2, <2>6 DEF P, m
<1> QED BY <1>3, <1>4, <1>5, <1>6 DEF n

\* A total of integers is one; with one amount more it is more by that.
LEMMA TotalFacts ==
  ASSUME NEW a \in Seq(Int)
  PROVE  /\ Total(a) \in Int
         /\ \A x \in Int : Total(Append(a, x)) = Total(a) + x
<1>1. Total(a) \in Int
  <2>1. PICK f : /\ \A k \in 0 .. Len(a) : f[k] \in Int
                 /\ \A b \in Seq(Int) :
                     (Len(b) <= Len(a) /\ \A q \in 1 .. Len(b) : b[q] = a[q]) => Total(b) = f[Len(b)]
    BY TotalOf
  <2>2. Len(a) \in 0 .. Len(a) /\ Len(a) <= Len(a)
    BY LenProperties
  <2> QED BY <2>1, <2>2
<1>2. ASSUME NEW x \in Int PROVE Total(Append(a, x)) = Total(a) + x
  <2> DEFINE c == Append(a, x)
             n == Len(a)
  <2>1. /\ c \in Seq(Int) /\ Len(c) = n + 1 /\ n \in Nat /\ c[n + 1] = x
        /\ \A q \in 1 .. n : c[q] = a[q]
    BY AppendProperties, LenProperties
  <2>2. PICK f : /\ \A k \in 0 .. Len(c) : f[k] \in Int
                 /\ f[0] = 0
                 /\ \A k \in 1 .. Len(c) : f[k] = f[k - 1] + c[k]
                 /\ \A b \in Seq(Int) :
                     (Len(b) <= Len(c) /\ \A q \in 1 .. Len(b) : b[q] = c[q]) => Total(b) = f[Len(b)]
    <3> HIDE DEF c
    <3> QED BY <2>1, TotalOf
  <2> HIDE DEF c
  <2>3. Total(c) = f[n + 1]
    <3>1. Len(c) <= Len(c)
      BY <2>1
    <3> QED BY <2>1, <2>2, <3>1
  <2>4. Total(a) = f[n]
    <3>1. Len(a) <= Len(c) /\ \A q \in 1 .. Len(a) : a[q] = c[q]
      BY <2>1
    <3> QED BY <2>2, <3>1
  <2>5. f[n + 1] = f[n] + c[n + 1]
    <3>1. n + 1 \in 1 .. Len(c) /\ (n + 1) - 1 = n
      BY <2>1
    <3> QED BY <2>2, <3>1
  <2> QED BY <2>1, <2>3, <2>4, <2>5 DEF c
<1> QED BY <1>1, <1>2

\* The first of some amounts are no more than all of them.
LEMMA TotalFirst ==
  ASSUME NEW a \in Seq(Nat), NEW k \in 0 .. Len(a)
  PROVE  /\ Total(a) \in Nat
         /\ Total(SubSeq(a, 1, k)) \in Nat
         /\ Total(SubSeq(a, 1, k)) <= Total(a)
<1> DEFINE n == Len(a)
           c == SubSeq(a, 1, k)
<1>1. /\ a \in Seq(Int) /\ n \in Nat /\ k \in Nat /\ k <= n /\ \A q \in 1 .. n : a[q] \in Nat
  BY LenProperties
<1>2. c \in Seq(Int) /\ Len(c) = k /\ \A q \in 1 .. k : c[q] = a[q]
  BY <1>1, SubSeqProperties
<1>3. PICK f : /\ \A j \in 0 .. n : f[j] \in Int
               /\ f[0] = 0
               /\ \A j \in 1 .. n : f[j] = f[j - 1] + a[j]
               /\ \A b \in Seq(Int) :
                     (Len(b) <= n /\ \A q \in 1 .. Len(b) : b[q] = a[q]) => Total(b) = f[Len(b)]
  BY <1>1, TotalOf
<1> HIDE DEF n, c
<1>4. Total(c) = f[k] /\ Total(a) = f[n]
  <2>1. Len(c) <= n /\ \A q \in 1 .. Len(c) : c[q] = a[q]
    BY <1>1, <1>2
  <2>2. Total(c) = f[Len(c)]
    BY <1>2, <1>3, <2>1
  <2>3. Len(a) = n
    BY DEF n
  <2>4. Len(a) <= n /\ \A q \in 1 .. Len(a) : a[q] = a[q]
    BY <1>1, <2>3
  <2>5. Total(a) = f[Len(a)]
    BY <1>1, <1>3, <2>4
  <2> QED BY <1>2, <2>2, <2>3, <2>5
<1>5. \A j \in 1 .. n : f[j] >= f[j - 1]
  <2> SUFFICES ASSUME NEW j \in 1 .. n PROVE f[j] >= f[j - 1]
    OBVIOUS
  <2>1. j \in 0 .. n /\ j - 1 \in 0 .. n
    BY <1>1
  <2> QED BY <1>1, <1>3, <2>1, SMTT(30)
<1>6. f[k] \in Nat
  <2> DEFINE P == {j \in Nat : f[j] \in Nat}
  <2>1. 0 \in P
    BY <1>3
  <2>2. ASSUME NEW j \in 0 .. n - 1, j \in P PROVE j + 1 \in P
    <3>1. j + 1 \in 1 .. n /\ (j + 1) - 1 = j /\ j + 1 \in Nat
      BY <1>1
    <3>2. f[j] \in Nat /\ a[j + 1] \in Nat /\ f[j + 1] = f[(j + 1) - 1] + a[j + 1]
      BY <1>1, <1>3, <2>2, <3>1
    <3> QED BY <3>1, <3>2
  <2> HIDE DEF P
  <2>3. \A j \in 0 .. n : j \in P
    BY <1>1, <2>1, <2>2, Induct
  <2> QED BY <1>1, <2>3 DEF P
<1>7. f[k] <= f[n]
  <2> DEFINE P == {d \in Nat : k + d <= n => f[k] <= f[k + d]}
  <2>1. 0 \in P
    BY <1>1, <1>6
  <2>2. ASSUME NEW d \in 0 .. n - 1, d \in P PROVE d + 1 \in P
    <3>1. d + 1 \in Nat /\ d \in Nat
      OBVIOUS
    <3>2. ASSUME k + (d + 1) <= n PROVE f[k] <= f[k + (d + 1)]
      <4> DEFINE j == k + (d + 1)
      <4>1. j \in 1 .. n /\ j - 1 = k + d /\ k + d <= n /\ j \in 0 .. n /\ k + d \in 0 .. n
        BY <1>1, <3>1, <3>2
      <4>2. f[k] <= f[k + d]
        BY <2>2, <4>1
      <4> HIDE DEF j
      <4>3. f[j] >= f[k + d] /\ f[j] \in Int /\ f[k + d] \in Int
        BY <1>3, <1>5, <4>1
      <4>4. f[k] <= f[j]
        BY <1>6, <4>2, <4>3
      <4> QED BY <4>4 DEF j
    <3> QED BY <3>1, <3>2
  <2> HIDE DEF P
  <2>3. n - k \in P
    <3>1. n - k \in 0 .. n
      BY <1>1
    <3> QED BY <1>1, <2>1, <2>2, <3>1, Induct
  <2>4. k + (n - k) = n
    BY <1>1
  <2> QED BY <1>1, <2>3, <2>4 DEF P
<1>8. f[n] \in Nat
  BY <1>1, <1>3, <1>6, <1>7
<1> QED BY <1>4, <1>6, <1>7, <1>8 DEF c

-----------------------------------------------------------------------------
(* Fees.                                                                     *)

\* What the rate alone asks for.
Rated(rate, bytes) == (bytes * rate) \div 1000

\* A fee is what the rate asks for, at least, and a larger transaction costs no less.
LEMMA FeeFacts ==
  ASSUME NEW rate \in Nat, NEW bytes \in Nat, NEW larger \in Nat, bytes <= larger
  PROVE  /\ _txFee(rate, bytes) \in Nat
         /\ Rated(rate, bytes) \in Nat
         /\ _txFee(rate, bytes) >= Rated(rate, bytes)
         /\ _txFee(rate, bytes) >= bytes
         /\ _txFee(rate, bytes) <= _txFee(rate, larger)
<1> DEFINE x == bytes * rate
           y == larger * rate
<1>1. x \in Nat /\ y \in Nat /\ x <= y
  <2> DEFINE d == larger - bytes
  <2>1. d \in Nat /\ larger = bytes + d
    OBVIOUS
  <2> HIDE DEF d
  <2>2. (bytes + d) * rate = bytes * rate + d * rate
    BY <2>1, SMT
  <2>3. bytes * rate \in Nat /\ d * rate \in Nat
    BY <2>1, SMT
  <2>4. \A u \in Nat, v \in Nat : u + v \in Nat /\ u <= u + v
    OBVIOUS
  <2> QED BY <2>1, <2>2, <2>3, <2>4, Zenon
<1> HIDE DEF x, y
<1> DEFINE fee(z) == ((z \div 1000 + 99) \div 100) * 100
           standard(s) == ((s + 999) \div 1000) * 1000
           top(f, s) == IF f > s THEN f ELSE s
<1>2. \A z \in Nat : fee(z) \in Nat /\ fee(z) >= z \div 1000
  OBVIOUS
<1>3. fee(x) <= fee(y) /\ standard(bytes) <= standard(larger)
  <2>1. \A u, v \in Nat : u <= v => fee(u) <= fee(v)
    OBVIOUS
  <2>2. \A u, v \in Nat : u <= v => standard(u) <= standard(v)
    OBVIOUS
  <2> QED BY <1>1, <2>1, <2>2
<1>4. standard(bytes) \in Nat /\ standard(bytes) >= bytes /\ standard(larger) \in Nat /\ x \div 1000 \in Nat
  BY <1>1
<1>5. _txFee(rate, bytes) = top(fee(x), standard(bytes)) /\ _txFee(rate, larger) = top(fee(y), standard(larger))
  BY DEF _txFee, TX_FEE_PER_KB, x, y
<1>6. fee(x) \in Nat /\ fee(y) \in Nat /\ fee(x) >= x \div 1000
  BY <1>1, <1>2
<1> HIDE DEF fee, standard
<1>7. /\ top(fee(x), standard(bytes)) \in Nat
      /\ top(fee(x), standard(bytes)) >= x \div 1000
      /\ top(fee(x), standard(bytes)) >= bytes
      /\ top(fee(x), standard(bytes)) <= top(fee(y), standard(larger))
  BY <1>3, <1>4, <1>6
<1> QED BY <1>4, <1>5, <1>7 DEF x, Rated

\* The same of one transaction.
LEMMA FeeLeast ==
  ASSUME NEW rate \in Nat, NEW bytes \in Nat
  PROVE  /\ _txFee(rate, bytes) \in Nat
         /\ Rated(rate, bytes) \in Nat
         /\ _txFee(rate, bytes) >= Rated(rate, bytes)
         /\ _txFee(rate, bytes) >= bytes
<1>1. bytes <= bytes
  OBVIOUS
<1> QED BY <1>1, FeeFacts

-----------------------------------------------------------------------------
(* What an output adds to a transaction.                                     *)

Output == [amount : Nat \ {0}, scriptLen : Nat]

\* The output that takes the change.
ChangeOf(change) == IF change > 0 THEN <<[amount |-> change, scriptLen |-> 25]>> ELSE <<>>

\* The values of f over the outputs form a sequence, which grows as they do.
LEMMA Along ==
  ASSUME NEW f, NEW outs \in Seq(Output), \A o \in Output : f[o] \in Nat
  PROVE  /\ [o \in DOMAIN outs |-> f[outs[o]]] \in Seq(Nat)
         /\ \A x \in Output : [o \in DOMAIN Append(outs, x) |-> f[Append(outs, x)[o]]]
                              = Append([o \in DOMAIN outs |-> f[outs[o]]], f[x])
<1> DEFINE n == Len(outs)
           a == [o \in DOMAIN outs |-> f[outs[o]]]
<1>1. n \in Nat /\ DOMAIN outs = 1 .. n /\ \A q \in 1 .. n : outs[q] \in Output
  BY LenProperties
<1>2. a \in [1 .. n -> Nat]
  BY <1>1
<1>3. a \in Seq(Nat) /\ Len(a) = n
  BY <1>1, <1>2
<1>4. ASSUME NEW x \in Output
      PROVE  [o \in DOMAIN Append(outs, x) |-> f[Append(outs, x)[o]]] = Append(a, f[x])
  <2> DEFINE c == Append(outs, x)
             b == [o \in DOMAIN c |-> f[c[o]]]
             d == Append(a, f[x])
  <2>1. /\ c \in Seq(Output) /\ Len(c) = n + 1 /\ c[n + 1] = x
        /\ \A q \in 1 .. n : c[q] = outs[q]
    BY <1>1, AppendProperties
  <2>2. DOMAIN c = 1 .. n + 1 /\ \A q \in 1 .. n + 1 : c[q] \in Output
    BY <2>1, LenProperties
  <2> HIDE DEF c
  <2>3. b \in [1 .. n + 1 -> Nat]
    BY <2>2
  <2>4. b \in Seq(Nat) /\ Len(b) = n + 1
    BY <1>1, <2>3
  <2>5. /\ d \in Seq(Nat) /\ Len(d) = n + 1 /\ d[n + 1] = f[x]
        /\ \A q \in 1 .. n : d[q] = a[q]
    <3> HIDE DEF a
    <3>1. f[x] \in Nat
      OBVIOUS
    <3> QED BY <1>3, <3>1, AppendProperties
  <2>6. \A q \in 1 .. n : b[q] = f[outs[q]] /\ a[q] = f[outs[q]]
    BY <1>1, <2>1, <2>2
  <2>7. b[n + 1] = f[x]
    BY <1>1, <2>1, <2>2
  <2> HIDE DEF b, d, a
  <2>8. \A q \in 1 .. Len(b) : b[q] = d[q]
    <3> SUFFICES ASSUME NEW q \in 1 .. Len(b) PROVE b[q] = d[q]
      OBVIOUS
    <3>1. q \in 1 .. n \/ q = n + 1
      BY <1>1, <2>4
    <3>2. CASE q \in 1 .. n
      BY <2>5, <2>6, <3>2, Zenon
    <3>3. CASE q = n + 1
      BY <2>5, <2>7, <3>3, Zenon
    <3> QED BY <3>1, <3>2, <3>3
  <2>9. b = d
    BY <2>4, <2>5, <2>8, SeqEqual
  <2> QED BY <2>9 DEF b, c, d
<1> QED BY <1>3, <1>4

\* What it adds to what is paid.
LEMMA PaidFacts ==
  ASSUME NEW outs \in Seq(Output)
  PROVE  /\ Paid(outs) \in Nat
         /\ \A x \in Output : Paid(Append(outs, x)) = Paid(outs) + x.amount
<1> DEFINE f == [o \in Output |-> o.amount]
           a == [o \in DOMAIN outs |-> f[outs[o]]]
<1>1. \A o \in Output : f[o] \in Nat /\ f[o] = o.amount
  BY DEF Output
<1>2. \A s \in Seq(Output) : [o \in DOMAIN s |-> s[o].amount] = [o \in DOMAIN s |-> f[s[o]]]
  <2> SUFFICES ASSUME NEW s \in Seq(Output)
               PROVE  [o \in DOMAIN s |-> s[o].amount] = [o \in DOMAIN s |-> f[s[o]]]
    OBVIOUS
  <2>1. \A o \in DOMAIN s : s[o] \in Output
    BY LenProperties
  <2> QED BY <1>1, <2>1
<1> HIDE DEF f
<1>3. /\ a \in Seq(Nat)
      /\ \A x \in Output : [o \in DOMAIN Append(outs, x) |-> f[Append(outs, x)[o]]] = Append(a, f[x])
  BY <1>1, Along
<1>4. a \in Seq(Int) /\ Paid(outs) = Total(a)
  BY <1>2, <1>3, SeqMonotonic DEF Paid
<1>5. Total(a) \in Nat
  <2>1. Len(a) \in 0 .. Len(a)
    BY <1>3, LenProperties
  <2> HIDE DEF a
  <2> QED BY <1>3, <2>1, TotalFirst
<1>6. ASSUME NEW x \in Output PROVE Paid(Append(outs, x)) = Paid(outs) + x.amount
  <2>1. Append(outs, x) \in Seq(Output)
    BY AppendProperties
  <2>2. Paid(Append(outs, x)) = Total(Append(a, f[x]))
    BY <1>2, <1>3, <2>1 DEF Paid
  <2>3. f[x] \in Int /\ f[x] = x.amount
    BY <1>1
  <2> HIDE DEF a
  <2> QED BY <1>4, <2>2, <2>3, TotalFacts
<1> QED BY <1>4, <1>5, <1>6

\* A larger number takes no fewer bytes.
LEMMA VarIntFacts ==
  ASSUME NEW n \in Nat
  PROVE  /\ LWVarIntSize(n) \in Nat
         /\ n < 253 => LWVarIntSize(n) = 1
         /\ \A m \in Nat : n <= m => LWVarIntSize(n) <= LWVarIntSize(m)
BY DEF LWVarIntSize

\* What the change adds to the size; an input makes a transaction larger.
LEMMA SizeFacts ==
  ASSUME NEW outs \in Seq(Output), NEW n \in Nat
  PROVE  /\ LWTransactionSize(n, outs) \in Nat
         /\ Len(outs) < 252 => \A x \in Output : x.scriptLen = 25 =>
              LWTransactionSize(n, Append(outs, x)) = LWTransactionSize(n, outs) + 34
         /\ \A m \in Nat : n <= m => LWTransactionSize(n, outs) <= LWTransactionSize(m, outs)
<1> DEFINE f == [o \in Output |-> 8 + LWVarIntSize(o.scriptLen) + o.scriptLen]
           a == [o \in DOMAIN outs |-> f[outs[o]]]
           heads(m, c) == 8 + LWVarIntSize(m) + LWVarIntSize(c) + 148 * m
<1>1. \A o \in Output : f[o] \in Nat /\ f[o] = 8 + LWVarIntSize(o.scriptLen) + o.scriptLen
  <2> SUFFICES ASSUME NEW o \in Output PROVE f[o] \in Nat
    OBVIOUS
  <2>1. o.scriptLen \in Nat
    BY DEF Output
  <2>2. LWVarIntSize(o.scriptLen) \in Nat
    BY <2>1, VarIntFacts
  <2> QED BY <2>1, <2>2
<1>2. ASSUME NEW s \in Seq(Output)
      PROVE  [o \in DOMAIN s |-> 8 + LWVarIntSize(s[o].scriptLen) + s[o].scriptLen]
             = [o \in DOMAIN s |-> f[s[o]]]
  <2>1. \A o \in DOMAIN s : s[o] \in Output
    BY LenProperties
  <2> HIDE DEF f
  <2> QED BY <1>1, <2>1
<1> HIDE DEF f
<1>3. /\ a \in Seq(Nat)
      /\ \A x \in Output : [o \in DOMAIN Append(outs, x) |-> f[Append(outs, x)[o]]] = Append(a, f[x])
  BY <1>1, Along
<1>4. a \in Seq(Int)
  BY <1>3, SeqMonotonic
<1>5. ASSUME NEW m, NEW s \in Seq(Output)
      PROVE  LWTransactionSize(m, s) = heads(m, Len(s)) + Total([o \in DOMAIN s |-> f[s[o]]])
  BY <1>2, Zenon DEF LWTransactionSize, TX_INPUT_SIZE
<1>6. Total(a) \in Nat
  <2>1. Len(a) \in 0 .. Len(a)
    BY <1>3, LenProperties
  <2> HIDE DEF a
  <2> QED BY <1>3, <2>1, TotalFirst
<1> DEFINE l == Len(outs)
           t == Total(a)
<1>7. l \in Nat /\ t \in Nat
  BY <1>6, LenProperties
<1>8. \A m : LWTransactionSize(m, outs) = heads(m, l) + t
  BY <1>5
<1> HIDE DEF heads
<1>9. ASSUME l < 252, NEW x \in Output, x.scriptLen = 25
      PROVE  LWTransactionSize(n, Append(outs, x)) = LWTransactionSize(n, outs) + 34
  <2>1. Append(outs, x) \in Seq(Output) /\ Len(Append(outs, x)) = l + 1
    BY AppendProperties
  <2>2. LWTransactionSize(n, Append(outs, x)) = heads(n, l + 1) + Total(Append(a, f[x]))
    <3>1. PICK s \in Seq(Output) : s = Append(outs, x)
      BY <2>1, Zenon
    <3>2. LWTransactionSize(n, s) = heads(n, Len(s)) + Total([o \in DOMAIN s |-> f[s[o]]])
      BY <1>5, Zenon
    <3>3. [o \in DOMAIN s |-> f[s[o]]] = Append(a, f[x])
      BY <1>3, <3>1, Zenon
    <3>4. Len(s) = l + 1
      BY <2>1, <3>1, Zenon
    <3> QED BY <3>1, <3>2, <3>3, <3>4, Zenon
  <2>3. f[x] \in Int /\ f[x] = 34
    <3>1. LWVarIntSize(25) = 1
      BY DEF LWVarIntSize
    <3> QED BY <1>1, <1>9, <3>1
  <2>4. Total(Append(a, f[x])) = t + f[x]
    <3> HIDE DEF a
    <3> QED BY <1>4, <2>3, TotalFacts
  <2>5. heads(n, l + 1) = heads(n, l) /\ heads(n, l) \in Int
    <3>1. l \in Nat /\ l + 1 \in Nat /\ l < 253 /\ l + 1 < 253
      BY <1>7, <1>9
    <3> HIDE DEF l
    <3>2. LWVarIntSize(l) = 1 /\ LWVarIntSize(l + 1) = 1 /\ LWVarIntSize(n) \in Nat
      BY <3>1, VarIntFacts
    <3> QED BY <3>2 DEF heads
  <2> HIDE DEF l, t, a
  <2> QED BY <1>7, <1>8, <2>2, <2>3, <2>4, <2>5
<1> HIDE DEF l, t, a
<1>10. ASSUME NEW m \in Nat
       PROVE  /\ heads(m, l) \in Nat
              /\ n <= m => heads(n, l) <= heads(m, l)
  <2> DEFINE u == LWVarIntSize(n)
             v == LWVarIntSize(m)
             w == LWVarIntSize(l)
  <2>1. u \in Nat /\ v \in Nat /\ w \in Nat /\ (n <= m => u <= v)
    BY <1>7, VarIntFacts
  <2> HIDE DEF u, v, w
  <2>2. 8 + v + w + 148 * m \in Nat /\ (n <= m => 8 + u + w + 148 * n <= 8 + v + w + 148 * m)
    BY <2>1
  <2> QED BY <2>2 DEF heads, u, v, w
<1>11. LWTransactionSize(n, outs) \in Nat
  <2>1. heads(n, l) \in Nat
    BY <1>10
  <2> QED BY <1>7, <1>8, <2>1
<1>12. \A m \in Nat : n <= m => LWTransactionSize(n, outs) <= LWTransactionSize(m, outs)
  <2> SUFFICES ASSUME NEW m \in Nat, n <= m
               PROVE  LWTransactionSize(n, outs) <= LWTransactionSize(m, outs)
    OBVIOUS
  <2>1. heads(n, l) \in Nat /\ heads(m, l) \in Nat /\ heads(n, l) <= heads(m, l)
    BY <1>10
  <2> QED BY <1>7, <1>8, <2>1
<1>13. l < 252 => \A x \in Output : x.scriptLen = 25 =>
         LWTransactionSize(n, Append(outs, x)) = LWTransactionSize(n, outs) + 34
  BY <1>9, Zenon
<1> QED BY <1>11, <1>12, <1>13, Zenon DEF l

-----------------------------------------------------------------------------
(* The loop over the utxos.                                                  *)

\* The amounts that it compares are numbers; without an input they never suffice.
LEMMA LoopFacts ==
  ASSUME utxos \in Seq(Nat), feePerKb \in Nat,
         NEW outs \in Seq(Output), NEW k \in 0 .. Len(utxos)
  PROVE  /\ Total(utxos) \in Nat /\ Balance(k) \in Nat /\ Balance(k) <= Total(utxos)
         /\ Paid(outs) \in Nat
         /\ _txFee(feePerKb, LWTransactionSize(k, outs) + TX_OUTPUT_SIZE) \in Nat
         /\ FeeAmount(outs, k) \in Nat
         /\ Over(outs, k) \in Int
         /\ k = 0 => Over(outs, k) < 0
<1> DEFINE bytes == LWTransactionSize(k, outs)
           fee == _txFee(feePerKb, bytes + TX_OUTPUT_SIZE)
           paid == Paid(outs)
           total == Total(utxos)
<1>1. k \in Nat
  BY LenProperties
<1>2. total \in Nat /\ Balance(k) \in Nat /\ Balance(k) <= total
  BY TotalFirst DEF Balance
<1>3. paid \in Nat
  BY PaidFacts
<1>4. bytes \in Nat
  BY <1>1, SizeFacts
<1>5. bytes + TX_OUTPUT_SIZE \in Nat /\ bytes + TX_OUTPUT_SIZE >= 34
  <2> HIDE DEF bytes
  <2> QED BY <1>4 DEF TX_OUTPUT_SIZE
<1>6. fee \in Nat /\ fee >= 34
  <2> DEFINE s == bytes + TX_OUTPUT_SIZE
  <2>1. s \in Nat /\ s >= 34 /\ s <= s
    BY <1>5
  <2> HIDE DEF s
  <2>2. _txFee(feePerKb, s) \in Nat /\ _txFee(feePerKb, s) >= s
    BY <2>1, FeeLeast
  <2>3. _txFee(feePerKb, s) >= 34
    BY <2>1, <2>2
  <2> QED BY <2>2, <2>3 DEF s
<1>7. FeeAmount(outs, k) = IF k > 0 /\ total - (paid + fee) > 0
                           THEN fee + ((total - (paid + fee)) % 100) ELSE fee
  BY DEF FeeAmount
<1> HIDE DEF fee, paid, total
<1>8. FeeAmount(outs, k) \in Nat /\ (k = 0 => FeeAmount(outs, k) = fee)
  BY <1>1, <1>2, <1>3, <1>6, <1>7
<1>9. Over(outs, k) = Balance(k) - (paid + FeeAmount(outs, k))
  BY DEF Over, paid
<1>10. Over(outs, k) \in Int
  BY <1>2, <1>3, <1>8, <1>9
<1>11. ASSUME k = 0 PROVE Over(outs, k) < 0
  <2>1. Balance(k) = 0
    <3>1. SubSeq(utxos, 1, 0) = <<>>
      <4>1. 0 < 1 /\ 0 \in Int /\ 1 \in Int
        OBVIOUS
      <4> QED BY <4>1, SubSeqEmpty, Zenon
    <3>2. Balance(0) = Total(<<>>)
      BY <3>1 DEF Balance
    <3>3. Total(<<>>) = 0
      <4>1. <<>> \in Seq(Int) /\ Len(<<>>) = 0
        BY EmptySeq
      <4>2. PICK f : Sums(f, <<>>, Len(<<>>)) /\ Total(<<>>) = f[1 .. Len(<<>>)]
        BY <4>1, TotalIs
      <4> DEFINE g(s) == IF s = {} THEN 0 ELSE f[s \ {LastOf(s)}] + <<>>[LastOf(s)]
                 none == 1 .. Len(<<>>)
                 D == SUBSET none
      <4>3. f = [s \in D |-> g(s)]
        BY <4>2, Zenon DEF Sums
      <4>4. none = {} /\ {} \in D /\ g({}) = 0
        BY <4>1
      <4>5. Total(<<>>) = f[none]
        BY <4>2
      <4> HIDE DEF g, D, none
      <4> QED BY <4>3, <4>4, <4>5
    <3> QED BY <1>11, <3>2, <3>3
  <2> QED BY <1>3, <1>6, <1>8, <1>9, <1>11, <2>1
<1> QED BY <1>2, <1>3, <1>6, <1>8, <1>10, <1>11 DEF fee, paid, total

\* It ends at the first input at which the transaction is too large or the amount
\* suffices, or at the last one.
LEMMA StopsFacts ==
  ASSUME utxos \in Seq(Nat), NEW outs, NEW min
  PROVE  /\ StopsAt(outs, min) \in 0 .. Len(utxos)
         /\ \A j \in DOMAIN utxos : j < StopsAt(outs, min) => ~TooLarge(outs, j) /\ ~Enough(outs, min, j)
<1> DEFINE ends == {k \in DOMAIN utxos : TooLarge(outs, k) \/ Enough(outs, min, k)}
           stop == IF ends = {} THEN Len(utxos) ELSE CHOOSE k \in ends : \A j \in ends : k <= j
<1>1. DOMAIN utxos = 1 .. Len(utxos) /\ Len(utxos) \in Nat
  BY LenProperties
<1>2. StopsAt(outs, min) = stop
  BY DEF StopsAt
<1>3. ends \subseteq DOMAIN utxos
      /\ \A j \in DOMAIN utxos : j \notin ends => ~TooLarge(outs, j) /\ ~Enough(outs, min, j)
  OBVIOUS
<1> HIDE DEF ends
<1>4. ends # {} => stop \in ends /\ \A j \in ends : stop <= j
  <2> SUFFICES ASSUME ends # {} PROVE stop \in ends /\ \A j \in ends : stop <= j
    OBVIOUS
  <2>1. ends \in SUBSET Nat
    BY <1>1, <1>3
  <2>2. \E m \in ends : \A k \in ends : m <= k
    BY <2>1, Least
  <2> QED BY <2>2
<1> HIDE DEF stop
<1>5. stop \in 0 .. Len(utxos) /\ (ends = {} => stop = Len(utxos))
  <2>1. CASE ends = {}
    <3>1. stop = Len(utxos)
      BY <2>1 DEF stop
    <3> QED BY <1>1, <3>1
  <2>2. CASE ends # {}
    <3>1. stop \in 1 .. Len(utxos)
      BY <1>1, <1>3, <1>4, <2>2
    <3>2. stop \in 0 .. Len(utxos)
      BY <1>1, <3>1
    <3> QED BY <2>2, <3>2
  <2> QED BY <2>1, <2>2
<1>6. ASSUME NEW j \in DOMAIN utxos, j < stop PROVE j \notin ends
  <2> SUFFICES ASSUME j \in ends PROVE FALSE
    OBVIOUS
  <2>1. stop <= j
    BY <1>4
  <2>2. stop \in Int /\ j \in Int
    <3> DEFINE n == Len(utxos)
    <3>1. n \in Nat /\ stop \in 0 .. n /\ j \in 1 .. n
      BY <1>1, <1>5
    <3> HIDE DEF n
    <3> QED BY <3>1
  <2> QED BY <1>6, <2>1, <2>2
<1> QED BY <1>2, <1>3, <1>5, <1>6

-----------------------------------------------------------------------------
(* What a transaction costs.                                                 *)

\* The transactions.
Made == [made : {TRUE}, inCount : Nat, rate : Nat, outs : Seq(Output), spent : Nat,
         total : Nat, change : Nat]

\* What FeeExact says of a transaction that was chosen under a minimum amount.
Exact(t, min) ==
  LET outs == t.outs \o ChangeOf(t.change)
      bytes == LWTransactionSize(t.inCount, outs)
      largest == LWTransactionSize(t.inCount, t.outs) + TX_OUTPUT_SIZE
      fee == t.spent - Paid(outs)
  IN  /\ fee >= Rated(t.rate, bytes)
      /\ fee >= _txFee(t.rate, bytes)
      /\ bytes <= TX_MAX_SIZE
      /\ fee <= _txFee(t.rate, largest) + 99 + IF t.change > 0 THEN 0 ELSE min
      /\ t.change > 0 => t.change > min
      /\ t.change > 0 => (t.total - t.spent + t.change) % 100 = 0

\* The transaction that the loop arrives at is one.
LEMMA TransactionExact ==
  ASSUME utxos \in Seq(Nat), feePerKb \in Nat, TX_MAX_SIZE \in Nat,
         NEW outs \in Seq(Output), Len(outs) < 252, NEW min \in Nat, NEW k \in 0 .. Len(utxos),
         k > 0 => ~TooLarge(outs, k),
         Transaction(outs, min, k) # NoTx
  PROVE  /\ Transaction(outs, min, k) \in Made
         /\ Transaction(outs, min, k).outs = outs
         /\ Exact(Transaction(outs, min, k), min)
<1> DEFINE t == Transaction(outs, min, k)
           over == Over(outs, k)
           change == IF over > min THEN over ELSE 0
           s == LWTransactionSize(k, outs)
           fee == _txFee(feePerKb, s + TX_OUTPUT_SIZE)
           paid == Paid(outs)
           total == Total(utxos)
           spent == Balance(k)
           feeAmount == FeeAmount(outs, k)
           changed == [amount |-> over, scriptLen |-> 25]
<1>1. over >= 0 /\ t = [made |-> TRUE, inCount |-> k, rate |-> feePerKb, outs |-> outs,
                        spent |-> spent, total |-> total, change |-> change]
  <2>1. over \in Int
    BY LoopFacts
  <2>2. ~(over < 0)
    BY Zenon DEF Transaction
  <2>3. over >= 0
    <3> HIDE DEF over
    <3> QED BY <2>1, <2>2
  <2> QED BY <2>2, <2>3 DEF Transaction, HasChange
<1>2. /\ total \in Nat /\ spent \in Nat /\ spent <= total /\ paid \in Nat
      /\ fee \in Nat /\ feeAmount \in Nat /\ over \in Int /\ k # 0
  <2>1. k = 0 => over < 0
    BY LoopFacts
  <2>2. k # 0
    <3>1. over \in Int
      BY LoopFacts
    <3> HIDE DEF over
    <3> QED BY <1>1, <2>1, <3>1
  <2> QED BY <2>2, LoopFacts
<1>3. k \in Nat /\ k > 0
  BY <1>2, LenProperties
<1>4. feeAmount = IF total - (paid + fee) > 0 THEN fee + ((total - (paid + fee)) % 100) ELSE fee
  BY <1>3 DEF FeeAmount
<1>5. over = spent - (paid + feeAmount)
  BY DEF Over
<1>6. s \in Nat
  BY <1>3, SizeFacts
<1>7. s + TX_OUTPUT_SIZE <= TX_MAX_SIZE
  <2>1. ~(s + TX_OUTPUT_SIZE > TX_MAX_SIZE)
    BY <1>3 DEF TooLarge
  <2> HIDE DEF s
  <2> QED BY <1>6, <2>1 DEF TX_OUTPUT_SIZE
<1> HIDE DEF t, over, s, fee, paid, total, spent, feeAmount
<1>8. change \in Nat /\ (change > 0 => change = over /\ over > min) /\ (change = 0 => over <= min)
  BY <1>1, <1>2
<1>9. fee <= feeAmount /\ feeAmount <= fee + 99
  BY <1>2, <1>4
<1>10. change > 0 => (total - spent + change) % 100 = 0
  <2> SUFFICES ASSUME change > 0 PROVE (total - spent + change) % 100 = 0
    OBVIOUS
  <2>1. change = over
    BY <1>8
  <2> DEFINE left == total - (paid + fee)
             r == feeAmount - fee
  <2>2. left \in Int /\ r \in Int /\ r = IF left > 0 THEN left % 100 ELSE 0
    BY <1>2, <1>4
  <2>3. total - spent + change = left - r
    BY <1>2, <1>5, <2>1
  <2>4. total - spent + change > 0
    BY <1>2, <1>8
  <2> HIDE DEF left, r
  <2>5. left > 0 /\ r = left % 100
    BY <2>2, <2>3, <2>4
  <2>6. (left - (left % 100)) % 100 = 0
    BY <2>2, <2>5, SMTT(60)
  <2> QED BY <2>3, <2>5, <2>6
<1> HIDE DEF change
<1>11. CASE change > 0
  <2>1. change = over /\ over > min /\ over \in Nat \ {0}
    BY <1>2, <1>8, <1>11
  <2>2. changed \in Output
    BY <2>1 DEF Output
  <2>3. ChangeOf(t.change) = <<changed>> /\ t.outs = outs /\ t.inCount = k /\ t.rate = feePerKb
        /\ t.spent = spent /\ t.total = total /\ t.change = change
    BY <1>1, <1>11, <2>1 DEF ChangeOf
  <2>4. outs \o <<changed>> = Append(outs, changed)
    <3> HIDE DEF changed
    <3> QED BY <2>2, AppendIsConcat
  <2>5. LWTransactionSize(k, Append(outs, changed)) = s + TX_OUTPUT_SIZE
    <3>1. changed.scriptLen = 25
      OBVIOUS
    <3>2. LWTransactionSize(k, Append(outs, changed)) = s + 34
      <4> HIDE DEF changed
      <4> QED BY <1>3, <2>2, <3>1, SizeFacts DEF s
    <3> QED BY <3>2 DEF TX_OUTPUT_SIZE
  <2>6. Paid(Append(outs, changed)) = paid + over
    <3>1. Paid(Append(outs, changed)) = paid + changed.amount
      <4> HIDE DEF changed
      <4> QED BY <2>2, PaidFacts DEF paid
    <3> QED BY <3>1
  <2> DEFINE bytes == s + TX_OUTPUT_SIZE
  <2>7. bytes \in Nat
    BY <1>6 DEF TX_OUTPUT_SIZE
  <2> HIDE DEF bytes, changed
  <2>8. fee = _txFee(feePerKb, bytes)
    BY DEF fee, bytes
  <2>9. fee >= Rated(feePerKb, bytes)
    BY <2>7, <2>8, FeeLeast
  <2>10. Rated(feePerKb, bytes) \in Int
    BY <2>7, FeeLeast
  <2>11. spent - Paid(Append(outs, changed)) = feeAmount
    BY <1>2, <1>5, <2>6
  <2>12. LWTransactionSize(k, Append(outs, changed)) = bytes
    BY <2>5 DEF bytes
  <2>13. /\ feeAmount >= Rated(feePerKb, bytes)
         /\ feeAmount >= fee
         /\ feeAmount <= fee + 99 + 0
    <3> DEFINE d == Rated(feePerKb, bytes)
    <3>1. d \in Int /\ fee >= d
      BY <2>9, <2>10
    <3> HIDE DEF d
    <3>2. feeAmount >= d /\ feeAmount >= fee /\ feeAmount <= fee + 99 + 0
      BY <1>2, <1>9, <3>1
    <3> QED BY <3>2 DEF d
  <2>14. bytes <= TX_MAX_SIZE /\ s + TX_OUTPUT_SIZE = bytes
    BY <1>7 DEF bytes
  <2>15. LWTransactionSize(k, outs) + TX_OUTPUT_SIZE = bytes
    BY DEF bytes, s
  <2>16. Exact(t, min)
    <3> DEFINE o2 == Append(outs, changed)
    <3>1. t.outs \o ChangeOf(t.change) = o2
      BY <2>3, <2>4
    <3> HIDE DEF o2
    <3>2. LWTransactionSize(t.inCount, o2) = bytes /\ t.spent - Paid(o2) = feeAmount
      BY <2>3, <2>11, <2>12 DEF o2
    <3>3. LWTransactionSize(t.inCount, t.outs) + TX_OUTPUT_SIZE = bytes
      BY <2>3, <2>15
    <3>4. feeAmount <= _txFee(t.rate, bytes) + 99 + IF t.change > 0 THEN 0 ELSE min
      BY <1>11, <2>3, <2>8, <2>13
    <3>5. feeAmount >= Rated(t.rate, bytes) /\ feeAmount >= _txFee(t.rate, bytes)
      BY <2>3, <2>8, <2>13
    <3>6. bytes <= TX_MAX_SIZE /\ (t.change > 0 => t.change > min)
      BY <2>1, <2>3, <2>14
    <3>7. t.change > 0 => (t.total - t.spent + t.change) % 100 = 0
      BY <1>10, <2>3
    <3> QED BY <3>1, <3>2, <3>3, <3>4, <3>5, <3>6, <3>7, Zenon DEF Exact
  <2> QED BY <1>1, <1>2, <1>3, <1>8, <2>3, <2>16 DEF t, Made
<1>12. CASE ~(change > 0)
  <2>1. change = 0 /\ over <= min
    BY <1>8, <1>12
  <2>2. ChangeOf(t.change) = <<>> /\ t.outs = outs /\ t.inCount = k /\ t.rate = feePerKb
        /\ t.spent = spent /\ t.total = total /\ t.change = change
    BY <1>1, <1>12 DEF ChangeOf
  <2>3. outs \o <<>> = outs
    BY ConcatEmptySeq
  <2>4. s <= s + TX_OUTPUT_SIZE /\ s + TX_OUTPUT_SIZE \in Nat
    BY <1>6 DEF TX_OUTPUT_SIZE
  <2> DEFINE least == _txFee(feePerKb, s)
             d == Rated(feePerKb, s)
             p == feeAmount + over
  <2>5. least \in Nat /\ least >= d /\ least <= fee
    <3> DEFINE larger == s + TX_OUTPUT_SIZE
    <3>1. larger \in Nat /\ s <= larger /\ fee = _txFee(feePerKb, larger)
      BY <2>4 DEF fee
    <3> HIDE DEF larger, least, d
    <3>2. /\ _txFee(feePerKb, s) \in Nat
          /\ _txFee(feePerKb, s) >= Rated(feePerKb, s)
          /\ _txFee(feePerKb, s) <= _txFee(feePerKb, larger)
      BY <1>6, <3>1, FeeFacts
    <3> QED BY <3>1, <3>2, Zenon DEF least, d
  <2>6. d \in Int
    BY <1>6, FeeLeast
  <2>7. spent - paid = p /\ p \in Nat
    BY <1>1, <1>2, <1>5
  <2> HIDE DEF least, d
  <2>8. p >= d /\ p >= least /\ p <= fee + 99 + min
    BY <1>1, <1>2, <1>9, <2>1, <2>5, <2>6
  <2>9. s <= TX_MAX_SIZE
    BY <1>6, <1>7 DEF TX_OUTPUT_SIZE
  <2> HIDE DEF p
  <2>10. Exact(t, min)
    <3>1. spent - Paid(outs) = p /\ LWTransactionSize(k, outs) = s
      BY <2>7 DEF paid, s
    <3>2. /\ p >= Rated(feePerKb, s)
          /\ p >= _txFee(feePerKb, s)
          /\ p <= _txFee(feePerKb, s + TX_OUTPUT_SIZE) + 99 + min
      BY <2>8 DEF d, least, fee
    <3> QED BY <1>12, <2>2, <2>3, <2>9, <3>1, <3>2 DEF Exact
  <2> QED BY <1>1, <1>2, <1>3, <1>8, <2>2, <2>10 DEF t, Made
<1> QED BY <1>11, <1>12

-----------------------------------------------------------------------------
(* What is asked for, and what is paid for instead.                          *)

\* The outputs are the first of those asked for, the last one at another amount perhaps.
Shortened(outs, asked) ==
  LET n == Len(outs)
  IN  /\ n <= Len(asked)
      /\ \A q \in 1 .. n - 1 : outs[q] = asked[q]
      /\ n > 0 => /\ outs[n].scriptLen = asked[n].scriptLen
                  /\ outs[n].amount = asked[n].amount \/ outs[n].amount > TX_MIN_OUTPUT_AMOUNT

\* No number of inputs pays for them within the size of a transaction.
NonePays(asked, min) == \A k \in DOMAIN utxos : TooLarge(asked, k) \/ ~Enough(asked, min, k)

\* What AsAsked says of outputs, in the terms of their indices.
LEMMA ShortenedShape ==
  ASSUME NEW outs \in Seq(Output), NEW asked \in Seq(Output), outs # <<>>, Shortened(outs, asked)
  PROVE  LET n == Len(outs)
         IN  /\ n \in 1 .. Len(asked)
             /\ Front(outs) = SubSeq(asked, 1, n - 1)
             /\ outs[n].scriptLen = asked[n].scriptLen
             /\ outs[n].amount = asked[n].amount \/ outs[n].amount > TX_MIN_OUTPUT_AMOUNT
<1> DEFINE n == Len(outs)
           a == SubSeq(outs, 1, n - 1)
           b == SubSeq(asked, 1, n - 1)
<1>1. n \in Nat \ {0} /\ Len(asked) \in Nat /\ n <= Len(asked)
  BY EmptySeq, LenProperties DEF Shortened
<1>2. \A q \in 1 .. n : outs[q] \in Output /\ asked[q] \in Output
  BY <1>1, LenProperties
<1>3. \A q \in 1 .. n - 1 : outs[q] = asked[q]
  BY DEF Shortened
<1>4. /\ outs[n].scriptLen = asked[n].scriptLen
      /\ outs[n].amount = asked[n].amount \/ outs[n].amount > TX_MIN_OUTPUT_AMOUNT
  BY <1>1 DEF Shortened
<1>5. Front(outs) = a
  BY DEF Front
<1> HIDE DEF n
<1>6. a = b
  <2> DEFINE m == n - 1
  <2>1. m \in Nat /\ \A q \in 1 .. m : outs[q] \in Output /\ asked[q] \in Output
    BY <1>1, <1>2
  <2> HIDE DEF m
  <2> DEFINE c == SubSeq(outs, 1, m)
             d == SubSeq(asked, 1, m)
  <2>2. c \in Seq(Output) /\ Len(c) = m /\ \A q \in 1 .. m : c[q] = outs[q]
    BY <2>1, SubSeqProperties
  <2>3. d \in Seq(Output) /\ Len(d) = m /\ \A q \in 1 .. m : d[q] = asked[q]
    BY <2>1, SubSeqProperties
  <2>4. \A q \in 1 .. m : outs[q] = asked[q]
    BY <1>3 DEF m
  <2> HIDE DEF c, d
  <2>5. c = d
    BY <2>2, <2>3, <2>4, SeqEqual
  <2> QED BY <2>5 DEF c, d, m
<1>7. n \in 1 .. Len(asked)
  BY <1>1
<1> HIDE DEF a
<1> QED BY <1>4, <1>5, <1>6, <1>7 DEF n

\* The smaller transaction has outputs of that kind again.
LEMMA LessFacts ==
  ASSUME utxos \in Seq(Nat), feePerKb \in Nat,
         NEW outs \in Seq(Output), NEW asked \in Seq(Output), outs # <<>>, Shortened(outs, asked),
         NEW min \in Nat, min >= TX_MIN_OUTPUT_AMOUNT, NEW k \in 1 .. Len(utxos)
  PROVE  Less(outs, min, k) \in Seq(Output) /\ Shortened(Less(outs, min, k), asked)
<1> DEFINE n == Len(outs)
           over == Over(outs, k - 1)
           amount == outs[n].amount
           last == [outs[n] EXCEPT !.amount = @ + over]
           reduced == [outs EXCEPT ![n] = last]
<1>1. n \in Nat \ {0} /\ Len(asked) \in Nat /\ n <= Len(asked) /\ n \in 1 .. n
  BY EmptySeq, LenProperties DEF Shortened
<1>2. \A q \in 1 .. n : outs[q] \in Output /\ asked[q] \in Output
  BY <1>1, LenProperties
<1>3. over \in Int
  <2>1. k - 1 \in 0 .. Len(utxos)
    BY LenProperties
  <2> QED BY <2>1, LoopFacts
<1>4. amount \in Nat /\ outs[n] \in Output
  BY <1>1, <1>2 DEF Output
<1>5. Less(outs, min, k) = IF amount > min - over THEN reduced ELSE Front(outs)
  BY DEF Less
<1>6. \A q \in 1 .. n - 1 : outs[q] = asked[q]
  BY DEF Shortened
<1>7. outs[n].scriptLen = asked[n].scriptLen
  BY <1>1 DEF Shortened
<1>8. TX_MIN_OUTPUT_AMOUNT \in Nat
  BY DEF TX_MIN_OUTPUT_AMOUNT, TX_FEE_PER_KB, TX_OUTPUT_SIZE, TX_INPUT_SIZE
<1> HIDE DEF over
<1>9. CASE amount > min - over
  <2>1. /\ last \in Output /\ last.amount > TX_MIN_OUTPUT_AMOUNT
        /\ last.scriptLen = outs[n].scriptLen
    <3>1. amount + over \in Nat \ {0} /\ amount + over > TX_MIN_OUTPUT_AMOUNT
      BY <1>3, <1>4, <1>8, <1>9
    <3>2. last.amount = amount + over /\ last.scriptLen = outs[n].scriptLen /\ last \in Output
      BY <1>4, <3>1 DEF Output
    <3> QED BY <3>1, <3>2
  <2> HIDE DEF n, last
  <2>2. /\ reduced \in Seq(Output) /\ Len(reduced) = n
        /\ \A q \in 1 .. n : reduced[q] = IF q = n THEN last ELSE outs[q]
    BY <1>1, <2>1, ExceptSeq DEF n
  <2> HIDE DEF reduced
  <2>3. \A q \in 1 .. n - 1 : reduced[q] = asked[q]
    BY <1>1, <1>6, <2>2
  <2>4. reduced[n] = last
    BY <1>1, <2>2
  <2>5. Shortened(reduced, asked)
    BY <1>1, <1>7, <2>1, <2>2, <2>3, <2>4 DEF Shortened
  <2> QED BY <1>5, <1>9, <2>2, <2>5 DEF n
<1>10. CASE ~(amount > min - over)
  <2> DEFINE m == n - 1
  <2>1. m \in Nat /\ m <= Len(asked) /\ \A q \in 1 .. m : outs[q] \in Output
    BY <1>1, <1>2
  <2>2. \A q \in 1 .. m : outs[q] = asked[q]
    BY <1>6
  <2>3. Front(outs) = SubSeq(outs, 1, m)
    BY DEF Front
  <2> HIDE DEF m
  <2> DEFINE c == SubSeq(outs, 1, m)
  <2>4. c \in Seq(Output) /\ Len(c) = m /\ \A q \in 1 .. m : c[q] = outs[q]
    BY <2>1, SubSeqProperties
  <2> HIDE DEF c
  <2>5. \A q \in 1 .. m : c[q] = asked[q]
    BY <2>2, <2>4
  <2>6. Shortened(c, asked)
    <3>1. m > 0 => c[m] = asked[m]
      BY <2>1, <2>5
    <3>2. \A q \in 1 .. m - 1 : c[q] = asked[q]
      BY <2>1, <2>5
    <3> QED BY <2>1, <2>4, <3>1, <3>2 DEF Shortened
  <2>7. Less(outs, min, k) = c
    BY <1>5, <1>10, <2>3 DEF c
  <2> QED BY <2>4, <2>6, <2>7
<1> QED BY <1>9, <1>10

\* If the loop ends because the transaction is too large, none pays for these outputs.
LEMMA TooMuch ==
  ASSUME utxos \in Seq(Nat), TX_MAX_SIZE \in Nat,
         NEW outs \in Seq(Output), NEW min, TooLarge(outs, StopsAt(outs, min))
  PROVE  NonePays(outs, min)
<1> DEFINE stop == StopsAt(outs, min)
<1>1. /\ stop \in 0 .. Len(utxos)
      /\ \A j \in DOMAIN utxos : j < stop => ~TooLarge(outs, j) /\ ~Enough(outs, min, j)
  BY StopsFacts
<1>2. DOMAIN utxos = 1 .. Len(utxos) /\ Len(utxos) \in Nat
  BY LenProperties
<1>3. TooLarge(outs, stop)
  OBVIOUS
<1> HIDE DEF stop
<1> SUFFICES ASSUME NEW j \in DOMAIN utxos PROVE TooLarge(outs, j) \/ ~Enough(outs, min, j)
  BY DEF NonePays
<1>4. j \in Nat /\ stop \in Nat
  BY <1>1, <1>2
<1>5. CASE j < stop
  BY <1>1, <1>5
<1>6. CASE stop <= j
  <2>1. LWTransactionSize(stop, outs) <= LWTransactionSize(j, outs)
    BY <1>4, <1>6, SizeFacts
  <2>2. LWTransactionSize(stop, outs) \in Nat /\ LWTransactionSize(j, outs) \in Nat
    BY <1>4, SizeFacts
  <2>3. TooLarge(outs, j)
    BY <1>3, <2>1, <2>2 DEF TooLarge, TX_OUTPUT_SIZE
  <2> QED BY <2>3
<1> QED BY <1>4, <1>5, <1>6

-----------------------------------------------------------------------------
(* The inductive invariant.                                                  *)

Begun == [step : {"begun"}, outs : Seq(Output), min : Nat, asked : Seq(Output), changed : BOOLEAN]
Returned == [step : {"returned"}, asked : Seq(Output), min : Nat, changed : BOOLEAN]
Asserted == [step : {"asserted"}, asked : Seq(Output)]

CoinType ==
  /\ utxos \in Seq(Nat) /\ feePerKb \in Nat
  /\ call = NoCall \/ call \in Begun \/ call \in Returned \/ call \in Asserted
  /\ tx = NoTx \/ tx \in Made

\* What a call that is under way knows of its outputs and its minimum amount.
BegunInv ==
  call.step = "begun" =>
    /\ Shortened(call.outs, call.asked) /\ Len(call.asked) < 252
    /\ call.min >= TX_MIN_OUTPUT_AMOUNT
    /\ ~call.changed => call.min = LWWalletMinOutputAmount
    /\ call.outs # call.asked /\ ~call.changed => NonePays(call.asked, call.min)

\* There is a transaction only between the return and the next call.
ResultInv == call.step # "returned" => tx = NoTx

CoinInv == CoinType /\ BegunInv /\ ResultInv /\ FeeExact /\ AsAsked

\* The minimum amount is a number and at least what the network relays.
LEMMA MinFacts ==
  ASSUME feePerKb \in Nat
  PROVE  LWWalletMinOutputAmount \in Nat /\ LWWalletMinOutputAmount >= TX_MIN_OUTPUT_AMOUNT
BY DEF LWWalletMinOutputAmount, TX_MIN_OUTPUT_AMOUNT, MIN_FEE_PER_KB, TX_FEE_PER_KB,
       TX_OUTPUT_SIZE, TX_INPUT_SIZE

\* That none pays does not change while the wallet and the fee do not.
LEMMA NonePaysStays ==
  ASSUME utxos' = utxos, feePerKb' = feePerKb, NEW asked, NEW min
  PROVE  NonePays(asked, min)' = NonePays(asked, min)
<1>1. \A k : Over(asked, k)' = Over(asked, k)
  BY DEF Over, Balance, FeeAmount
<1>2. \A k : Enough(asked, min, k)' = Enough(asked, min, k)
  BY <1>1 DEF Enough
<1>3. \A k : TooLarge(asked, k)' = TooLarge(asked, k)
  BY DEF TooLarge
<1> QED BY <1>2, <1>3 DEF NonePays

\* A call that begins for outputs that are shorter, or those asked for, keeps the invariant.
LEMMA BeginKeeps ==
  ASSUME NEW outs \in Seq(Output), NEW asked \in Seq(Output), NEW changed \in BOOLEAN,
         utxos \in Seq(Nat), feePerKb \in Nat, tx = NoTx,
         Begin(outs, asked, changed), utxos' = utxos, feePerKb' = feePerKb, tx' = tx,
         Shortened(outs, asked), Len(asked) < 252,
         outs # asked /\ ~changed => NonePays(asked, LWWalletMinOutputAmount)
  PROVE  CoinInv'
<1> DEFINE min == LWWalletMinOutputAmount
<1>1. min \in Nat /\ min >= TX_MIN_OUTPUT_AMOUNT
  BY MinFacts
<1>2. call' = [step |-> "begun", outs |-> outs, min |-> min, asked |-> asked, changed |-> changed]
  BY DEF Begin
<1>3. LWWalletMinOutputAmount' = min
  BY DEF LWWalletMinOutputAmount
<1>4. ASSUME NEW m PROVE NonePays(asked, m)' = NonePays(asked, m)
  BY NonePaysStays
<1> HIDE DEF min
<1>5. CoinType'
  BY <1>1, <1>2 DEF CoinType, Begun
<1>6. BegunInv'
  <2>1. /\ call'.outs = outs /\ call'.asked = asked /\ call'.min = min /\ call'.changed = changed
    BY <1>2
  <2>2. PICK m : m = min
    OBVIOUS
  <2>3. outs # asked /\ ~changed => NonePays(asked, m)
    BY <2>2 DEF min
  <2>4. outs # asked /\ ~changed => NonePays(asked, m)'
    BY <1>4, <2>3
  <2>5. call'.asked = asked /\ call'.min = m
    BY <2>1, <2>2
  <2>6. NonePays(call.asked, call.min)' = NonePays(asked, m)'
    BY <2>5 DEF NonePays
  <2>7. call'.outs # call'.asked /\ ~call'.changed => NonePays(call.asked, call.min)'
    BY <2>1, <2>4, <2>6
  <2> QED BY <1>1, <1>3, <2>1, <2>7 DEF BegunInv
<1>7. ResultInv'
  BY <1>2 DEF ResultInv
<1>8. call'.step # "returned"
  BY <1>2
<1>9. FeeExact' /\ AsAsked'
  <2>1. ~Got'
    BY <1>8 DEF Got
  <2> QED BY <2>1 DEF FeeExact, Funded, NothingLost, AsAsked
<1> QED BY <1>5, <1>6, <1>7, <1>9 DEF CoinInv

\* The program ends up elsewhere without a transaction.
LEMMA NoneKeeps ==
  ASSUME utxos' \in Seq(Nat), feePerKb' \in Nat, tx' = NoTx, call'.step # "begun",
         call' = NoCall \/ call' \in Returned \/ call' \in Asserted
  PROVE  CoinInv'
<1>1. CoinType' /\ BegunInv' /\ ResultInv'
  BY DEF CoinType, BegunInv, ResultInv
<1>2. ~Got'
  BY DEF Got, NoTx
<1>3. FeeExact' /\ AsAsked'
  BY <1>2 DEF FeeExact, Funded, NothingLost, AsAsked
<1> QED BY <1>1, <1>3 DEF CoinInv

\* Another thread changes the wallet or the fee.
LEMMA OthersKeep ==
  ASSUME CoinInv, utxos' \in Seq(Nat), feePerKb' \in Nat, call' = Changed, tx' = tx
  PROVE  CoinInv'
<1>1. CASE call.step \in {"begun", "returned"}
  <2>1. call' = [call EXCEPT !.changed = TRUE]
    BY <1>1 DEF Changed
  <2>2. call \in Begun \/ call \in Returned
    BY <1>1 DEF CoinInv, CoinType, NoCall, Asserted
  <2>3. CASE call \in Begun
    <3>1. /\ call' \in Begun /\ call'.outs = call.outs /\ call'.asked = call.asked
          /\ call'.min = call.min /\ call'.changed = TRUE /\ call'.step = "begun"
          /\ call.step = "begun"
      BY <2>1, <2>3 DEF Begun
    <3>2. BegunInv' /\ ResultInv' /\ tx' = NoTx
      BY <3>1 DEF CoinInv, BegunInv, ResultInv
    <3>3. ~Got'
      BY <3>1 DEF Got
    <3>4. FeeExact' /\ AsAsked'
      BY <3>3 DEF FeeExact, Funded, NothingLost, AsAsked
    <3>5. CoinType'
      BY <3>1, <3>2 DEF CoinType
    <3> QED BY <3>2, <3>4, <3>5 DEF CoinInv
  <2>4. CASE call \in Returned
    <3>1. /\ call' \in Returned /\ call'.asked = call.asked
          /\ call'.min = call.min /\ call'.changed = TRUE /\ call'.step = "returned"
          /\ call.step = "returned"
      BY <2>1, <2>4 DEF Returned
    <3>2. BegunInv' /\ ResultInv'
      BY <3>1 DEF BegunInv, ResultInv
    <3>3. FeeExact'
      BY <3>1 DEF CoinInv, FeeExact, Funded, NothingLost, Got, ChangeOut
    <3>4. AsAsked'
      BY <3>1 DEF CoinInv, AsAsked, Got
    <3>5. CoinType'
      BY <3>1 DEF CoinInv, CoinType
    <3> QED BY <3>2, <3>3, <3>4, <3>5 DEF CoinInv
  <2> QED BY <2>2, <2>3, <2>4
<1>2. CASE call.step \notin {"begun", "returned"}
  <2>1. call' = call /\ tx = NoTx
    BY <1>2 DEF Changed, CoinInv, ResultInv
  <2>2. call = NoCall \/ call \in Asserted
    BY <1>2 DEF CoinInv, CoinType, Begun, Returned
  <2>3. call'.step # "begun"
    BY <1>2, <2>1
  <2> QED BY <2>1, <2>2, <2>3, NoneKeeps
<1> QED BY <1>1, <1>2

\* Initially there is no call.
LEMMA CoinInitially == CoinInit => CoinInv
<1> SUFFICES ASSUME CoinInit PROVE CoinInv
  OBVIOUS
<1>1. utxos = <<>> /\ feePerKb \in Nat /\ call = NoCall /\ tx = NoTx
  BY DEF CoinInit, DEFAULT_FEE_PER_KB
<1>2. CoinType
  BY <1>1, EmptySeq DEF CoinType
<1>3. call.step = "idle" /\ ~Got
  BY <1>1 DEF NoCall, Got, NoTx
<1>4. BegunInv /\ ResultInv
  BY <1>1, <1>3 DEF BegunInv, ResultInv
<1>5. FeeExact /\ AsAsked
  BY <1>3 DEF FeeExact, Funded, NothingLost, AsAsked
<1> QED BY <1>2, <1>4, <1>5 DEF CoinInv

\* The part under the lock keeps it.
LEMMA SelectKeeps ==
  ASSUME CoinInv, Select
  PROVE  CoinInv'
<1> USE CoinAssumption
<1> DEFINE outs == call.outs
           asked == call.asked
           min == call.min
           k == StopsAt(outs, min)
           t == Transaction(outs, min, k)
<1>1. /\ call \in Begun /\ call.step = "begun" /\ outs # <<>> /\ tx = NoTx
      /\ utxos \in Seq(Nat) /\ feePerKb \in Nat
      /\ utxos' = utxos /\ feePerKb' = feePerKb
  BY DEF CoinInv, CoinType, ResultInv, Select, NoCall, Returned, Asserted
<1>2. outs \in Seq(Output) /\ asked \in Seq(Output) /\ min \in Nat /\ call.changed \in BOOLEAN
  BY <1>1 DEF Begun
<1>3. /\ Shortened(outs, asked) /\ Len(asked) < 252 /\ min >= TX_MIN_OUTPUT_AMOUNT
      /\ ~call.changed => min = LWWalletMinOutputAmount
      /\ outs # asked /\ ~call.changed => NonePays(asked, min)
  BY <1>1 DEF CoinInv, BegunInv
<1>4. k \in 0 .. Len(utxos)
  BY <1>1, StopsFacts
<1>5. TX_MAX_SIZE \in Nat
  BY DEF CoinAssumption
<1>6. \/ k > 0 /\ TooLarge(outs, k) /\ Begin(Less(outs, min, k), asked, call.changed) /\ tx' = tx
      \/ Ends(NoTx)
      \/ ~(k > 0 /\ TooLarge(outs, k)) /\ Ends(t)
  BY DEF Select
<1> HIDE DEF outs, asked, min, k, t
<1>7. CASE k > 0 /\ TooLarge(outs, k) /\ Begin(Less(outs, min, k), asked, call.changed) /\ tx' = tx
  <2> DEFINE less == Less(outs, min, k)
  <2>1. k \in 1 .. Len(utxos)
    BY <1>1, <1>4, <1>7, LenProperties
  <2>2. less \in Seq(Output) /\ Shortened(less, asked)
    BY <1>1, <1>2, <1>3, <2>1, LessFacts
  <2>3. outs = asked => NonePays(asked, min)
    <3> SUFFICES ASSUME outs = asked PROVE NonePays(asked, min)
      OBVIOUS
    <3>1. TooLarge(asked, StopsAt(asked, min))
      BY <1>7 DEF k
    <3> QED BY <1>1, <1>2, <1>5, <3>1, TooMuch
  <2>4. ~call.changed => NonePays(asked, LWWalletMinOutputAmount)
    BY <1>3, <2>3
  <2> HIDE DEF less
  <2>5. Begin(less, asked, call.changed) /\ tx' = tx
    BY <1>7 DEF less
  <2> QED BY <1>1, <1>2, <1>3, <2>2, <2>4, <2>5, BeginKeeps
<1>8. ASSUME NEW returned, Ends(returned)
      PROVE  /\ tx' = returned /\ call' \in Returned /\ call'.step = "returned"
             /\ call'.asked = asked /\ call'.min = min /\ call'.changed = call.changed
  BY <1>2, <1>8 DEF Ends, Returned, asked, min
<1>9. ASSUME Ends(NoTx) PROVE CoinInv'
  <2>1. tx' = NoTx /\ call' \in Returned /\ call'.step # "begun"
    BY <1>8, <1>9
  <2> QED BY <1>1, <2>1, NoneKeeps
<1>10. CASE ~(k > 0 /\ TooLarge(outs, k)) /\ Ends(t)
  <2>1. CASE t = NoTx
    BY <1>9, <1>10, <2>1
  <2>2. CASE t # NoTx
    <3>1. t \in Made /\ t.outs = outs /\ Exact(t, min)
      <4>1. k > 0 => ~TooLarge(outs, k)
        BY <1>10
      <4>2. Transaction(outs, min, k) # NoTx /\ Len(outs) < 252
        BY <1>2, <1>3, <2>2, LenProperties DEF t, Shortened
      <4>3. /\ Transaction(outs, min, k) \in Made
            /\ Transaction(outs, min, k).outs = outs
            /\ Exact(Transaction(outs, min, k), min)
        BY <1>1, <1>2, <1>4, <1>5, <4>1, <4>2, TransactionExact, Zenon
      <4> QED BY <4>3 DEF t
    <3>2. /\ tx' = t /\ call' \in Returned /\ call'.step = "returned"
          /\ call'.asked = asked /\ call'.min = min /\ call'.changed = call.changed
      BY <1>8, <1>10
    <3>3. CoinType' /\ BegunInv' /\ ResultInv'
      BY <1>1, <3>1, <3>2 DEF CoinType, BegunInv, ResultInv
    <3>4. FeeExact'
      <4>1. Exact(tx', call'.min)
        BY <3>1, <3>2
      <4> QED BY <4>1 DEF FeeExact, Funded, NothingLost, Exact, Rated, ChangeOf, ChangeOut
    <3>5. AsAsked'
      <4>1. NonePays(asked, min) => NonePays(call.asked, call.min)'
        BY <1>1, <3>2 DEF NonePays, TooLarge, Enough, Over, Balance, FeeAmount
      <4>2. LET n == Len(outs)
            IN  /\ n \in 1 .. Len(asked)
                /\ Front(outs) = SubSeq(asked, 1, n - 1)
                /\ outs[n].scriptLen = asked[n].scriptLen
                /\ outs[n].amount = asked[n].amount \/ outs[n].amount > TX_MIN_OUTPUT_AMOUNT
        BY <1>1, <1>2, <1>3, ShortenedShape DEF outs
      <4>3. tx'.outs = outs /\ call'.asked = asked
        BY <3>1, <3>2
      <4>4. tx'.outs # call'.asked /\ ~call'.changed => NonePays(call.asked, call.min)'
        BY <1>3, <3>1, <3>2, <4>1
      <4> QED BY <4>2, <4>3, <4>4, Zenon DEF AsAsked, NonePays
    <3> QED BY <3>3, <3>4, <3>5 DEF CoinInv
  <2> QED BY <2>1, <2>2
<1> QED BY <1>6, <1>7, <1>9, <1>10

\* Every step keeps it.
LEMMA CoinStep == CoinInv /\ [CoinNext]_coinVars => CoinInv'
<1> USE CoinAssumption
<1> SUFFICES ASSUME CoinInv, [CoinNext]_coinVars PROVE CoinInv'
  OBVIOUS
<1>1. utxos \in Seq(Nat) /\ feePerKb \in Nat
  BY DEF CoinInv, CoinType
<1>2. ASSUME NEW outs \in Seq(Output) PROVE Shortened(outs, outs)
  BY LenProperties DEF Shortened
<1>3. CASE Create
  <2>1. PICK outs \in Asked : Begin(outs, outs, FALSE)
    BY <1>3 DEF Create
  <2>2. outs \in Seq(Output) /\ Len(outs) < 252
    <3>1. outs \in Seq(Output) /\ Len(outs) \in 1 .. 251
      BY DEF CoinAssumption, Output
    <3>2. \A n \in 1 .. 251 : n < 252
      OBVIOUS
    <3> QED BY <3>1, <3>2, Zenon
  <2>3. call = NoCall /\ utxos' = utxos /\ feePerKb' = feePerKb /\ tx' = tx
    BY <1>3 DEF Create
  <2>4. tx = NoTx
    BY <2>3 DEF CoinInv, ResultInv, NoCall
  <2> QED BY <1>1, <1>2, <2>1, <2>2, <2>3, <2>4, BeginKeeps
<1>4. CASE CreateMax
  <2> DEFINE max == LWWalletMaxOutputAmount
             out == [amount |-> max, scriptLen |-> 25]
             outs == <<out>>
  <2>1. Begin(outs, outs, FALSE)
    BY <1>4 DEF CreateMax
  <2>2. max \in Nat \ {0}
    <3> DEFINE bytes == 8 + LWVarIntSize(Len(utxos)) + TX_INPUT_SIZE * Len(utxos) + 1 + TX_OUTPUT_SIZE * 2
               fee == _txFee(feePerKb, bytes)
               total == Total(utxos)
    <3>1. Len(utxos) \in Nat /\ 0 \in 0 .. Len(utxos)
      BY <1>1, LenProperties
    <3>2. bytes \in Nat
      <4>1. LWVarIntSize(Len(utxos)) \in Nat
        BY <3>1, VarIntFacts
      <4> QED BY <3>1, <4>1 DEF TX_INPUT_SIZE, TX_OUTPUT_SIZE
    <3>3. total \in Nat
      BY <1>1, <3>1, TotalFirst
    <3> HIDE DEF bytes
    <3>4. fee \in Nat
      BY <1>1, <3>2, FeeLeast
    <3>5. max = IF total > fee THEN total - fee ELSE 0
      BY DEF LWWalletMaxOutputAmount, bytes
    <3>6. max > 0
      BY <1>4 DEF CreateMax
    <3> HIDE DEF max, fee, total
    <3> QED BY <3>3, <3>4, <3>5, <3>6
  <2>3. out \in Output
    <3> HIDE DEF max
    <3> QED BY <2>2 DEF Output
  <2>4. outs \in Seq(Output) /\ Len(outs) < 252
    <3> HIDE DEF out
    <3> QED BY <2>3
  <2>5. call = NoCall /\ utxos' = utxos /\ feePerKb' = feePerKb /\ tx' = tx
    BY <1>4 DEF CreateMax
  <2>6. tx = NoTx
    BY <2>5 DEF CoinInv, ResultInv, NoCall
  <2> HIDE DEF outs
  <2> QED BY <1>1, <1>2, <2>1, <2>4, <2>5, <2>6, BeginKeeps
<1>5. CASE Select
  BY <1>5, SelectKeeps
<1>6. CASE OutCountFails
  <2>1. call \in Begun /\ tx = NoTx
    BY <1>6 DEF OutCountFails, CoinInv, CoinType, ResultInv, NoCall, Returned, Asserted
  <2>2. call' \in Asserted /\ call'.step # "begun"
    BY <1>6, <2>1 DEF OutCountFails, Asserted, Begun
  <2> QED BY <1>1, <1>6, <2>1, <2>2, NoneKeeps DEF OutCountFails
<1>7. CASE Free
  <2>1. call' = NoCall /\ call'.step # "begun"
    BY <1>7 DEF Free, NoCall
  <2> QED BY <1>1, <1>7, <2>1, NoneKeeps DEF Free
<1>8. CASE WalletGets
  <2>1. PICK a \in UtxoAmounts : utxos' = Append(utxos, a)
    BY <1>8 DEF WalletGets
  <2>2. a \in Nat
    BY DEF CoinAssumption
  <2>3. utxos' \in Seq(Nat)
    BY <1>1, <2>1, <2>2, AppendProperties
  <2> QED BY <1>1, <1>8, <2>3, OthersKeep DEF WalletGets
<1>9. CASE WalletSpends
  <2>1. utxos' \in Seq(Nat)
    BY <1>1, <1>9, HeadTailProperties DEF WalletSpends
  <2> QED BY <1>1, <1>9, <2>1, OthersKeep DEF WalletSpends
<1>10. CASE _peerSetFeePerKb
  <2>1. feePerKb' \in Nat
    <3>1. feePerKb' \in DEFAULT_FEE_PER_KB + 1 .. MAX_FEE_PER_KB
      BY <1>10 DEF _peerSetFeePerKb
    <3>2. DEFAULT_FEE_PER_KB \in Nat
      BY DEF DEFAULT_FEE_PER_KB
    <3> QED BY <3>1, <3>2
  <2> QED BY <1>1, <1>10, <2>1, OthersKeep DEF _peerSetFeePerKb
<1>11. CASE UNCHANGED coinVars
  <2>1. utxos' = utxos /\ feePerKb' = feePerKb /\ call' = call /\ tx' = tx
    BY <1>11 DEF coinVars
  <2>2. CoinType' /\ ResultInv'
    BY <2>1 DEF CoinInv, CoinType, ResultInv
  <2>3. FeeExact'
    BY <2>1 DEF CoinInv, FeeExact, Funded, NothingLost, Got, ChangeOut
  <2>4. PICK asked, min : asked = call.asked /\ min = call.min
    OBVIOUS
  <2>5. NonePays(call.asked, call.min)' = NonePays(call.asked, call.min)
    <3>1. NonePays(asked, min)' = NonePays(asked, min)
      BY <2>1, NonePaysStays
    <3>2. NonePays(call.asked, call.min)' = NonePays(asked, min)'
      BY <2>1, <2>4 DEF NonePays
    <3>3. NonePays(call.asked, call.min) = NonePays(asked, min)
      BY <2>4
    <3> QED BY <3>1, <3>2, <3>3
  <2>6. LWWalletMinOutputAmount' = LWWalletMinOutputAmount
    BY <2>1 DEF LWWalletMinOutputAmount
  <2>7. BegunInv'
    BY <2>1, <2>5, <2>6 DEF CoinInv, BegunInv
  <2>8. AsAsked'
    BY <2>1, <2>5 DEF CoinInv, AsAsked, Got, NonePays
  <2> QED BY <2>2, <2>3, <2>7, <2>8 DEF CoinInv
<1> QED BY <1>3, <1>4, <1>5, <1>6, <1>7, <1>8, <1>9, <1>10, <1>11 DEF CoinNext

\* The invariant holds in every state that the program reaches.
THEOREM CoinInvariant == CoinSpec => []CoinInv
BY CoinInitially, CoinStep, PTL DEF CoinSpec

\* A transaction that the wallet makes spends what its outputs, its change and the fee
\* for its size take, at the rate there was, and nothing worth an output is lost, whatever
\* other threads do to the wallet and the fee meanwhile (LWWalletCreateTxForOutputs).
THEOREM FeeIsExact == CoinSpec => []FeeExact
<1>1. CoinInv => FeeExact
  BY DEF CoinInv
<1> QED BY <1>1, CoinInvariant, PTL

\* It pays what was asked for, or the first of the outputs with the last one at another
\* amount that the network relays, and that only if no transaction of legal size pays
\* for all of it (the call for less in LWWalletCreateTxForOutputs).
THEOREM PaysAsAsked == CoinSpec => []AsAsked
<1>1. CoinInv => AsAsked
  BY DEF CoinInv
<1> QED BY <1>1, CoinInvariant, PTL
=============================================================================
