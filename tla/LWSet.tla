------------------------------- MODULE LWSet -------------------------------
(***************************************************************************)
(* The hash table of LWSet.c: open addressing with linear probing, one     *)
(* step per turn of a loop.  An item that is removed leaves no mark: those *)
(* that follow it are taken out and added again one by one.  A table that  *)
(* is more than two thirds full is rebuilt with the next size.             *)
(*                                                                         *)
(* LWSetUnion and LWSetMinus call LWSetAdd and LWSetRemove for the items   *)
(* of another set, in some order: here they are calls like any other.      *)
(***************************************************************************)
EXTENDS Integers, FiniteSets

CONSTANTS
  Item, Key,           \* Key[x] = Key[y]: eq(x, y)
  Hash,                \* hash(x)
  NULL,
  Sizes,               \* tableSizes
  Capacities,          \* those that LWSetNew is called with
  MaxCount             \* bound: the items a set may be given, so that a size is left

\* limit load factor to 2/3
Limit(n) == ((n + 2) \div 3) * 2

\* _LWSetInit: the next size after the least one that is enough
AtLeast(c) == CHOOSE n \in Sizes : n >= c /\ \A m \in Sizes : m >= c => n <= m
SizeFor(capacity) == AtLeast(AtLeast(capacity) + 1)

\* the sizes a table can have
TableSizes == {n \in Sizes : \E m \in Sizes : m < n}

ASSUME SetAssumption ==
  /\ Hash \in [Item -> Nat] /\ \A x, y \in Item : Key[x] = Key[y] => Hash[x] = Hash[y]
  /\ Item # {} /\ NULL \notin Item /\ MaxCount \in Nat
  /\ Sizes \subseteq Nat
  /\ \A c \in Capacities : SizeFor(c) \in TableSizes
  /\ \A n \in TableSizes : Limit(n) < n
  /\ \A n \in TableSizes : MaxCount > Limit(n) =>
       SizeFor(n) \in TableSizes /\ Limit(n) < Limit(SizeFor(n))

VARIABLES
  table, size, itemCount,
  result,              \* what the last call returned
  op, item, i,         \* the call whose probe runs: "none", "add", "get", "remove", and the bucket it is at
  outer,               \* the loop that calls LWSetAdd: "none", "cleanup" (of LWSetRemove) or "rebuild"
  next, emptied,       \* the bucket it goes on with, and the one that LWSetRemove emptied first
  old,                 \* the table that is rebuilt
  keep, scan           \* LWSetIntersect: the keys of the other set, and its bucket, or -1

probe == <<op, item, i>>
loop == <<outer, next, emptied, old>>
intersect == <<keep, scan>>
vars == <<table, size, itemCount, result, probe, loop, intersect>>

Empty(n) == [b \in 0 .. n - 1 |-> NULL]
Filled(t) == {b \in DOMAIN t : t[b] # NULL}
Home(x, n) == Hash[x] % n

\* (b + 1) % size
Succ(b) == IF b + 1 = size THEN 0 ELSE b + 1

Init ==
  /\ \E capacity \in Capacities : size = SizeFor(capacity)
  /\ table = Empty(size) /\ itemCount = 0 /\ result = NULL
  /\ op = "none" /\ item = (CHOOSE x \in Item : TRUE) /\ i = 0
  /\ outer = "none" /\ next = 0 /\ emptied = 0 /\ old = Empty(0)
  /\ keep = {} /\ scan = -1

-----------------------------------------------------------------------------
Starts(name, x, n) == op' = name /\ item' = x /\ i' = Home(x, n)
Idle == op = "none" /\ outer = "none"
Call(name, x) ==
  /\ Idle /\ scan = -1 /\ Starts(name, x, size)
  /\ UNCHANGED <<table, size, itemCount, result, loop, intersect>>

LWSetAdd(x) == itemCount < MaxCount /\ Call("add", x)
LWSetRemove(x) == Call("remove", x)
LWSetGet(x) == Call("get", x)

LWSetClear ==
  /\ Idle /\ scan = -1
  /\ table' = Empty(size) /\ itemCount' = 0
  /\ UNCHANGED <<size, result, probe, loop, intersect>>

\* the probe stops at an empty bucket or at an equal item
Stops == table[i] # NULL => Key[table[i]] = Key[item]

Probe ==
  /\ op # "none" /\ ~Stops
  /\ i' = Succ(i)
  /\ UNCHANGED <<table, size, itemCount, result, op, item, loop, intersect>>

\* what is returned to the caller of the set
Returns(x) == result' = IF outer = "none" /\ scan = -1 THEN x ELSE result

\* MUTANT: until no bucket is left
FullAll(count) == count > size

Full(count) == count > Limit(size)

AddEnds ==
  /\ op = "add" /\ Stops
  /\ Returns(table[i])
  /\ op' = "none"
  /\ LET filled == [table EXCEPT ![i] = item]
         count == IF table[i] = NULL THEN itemCount + 1 ELSE itemCount
     IN  IF Full(count)
           THEN /\ size' = SizeFor(size) /\ table' = Empty(size') /\ itemCount' = 0
                /\ outer' = "rebuild" /\ next' = 0 /\ old' = filled
           ELSE /\ table' = filled /\ itemCount' = count
                /\ UNCHANGED <<size, outer, next, old>>
  /\ UNCHANGED <<item, i, emptied, intersect>>

GetEnds ==
  /\ op = "get" /\ Stops
  /\ Returns(table[i])
  /\ op' = "none"
  /\ UNCHANGED <<table, size, itemCount, item, i, loop, intersect>>

\* MUTANT: what follows is left where it is
CleanupNone == outer' = "none" /\ UNCHANGED <<next, emptied>>

\* the loop that takes out what follows the bucket
Cleanup == outer' = "cleanup" /\ next' = Succ(i) /\ emptied' = i

RemoveEnds ==
  /\ op = "remove" /\ Stops
  /\ Returns(table[i])
  /\ op' = "none"
  /\ IF table[i] = NULL THEN UNCHANGED <<table, itemCount, outer, next, emptied>>
     ELSE /\ table' = [table EXCEPT ![i] = NULL] /\ itemCount' = itemCount - 1
          /\ Cleanup
  /\ UNCHANGED <<size, item, i, old, intersect>>

CountWithout == itemCount - 1

CleanupNext ==
  /\ outer = "cleanup" /\ op = "none" /\ table[next] # NULL
  /\ table' = [table EXCEPT ![next] = NULL] /\ itemCount' = CountWithout
  /\ Starts("add", table[next], size)
  /\ next' = Succ(next)
  /\ UNCHANGED <<size, result, outer, emptied, old, intersect>>
CleanupEnds ==
  /\ outer = "cleanup" /\ op = "none" /\ table[next] = NULL
  /\ outer' = "none"
  /\ UNCHANGED <<table, size, itemCount, result, probe, next, emptied, old, intersect>>

\* LWSetUnion of the new table with the old one
RebuildNext ==
  /\ outer = "rebuild" /\ op = "none" /\ next \in DOMAIN old
  /\ next' = next + 1
  /\ IF old[next] = NULL THEN UNCHANGED probe ELSE Starts("add", old[next], size)
  /\ UNCHANGED <<table, size, itemCount, result, outer, emptied, old, intersect>>
RebuildEnds ==
  /\ outer = "rebuild" /\ op = "none" /\ next \notin DOMAIN old
  /\ outer' = "none" /\ next' = 0 /\ old' = Empty(0)
  /\ UNCHANGED <<table, size, itemCount, result, probe, emptied, intersect>>

LWSetIntersect(keys) ==
  /\ Idle /\ scan = -1
  /\ keep' = keys /\ scan' = 0
  /\ UNCHANGED <<table, size, itemCount, result, probe, loop>>

\* MUTANT: the bucket is not looked at again
ScanOn == scan + 1

ScanAgain == scan

IntersectRemoves ==
  /\ Idle /\ scan \in 0 .. size - 1 /\ table[scan] # NULL /\ Key[table[scan]] \notin keep
  /\ Starts("remove", table[scan], size)
  /\ scan' = ScanAgain
  /\ UNCHANGED <<table, size, itemCount, result, loop, keep>>
IntersectNext ==
  /\ Idle /\ scan \in 0 .. size - 1 /\ (table[scan] # NULL => Key[table[scan]] \in keep)
  /\ scan' = scan + 1
  /\ UNCHANGED <<table, size, itemCount, result, probe, loop, keep>>
IntersectEnds ==
  /\ Idle /\ scan = size
  /\ scan' = -1 /\ keep' = {}
  /\ UNCHANGED <<table, size, itemCount, result, probe, loop>>

-----------------------------------------------------------------------------
Turn ==
  \/ Probe \/ AddEnds \/ GetEnds \/ RemoveEnds
  \/ CleanupNext \/ CleanupEnds \/ RebuildNext \/ RebuildEnds
  \/ IntersectRemoves \/ IntersectNext \/ IntersectEnds

Next ==
  \/ Turn
  \/ \E x \in Item : LWSetAdd(x) \/ LWSetRemove(x) \/ LWSetGet(x)
  \/ \E keys \in SUBSET {Key[x] : x \in Item} : LWSetIntersect(keys)
  \/ LWSetClear

Spec == Init /\ [][Next]_vars

-----------------------------------------------------------------------------
(* Properties.                                                               *)

TypeOK ==
  /\ size \in TableSizes /\ table \in [0 .. size - 1 -> Item \cup {NULL}]
  /\ itemCount \in Nat /\ result \in Item \cup {NULL}
  /\ op \in {"none", "add", "get", "remove"} /\ item \in Item /\ (op # "none" => i \in 0 .. size - 1)
  /\ outer \in {"none", "cleanup", "rebuild"} /\ next \in Nat
  /\ (outer = "cleanup" => {next, emptied} \subseteq 0 .. size - 1)
  /\ \E n \in TableSizes \cup {0} : old \in [0 .. n - 1 -> Item \cup {NULL}]
  /\ keep \subseteq {Key[x] : x \in Item} /\ scan \in -1 .. size

\* The items: those in the table, the one that is added again, and those still in the old table.
Again == IF op = "add" /\ outer # "none" THEN {item} ELSE {}
Items ==
  {table[b] : b \in Filled(table)} \cup Again
    \cup (IF outer = "rebuild" THEN {old[b] : b \in {c \in Filled(old) : c >= next}} ELSE {})

\* Whatever hash() does, a set finds each of its items and nothing else, gives it back when it is replaced
\* or removed, and loses none while others are removed or the table grows.
Set == INSTANCE LWItems WITH items <- Items
ActsAsSet == Set!Spec

\* LWSetCount is the number of items whenever no call runs.
CountExact == Idle => itemCount = Cardinality(Items)

\* What LWSetIntersect leaves is in the other set, though removals move items from buckets that it has not
\* reached yet.
Intersected == Idle /\ scan = size => \A x \in Items : Key[x] \in keep

\* Every probe ends, also while a table is cleaned up or rebuilt: a bucket is left empty.
ProbesEnd == \E b \in DOMAIN table : table[b] = NULL
=============================================================================
