------------------------------ MODULE LWItems ------------------------------
(***************************************************************************)
(* What LWSet.h promises: a set of items no two of which are equal, that   *)
(* gives back the item it replaces, removes or finds.                      *)
(***************************************************************************)
CONSTANTS
  Item,
  Key,            \* Key[x] = Key[y]: eq(x, y)
  NULL

VARIABLES
  items,
  result          \* what the last call returned

vars == <<items, result>>

\* what a call with x finds
Equal(x) == {y \in items : Key[y] = Key[x]}
Found(x) == IF Equal(x) = {} THEN {NULL} ELSE Equal(x)

Init == items = {} /\ result = NULL

Add(x) == result' \in Found(x) /\ items' = (items \ Equal(x)) \cup {x}
Remove(x) == result' \in Found(x) /\ items' = items \ Equal(x)
Get(x) == result' \in Found(x) /\ UNCHANGED items
Clear == items' = {} /\ UNCHANGED result

\* one of those that another set does not contain
Discard(x) == items' = items \ {x} /\ UNCHANGED result

Next == Clear \/ \E x \in Item : Add(x) \/ Remove(x) \/ Get(x) \/ Discard(x)

Spec == Init /\ [][Next]_vars
=============================================================================
