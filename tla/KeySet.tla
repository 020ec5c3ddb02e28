------------------------------- MODULE KeySet -------------------------------
(***************************************************************************)
(* What circuit.c relies on a hashmap_t for: a set of keys, added once,     *)
(* looked up, removed and cleared.                                         *)
(***************************************************************************)
CONSTANT Key

VARIABLES
  members,            \* keys in the map
  answer              \* what the last look-up said

vars == <<members, answer>>

Init == members = {} /\ answer = FALSE

Add(k) == members' = members \cup {k} /\ UNCHANGED answer
Remove(k) == members' = members \ {k} /\ UNCHANGED answer
Clear == members' = {} /\ UNCHANGED answer
Contains(k) == answer' = (k \in members) /\ UNCHANGED members

Next ==
  \/ \E k \in Key : Add(k) \/ Remove(k) \/ Contains(k)
  \/ Clear

Spec == Init /\ [][Next]_vars
=============================================================================
