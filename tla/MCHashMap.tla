----------------------------- MODULE MCHashMap -----------------------------
(***************************************************************************)
(* HashMap with keys that collide in a table of 2 and in a table of 5       *)
(* buckets, and memory for one node more than a table of 2 can hold.       *)
(***************************************************************************)
EXTENDS HashMap
=============================================================================
