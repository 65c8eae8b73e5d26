---------------------------- MODULE MCHashTable ----------------------------
(***************************************************************************)
(* Instances of HashTable: two keys that share a neighborhood until the    *)
(* table grows, one of them with hash 0, the hash of an empty entry.       *)
(***************************************************************************)
EXTENDS HashTable, TLC

CONSTANTS ka, kb

MCKeys == {ka, kb}
MCHash == [k \in MCKeys |-> IF k = ka THEN 0 ELSE 2]
SameSize == [k \in MCKeys |-> 4]
TwoSizes == [k \in MCKeys |-> IF k = ka THEN 4 ELSE 8]

\* Addresses are interchangeable, and so are the writers.
Symmetry == Permutations(Vals) \cup Permutations(Tables) \cup Permutations(Writers)
=============================================================================
