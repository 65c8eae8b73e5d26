--------------------------- MODULE ConcurrentMap ---------------------------
(***************************************************************************)
(* What a concurrent hash table promises: a map from keys to values that   *)
(* writers change one key at a time or empty, and lookups that answer with *)
(* a value the key had at some moment between the call and the return.  A  *)
(* deletion is not a moment: until it is over, lookups may answer either   *)
(* way, and of two lookups in a row the second may still find the value.   *)
(***************************************************************************)
CONSTANTS Readers, Keys, Vals, None
VARIABLES map,   \* the answers that are right for each key: its value, None
                 \* when it is absent, both while it is being deleted
          call   \* per reader: the key of its lookup, the answers that are
                 \* right by now, and what its last lookup returned

vars == <<map, call>>

Init ==
    /\ map = [k \in Keys |-> {None}]
    /\ call = [r \in Readers |-> [key |-> None, may |-> {}, res |-> None]]

\* The answers open to the lookups in flight after the map became m.
Note(m) ==
    call' = [r \in Readers |-> IF call[r].key = None THEN call[r]
                               ELSE [call[r] EXCEPT !.may = @ \cup m[call[r].key]]]

Put(k, v) ==
    /\ map' = [map EXCEPT ![k] = {v}]
    /\ Note(map')

DeleteBegins(k) ==
    /\ map' = [map EXCEPT ![k] = @ \cup {None}]
    /\ Note(map')

Clear ==
    /\ map' = [k \in Keys |-> {None}]
    /\ Note(map')

Call(r, k) ==
    /\ call[r].key = None
    /\ call' = [call EXCEPT ![r] = [key |-> k, may |-> map[k], res |-> None]]
    /\ UNCHANGED map

Return(r) ==
    /\ call[r].key # None
    /\ \E v \in call[r].may : call' = [call EXCEPT ![r] = [key |-> None, may |-> {}, res |-> v]]
    /\ UNCHANGED map

\* The reader is done with what it looked up.
Forget(r) ==
    /\ call[r].key = None
    /\ call' = [call EXCEPT ![r].res = None]
    /\ UNCHANGED map

Next ==
    \/ \E k \in Keys, v \in Vals \cup {None} : Put(k, v)
    \/ \E k \in Keys : DeleteBegins(k)
    \/ Clear
    \/ \E r \in Readers : \/ \E k \in Keys : Call(r, k)
                          \/ Return(r)
                          \/ Forget(r)

Spec == Init /\ [][Next]_vars
=============================================================================
