---------------------------- MODULE SafeReclaim ----------------------------
(***************************************************************************)
(* What an RCU lock promises to the code that uses it, without saying how: *)
(* readers collect references to the published object, writers publish a   *)
(* fresh object in its place, and an object is freed only when it is no    *)
(* longer published and no reader refers to it any more.                   *)
(***************************************************************************)
CONSTANTS Threads, Objs
VARIABLES ptr,   \* the published object
          heap,  \* the allocated objects
          refs   \* the references each reader collected in its section

vars == <<ptr, heap, refs>>

Init ==
    /\ ptr \in Objs
    /\ heap = {ptr}
    /\ refs = [t \in Threads |-> {}]

Deref(t) ==
    /\ refs' = [refs EXCEPT ![t] = @ \cup {ptr}]
    /\ UNCHANGED <<ptr, heap>>

Leave(t) ==
    /\ refs' = [refs EXCEPT ![t] = {}]
    /\ UNCHANGED <<ptr, heap>>

Publish ==
    /\ \E new \in Objs \ heap : ptr' = new /\ heap' = heap \cup {new}
    /\ UNCHANGED refs

Free(o) ==
    /\ o # ptr
    /\ \A t \in Threads : o \notin refs[t]
    /\ heap' = heap \ {o}
    /\ UNCHANGED <<ptr, refs>>

Next ==
    \/ \E t \in Threads : Deref(t) \/ Leave(t)
    \/ Publish
    \/ \E o \in heap : Free(o)

Spec == Init /\ [][Next]_vars
=============================================================================
