----------------------------- MODULE ByteStream -----------------------------
(***************************************************************************)
(* What a QUIC stream promises its two applications: the reader gets the   *)
(* bytes that were written, in order, each once, and is told of the end of *)
(* the stream exactly when it has read all of them.                        *)
(***************************************************************************)
EXTENDS Integers, Sequences

CONSTANT Limit  \* bound: bytes written

VARIABLES
    size,    \* bytes written; the byte at offset i has the value i
    closed,  \* the writer has ended the stream
    got,     \* what the reader has read
    eof      \* the reader was told of the end

vars == <<size, closed, got, eof>>

Init == size = 0 /\ closed = FALSE /\ got = <<>> /\ eof = FALSE

Write(n) ==
    /\ ~closed
    /\ size' = size + n
    /\ UNCHANGED <<closed, got, eof>>

Close ==
    /\ ~closed
    /\ closed' = TRUE
    /\ UNCHANGED <<size, got, eof>>

Read(n) ==
    /\ ~eof
    /\ Len(got) + n <= size
    /\ got' = got \o [i \in 1 .. n |-> Len(got) + i - 1]
    /\ eof' \in {FALSE, closed /\ Len(got) + n = size}
    /\ UNCHANGED <<size, closed>>

Next ==
    \/ Close
    \/ \E n \in 1 .. Limit : Write(n)
    \/ \E n \in 0 .. Limit : Read(n)

Spec == Init /\ [][Next]_vars
=============================================================================
