----------------------------- MODULE RecvStream -----------------------------
(***************************************************************************)
(* The receiving part of a QUIC stream: the reassembly list of             *)
(* quic_sf_list.c, the reads of quic_rstream.c, and the receive states     *)
(* that depack_do_frame_stream and quic_read_actual move it through.       *)
(*                                                                         *)
(* A frame covers the bytes start .. end - 1 of the stream and holds their *)
(* data.                                                                   *)
(***************************************************************************)
EXTENDS Integers, Sequences, FiniteSets

VARIABLES
    recvState,  \* recv, size_known, data_recvd or data_read
    frames,     \* the list of stream frames
    offset,     \* bytes below were read by the application
    listFin,    \* the list has seen the FIN
    got,        \* what the application has read
    eof         \* the application was told of the end of the stream

rvars == <<recvState, frames, offset, listFin, got, eof>>

RecvInit ==
    /\ recvState = "recv"
    /\ frames = <<>>
    /\ offset = 0
    /\ listFin = FALSE
    /\ got = <<>>
    /\ eof = FALSE

End(f) == f.start + Len(f.data)

----------------------------------------------------------------------------
\* How many frames at the front of list l are passed by a walk that stops at
\* the first one whose index is not in T.
Walk(l, T) == CHOOSE k \in 0 .. Len(l) : (1 .. k) \subseteq T /\ k + 1 \notin T

\* The frames that start below f, and those with the ones f covers.
Before(l, f) == Walk(l, {i \in DOMAIN l : l[i].start < f.start})
Through(l, f) == Walk(l, {i \in DOMAIN l : i <= Before(l, f) \/ End(l[i]) <= End(f)})

\* Mutant: the frame is kept only when it starts beyond the one before it, as
\* if frames never overlapped.
InsertFrame_NoOverlap(l, f) ==
    LET p == Before(l, f)
        q == Through(l, f)
    IN  IF offset >= End(f) \/ (p > 0 /\ End(l[p]) > f.start) THEN l
        ELSE SubSeq(l, 1, p) \o <<f>> \o SubSeq(l, q + 1, Len(l))

\* ossl_sframe_list_insert.  A frame is dropped when nothing of it is needed or
\* one frame already covers it; else it replaces the frames it covers, unless
\* its neighbours leave no gap between them.
InsertFrame(l, f) ==
    LET p == Before(l, f)
        q == Through(l, f)
        covered == p > 0 /\ End(l[p]) >= End(f)
        noGap == p > 0 /\ q < Len(l) /\ l[q + 1].start <= End(l[p])
    IN  IF offset >= End(f) \/ covered THEN l
        ELSE IF noGap THEN SubSeq(l, 1, p) \o SubSeq(l, q + 1, Len(l))
        ELSE SubSeq(l, 1, p) \o <<f>> \o SubSeq(l, q + 1, Len(l))

\* The sequence of frames that ossl_sframe_list_peek walks without a gap.
Contiguous(l) ==
    {k \in 0 .. Len(l) :
        \A i \in 1 .. k : l[i].start <= (IF i = 1 THEN offset ELSE End(l[i - 1]))}
Readable(l) ==
    LET k == CHOOSE k \in Contiguous(l) : \A j \in Contiguous(l) : j <= k
    IN  IF k = 0 THEN offset ELSE End(l[k])

\* Mutant: the FIN is reported although a gap is left.
AvailableFin_Gap(l, fin) == fin

\* ossl_quic_rstream_available: the FIN only when no frame is behind a gap.
AvailableFin(l, fin) ==
    fin /\ Len(l) \in Contiguous(l)

\* depack_do_frame_stream, after flow control
RecvFrame(f) ==
    IF recvState \notin {"recv", "size_known"}
    THEN UNCHANGED rvars
    ELSE /\ frames' = InsertFrame(frames, f)
         /\ listFin' = (listFin \/ f.fin)
         /\ recvState' = LET known == IF f.fin THEN "size_known" ELSE recvState
                         IN  IF known = "size_known" /\ AvailableFin(frames', listFin')
                             THEN "data_recvd" ELSE known
         /\ UNCHANGED <<offset, got, eof>>

\* The byte of the stream at position i, taken from the frame that
\* ossl_sframe_list_peek offers for it.
ByteAt(i) ==
    LET k == CHOOSE k \in DOMAIN frames :
                 /\ i < End(frames[k])
                 /\ \A j \in 1 .. k - 1 : End(frames[j]) <= i
    IN  frames[k].data[i - frames[k].start + 1]

\* quic_read_actual: ossl_quic_rstream_read, the frames read are dropped, and
\* with the FIN the stream is totally read.
Read(n) ==
    /\ recvState # "data_read"
    /\ offset + n <= Readable(frames)
    /\ LET read == Walk(frames, {i \in DOMAIN frames : End(frames[i]) <= offset + n})
           rest == SubSeq(frames, read + 1, Len(frames))
           fin == listFin /\ rest = <<>>
       IN  /\ n > 0 \/ fin
           /\ got' = got \o [i \in 1 .. n |-> ByteAt(offset + i - 1)]
           /\ offset' = offset + n
           /\ frames' = rest
           /\ eof' = (eof \/ fin)
           /\ recvState' = IF fin /\ recvState = "data_recvd"
                           THEN "data_read" ELSE recvState
    /\ UNCHANGED listFin

----------------------------------------------------------------------------
\* The list invariants that reading relies on: starts never decrease, ends
\* strictly increase, and nothing that was read is kept.
ListSorted ==
    /\ \A i \in DOMAIN frames : End(frames[i]) > offset
    /\ \A i, j \in DOMAIN frames :
           i < j => /\ frames[i].start <= frames[j].start
                    /\ End(frames[i]) < End(frames[j])
=============================================================================
