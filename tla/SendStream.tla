----------------------------- MODULE SendStream -----------------------------
(***************************************************************************)
(* The sending part of a QUIC stream: the send buffer of quic_sstream.c    *)
(* with its ring buffer (internal/ring_buf.h), and what the packetiser and *)
(* the in-flight frame dispatcher (quic_fifd.c) do to it when a packet is  *)
(* committed, acknowledged or declared lost.                               *)
(*                                                                         *)
(* The byte that the application writes at offset i has the value i.  The  *)
(* integer sets new_set and acked_set are sets here (module UintSet checks *)
(* the lists behind them).  Offsets are integers modulo Width, as uint64_t *)
(* is.                                                                     *)
(***************************************************************************)
EXTENDS Integers, FiniteSets

CONSTANTS
    Alloc,      \* size of the ring buffer
    Limit,      \* bound: bytes the application writes
    MaxOffset,  \* offsets the ring buffer accepts: 2^62
    Width       \* number of uint64_t values: 2^64

ASSUME SendStreamAssumption ==
    /\ Alloc \in Nat \ {0}
    /\ Limit \in Nat
    /\ MaxOffset \in Nat /\ Limit <= MaxOffset
    /\ Width \in Nat /\ MaxOffset < Width

VARIABLES
    sendState,  \* send, data_sent or data_recvd
    head,       \* ring_buf.head_offset: current size of the stream
    ctail,      \* ring_buf.ctail_offset: bytes below were culled
    ring,       \* contents of the ring buffer
    new,        \* new_set: bytes to be sent, or sent again
    acked,      \* acked_set
    final,      \* which of "have", "sent" and "acked" hold for the final size
    flight      \* chunks in packets neither acknowledged nor declared lost

svars == <<sendState, head, ctail, ring, new, acked, final, flight>>

Uint == 0 .. Width - 1

\* A chunk of a packet: its last byte is start + len - 1, which is below start
\* for an empty chunk, and wraps around for an empty chunk at offset 0.
Chunks == [start : 0 .. Limit, len : 0 .. Limit, fin : BOOLEAN]

ChunkEnd(c) == (c.start + c.len + Width - 1) % Width

ChunkBytes(c) == c.start .. ChunkEnd(c)

\* The bytes a chunk reads from the ring buffer.
Data(c) == [i \in 1 .. c.len |-> ring[(c.start + i - 1) % Alloc]]

SendInit ==
    /\ sendState = "send"
    /\ head = 0
    /\ ctail = 0
    /\ ring = [i \in 0 .. Alloc - 1 |-> 0]
    /\ new = {}
    /\ acked = {}
    /\ final = {}
    /\ flight = {}

----------------------------------------------------------------------------
\* Mutant: the buffer takes one byte more than it has room for.
Room_OneMore == Alloc - (head - ctail) + 1

\* ring_buf_avail
Room == Alloc - (head - ctail)

\* ossl_quic_sstream_append: as much as ring_buf_push has room for.
Write(n) ==
    /\ sendState = "send"
    /\ "have" \notin final
    /\ n <= Room
    /\ head + n <= Limit
    /\ head' = head + n
    /\ ring' = [i \in DOMAIN ring |->
                   IF \E o \in head .. head + n - 1 : o % Alloc = i
                   THEN CHOOSE o \in head .. head + n - 1 : o % Alloc = i
                   ELSE ring[i]]
    /\ new' = new \cup (head .. head + n - 1)
    /\ UNCHANGED <<sendState, ctail, acked, final, flight>>

\* ossl_quic_sstream_fin
Fin ==
    /\ sendState = "send"
    /\ "have" \notin final
    /\ final' = final \cup {"have"}
    /\ UNCHANGED <<sendState, head, ctail, ring, new, acked, flight>>

\* The first range of new_set, as ossl_quic_sstream_get_stream_frame offers it:
\* its length is the range's, modulo Width, up to the end of the stream.
FirstStart == CHOOSE i \in new : \A j \in new : i <= j
FirstEnd == CHOOSE i \in new :
                /\ (FirstStart .. i) \subseteq new
                /\ i + 1 \notin new
FirstLen ==
    LET len == (FirstEnd - FirstStart + 1) % Width
    IN  IF len <= head - FirstStart THEN len ELSE head - FirstStart

\* The chunk on offer; the packetiser may cut it short.
Offered ==
    IF new # {}
    THEN {[start |-> FirstStart, len |-> FirstLen,
           fin |-> "have" \in final /\ FirstStart + FirstLen = head]}
    ELSE IF "have" \in final /\ "sent" \notin final
    THEN {[start |-> head, len |-> 0, fin |-> TRUE]}
    ELSE {}

\* txp_plan_stream_chunk, determine_stream_len: flow control and the space in
\* the packet shorten the chunk, and a shortened chunk carries no FIN.
Cut(c, n) == [c EXCEPT !.len = n, !.fin = @ /\ n = c.len]

\* Mutant: the last byte of a chunk stays marked as new.
MarkTransmitted_OffByOne(c) == new \ (c.start .. ChunkEnd(c) - 1)

\* ossl_quic_sstream_mark_transmitted
MarkTransmitted(c) == new \ ChunkBytes(c)

\* ossl_quic_fifd_pkt_commit, then txp_pkt_commit (DATA_SENT once nothing is
\* pending and the final size is known).
Commit(c) ==
    /\ sendState # "data_recvd"
    /\ \E o \in Offered, n \in 0 .. Limit :
        /\ n <= o.len
        /\ n > 0 \/ (o.len = 0 /\ o.fin)
        /\ c = Cut(o, n)
    /\ new' = MarkTransmitted(c)
    /\ final' = IF c.fin THEN final \cup {"sent"} ELSE final
    /\ flight' = flight \cup {c}
    /\ sendState' = IF "have" \in final /\ new' = {} /\ "sent" \in final'
                    THEN "data_sent" ELSE sendState
    /\ UNCHANGED <<head, ctail, ring, acked>>

\* ring_buf_cpop_range on the first range of acked_set.
Cull(set) ==
    IF 0 \notin set THEN ctail
    ELSE LET end == CHOOSE i \in set : (0 .. i) \subseteq set /\ i + 1 \notin set
         IN  IF end >= MaxOffset THEN ctail ELSE end + 1

\* Mutant: the FIN is taken for acknowledged along with the data.
TotallyAcked_NoFin(set, fs) == head = 0 \/ set = 0 .. head - 1

\* ossl_quic_sstream_is_totally_acked
TotallyAcked(set, fs) ==
    /\ "have" \in fs => "acked" \in fs
    /\ head = 0 \/ set = 0 .. head - 1

\* on_acked: once the buffer was freed there is nothing to do.
Acked(c) ==
    /\ c \in flight
    /\ flight' = flight \ {c}
    /\ IF sendState = "data_recvd"
       THEN UNCHANGED <<sendState, ctail, acked, final>>
       ELSE /\ acked' = acked \cup ChunkBytes(c)
            /\ ctail' = Cull(acked')
            /\ final' = IF c.fin THEN final \cup {"acked"} ELSE final
            /\ sendState' = IF sendState = "data_sent" /\ TotallyAcked(acked', final')
                            THEN "data_recvd" ELSE sendState
    /\ UNCHANGED <<head, ring, new>>

\* Mutant: a lost FIN is not sent again.
LostFin_Ignored(fs) == fs

\* ossl_quic_sstream_mark_lost_fin: not once it was acknowledged.
LostFin(fs) == IF "acked" \in fs THEN fs ELSE fs \ {"sent"}

\* on_lost
Lost(c) ==
    /\ c \in flight
    /\ flight' = flight \ {c}
    /\ IF sendState = "data_recvd"
       THEN UNCHANGED <<new, final>>
       ELSE /\ new' = new \cup ChunkBytes(c)
            /\ final' = IF c.fin THEN LostFin(final) ELSE final
    /\ UNCHANGED <<sendState, head, ctail, ring, acked>>

----------------------------------------------------------------------------
\* Types; no byte beyond the end of the stream is marked, except that the lost
\* FIN of an empty stream stands for all integers.
SendTypeOK ==
    /\ sendState \in {"send", "data_sent", "data_recvd"}
    /\ head \in 0 .. Limit
    /\ ctail \in 0 .. Limit
    /\ ring \in [0 .. Alloc - 1 -> 0 .. Limit]
    /\ new \subseteq Uint
    /\ acked \subseteq Uint
    /\ head > 0 => new \cup acked \subseteq 0 .. head - 1
    /\ final \subseteq {"have", "sent", "acked"}
    /\ flight \subseteq Chunks

\* "No logical byte is ever in both new_set and acked_set", and every byte
\* written is in exactly one place: to be sent, in one packet, or acknowledged.
BytesPartitioned ==
    sendState # "data_recvd" =>
        \A i \in 0 .. head - 1 :
            LET carriers == {c \in flight : i \in ChunkBytes(c)}
            IN  \/ i \in new /\ i \notin acked /\ carriers = {}
                \/ i \notin new /\ i \in acked /\ carriers = {}
                \/ i \notin new /\ i \notin acked /\ Cardinality(carriers) = 1

\* The same, one chunk at a time: no byte is in two places, and every byte is
\* in one.
Placed ==
    sendState # "data_recvd" =>
        \A i \in 0 .. head - 1 :
            /\ ~ (i \in new /\ i \in acked)
            /\ \A c \in flight : i \in ChunkBytes(c) =>
                   /\ i \notin new /\ i \notin acked
                   /\ \A d \in flight : i \in ChunkBytes(d) => d = c
            /\ i \in new \/ i \in acked \/ \E c \in flight : i \in ChunkBytes(c)

\* A chunk lies within the stream, and an empty one is a FIN at its end.
ChunksWithin ==
    \A c \in flight :
        /\ c.start + c.len <= head
        /\ c.len = 0 => c.start = head /\ "have" \in final

\* The sets of an empty stream: only its FIN marks anything in them.
EmptyStream ==
    head = 0 =>
        /\ new \in {{}, Uint} /\ acked \in {{}, Uint}
        /\ "have" \notin final => new = {} /\ acked = {}

\* The ring buffer never overwrites a byte that may have to be sent again.
BufferIntact ==
    /\ ctail <= head /\ head - ctail <= Alloc
    /\ \A i \in 0 .. ctail - 1 : i \in acked
    /\ \A i \in ctail .. head - 1 : ring[i % Alloc] = i

\* What every step of the sender preserves.
SendInv == SendTypeOK /\ ChunksWithin /\ EmptyStream /\ Placed /\ BufferIntact
=============================================================================
