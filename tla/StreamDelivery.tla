--------------------------- MODULE StreamDelivery ---------------------------
(***************************************************************************)
(* A QUIC stream end to end: SendStream at one endpoint, RecvStream at the *)
(* other, and between them packets that are lost, delayed and reordered.   *)
(* A packet is acknowledged only after it arrived, is processed at most    *)
(* once (packet numbers are deduplicated), and may be declared lost while  *)
(* it is still on its way.                                                 *)
(***************************************************************************)
EXTENDS SendStream, RecvStream

CONSTANTS
    MaxFlight,  \* bound: packets in flight
    MaxLate     \* bound: packets declared lost that are still under way

VARIABLE net  \* packets under way: the chunk, its data, still in flight or late

vars == <<svars, rvars, net>>

Packet(c, late) == [chunk |-> c, data |-> Data(c), late |-> late]

Init == SendInit /\ RecvInit /\ net = {}

AppWrite == \E n \in 1 .. Limit : Write(n) /\ UNCHANGED <<rvars, net>>

AppFin == Fin /\ UNCHANGED <<rvars, net>>

AppRead == \E n \in 0 .. Limit : Read(n) /\ UNCHANGED <<svars, net>>

Send(c) ==
    /\ Cardinality(flight) < MaxFlight
    /\ Commit(c)
    /\ net' = net \cup {Packet(c, FALSE)}
    /\ UNCHANGED rvars

Receive(p) ==
    /\ p \in net
    /\ net' = net \ {p}
    /\ RecvFrame([start |-> p.chunk.start, data |-> p.data, fin |-> p.chunk.fin])
    /\ UNCHANGED svars

\* The acknowledgement of a packet that arrived.
Ack(c) ==
    /\ \A p \in net : p.chunk = c => p.late
    /\ Acked(c)
    /\ UNCHANGED <<rvars, net>>

\* A packet is declared lost: it is, or it will arrive late, or it has arrived
\* and its acknowledgement is late.
Lose(c) ==
    /\ Lost(c)
    /\ LET mine == {p \in net : p.chunk = c /\ ~p.late}
       IN  \/ net' = net \ mine
           \/ /\ Cardinality({p \in net : p.late}) < MaxLate
              /\ net' = (net \ mine) \cup {[p EXCEPT !.late = TRUE] : p \in mine}
    /\ UNCHANGED rvars

Next ==
    \/ AppWrite \/ AppFin \/ AppRead
    \/ \E c \in Chunks : Send(c)
    \/ \E p \in net : Receive(p)
    \/ \E c \in flight : Ack(c) \/ Lose(c)

Spec == Init /\ [][Next]_vars

\* What the sender's buffer waits for: the oldest byte it still holds, or the
\* FIN when it holds none.
Carries(c) == IF ctail < head THEN ctail \in ChunkBytes(c) ELSE c.fin
ReceiveInTime == \E p \in net : Carries(p.chunk) /\ ~p.late /\ Receive(p)
AckInTime == \E c \in flight : Carries(c) /\ Ack(c)

\* The packetiser sends what is pending, the application reads what is
\* readable, and the loss timer ends the wait for an acknowledgement.  Bytes
\* that are sent again and again arrive, and if they arrive again and again
\* they are acknowledged before they are declared lost.
FairSpec ==
    /\ Spec
    /\ WF_vars(AppRead)
    /\ WF_vars(\E c \in Chunks : Send(c))
    /\ WF_vars(\E c \in flight : Ack(c) \/ Lose(c))
    /\ SF_vars(ReceiveInTime)
    /\ SF_vars(AckInTime)

----------------------------------------------------------------------------
(* Properties.                                                             *)

TypeOK ==
    /\ SendTypeOK
    /\ recvState \in {"recv", "size_known", "data_recvd", "data_read"}
    /\ offset \in 0 .. Limit
    /\ listFin \in BOOLEAN /\ eof \in BOOLEAN

Stream == INSTANCE ByteStream WITH size <- head, closed <- "have" \in final

\* The whole promise of the stream: in-order, exactly-once delivery of the
\* bytes written, and an end of file only when all of them were read.
ImplementsByteStream == Stream!Spec

Received(i) ==
    i < offset \/ \E k \in DOMAIN frames : frames[k].start <= i /\ i < End(frames[k])

\* The sender forgets only what the receiver has: every acknowledged byte is in
\* the receiver's hands, and when the sender frees its buffer (DATA_RECVD) the
\* receiver has all the bytes and the FIN.
ForgottenIsReceived ==
    /\ \A i \in acked : i < head => Received(i)
    /\ sendState = "data_recvd" =>
           /\ listFin
           /\ \A i \in 0 .. head - 1 : Received(i)

\* The receive states tell the truth: DATA_RECVD is reached exactly when the
\* FIN and every byte before it are there, so that the read that meets the FIN
\* frees the buffer.
RecvStatesExact ==
    /\ recvState \in {"data_recvd", "data_read"} <=>
           listFin /\ \A i \in 0 .. head - 1 : Received(i)
    /\ eof <=> recvState = "data_read"

\* The assertion of ossl_sframe_list_insert, for every packet under way: the
\* FIN is at the end of everything received, and nothing lies beyond it.
FinalSizeConsistent ==
    LET currEnd == IF frames = <<>> THEN offset ELSE End(frames[Len(frames)])
    IN  recvState \in {"recv", "size_known"} =>
            \A p \in net :
                LET end == p.chunk.start + Len(p.data)
                IN  (p.chunk.fin => currEnd <= end) /\ (listFin => currEnd >= end)

\* The packet with the bytes that were written at the offsets of chunk c.
Written(c, late) ==
    [chunk |-> c, data |-> [k \in 1 .. c.len |-> c.start + k - 1], late |-> late]

\* Every packet under way carries the bytes that were written at its offsets,
\* and a FIN only at the end of the stream.
PacketsIntact ==
    \A p \in net : \E c \in Chunks, late \in BOOLEAN :
        /\ p = Written(c, late)
        /\ c.start + c.len <= head
        /\ c.fin => "have" \in final /\ c.start + c.len = head

\* The list holds the bytes that were written, and the application has read
\* exactly the bytes below its offset.
FrameSet == [start : 0 .. Limit, data : Seq(0 .. Limit), fin : BOOLEAN]
FramesIntact ==
    /\ frames \in Seq(FrameSet)
    /\ \A k \in DOMAIN frames :
           /\ End(frames[k]) <= head
           /\ \A i \in DOMAIN frames[k].data : frames[k].data[i] = frames[k].start + i - 1
ReadIntact ==
    /\ offset \in 0 .. head
    /\ got \in Seq(Nat) /\ Len(got) = offset
    /\ \A i \in 1 .. offset : got[i] = i - 1

\* With the FIN came the end of the stream.
FinKept ==
    listFin => /\ "have" \in final
               /\ IF frames = <<>> THEN offset = head
                                  ELSE End(frames[Len(frames)]) = head

\* A frame that is out of reach of the one before it.
Gap ==
    \E k \in DOMAIN frames :
        frames[k].start > (IF k = 1 THEN offset ELSE End(frames[k - 1]))
GapKnown ==
    /\ recvState \in {"recv", "size_known", "data_recvd", "data_read"}
    /\ listFin \in BOOLEAN /\ eof \in BOOLEAN
    /\ listFin <=> recvState # "recv"
    /\ recvState = "size_known" => Gap
    /\ recvState \in {"data_recvd", "data_read"} => ~Gap
    /\ eof <=> recvState = "data_read"

\* What the sender may take for received: a chunk that is not under way, and
\* what was acknowledged.
Arrived(c) ==
    /\ \A i \in c.start .. c.start + c.len - 1 : Received(i)
    /\ c.fin => listFin
AcksTruthful ==
    /\ \A c \in flight : (\E p \in net : p.chunk = c /\ ~p.late) \/ Arrived(c)
    /\ "acked" \in final => listFin
    /\ sendState # "send" => "have" \in final

\* What every step of the stream preserves.
DeliveryInv ==
    /\ SendInv /\ PacketsIntact
    /\ ListSorted /\ FramesIntact /\ ReadIntact /\ FinKept /\ GapKnown
    /\ AcksTruthful /\ ForgottenIsReceived

\* A stream that was ended is read to its end and confirmed to the sender,
\* whichever packets are lost.
FinishedStreamCompletes ==
    "have" \in final ~> eof /\ sendState = "data_recvd"
=============================================================================
