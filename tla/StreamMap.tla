----------------------------- MODULE StreamMap -----------------------------
(***************************************************************************)
(* The life of QUIC streams at one endpoint: the state machines of the     *)
(* sending and the receiving part and the list of active streams           *)
(* (ssl/quic/quic_stream_map.c), driven by the application (quic_impl.c),  *)
(* by the frames of the peer (quic_rx_depack.c), by the packetiser         *)
(* (quic_txp.c) and by the fate of packets (quic_fifd.c).                  *)
(*                                                                         *)
(* Of the send buffer only this is kept: whether bytes were never sent     *)
(* (unsent), whether sent ones were lost (lost), whether the flow          *)
(* controllers let unsent ones go (credit), and the FIN.  SendStream has   *)
(* the bytes, FlowControl the credit.  A packet is its frames for one      *)
(* stream: in-flight dispatch handles the chunks of a packet one by one.   *)
(* MAX_STREAMS is not modelled: every stream is within the peer's limit.   *)
(***************************************************************************)
EXTENDS Naturals, FiniteSets

CONSTANTS
    Streams,
    Kinds,       \* kinds of stream: subset of AllKinds
    AppOps,      \* operations the application uses: subset of AllOps
    MaxPackets,  \* bound: packets of one stream in flight
    MaxWrites    \* bound: calls of SSL_write on one stream

AllKinds == {"bidi_local", "bidi_remote", "uni_local", "uni_remote"}
RemoteKinds == {"bidi_remote", "uni_remote"}
AllOps == {"write", "conclude", "conclude_empty", "reset", "free", "shutdown"}

ASSUME StreamMapAssumption ==
    /\ Kinds \subseteq AllKinds
    /\ AppOps \subseteq AllOps
    /\ MaxPackets \in Nat
    /\ MaxWrites \in Nat

VARIABLES
    qs,            \* the QUIC_STREAM of each stream
    flight,        \* packets neither acknowledged nor declared lost
    shutting_down  \* SSL_shutdown was called

vars == <<qs, flight, shutting_down>>

SendStates == {"none", "ready", "send", "data_sent", "data_recvd",
               "reset_sent", "reset_recvd"}
RecvStates == {"none", "recv", "size_known", "data_recvd", "data_read",
               "reset_recvd", "reset_read"}

\* silent_fin is no field of the code: it notes that a zero-length write has put
\* a FIN into the buffer since ossl_quic_stream_map_update_state last looked.
Stream == [send : SendStates, recv : RecvStates,
           open : BOOLEAN, active : BOOLEAN,
           stop_sending : BOOLEAN, peer_stop_sending : BOOLEAN,
           want_max_stream_data : BOOLEAN, want_stop_sending : BOOLEAN,
           want_reset_stream : BOOLEAN, acked_stop_sending : BOOLEAN,
           deleted : BOOLEAN, ready_for_gc : BOOLEAN, shutdown_flush : BOOLEAN,
           writes : 0 .. MaxWrites, unsent : BOOLEAN, lost : BOOLEAN,
           credit : BOOLEAN, fin : BOOLEAN, fin_unsent : BOOLEAN,
           fin_acked : BOOLEAN, silent_fin : BOOLEAN, released : BOOLEAN]

Packet == [slot : 1 .. MaxPackets, stop : BOOLEAN, reset : BOOLEAN, max : BOOLEAN,
           data : BOOLEAN, fin : BOOLEAN]

\* Not released by ossl_quic_stream_map_gc yet.
Extant(s) == ~qs[s].released

----------------------------------------------------------------------------
(* Predicates on a stream q with packets f in flight.                      *)

HasSend(q) == q.send # "none"
HasRecv(q) == q.recv # "none"

\* ossl_quic_stream_has_send_buffer: sstream is not NULL.
HasSendBuffer(q) == q.send \in {"ready", "send", "data_sent"}

\* ossl_quic_stream_send_is_reset
SendIsReset(q) == q.send \in {"reset_sent", "reset_recvd"}

\* ossl_quic_sstream_is_totally_acked
TotallyAcked(q, f) ==
    /\ q.fin => q.fin_acked
    /\ ~q.unsent /\ ~q.lost
    /\ \A p \in f : ~p.data

\* stream_has_data_to_send
HasDataToSend(q) ==
    /\ HasSendBuffer(q)
    /\ \/ q.lost
       \/ q.unsent /\ q.credit
       \/ q.fin_unsent /\ ~q.unsent

\* qsm_ready_for_gc
ReadyForGc(q) ==
    /\ q.deleted
    /\ HasRecv(q) => q.acked_stop_sending
    /\ HasSend(q) => q.send \in {"data_recvd", "reset_recvd"}

ShouldBeActive(q) ==
    /\ ~q.ready_for_gc
    /\ \/ q.recv = "recv" /\ q.want_max_stream_data
       \/ q.want_stop_sending
       \/ q.want_reset_stream
       \/ ~q.peer_stop_sending /\ HasDataToSend(q)

----------------------------------------------------------------------------
(* Transitions of a stream.                                                *)

\* Mutant: the end of the data is taken for its acknowledgement.
NotifyTotallyAcked_Early(q, f) ==
    IF q.send = "data_sent"
    THEN [q EXCEPT !.send = "data_recvd", !.shutdown_flush = FALSE] ELSE q

\* ossl_quic_stream_map_notify_totally_acked, shutdown_flush_done
NotifyTotallyAcked(q, f) ==
    IF q.send = "data_sent" /\ TotallyAcked(q, f)
    THEN [q EXCEPT !.send = "data_recvd", !.shutdown_flush = FALSE]
    ELSE IF q.shutdown_flush /\ q.send = "send" /\ TotallyAcked(q, f)
    THEN [q EXCEPT !.shutdown_flush = FALSE]
    ELSE q

\* ossl_quic_stream_map_update_state
UpdateState(q, f) ==
    LET r == NotifyTotallyAcked(q, f)
        g == [r EXCEPT !.ready_for_gc = @ \/ ReadyForGc(r)]
    IN  [g EXCEPT !.active = ShouldBeActive(g), !.silent_fin = FALSE]

\* ossl_quic_stream_map_ensure_send_part_id
EnsureSendPartId(q) == IF q.send = "ready" THEN [q EXCEPT !.send = "send"] ELSE q

\* ossl_quic_stream_map_reset_stream_send_part
ResetSendPart(q, f) ==
    IF HasSendBuffer(q)
    THEN UpdateState([q EXCEPT !.send = "reset_sent", !.want_reset_stream = TRUE,
                               !.shutdown_flush = FALSE], f)
    ELSE q

\* ossl_quic_stream_map_schedule_stop_sending
ScheduleStopSending(q, f) ==
    IF q.stop_sending /\ ~q.want_stop_sending /\ q.recv \in {"recv", "size_known"}
    THEN UpdateState([q EXCEPT !.want_stop_sending = TRUE], f)
    ELSE q

\* ossl_quic_stream_map_stop_sending_recv_part
StopSendingRecvPart(q, f) ==
    IF ~q.stop_sending /\ q.recv \in {"recv", "size_known"}
    THEN ScheduleStopSending([q EXCEPT !.stop_sending = TRUE], f)
    ELSE q

\* Mutant: a late RESET_STREAM undoes the end of the stream.
NotifyResetRecvPart_AnyState(q, f) ==
    UpdateState([q EXCEPT !.recv = "reset_recvd", !.want_stop_sending = FALSE], f)

\* ossl_quic_stream_map_notify_reset_recv_part
NotifyResetRecvPart(q, f) ==
    IF q.recv \in {"recv", "size_known", "data_recvd"}
    THEN UpdateState([q EXCEPT !.recv = "reset_recvd", !.want_stop_sending = FALSE], f)
    ELSE q

Put(s, q) == qs' = [qs EXCEPT ![s] = q]

----------------------------------------------------------------------------
(* The application.                                                        *)

\* Operations need the stream object; quic_mutation_allowed refuses those that
\* add data once shutdown has begun.
May(s, op) == op \in AppOps /\ Extant(s) /\ qs[s].open
MayAdd(s, op) == May(s, op) /\ ~shutting_down

\* quic_validate_for_write
ValidForWrite(q) == HasSendBuffer(q) /\ ~q.fin

\* ossl_quic_write_flags, quic_post_write: the state is updated before the FIN
\* of SSL_WRITE_FLAG_CONCLUDE is noted.
Write(s, conclude) ==
    /\ MayAdd(s, "write")
    /\ conclude => "conclude" \in AppOps
    /\ ValidForWrite(qs[s]) /\ qs[s].writes < MaxWrites
    /\ LET q == [EnsureSendPartId(qs[s]) EXCEPT !.unsent = TRUE, !.writes = @ + 1]
       IN  Put(s, [UpdateState(q, flight[s]) EXCEPT
                        !.fin = conclude, !.fin_unsent = conclude])
    /\ UNCHANGED <<flight, shutting_down>>

\* ossl_quic_write_flags with no bytes and SSL_WRITE_FLAG_CONCLUDE: neither the
\* send state nor the active list is looked after.  (A stream whose send buffer
\* is gone is not asked for this: the code would use the freed buffer.)
ConcludeEmpty(s) ==
    /\ MayAdd(s, "conclude_empty")
    /\ ValidForWrite(qs[s])
    /\ Put(s, [qs[s] EXCEPT !.fin = TRUE, !.fin_unsent = TRUE, !.silent_fin = TRUE])
    /\ UNCHANGED <<flight, shutting_down>>

\* ossl_quic_conn_stream_conclude
Conclude(s) ==
    /\ MayAdd(s, "conclude")
    /\ ValidForWrite(qs[s])
    /\ LET q == [EnsureSendPartId(qs[s]) EXCEPT !.fin = TRUE, !.fin_unsent = TRUE]
       IN  Put(s, UpdateState(q, flight[s]))
    /\ UNCHANGED <<flight, shutting_down>>

\* ossl_quic_stream_reset
Reset(s) ==
    /\ May(s, "reset")
    /\ ValidForWrite(qs[s])
    /\ Put(s, ResetSendPart(EnsureSendPartId(qs[s]), flight[s]))
    /\ UNCHANGED <<flight, shutting_down>>

\* ossl_quic_free of a stream object
Free(s) ==
    /\ May(s, "free")
    /\ LET q == IF qs[s].send \in {"ready", "send"} /\ ~qs[s].fin
                THEN ResetSendPart(qs[s], flight[s]) ELSE qs[s]
           r == StopSendingRecvPart(q, flight[s])
       IN  Put(s, UpdateState([r EXCEPT !.deleted = TRUE, !.open = FALSE], flight[s]))
    /\ UNCHANGED <<flight, shutting_down>>

\* SSL_accept_stream takes a stream of the peer from the accept queue
Accept(s) ==
    /\ Extant(s) /\ ~qs[s].open /\ ~qs[s].deleted
    /\ Put(s, [qs[s] EXCEPT !.open = TRUE])
    /\ UNCHANGED <<flight, shutting_down>>

\* quic_read_actual: some bytes, which may raise the credit mark.
ReadSome(s, bump) ==
    /\ Extant(s) /\ qs[s].open
    /\ qs[s].recv \in {"recv", "size_known", "data_recvd"}
    /\ Put(s, UpdateState([qs[s] EXCEPT !.want_max_stream_data = @ \/ bump], flight[s]))
    /\ UNCHANGED <<flight, shutting_down>>

\* quic_read_actual: up to the FIN, with or without bytes before it.
ReadFin(s, bytes) ==
    /\ Extant(s) /\ qs[s].open /\ qs[s].recv = "data_recvd"
    /\ LET q == [qs[s] EXCEPT !.recv = "data_read"]
       IN  Put(s, IF bytes THEN UpdateState(q, flight[s]) ELSE q)
    /\ UNCHANGED <<flight, shutting_down>>

\* quic_validate_for_read: the application learns of the reset.
ReadReset(s) ==
    /\ Extant(s) /\ qs[s].open /\ qs[s].recv = "reset_recvd"
    /\ Put(s, [qs[s] EXCEPT !.recv = "reset_read"])
    /\ UNCHANGED <<flight, shutting_down>>

\* Mutant: streams that already sent their FIN are not waited for.
EligibleForFlush_NotDataSent(q, f) == q.send = "send" /\ ~TotallyAcked(q, f)

\* eligible_for_shutdown_flush
EligibleForFlush(q, f) == q.send \in {"send", "data_sent"} /\ ~TotallyAcked(q, f)

\* qc_shutdown_flush_init
BeginShutdownFlush ==
    /\ "shutdown" \in AppOps
    /\ ~shutting_down
    /\ shutting_down' = TRUE
    /\ qs' = [s \in Streams |->
                IF Extant(s) /\ EligibleForFlush(qs[s], flight[s])
                THEN [qs[s] EXCEPT !.shutdown_flush = TRUE] ELSE qs[s]]
    /\ UNCHANGED flight

----------------------------------------------------------------------------
(* Frames of the peer.                                                     *)

\* depack_do_frame_stream: fin announces the size, all says that no gap is
\* left.  Data is not buffered once STOP_SENDING was requested.
RxStream(s, fin, all) ==
    /\ Extant(s) /\ qs[s].recv \in {"recv", "size_known"}
    /\ all => fin \/ qs[s].recv = "size_known"
    /\ LET q == [qs[s] EXCEPT !.recv = IF fin THEN "size_known" ELSE @]
       IN  Put(s, IF all /\ ~q.stop_sending
                  THEN [q EXCEPT !.recv = "data_recvd", !.want_stop_sending = FALSE]
                  ELSE q)
    /\ UNCHANGED <<flight, shutting_down>>

\* depack_do_frame_reset_stream
RxReset(s) ==
    /\ Extant(s) /\ HasRecv(qs[s])
    /\ Put(s, UpdateState(NotifyResetRecvPart(qs[s], flight[s]), flight[s]))
    /\ UNCHANGED <<flight, shutting_down>>

\* depack_do_frame_stop_sending
RxStopSending(s) ==
    /\ Extant(s) /\ HasSend(qs[s])
    /\ Put(s, ResetSendPart([qs[s] EXCEPT !.peer_stop_sending = TRUE], flight[s]))
    /\ UNCHANGED <<flight, shutting_down>>

\* Mutant: more credit does not make the stream active.
RxMaxStreamData_NoUpdate(s) ==
    /\ Extant(s) /\ HasSend(qs[s])
    /\ Put(s, [qs[s] EXCEPT !.credit = TRUE])
    /\ UNCHANGED <<flight, shutting_down>>

\* depack_do_frame_max_stream_data, depack_do_frame_max_data
RxMaxStreamData(s) ==
    /\ Extant(s) /\ HasSend(qs[s])
    /\ Put(s, UpdateState([qs[s] EXCEPT !.credit = TRUE], flight[s]))
    /\ UNCHANGED <<flight, shutting_down>>

----------------------------------------------------------------------------
(* The packetiser and the fate of packets.                                 *)

\* Packets with the lowest number that no packet in flight has.
NewPackets(s) ==
    LET free == {n \in 1 .. MaxPackets : \A p \in flight[s] : p.slot # n}
    IN  {p \in Packet : p.slot \in free /\ \A n \in free : p.slot <= n}

\* What txp_generate_stream_related can put into a packet: STOP_SENDING,
\* RESET_STREAM, MAX_STREAM_DATA as wanted and then data, as far as they fit.
\* The FIN goes with the last byte, or alone.
Frames(q, p) ==
    /\ p.stop => q.want_stop_sending
    /\ p.reset => q.want_reset_stream /\ p.stop = q.want_stop_sending
    /\ p.max => /\ q.recv = "recv" /\ q.want_max_stream_data
                /\ p.stop = q.want_stop_sending /\ p.reset = q.want_reset_stream
    /\ p.data \/ p.fin =>
            /\ HasSendBuffer(q)
            /\ p.stop = q.want_stop_sending
            /\ p.max = (q.recv = "recv" /\ q.want_max_stream_data)
    /\ p.data => q.lost \/ (q.unsent /\ q.credit)
    /\ p.fin => q.fin /\ ~q.fin_acked /\ (q.fin_unsent \/ (p.data /\ q.lost))

\* Unsent and lost bytes that remain after packet p, lost ones going first.
Leftovers(q, p) ==
    {r \in [lost : BOOLEAN, unsent : BOOLEAN] :
        IF ~p.data THEN r = [lost |-> q.lost, unsent |-> q.unsent]
        ELSE /\ r.lost => q.lost
             /\ r.unsent => q.unsent
             /\ q.unsent /\ ~r.unsent => q.credit /\ ~r.lost /\ p.fin = q.fin}

\* ossl_quic_stream_map_notify_all_data_sent, as txp_pkt_commit calls it.
NotifyAllDataSent(q) ==
    IF q.send = "send" /\ q.fin /\ ~q.unsent /\ ~q.lost /\ ~q.fin_unsent
    THEN [q EXCEPT !.send = "data_sent"] ELSE q

\* The packet has a chunk of the stream: MAX_STREAM_DATA alone makes none.
HasChunk(p) == p.data \/ p.fin \/ p.stop \/ p.reset

\* The frames that were sent are not wanted any more.
Sent(q, p) ==
    [q EXCEPT !.want_stop_sending = @ /\ ~p.stop,
              !.want_reset_stream = @ /\ ~p.reset,
              !.want_max_stream_data = @ /\ ~p.max,
              !.fin_unsent = @ /\ ~p.fin]

\* txp_generate_stream_related, txp_pkt_commit.  New data may use up the credit.
Tx(s, p, left, credit) ==
    LET q == qs[s]
        sent == [Sent(q, p) EXCEPT !.lost = left.lost, !.unsent = left.unsent,
                                   !.credit = credit]
    IN  /\ HasChunk(p) \/ p.max
        /\ Frames(q, p)
        /\ p.fin => ~left.lost /\ ~left.unsent
        /\ credit # q.credit => q.credit /\ p.data /\ q.unsent
        /\ flight' = IF HasChunk(p) THEN [flight EXCEPT ![s] = @ \cup {p}] ELSE flight
        /\ Put(s, NotifyAllDataSent(UpdateState(sent, flight'[s])))
        /\ UNCHANGED shutting_down

TxSome(s) ==
    /\ Extant(s) /\ qs[s].active
    /\ \E p \in NewPackets(s), credit \in BOOLEAN : \E left \in Leftovers(qs[s], p) :
            Tx(s, p, left, credit)

\* A packet with everything there is to send.
TxAll(s) ==
    /\ Extant(s) /\ qs[s].active
    /\ \E p \in NewPackets(s) :
        /\ [lost |-> FALSE, unsent |-> FALSE] \in Leftovers(qs[s], p)
        /\ p.stop = qs[s].want_stop_sending /\ p.reset = qs[s].want_reset_stream
        /\ p.fin = qs[s].fin_unsent
        /\ Tx(s, p, [lost |-> FALSE, unsent |-> FALSE], qs[s].credit)

\* on_acked of the dispatcher for a chunk with data or FIN ...
AckData(q, p, f) ==
    LET r == [q EXCEPT !.fin_acked = @ \/ p.fin]
    IN  IF ~HasSendBuffer(q) \/ ~(p.data \/ p.fin) THEN q
        ELSE IF TotallyAcked(r, f) THEN UpdateState(r, f) ELSE r

\* ... and for one with STOP_SENDING or RESET_STREAM, which is passed over like
\* any chunk of a stream without a send buffer (on_confirm_notify).
AckAbort(q, p, f) ==
    IF ~HasSendBuffer(q) \/ ~(p.stop \/ p.reset) THEN q
    ELSE UpdateState(
            [q EXCEPT !.acked_stop_sending = @ \/ p.stop,
                      !.send = IF p.reset /\ @ = "reset_sent" THEN "reset_recvd" ELSE @], f)

Acked(s, p) ==
    /\ p \in flight[s]
    /\ flight' = [flight EXCEPT ![s] = @ \ {p}]
    /\ qs' = IF Extant(s)
             THEN [qs EXCEPT ![s] = AckAbort(AckData(@, p, flight'[s]), p, flight'[s])]
             ELSE qs
    /\ UNCHANGED shutting_down

\* on_lost of the dispatcher, on_regen_notify: here too, streams without a send
\* buffer are passed over.
OnLost(q, p, f) ==
    IF ~HasSendBuffer(q) THEN q
    ELSE LET r == [q EXCEPT !.lost = @ \/ p.data,
                            !.fin_unsent = @ \/ (p.fin /\ ~q.fin_acked),
                            !.want_reset_stream = @ \/ p.reset]
             t == IF p.stop THEN ScheduleStopSending(r, f) ELSE r
         IN  UpdateState([t EXCEPT !.want_max_stream_data = TRUE], f)

Lost(s, p) ==
    /\ p \in flight[s]
    /\ flight' = [flight EXCEPT ![s] = @ \ {p}]
    /\ qs' = IF Extant(s) THEN [qs EXCEPT ![s] = OnLost(@, p, flight'[s])] ELSE qs
    /\ UNCHANGED shutting_down

\* ossl_quic_stream_map_gc, at the end of a tick
Gc(s) ==
    /\ Extant(s) /\ qs[s].ready_for_gc
    /\ Put(s, [qs[s] EXCEPT !.released = TRUE, !.active = FALSE])
    /\ UNCHANGED <<flight, shutting_down>>

----------------------------------------------------------------------------
(* The specification.                                                      *)

\* ossl_quic_stream_map_alloc, ch_init_new_stream: streams of this endpoint
\* belong to the application at once, those of the peer wait to be accepted.
NewStream(k) ==
    [send |-> IF k = "uni_remote" THEN "none" ELSE "ready",
     recv |-> IF k = "uni_local" THEN "none" ELSE "recv",
     open |-> k \notin RemoteKinds, active |-> FALSE,
     stop_sending |-> FALSE, peer_stop_sending |-> FALSE,
     want_max_stream_data |-> FALSE, want_stop_sending |-> FALSE,
     want_reset_stream |-> FALSE, acked_stop_sending |-> FALSE,
     deleted |-> FALSE, ready_for_gc |-> FALSE, shutdown_flush |-> FALSE,
     writes |-> 0, unsent |-> FALSE, lost |-> FALSE, credit |-> TRUE,
     fin |-> FALSE, fin_unsent |-> FALSE, fin_acked |-> FALSE,
     silent_fin |-> FALSE, released |-> FALSE]

\* ossl_quic_channel_reject_stream, for streams of the peer as they are created.
RejectStream(q) ==
    LET r == ResetSendPart(StopSendingRecvPart(q, {}), {})
    IN  UpdateState([r EXCEPT !.deleted = TRUE], {})

Init ==
    /\ qs \in [Streams -> {NewStream(k) : k \in Kinds}
                      \cup {RejectStream(NewStream(k)) : k \in Kinds \cap RemoteKinds}]
    /\ flight = [s \in Streams |-> {}]
    /\ shutting_down = FALSE

Next ==
    \/ BeginShutdownFlush
    \/ \E s \in Streams :
        \/ \E conclude \in BOOLEAN : Write(s, conclude)
        \/ ConcludeEmpty(s) \/ Conclude(s) \/ Reset(s) \/ Free(s)
        \/ Accept(s)
        \/ \E b \in BOOLEAN : ReadSome(s, b) \/ ReadFin(s, b)
        \/ ReadReset(s)
        \/ \E fin, all \in BOOLEAN : RxStream(s, fin, all)
        \/ RxReset(s) \/ RxStopSending(s) \/ RxMaxStreamData(s)
        \/ TxSome(s)
        \/ \E p \in flight[s] : Acked(s, p) \/ Lost(s, p)
        \/ Gc(s)

Spec == Init /\ [][Next]_vars

Resolve(s) == \E p \in flight[s] : Acked(s, p) \/ Lost(s, p)

\* The acknowledgement of a packet after which nothing is outstanding.
AckedLast(s) ==
    /\ Extant(s) /\ HasSendBuffer(qs[s])
    /\ \E p \in flight[s] :
        /\ TotallyAcked([qs[s] EXCEPT !.fin_acked = @ \/ p.fin], flight[s] \ {p})
        /\ Acked(s, p)

AckedStop(s) == \E p \in flight[s] : p.stop /\ Acked(s, p)
AckedReset(s) == \E p \in flight[s] : p.reset /\ Acked(s, p)

\* The packetiser serves active streams and now and then has room for all they
\* have; the peer gives credit when it is used up; the fate of a packet is
\* decided, and what is sent again and again is acknowledged in the end; ticks
\* collect streams.
FairSpec ==
    /\ Spec
    /\ \A s \in Streams :
        /\ WF_vars(~qs[s].credit /\ RxMaxStreamData(s))
        /\ WF_vars(TxSome(s)) /\ SF_vars(TxAll(s))
        /\ WF_vars(Resolve(s))
        /\ SF_vars(AckedLast(s)) /\ SF_vars(AckedStop(s)) /\ SF_vars(AckedReset(s))
        /\ WF_vars(Gc(s))

----------------------------------------------------------------------------
(* Properties.                                                             *)

TypeOK ==
    /\ qs \in [Streams -> Stream]
    /\ \A s \in Streams : /\ qs[s].stop_sending => HasRecv(qs[s])
                          /\ qs[s].peer_stop_sending => HasSend(qs[s])
    /\ flight \in [Streams -> SUBSET Packet]
    /\ shutting_down \in BOOLEAN

\* A stream with something to send is on the active list, whichever of the many
\* callers of ossl_quic_stream_map_update_state ran last: nothing waits for an
\* event that need not come.  Only the zero-length concluding write breaks this.
ActiveCurrent ==
    \A s \in Streams :
        Extant(s) /\ ShouldBeActive(qs[s]) => qs[s].active \/ qs[s].silent_fin

\* The assertion of txp_generate_stream_related: RESET_STREAM is wanted only
\* while it is unacknowledged, and then no data is left to send.
ResetOnlyInResetSent ==
    \A s \in Streams :
        Extant(s) /\ qs[s].want_reset_stream => qs[s].send = "reset_sent"

\* The assertion of qsm_ready_for_gc: a stream whose object was freed has a send
\* part that is finished or reset.
DeletedIsFinished ==
    \A s \in Streams :
        Extant(s) /\ qs[s].deleted /\ HasSend(qs[s])
            => SendIsReset(qs[s]) \/ qs[s].fin

\* "Data Recvd" means it: all that was written and the FIN are acknowledged.
DataRecvdIsAcked ==
    \A s \in Streams :
        Extant(s) /\ qs[s].send = "data_recvd"
            => qs[s].fin /\ TotallyAcked(qs[s], flight[s])

\* When the shutdown flush is over, nothing written is unacknowledged.  (A
\* stream that only a zero-length write concluded is still READY and is not
\* waited for.)
FlushCoversAll ==
    shutting_down /\ (\A s \in Streams : Extant(s) => ~qs[s].shutdown_flush)
        => \A s \in Streams :
            Extant(s) /\ qs[s].send \in {"send", "data_sent"}
                => TotallyAcked(qs[s], flight[s])

SendRank(q) == CASE q.send = "none" -> 0 [] q.send = "ready" -> 1 [] q.send = "send" -> 2
                 [] q.send = "data_sent" -> 3 [] q.send = "reset_sent" -> 4
                 [] q.send \in {"data_recvd", "reset_recvd"} -> 5
RecvRank(q) == CASE q.recv = "none" -> 0 [] q.recv = "recv" -> 1
                 [] q.recv = "size_known" -> 2 [] q.recv = "data_recvd" -> 3
                 [] q.recv = "reset_recvd" -> 4
                 [] q.recv \in {"data_read", "reset_read"} -> 5

\* Both parts only move forward through the states of RFC 9000, s. 3, and a part
\* that reached a terminal state stays in it, late frames notwithstanding.
StatesForward ==
    [][\A s \in Streams : Extant(s) =>
        /\ qs'[s].send = qs[s].send \/ SendRank(qs'[s]) > SendRank(qs[s])
        /\ qs'[s].recv = qs[s].recv \/ RecvRank(qs'[s]) > RecvRank(qs[s])]_vars

\* A concluded stream is sent to its end: every byte and the FIN are
\* acknowledged, unless the stream is reset.
ConcludeTransmits ==
    \A s \in Streams :
        (Extant(s) /\ qs[s].fin)
            ~> (~Extant(s) \/ ~HasSendBuffer(qs[s]))

\* The shutdown flush ends.
FlushCompletes ==
    \A s \in Streams :
        (Extant(s) /\ qs[s].shutdown_flush) ~> (~Extant(s) \/ ~qs[s].shutdown_flush)

\* "Once these conditions are met, we can GC the QUIC_STREAM": a stream whose
\* object was freed is collected in the end, since STOP_SENDING and RESET_STREAM
\* or the FIN are sent and acknowledged.
FreedCollected ==
    \A s \in Streams : (Extant(s) /\ qs[s].deleted) ~> ~Extant(s)

----------------------------------------------------------------------------
(* What the safety properties rest on: an invariant of one stream q with   *)
(* packets f in flight.                                                    *)

\* RESET_STREAM is wanted, or in a packet, only once the sending part is reset.
ResetKnown(q, f) ==
    /\ q.want_reset_stream => q.send = "reset_sent"
    /\ \A p \in f : p.reset => SendIsReset(q)

\* The states of the sending part tell what was acknowledged.
AckedKnown(q, f) ==
    /\ q.send = "data_sent" => q.fin
    /\ q.send = "data_recvd" => q.fin /\ TotallyAcked(q, f)

\* A freed object is closed for good and has a sending part that will end.
DeletedKnown(q) ==
    q.deleted => ~q.open /\ (HasSend(q) => SendIsReset(q) \/ q.fin)

\* The flush waits for every stream with something unacknowledged.
FlushKnown(q, f, shut) ==
    shut /\ q.send \in {"send", "data_sent"} /\ ~TotallyAcked(q, f) => q.shutdown_flush

\* What holds of a stream also between a change and the update of its state.
Sane(q, f, shut) ==
    /\ q \in Stream /\ f \subseteq Packet
    /\ q.stop_sending => HasRecv(q)
    /\ q.peer_stop_sending => HasSend(q)
    /\ ~q.released =>
        ResetKnown(q, f) /\ AckedKnown(q, f) /\ DeletedKnown(q) /\ FlushKnown(q, f, shut)

Listed(q) == ~q.released /\ ShouldBeActive(q) => q.active \/ q.silent_fin

MapInv ==
    /\ qs \in [Streams -> Stream]
    /\ flight \in [Streams -> SUBSET Packet]
    /\ shutting_down \in BOOLEAN
    /\ \A s \in Streams : Sane(qs[s], flight[s], shutting_down) /\ Listed(qs[s])
=============================================================================
