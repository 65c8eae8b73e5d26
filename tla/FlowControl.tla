---------------------------- MODULE FlowControl ----------------------------
(***************************************************************************)
(* QUIC flow control in one direction: the TX flow controllers of a sender *)
(* and the RX flow controllers of a receiver (ssl/quic/quic_fc.c), driven  *)
(* by the packetiser (quic_txp.c), the frame handlers (quic_rx_depack.c),  *)
(* the in-flight frame dispatcher (quic_fifd.c, its on_regen_notify) and   *)
(* the applications at both ends.                                          *)
(*                                                                         *)
(* A controller belongs to a target: a stream, or the connection Conn, the *)
(* parent of all of them.  Bytes are counted, not named.  Packets may be   *)
(* lost, repeated, delayed and reordered: a STREAM frame can arrive with   *)
(* any end up to what was sent (retransmissions are cut anew), and a       *)
(* MAX_DATA or MAX_STREAM_DATA frame arrives at any time after it was sent *)
(* or never.                                                               *)
(***************************************************************************)
EXTENDS Integers, FiniteSets

CONSTANTS
    Streams,       \* streams on which the sender sends
    Duplex,        \* those of them on which the receiver sends data as well
    Conn,          \* the connection
    InitWindow,    \* initial window of a target (transport parameters)
    MaxWindow,     \* largest window of a target
    Closings,      \* how applications end a stream: "fin", "reset", "stop"
    Limit,         \* bound: bytes the application writes to one stream
    MaxPackets     \* bound: packets of one target with MAX frames under way

Targets == Streams \cup {Conn}

Larger(a, b) == IF a >= b THEN a ELSE b
Smaller(a, b) == IF a <= b THEN a ELSE b

ASSUME FlowControlAssumption ==
    /\ IsFiniteSet(Streams)
    /\ Conn \notin Streams
    /\ Duplex \subseteq Streams
    /\ InitWindow \in [Targets -> Nat \ {0}]
    /\ MaxWindow \in [Targets -> Nat]
    /\ \A k \in Targets : InitWindow[k] <= MaxWindow[k]
    /\ Closings \in [Streams -> SUBSET {"fin", "reset", "stop"}]
    /\ Limit \in Nat
    /\ MaxPackets \in Nat

VARIABLES
    tx,      \* TX controllers of the sender: swm, cwm
    ended,   \* which of FIN and RESET_STREAM the sender has sent on a stream
    rx,      \* RX controllers of the receiver
    recv,    \* receive part of a stream at the receiver
    stop,    \* stop_sending: the receiver's application gave a stream up
    want,    \* want_max_data, want_max_stream_data of the packetiser
    net,     \* values of MAX frames sent in packets that have not arrived
    flying,  \* those in packets neither acknowledged nor declared lost
    term     \* the receiver has closed the connection with a protocol error

vars == <<tx, ended, rx, recv, stop, want, net, flying, term>>

RecvStates == {"recv", "size_known", "reset"}
Errors == {"none", "flow_control", "final_size"}

\* The number of bytes when stream s carries n[s] of them.
Total(n) == Cardinality({p \in Streams \X (1 .. Limit) : p[2] <= n[p[1]]})

----------------------------------------------------------------------------
(* TX flow controllers.                                                    *)

\* ossl_quic_txfc_get_credit_local
TxCredit(k, consumed) == tx[k].cwm - (consumed + tx[k].swm)

\* Mutant: a late MAX frame takes credit back.
BumpCwm_NoGuard(fc, cwm) == [fc EXCEPT !.cwm = cwm]

\* ossl_quic_txfc_bump_cwm
BumpCwm(fc, cwm) == [fc EXCEPT !.cwm = Larger(@, cwm)]

\* ossl_quic_txfc_consume_credit_local: never beyond the credit.
Consume(fc, n) == [fc EXCEPT !.swm = Smaller(fc.cwm, @ + n)]

\* Mutant: conn_consumed is not handed on from stream to stream.
Plan_NoConsumed(n) ==
    \A s \in Streams : n[s] <= TxCredit(s, 0) /\ n[s] <= TxCredit(Conn, 0)

\* One packet with n[s] new bytes of each stream.  txp_plan_stream_chunk clamps
\* a stream by its own credit and by what the streams before it in the packet
\* left of the connection's.
Plan(n) == /\ \A s \in Streams : n[s] <= TxCredit(s, 0)
           /\ Total(n) <= TxCredit(Conn, 0)

TxPacket(n) ==
    /\ Plan(n)
    /\ \E s \in Streams : n[s] > 0
    /\ \A s \in Streams : /\ ended[s] # {} => n[s] = 0
                          /\ tx[s].swm + n[s] <= Limit
    /\ tx' = [k \in Targets |-> Consume(tx[k], IF k = Conn THEN Total(n) ELSE n[k])]
    /\ UNCHANGED <<ended, rx, recv, stop, want, net, flying, term>>

\* FIN goes with the last byte the application writes; RESET_STREAM takes the
\* final size from the controller, or that of the FIN.  Neither consumes credit.
TxEnd(s, how) ==
    /\ "reset" \notin ended[s]
    /\ how \notin ended[s]
    /\ ended' = [ended EXCEPT ![s] = @ \cup {how}]
    /\ UNCHANGED <<tx, rx, recv, stop, want, net, flying, term>>

\* depack_do_frame_max_data, depack_do_frame_max_stream_data
RxMax(k, v) ==
    /\ v \in net[k]
    /\ tx' = [tx EXCEPT ![k] = BumpCwm(@, v)]
    /\ net' = [net EXCEPT ![k] = @ \ {v}]
    /\ UNCHANGED <<ended, rx, recv, stop, want, flying, term>>

----------------------------------------------------------------------------
(* RX flow controllers.                                                    *)

\* on_rx_controlled_bytes
OnRx(fc, n) ==
    IF n > fc.cwm - fc.swm
    THEN [fc EXCEPT !.swm = fc.cwm, !.error = "flow_control"]
    ELSE [fc EXCEPT !.swm = @ + n]

\* Mutant: the connection is charged for the whole frame.
OnRxStreamFrame_Recount(s, end, fin) ==
    IF end > rx[s].hwm
    THEN [rx EXCEPT ![s] = [OnRx(@, end - rx[s].hwm)
                            EXCEPT !.hwm = end, !.fin = @ \/ fin],
                    ![Conn] = OnRx(@, end)]
    ELSE [rx EXCEPT ![s].fin = @ \/ fin]

\* ossl_quic_rxfc_on_rx_stream_frame: a stream counts only bytes beyond its
\* high-water mark, and passes that number on to the connection.
OnRxStreamFrame(s, end, fin) ==
    LET fc == rx[s]
        new == end - fc.hwm
    IN  IF fc.fin /\ ((fin /\ new # 0) \/ new > 0)
        THEN [rx EXCEPT ![s] = [fc EXCEPT !.error = "final_size"]]
        ELSE IF new > 0
        THEN [rx EXCEPT ![s] = [OnRx(fc, new) EXCEPT !.hwm = end, !.fin = fc.fin \/ fin],
                        ![Conn] = OnRx(rx[Conn], new)]
        ELSE [rx EXCEPT ![s] = [fc EXCEPT !.fin = fc.fin \/ fin,
                                          !.error = IF fin /\ new < 0
                                                    THEN "final_size" ELSE fc.error]]

\* rxfc_cwm_bump_desired: at most 3/4 of the window is left, no final size.
BumpDesired(fc) == ~fc.fin /\ fc.cwm - fc.rwm <= (3 * fc.win) \div 4

\* rxfc_adjust_window_size: the window doubles when the application empties it
\* within four round trips, a matter of time and so a choice here.  For the
\* connection, min is the window of the stream that was read.
Window(fc, max, min, fast) ==
    Smaller(max, Larger(min, IF fast THEN 2 * fc.win ELSE fc.win))

\* rxfc_on_retire, rxfc_update_cwm
OnRetire(fc, n, max, min, fast) ==
    LET r == [fc EXCEPT !.rwm = @ + n]
        w == Window(r, max, min, fast)
    IN  IF ~BumpDesired(r) THEN r
        ELSE [r EXCEPT !.win = w,
                       !.cwm = Larger(@, r.rwm + w),
                       !.changed = @ \/ r.rwm + w > r.cwm]

----------------------------------------------------------------------------
(* The receiver.                                                           *)

\* depack_do_frame_stream: the controllers, the error check (the stream's
\* error only), the size-known transition.
RxStream(s, end, fin) ==
    /\ ~term
    /\ rx' = OnRxStreamFrame(s, end, fin)
    /\ term' = (rx'[s].error # "none")
    /\ recv' = IF fin /\ recv[s] = "recv" /\ ~term'
               THEN [recv EXCEPT ![s] = "size_known"] ELSE recv
    /\ UNCHANGED <<tx, ended, stop, want, net, flying>>

\* depack_do_frame_reset_stream: the unread data is discarded, unless all of it
\* was read.
RxReset(s, final) ==
    /\ ~term
    /\ rx' = OnRxStreamFrame(s, final, TRUE)
    /\ term' = (rx'[s].error # "none")
    /\ recv' = IF term' \/ (recv[s] = "size_known" /\ rx[s].rwm = rx[s].hwm)
               THEN recv ELSE [recv EXCEPT ![s] = "reset"]
    /\ UNCHANGED <<tx, ended, stop, want, net, flying>>

\* Frames the sender of this model can have sent.
DeliverStream(s) ==
    \E end \in 0 .. tx[s].swm, fin \in BOOLEAN :
        /\ fin => "fin" \in ended[s] /\ end = tx[s].swm
        /\ RxStream(s, end, fin)

DeliverReset(s) == "reset" \in ended[s] /\ RxReset(s, tx[s].swm)

\* quic_read_actual -> ossl_quic_rxfc_on_retire
Read(s, n, fast, connFast) ==
    /\ ~term
    /\ recv[s] # "reset" /\ ~stop[s]
    /\ rx[s].rwm + n <= rx[s].swm
    /\ LET fc == OnRetire(rx[s], n, MaxWindow[s], 0, fast)
       IN  rx' = [rx EXCEPT ![s] = fc,
                            ![Conn] = OnRetire(@, n, MaxWindow[Conn], fc.win, connFast)]
    /\ UNCHANGED <<tx, ended, recv, stop, want, net, flying, term>>

\* ossl_quic_stream_map_stop_sending_recv_part
StopSending(s) ==
    /\ "stop" \in Closings[s]
    /\ ~term
    /\ recv[s] # "reset" /\ ~stop[s]
    /\ stop' = [stop EXCEPT ![s] = TRUE]
    /\ UNCHANGED <<tx, ended, rx, recv, want, net, flying, term>>

\* txp_generate_for_el, txp_generate_stream_related and txp_pkt_commit: a MAX
\* frame carries the current credit mark, and its flags are cleared.
TxMax(k) ==
    /\ ~term
    /\ want[k] \/ rx[k].changed
    /\ Cardinality(flying[k]) < MaxPackets
    /\ k \in Streams => recv[k] = "recv"
    /\ net' = [net EXCEPT ![k] = @ \cup {rx[k].cwm}]
    /\ flying' = [flying EXCEPT ![k] = @ \cup {rx[k].cwm}]
    /\ want' = [want EXCEPT ![k] = FALSE]
    /\ rx' = [rx EXCEPT ![k].changed = FALSE]
    /\ UNCHANGED <<tx, ended, recv, stop, term>>

\* fifd_on_acked: the packet arrived and is done with.
MaxAcked(k, v) ==
    /\ v \in flying[k] \ net[k]
    /\ flying' = [flying EXCEPT ![k] = @ \ {v}]
    /\ UNCHANGED <<tx, ended, rx, recv, stop, want, net, term>>

\* Mutant: a lost MAX frame is forgotten.
Regen_None(k, chunk) == want

\* on_regen_notify: the frame is to be generated again.  A lost packet is known
\* to have had MAX_DATA, and so MAX_DATA always is.  MAX_STREAM_DATA leaves no
\* trace of its own: it is regenerated for the streams of which the packet has
\* a chunk of data, and which still have a send buffer.
Regen(k, chunk) == IF k = Conn \/ chunk THEN [want EXCEPT ![k] = TRUE] ELSE want

\* fifd_on_lost: the packet was declared lost, rightly or because it is late.
MaxLost(k, v, chunk, late) ==
    /\ v \in flying[k]
    /\ chunk => k \in Duplex
    /\ flying' = [flying EXCEPT ![k] = @ \ {v}]
    /\ net' = IF late THEN net ELSE [net EXCEPT ![k] = @ \ {v}]
    /\ want' = Regen(k, chunk)
    /\ UNCHANGED <<tx, ended, rx, recv, stop, term>>

\* fifd_on_lost for a packet with a chunk of stream s and no MAX frame.
ChunkLost(s) ==
    /\ s \in Duplex
    /\ want' = Regen(s, TRUE)
    /\ UNCHANGED <<tx, ended, rx, recv, stop, net, flying, term>>

----------------------------------------------------------------------------
(* The specification.                                                      *)

\* ossl_quic_rxfc_init with the window of the transport parameters, of which
\* the sender learns through ossl_quic_txfc_bump_cwm.
Init ==
    /\ tx = [k \in Targets |-> [swm |-> 0, cwm |-> InitWindow[k]]]
    /\ ended = [s \in Streams |-> {}]
    /\ rx = [k \in Targets |->
                [swm |-> 0, cwm |-> InitWindow[k], rwm |-> 0, hwm |-> 0,
                 win |-> InitWindow[k], fin |-> FALSE, changed |-> FALSE,
                 error |-> "none"]]
    /\ recv = [s \in Streams |-> "recv"]
    /\ stop = [s \in Streams |-> FALSE]
    /\ want = [k \in Targets |-> FALSE]
    /\ net = [k \in Targets |-> {}]
    /\ flying = [k \in Targets |-> {}]
    /\ term = FALSE

TxSome == \E n \in [Streams -> 0 .. Limit] : TxPacket(n)

ReadSome(s) ==
    \E n \in 1 .. Limit, fast, connFast \in BOOLEAN : Read(s, n, fast, connFast)

\* The latest credit mark arrives while its packet is in flight.
RxLatest(k) == rx[k].cwm \in flying[k] /\ RxMax(k, rx[k].cwm)

Resolve(k) ==
    \E v \in flying[k] :
        MaxAcked(k, v) \/ \E chunk, late \in BOOLEAN : MaxLost(k, v, chunk, late)

Next ==
    \/ TxSome
    \/ \E s \in Streams :
        \/ \E how \in Closings[s] \ {"stop"} : TxEnd(s, how)
        \/ DeliverStream(s)
        \/ DeliverReset(s)
        \/ ReadSome(s)
        \/ StopSending(s)
        \/ ChunkLost(s)
    \/ \E k \in Targets :
        \/ TxMax(k)
        \/ \E v \in net[k] : RxMax(k, v)
        \/ Resolve(k)

Spec == Init /\ [][Next]_vars

\* The highest frame sent arrives in the end: the data is retransmitted until
\* it is acknowledged.
DeliverAll(s) == RxStream(s, tx[s].swm, FALSE)

\* Both packetisers run whenever they have something to send, the receiver's
\* application reads, every packet is acknowledged or declared lost, and a
\* credit mark that is sent again and again arrives.
FairSpec ==
    /\ Spec
    /\ WF_vars(TxSome)
    /\ \A s \in Streams : WF_vars(DeliverAll(s)) /\ WF_vars(ReadSome(s))
    /\ \A k \in Targets :
        /\ WF_vars(TxMax(k))
        /\ WF_vars(Resolve(k))
        /\ SF_vars(RxLatest(k))

\* A peer that sends what it likes.
ErrantNext ==
    \/ Next
    \/ \E s \in Streams, end \in 0 .. Limit, fin \in BOOLEAN : RxStream(s, end, fin)

ErrantSpec == Init /\ [][ErrantNext]_vars

----------------------------------------------------------------------------
(* Properties.                                                             *)

Controller == [swm : Nat, cwm : Nat, rwm : Nat, hwm : Nat, win : Nat,
               fin : BOOLEAN, changed : BOOLEAN, error : Errors]

TypeOK ==
    /\ tx \in [Targets -> [swm : Nat, cwm : Nat]]
    /\ ended \in [Streams -> SUBSET {"fin", "reset"}]
    /\ rx \in [Targets -> Controller]
    /\ \A k \in Targets : rx[k].win \in 1 .. MaxWindow[k]
    /\ recv \in [Streams -> RecvStates]
    /\ stop \in [Streams -> BOOLEAN]
    /\ want \in [Targets -> BOOLEAN]
    /\ net \in [Targets -> SUBSET Nat]
    /\ flying \in [Targets -> SUBSET Nat]
    /\ term \in BOOLEAN

\* A sender that obeys its own controllers is never accused of a flow control
\* or final size error, on a stream or on the connection, however its frames
\* are lost, repeated, cut anew or reordered with MAX frames, FIN and
\* RESET_STREAM.
HonestPeer == ~term /\ \A k \in Targets : rx[k].error = "none"

\* Every byte is counted once, at both ends and at both levels: what the
\* connection has spent and retired is the sum over the streams, and the sender
\* has sent what was received.
BytesCountedOnce ==
    /\ tx[Conn].swm = Total([s \in Streams |-> tx[s].swm])
    /\ rx[Conn].swm = Total([s \in Streams |-> rx[s].swm])
    /\ rx[Conn].rwm = Total([s \in Streams |-> rx[s].rwm])
    /\ \A s \in Streams : rx[s].swm = rx[s].hwm /\ rx[s].hwm <= tx[s].swm

\* The two ends agree on credit: the sender never has more than the receiver
\* gave, and has not spent more (the assertion of
\* ossl_quic_txfc_get_credit_local).
CreditAgreed ==
    \A k \in Targets : tx[k].swm <= tx[k].cwm /\ tx[k].cwm <= rx[k].cwm

\* What the receiver holds for its application is bounded by the largest
\* window, on every stream and on the connection.
BacklogBounded ==
    \A k \in Targets : rx[k].rwm <= rx[k].swm /\ rx[k].swm - rx[k].rwm <= MaxWindow[k]

\* Credit that was granted on the connection and has not reached the sender is
\* on its way: the receiver will generate MAX_DATA, or the latest value is in
\* flight.
GrantNotForgotten ==
    tx[Conn].cwm < rx[Conn].cwm
        => want[Conn] \/ rx[Conn].changed \/ rx[Conn].cwm \in flying[Conn]

\* What the properties above rest on, step by step.  The application writes
\* within the bound and reads what has arrived; a final size that the receiver
\* knows is the sender's, who sends no more; every MAX frame on its way is a
\* credit mark the receiver had, and one that was lost to the network and not
\* yet to the sender's records has arrived; a credit mark is at most the largest
\* window ahead of what was retired.
FlowInv ==
    /\ TypeOK /\ HonestPeer /\ BytesCountedOnce /\ CreditAgreed /\ GrantNotForgotten
    /\ \A s \in Streams :
        /\ tx[s].swm <= Limit
        /\ rx[s].rwm <= rx[s].swm
        /\ rx[s].fin => ended[s] # {} /\ rx[s].hwm = tx[s].swm
    /\ \A k \in Targets :
        /\ \A v \in net[k] \cup flying[k] : v <= rx[k].cwm
        /\ \A v \in flying[k] \ net[k] : v <= tx[k].cwm
        /\ rx[k].cwm <= rx[k].rwm + MaxWindow[k]

\* The marks of both ends before and after a step.
MarksGrow ==
    \A k \in Targets : /\ tx[k].swm <= tx'[k].swm /\ tx[k].cwm <= tx'[k].cwm
                       /\ rx[k].swm <= rx'[k].swm /\ rx[k].cwm <= rx'[k].cwm

\* Credit marks and spent marks never decrease (ossl_quic_rxfc_get_cwm: "This
\* value increases monotonically").
MarksMonotone == [][MarksGrow]_vars

\* A stream was given up with bytes that will not be retired any more.  The
\* connection never gets that part of its window back.
Abandoned ==
    \E s \in Streams : (recv[s] = "reset" \/ stop[s]) /\ rx[s].rwm < tx[s].swm

\* All the data of a stream gets through: an application that reads is never
\* left with a sender that waits for credit, whichever MAX frames are lost,
\* unless a stream was abandoned.
DataFlows ==
    \A s \in Streams :
        <>(tx[s].swm = Limit \/ ended[s] # {} \/ Abandoned
           \/ recv[s] # "recv" \/ stop[s])

\* "You should check [...] both connection-level and stream-level RXFCs": a
\* peer that exceeds the connection's credit has the connection closed.
ErrantPeerStopped == rx[Conn].error # "none" => term
=============================================================================
