------------------------------ MODULE PacketRx ------------------------------
(***************************************************************************)
(* What a QUIC endpoint does about the packets it receives: the queues of  *)
(* the record layer (quic_record_rx.c), which decrypts the packets of a    *)
(* datagram or defers them until their keys come; the RX half of the ACK   *)
(* manager (quic_ackm.c), which rejects packet numbers it has seen and     *)
(* decides when an ACK is to be sent; and the ACK frames the packetiser    *)
(* sends and the acknowledgements of those frames (quic_txp.c).            *)
(*                                                                         *)
(* The tick of a channel runs to its end under the engine's lock: all      *)
(* pending datagrams are decrypted, then their packets are handled one by  *)
(* one, then packets are sent.  Time passes between ticks.  The network    *)
(* reorders and repeats datagrams.  Initial packets, whose keys are there  *)
(* from the start, are left out.  A packet waits for its keys only before   *)
(* the first ACK of its space, which is never delayed: the time it was     *)
(* received at, from which a delay runs, may be taken for now.             *)
(***************************************************************************)
EXTENDS Integers, Sequences, SequencesExt, FiniteSetsExt

CONSTANTS
    Datagrams,     \* name of a datagram -> the packets coalesced in it
    MaxDelay,      \* tx_max_ack_delay
    MaxRanges,     \* MAX_RX_ACK_RANGES
    FrameRanges,   \* OSSL_NELEM(ackm->ack_ranges), the ranges of an ACK frame
    PktsBeforeAck, \* PKTS_BEFORE_ACK
    MaxDeferred,   \* max_deferred
    MaxCopies,     \* bound: deliveries of one datagram ...
    MaxDeliveries, \* bound: ... and of all of them
    MaxSent        \* bound: packets with an ACK frame sent and not settled

ASSUME PacketRxAssumption ==
    /\ {MaxDelay, MaxCopies, MaxDeliveries, MaxSent} \subseteq Nat
    /\ {MaxRanges, FrameRanges, PktsBeforeAck, MaxDeferred} \subseteq Nat \ {0}

HANDSHAKE == 1
APP == 2
Spaces == {HANDSHAKE, APP}
Packets == UNION {Range(Datagrams[d]) : d \in DOMAIN Datagrams}

\* The set of packet numbers, of a width that they do not reach.
PnSet == INSTANCE UintSet WITH
    Width <- Max({p.pn : p \in Packets}) + 2, items <- <<>>, contents <- {}, fresh <- TRUE

NoDeadline == -1

VARIABLES
    keys,         \* "none", "have" or "discarded" for each encryption level
    allow_1rtt,
    urx_pending, urx_deferred, \* lists of QUIC_URXE
    num_deferred,
    rx_pending,   \* list of decrypted packets (RXE)
    reading,      \* whether qrx_process_pending_urxl is in its loop
    rx,           \* the RX state of the ACK manager, by space
    want_ack,     \* txp->want_ack
    sent,         \* packets with an ACK frame that are sent and not settled
    delivered,    \* environment: how often each datagram was delivered
    handled,      \* how often the frames of each packet were handled
    due           \* eliciting packets recorded since the last ACK frame, and since when

qrx == <<urx_pending, urx_deferred, num_deferred, rx_pending, reading>>
vars == <<keys, allow_1rtt, qrx, rx, want_ack, sent, delivered, handled, due>>

Urxes == [dgram : DOMAIN Datagrams, processed : SUBSET Nat, deferred : BOOLEAN]
Fresh(d) == [dgram |-> d, processed |-> {}, deferred |-> FALSE]

NewRx == [set |-> <<>>, watermark |-> 0, ack |-> <<>>, generated |-> FALSE,
          desired |-> FALSE, count |-> 0, flush |-> NoDeadline]

\* No tick is under way, but for datagrams the demuxer has already passed on.
Idle == ~reading /\ rx_pending = <<>>

----------------------------------------------------------------------------
(* The record of received packet numbers.                                  *)

\* ossl_ackm_is_rx_pn_processable
Processable(r, pn) == pn >= r.watermark /\ ~PnSet!Query(r.set, pn)

\* rx_pkt_history_bump_watermark
BumpWatermark(r, w) ==
    IF w <= r.watermark THEN r
    ELSE [r EXCEPT !.set = PnSet!RemoveFrom(@, PnSet!Item(0, w - 1)), !.watermark = w]

\* Mutant: the lowest ranges are dropped, the watermark stays.
TrimRangeCount_NoBump(r) ==
    [r EXCEPT !.set = SubSeq(@, Max({0, Len(@) - MaxRanges}) + 1, Len(@))]

\* rx_pkt_history_trim_range_count
TrimRangeCount(r) ==
    LET excess == Len(r.set) - MaxRanges
    IN  IF excess <= 0 THEN r ELSE BumpWatermark(r, r.set[excess].end + 1)

\* rx_pkt_history_add_pn
AddPn(r, pn) ==
    IF pn < r.watermark THEN r
    ELSE TrimRangeCount([r EXCEPT !.set = PnSet!InsertInto(@, PnSet!Item(pn, pn))])

InRange(x, pn) == x.start <= pn /\ pn <= x.end

\* ackm_is_missing: an ACK frame we generated implies that pn was not received.
IsMissing(r, pn) ==
    r.ack # <<>> /\ pn <= r.ack[1].end /\ ~\E i \in DOMAIN r.ack : InRange(r.ack[i], pn)

\* ackm_has_newly_missing
HasNewlyMissing(r) ==
    /\ r.set # <<>> /\ r.ack # <<>>
    /\ Last(r.set).start = Last(r.set).end
    /\ Last(r.set).start > r.ack[1].end + 1

\* ackm_queue_ack
QueueAck(r) == [r EXCEPT !.desired = TRUE, !.flush = NoDeadline]

\* The delay of ACKs: none before 1-RTT.
Delay(s) == IF s = APP THEN MaxDelay ELSE 0

\* Mutant: below the threshold no deadline is set.
OnRxAckEliciting_NoDeadline(r, s, missing) ==
    IF r.desired THEN r
    ELSE LET c == [r EXCEPT !.count = @ + 1]
         IN  IF ~c.generated \/ missing \/ c.count >= PktsBeforeAck \/ HasNewlyMissing(c)
             THEN QueueAck(c)
             ELSE c

\* ackm_on_rx_ack_eliciting
OnRxAckEliciting(r, s, missing) ==
    IF r.desired THEN r
    ELSE LET c == [r EXCEPT !.count = @ + 1]
         IN  IF ~c.generated \/ missing \/ c.count >= PktsBeforeAck \/ HasNewlyMissing(c)
             THEN QueueAck(c)
             ELSE [c EXCEPT !.flush = IF @ = NoDeadline THEN Delay(s) ELSE Min({@, Delay(s)})]

\* ossl_ackm_on_rx_packet
OnRxPacket(r, p) ==
    IF ~Processable(r, p.pn) THEN r
    ELSE IF p.eliciting THEN OnRxAckEliciting(AddPn(r, p.pn), p.space, IsMissing(r, p.pn))
    ELSE AddPn(r, p.pn)

\* ossl_ackm_is_ack_desired
IsAckDesired(s) == rx[s].desired \/ rx[s].flush = 0

\* ackm_fill_rx_ack_ranges: the highest ranges first
FillRxAckRanges(r) ==
    LET top == Reverse(r.set) IN SubSeq(top, 1, Min({FrameRanges, Len(top)}))

\* ossl_ackm_get_ack_frame
GetAckFrame(r) ==
    [r EXCEPT !.ack = FillRxAckRanges(r), !.count = 0, !.generated = TRUE,
              !.desired = FALSE, !.flush = NoDeadline]

----------------------------------------------------------------------------
(* The record layer.                                                       *)

Init ==
    /\ keys = [s \in Spaces |-> "none"]
    /\ allow_1rtt = FALSE
    /\ urx_pending = <<>> /\ urx_deferred = <<>> /\ num_deferred = 0
    /\ rx_pending = <<>> /\ reading = FALSE
    /\ rx = [s \in Spaces |-> NewRx]
    /\ want_ack = {} /\ sent = {}
    /\ delivered = [d \in DOMAIN Datagrams |-> 0]
    /\ handled = [p \in Packets |-> 0]
    /\ due = {}

\* ossl_qrx_inject_urxe, called by the demuxer before the channels tick
Inject(d) ==
    /\ Idle
    /\ delivered[d] < MaxCopies
    /\ FoldFunction(+, 0, delivered) < MaxDeliveries
    /\ delivered' = [delivered EXCEPT ![d] = @ + 1]
    /\ urx_pending' = Append(urx_pending, Fresh(d))
    /\ UNCHANGED <<keys, allow_1rtt, urx_deferred, num_deferred, rx_pending, reading, rx,
                   want_ack, sent, handled, due>>

\* qrx_process_pkt: what becomes of packet p
CannotDecrypt(p) == keys[p.space] = "none" \/ (p.space = APP /\ keys[APP] = "have" /\ ~allow_1rtt)
Decrypted(p) == keys[p.space] = "have" /\ ~CannotDecrypt(p) /\ Processable(rx[p.space], p.pn)

\* Indices of the packets of e that are deferred, and that are passed on.
DeferredIn(e) ==
    {i \in DOMAIN Datagrams[e.dgram] : i \notin e.processed /\ CannotDecrypt(Datagrams[e.dgram][i])}
DecryptedIn(e) ==
    {i \in DOMAIN Datagrams[e.dgram] : i \notin e.processed /\ Decrypted(Datagrams[e.dgram][i])}

\* The packets of e that are passed on, in the order of the datagram.
Rxes(e) ==
    LET idx == SetToSortSeq(DecryptedIn(e), <)
    IN  [k \in DOMAIN idx |-> Datagrams[e.dgram][idx[k]]]

\* qrx_process_one_urxe and qrx_process_datagram
ProcessOneUrxe ==
    /\ urx_pending # <<>>
    /\ Idle \/ reading
    /\ LET e == Head(urx_pending)
           defer == DeferredIn(e) # {} /\ (e.deferred \/ num_deferred < MaxDeferred)
           kept == [e EXCEPT !.processed = DOMAIN Datagrams[e.dgram] \ DeferredIn(e),
                             !.deferred = TRUE]
       IN  /\ rx_pending' = rx_pending \o Rxes(e)
           /\ urx_deferred' = IF defer THEN Append(urx_deferred, kept) ELSE urx_deferred
           /\ num_deferred' = num_deferred + (IF defer THEN 1 ELSE 0)
                                           - (IF e.deferred THEN 1 ELSE 0)
    /\ urx_pending' = Tail(urx_pending)
    /\ reading' = (urx_pending' # <<>>)
    /\ UNCHANGED <<keys, allow_1rtt, rx, want_ack, sent, delivered, handled, due>>

\* qrx_requeue_deferred
RequeueDeferred ==
    /\ urx_pending' = urx_pending \o urx_deferred
    /\ urx_deferred' = <<>>
    /\ UNCHANGED <<num_deferred, rx_pending, reading>>

\* ossl_qrx_provide_secret, called by the TLS handshake: the keys of 1-RTT
\* packets come of handshake packets.
ProvideSecret(s) ==
    /\ ~reading
    /\ keys[s] = "none"
    /\ s = APP => \E p \in Packets : p.space = HANDSHAKE /\ handled[p] > 0
    /\ keys' = [keys EXCEPT ![s] = "have"]
    /\ RequeueDeferred
    /\ UNCHANGED <<allow_1rtt, rx, want_ack, sent, delivered, handled, due>>

\* Mutant: what was deferred is not looked at again.
Allow1rttProcessing_NoRequeue ==
    /\ ~reading
    /\ keys[APP] = "have" /\ ~allow_1rtt
    /\ allow_1rtt' = TRUE
    /\ UNCHANGED <<keys, qrx, rx, want_ack, sent, delivered, handled, due>>

\* ossl_qrx_allow_1rtt_processing, called when the handshake is complete
Allow1rttProcessing ==
    /\ ~reading
    /\ keys[APP] = "have" /\ ~allow_1rtt
    /\ allow_1rtt' = TRUE
    /\ RequeueDeferred
    /\ UNCHANGED <<keys, rx, want_ack, sent, delivered, handled, due>>

\* ch_discard_el for the handshake level, when the handshake is confirmed
DiscardEl ==
    /\ ~reading
    /\ allow_1rtt /\ keys[HANDSHAKE] = "have"
    /\ keys' = [keys EXCEPT ![HANDSHAKE] = "discarded"]
    /\ rx' = [rx EXCEPT ![HANDSHAKE].set = <<>>]
    /\ sent' = {k \in sent : k.space # HANDSHAKE}
    /\ due' = {x \in due : x.space # HANDSHAKE}
    /\ UNCHANGED <<allow_1rtt, qrx, want_ack, delivered, handled>>

----------------------------------------------------------------------------
(* Handling packets and sending ACKs.                                      *)

\* Packets of ours that packet p of the peer may acknowledge: the peer had
\* sent all that they acknowledge before it sent p.
Acknowledgeable(p) == {k \in sent : k.space = p.space /\ k.largest < p.pn}

\* ackm_on_pkts_acked, as far as the receiver is concerned
OnAcked(r, acked) ==
    BumpWatermark(r, Max({0} \cup {k.largest + 1 : k \in {k \in acked : k.inflight}}))

\* ch_rx_handle_packet and ossl_quic_handle_frames: the frames of the packet,
\* an ACK frame among them, are handled before the packet is recorded.
HandlePacket ==
    /\ ~reading /\ rx_pending # <<>>
    /\ LET p == Head(rx_pending)
           s == p.space
       IN  \/ /\ keys[s] = "discarded"
              /\ UNCHANGED <<rx, sent, handled, due>>
           \/ /\ keys[s] # "discarded"
              /\ handled' = [handled EXCEPT ![p] = @ + 1]
              /\ \E acked \in {{}} \cup {{k} : k \in Acknowledgeable(p)} :
                    LET r == OnAcked(rx[s], acked)
                    IN  /\ rx' = [rx EXCEPT ![s] = OnRxPacket(r, p)]
                        /\ sent' = sent \ acked
                        /\ due' = due \cup (IF p.eliciting /\ Processable(r, p.pn)
                                            THEN {[space |-> s, pn |-> p.pn, waited |-> 0]}
                                            ELSE {})
    /\ rx_pending' = Tail(rx_pending)
    /\ UNCHANGED <<keys, allow_1rtt, urx_pending, urx_deferred, num_deferred, reading,
                   want_ack, delivered>>

\* txp_generate_pre_token and txp_pkt_commit: an ACK frame is sent, with other
\* frames or alone.  A frame without ranges is not encoded.
SendAck(s, inflight) ==
    /\ Idle /\ urx_pending = <<>>
    /\ keys[s] = "have"
    /\ IsAckDesired(s) \/ s \in want_ack
    /\ rx' = [rx EXCEPT ![s] = GetAckFrame(@)]
    /\ due' = {x \in due : x.space # s}
    /\ \/ /\ rx[s].set = <<>>
          /\ UNCHANGED <<want_ack, sent>>
       \/ /\ rx[s].set # <<>>
          /\ want_ack' = want_ack \ {s}
          /\ Cardinality(sent) < MaxSent
          /\ sent' = sent \cup {[space |-> s, largest |-> Last(rx[s].set).end, inflight |-> inflight]}
    /\ UNCHANGED <<keys, allow_1rtt, qrx, delivered, handled>>

\* A packet with an ACK frame is declared lost (fifd on_lost, on_regen_notify).
AckLost(k) ==
    /\ Idle /\ urx_pending = <<>>
    /\ k \in sent
    /\ sent' = sent \ {k}
    /\ want_ack' = want_ack \cup {k.space}
    /\ UNCHANGED <<keys, allow_1rtt, qrx, rx, delivered, handled, due>>

\* Time passes between two ticks.
Elapse ==
    /\ Idle /\ urx_pending = <<>>
    /\ \E s \in Spaces : rx[s].flush > 0
    /\ rx' = [s \in Spaces |-> [rx[s] EXCEPT !.flush = IF @ > 0 THEN @ - 1 ELSE @]]
    /\ due' = {[x EXCEPT !.waited = Min({@ + 1, MaxDelay})] : x \in due}
    /\ UNCHANGED <<keys, allow_1rtt, qrx, want_ack, sent, delivered, handled>>

Next ==
    \/ \E d \in DOMAIN Datagrams : Inject(d)
    \/ ProcessOneUrxe
    \/ \E s \in Spaces : ProvideSecret(s)
    \/ Allow1rttProcessing
    \/ DiscardEl
    \/ HandlePacket
    \/ \E s \in Spaces, inflight \in BOOLEAN : SendAck(s, inflight)
    \/ \E k \in sent : AckLost(k)
    \/ Elapse

Spec == Init /\ [][Next]_vars

----------------------------------------------------------------------------
(* Properties.                                                             *)

TypeOK ==
    /\ keys \in [Spaces -> {"none", "have", "discarded"}] /\ allow_1rtt \in BOOLEAN
    /\ urx_pending \in Seq(Urxes) /\ urx_deferred \in Seq(Urxes) /\ num_deferred \in Nat
    /\ want_ack \subseteq Spaces /\ reading \in BOOLEAN
    /\ sent \subseteq [space : Spaces, largest : Nat, inflight : BOOLEAN]
    /\ handled \in [Packets -> Nat]

Copies(p) == Cardinality({i \in DOMAIN rx_pending : rx_pending[i] = p})

\* Once the frames of a packet were handled, no copy that is decrypted later is
\* passed on, although its number is forgotten when the ranges kept are too
\* many, when the peer has acknowledged our ACK or when the keys are discarded,
\* and although copies wait, whole or in part, until their keys come.
NoLateDuplicate ==
    [][\A p \in Packets : Copies(p)' > Copies(p) => handled[p] = 0]_vars

\* "Potential duplicates should not be processed" (quic_channel.c), "We must
\* ensure we never process a duplicate PN" (quic_ackm.c): the frames of a packet
\* are handled once.  Not so when two copies are decrypted before the first one
\* is handled, as those of one tick are: numbers are checked at decryption and
\* recorded after the frames.
ProcessedOnce == \A p \in Packets : handled[p] <= 1

\* An eliciting packet is never held back longer than the maximum ACK delay:
\* for every one recorded since the last ACK frame, either an ACK is wanted now
\* or the deadline falls within what is left of its delay.
AckTimely ==
    \A x \in due :
        PnSet!Query(rx[x.space].set, x.pn) =>
            \/ IsAckDesired(x.space)
            \/ /\ rx[x.space].flush # NoDeadline
               /\ rx[x.space].flush + x.waited <= Delay(x.space)

\* A datagram stays in the deferred list only for keys that have not come, or
\* for the end of the handshake, and the list keeps within its limit.
DeferredNotForgotten ==
    /\ \A e \in Range(urx_deferred) : DeferredIn(e) # {}
    /\ num_deferred <= MaxDeferred
    /\ num_deferred = Len(urx_deferred) + Len(SelectSeq(urx_pending, LAMBDA e : e.deferred))

\* "The PN should be included in any future ACK frame we generate": the frame
\* an ACK manager would generate covers the set of received packet numbers.
FrameCoversAll ==
    \A s \in Spaces : Len(FillRxAckRanges(rx[s])) = Len(rx[s].set)
=============================================================================
