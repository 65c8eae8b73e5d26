---------------------------- MODULE LossRecovery ----------------------------
(***************************************************************************)
(* What a QUIC endpoint does about the packets it sent: the TX half of the *)
(* ACK manager (quic_ackm.c), the in-flight frame dispatcher and the       *)
(* control frame queue it drives (quic_fifd.c, quic_cfq.c, quic_txpim.c),  *)
(* the congestion controller (module NewReno), and the part of the         *)
(* packetiser and of the channel's tick that turns probe requests, queued  *)
(* frames and the amplification limit into packets (quic_txp.c,            *)
(* quic_channel.c).                                                        *)
(*                                                                         *)
(* Time.  A time is the number of packets sent so far; `cutoff' is         *)
(* lost_send_time, the send time before which a packet is older than       *)
(* loss_delay, and only moves forward.  A probe timeout may fire at any    *)
(* time while it is armed; pto_count, which only lengthens it, is left     *)
(* out.  Every packet is one unit of bytes long.                           *)
(*                                                                         *)
(* The peer is honest and the network loses packets and ACKs, delays them  *)
(* and repeats them.                                                       *)
(***************************************************************************)
EXTENDS NewReno

CONSTANTS
    Items,       \* the addresses of QUIC_CFQ_ITEM
    Threshold,   \* K_PKT_THRESHOLD
    Servers,     \* the values of is_server that are explored
    MaxPackets,  \* bound: no datagram is sent after that many packets
    MaxDrops,    \* bound: packets and ACKs the network loses
    MaxRx,       \* bound: packets received that want an ACK ...
    RxSpaces,    \* bound: ... and the spaces they are received in
    MaxEarly,    \* bound: probe timeouts that fire while an ACK is on its way
    MaxProbes,   \* bound: probe requests pending for one space
    MaxFrames,   \* bound: frames queued
    MaxRetry     \* bound: Retry packets the client obeys

ASSUME LossRecoveryAssumption ==
    /\ Threshold \in Nat \ {0} /\ Servers \subseteq BOOLEAN /\ RxSpaces \subseteq Nat
    /\ {MaxPackets, MaxDrops, MaxRx, MaxEarly, MaxProbes, MaxFrames,
        MaxRetry} \subseteq Nat

VARIABLES
    is_server,
    hist,         \* tx_history: the packets sent and not settled, of all spaces
    next_pn,      \* txp->next_pn
    largest_acked,
    last_eliciting, \* time_of_last_ack_eliciting_pkt, 0 for none
    loss_time,    \* send time of the packet whose loss the timer waits for, 0 for none
    deadline,     \* what loss_detection_deadline stands for
    validated,    \* peer_completed_addr_validation
    confirmed,    \* handshake_confirmed
    provisioned,  \* spaces with TX keys
    discarded,
    probe,        \* pending_probe
    bif,          \* bytes_in_flight
    ae_bif,       \* ack_eliciting_bytes_in_flight
    cc,           \* the congestion controller
    item,         \* the control frame queue
    desired,      \* rx_ack_desired: spaces in which the ACK manager wants an ACK sent
    want_ack,     \* txp->want_ack: spaces in which a lost ACK is to be sent again
    credit,       \* unvalidated_credit, Unlimited for SIZE_MAX
    tick,         \* where the tick of the channel is
    clock, cutoff,
    arrived,      \* environment: packets the network has not lost
    owed,         \* environment: spaces in which the peer has an ACK to send
    used          \* environment: how much of each bound is spent

ackm == <<hist, largest_acked, last_eliciting, loss_time, validated, confirmed,
          discarded, bif, ae_bif>>
net == <<arrived, owed, used>>
vars == <<is_server, ackm, next_pn, deadline, provisioned, probe, cc, item,
          desired, want_ack, credit, tick, clock, cutoff, net>>

INITIAL == 0
HANDSHAKE == 1
APP == 2
Spaces == {INITIAL, HANDSHAKE, APP}
Unlimited == -1

\* A packet: OSSL_ACKM_TX_PKT and what quic_txpim records of its contents
Packets == [space : Spaces, pn : Nat, time : Nat \ {0}, eliciting : BOOLEAN,
            inflight : BOOLEAN, items : SUBSET Items, ack : BOOLEAN]

FreeItem == [state |-> "free", space |-> APP, unreliable |-> FALSE]

Live == provisioned \ discarded

InSpace(P, s) == {p \in P : p.space = s}
InFlight(P) == {p \in P : p.inflight}
Eliciting(P) == {p \in P : p.inflight /\ p.eliciting}
Contents(P) == UNION {p.items : p \in P}

----------------------------------------------------------------------------
(* The loss detection timer.                                               *)

\* ackm_get_loss_time_and_space, comparison by comparison: the loss time of a
\* later space replaces an earlier one when it is smaller, also when it is zero.
LossSpace ==
    LET Later(s, t) == loss_time[s] = 0 \/ loss_time[t] < loss_time[s]
        s1 == IF Later(INITIAL, HANDSHAKE) THEN HANDSHAKE ELSE INITIAL
    IN  IF Later(s1, APP) THEN APP ELSE s1

ElicitingBytes == ae_bif[INITIAL] + ae_bif[HANDSHAKE] + ae_bif[APP]

\* Mutant: no probe timeout runs before the handshake is confirmed.
PtoEligible_Confirmed == {s \in Spaces : confirmed /\ ae_bif[s] > 0 /\ last_eliciting[s] # 0}

\* ackm_get_pto_time_and_space: the spaces whose probe timeout is considered ...
PtoEligible ==
    {s \in Spaces : /\ ae_bif[s] > 0 \/ ~(confirmed \/ is_server)
                    /\ s = APP => confirmed
                    /\ last_eliciting[s] # 0}

\* ... and those that may come out first: the application space waits for
\* max_ack_delay on top, so it may lose to a later packet of another space.
PtoSpaces ==
    {s \in PtoEligible : \A t \in PtoEligible \ {s} :
        IF s = APP THEN last_eliciting[s] < last_eliciting[t]
        ELSE t # APP => \/ last_eliciting[s] < last_eliciting[t]
                        \/ last_eliciting[s] = last_eliciting[t] /\ s < t}

\* ackm_set_loss_detection_timer
LossDetectionTimer ==
    IF loss_time[LossSpace] # 0 THEN "loss"
    ELSE IF ElicitingBytes = 0 THEN IF validated THEN "none" ELSE "pto"
    ELSE IF PtoSpaces = {} THEN "infinite" ELSE "pto"

----------------------------------------------------------------------------
(* Packets that leave the history.                                         *)

\* ackm_detect_and_remove_lost_pkts: of the packets P of one space, those that
\* are given up, and the send time the loss timer of the space waits for.
LostAmong(P, largest, cut) ==
    {p \in P : p.pn <= largest /\ (p.time <= cut \/ largest >= p.pn + Threshold)}

LossTimeAmong(P, largest) ==
    LET waiting == {p.time : p \in {q \in P : q.pn <= largest}}
    IN  IF waiting = {} THEN 0 ELSE Min(waiting)

\* Mutant: a lost frame is not put back among those to send.
MarkLost_Stays(i) == IF item[i].unreliable THEN FreeItem ELSE item[i]

\* ossl_quic_cfq_mark_lost, called by on_lost of the dispatcher
MarkLost(i) == IF item[i].unreliable THEN FreeItem ELSE [item[i] EXCEPT !.state = "new"]

\* The frames of packets that on_acked or on_discarded (ossl_quic_cfq_release)
\* and on_lost are called for
Settle(done, lost) ==
    [i \in Items |-> IF i \in Contents(done) THEN FreeItem
                     ELSE IF i \in Contents(lost) THEN MarkLost(i) ELSE item[i]]

Uncount(P) ==
    /\ bif' = bif - Cardinality(InFlight(P))
    /\ ae_bif' = [s \in Spaces |-> ae_bif[s] - Cardinality(Eliciting(InSpace(P, s)))]

\* on_lost asks for another ACK when an ACK is lost (on_regen_notify)
RegenAck(lost) == want_ack' = want_ack \cup {p.space : p \in {q \in lost : q.ack}}

LostInCC(c, lost) ==
    OnDataLost(c, Cardinality(InFlight(lost)), {p.time : p \in InFlight(lost)}, clock)

\* The n-th latest of the times T
NthLatest(T, n) == CHOOSE t \in T : Cardinality({u \in T : u > t}) = n - 1

\* The controller c after the first n packets, latest first, of those sent at
\* the times T are acknowledged
AckedUpTo(c, T) ==
    LET after[n \in 0 .. Cardinality(T)] ==
            IF n = 0 THEN c ELSE OnDataAcked(after[n - 1], NthLatest(T, n))
    IN  after

AckedInCC(c, acked) ==
    LET times == {p.time : p \in InFlight(acked)}
    IN  AckedUpTo(c, times)[Cardinality(times)]

----------------------------------------------------------------------------
(* Sending.                                                                *)

\* txp_determine_archetype
Archetype ==
    IF probe.anti_initial + probe.anti_handshake > 0 \/ \E s \in Spaces : probe.pto[s] > 0
    THEN "probe"
    ELSE IF TxAllowance(cc) = 0 THEN "ack_only" ELSE "normal"

ProbeWanted(s) ==
    \/ s = INITIAL /\ probe.anti_initial > 0
    \/ s = HANDSHAKE /\ probe.anti_handshake > 0
    \/ probe.pto[s] > 0

Queued(s) == {i \in Items : item[i].state = "new" /\ item[i].space = s}

\* txp_should_try_staging
Staged ==
    {s \in Live : \/ ProbeWanted(s)
                  \/ s \in desired \cup want_ack
                  \/ Archetype # "ack_only" /\ Queued(s) # {}}

\* ossl_quic_tx_packetiser_generate gives the datagram up when it holds an
\* Initial packet and may not be padded
CanPad == INITIAL \in Staged => Archetype # "ack_only"

\* ossl_quic_tx_packetiser_check_unvalidated_credit for the k-th packet
CreditFor(k) == credit = Unlimited \/ credit - (k - 1) > 1

\* The packets of the next datagram, lowest space first; committing stops when
\* the credit does.
Committed ==
    IF ~CanPad THEN {}
    ELSE {s \in Staged : CreditFor(Cardinality({t \in Staged : t <= s}))}

\* txp_generate_for_el
NewPacket(s) ==
    LET items == IF Archetype = "ack_only" THEN {} ELSE Queued(s)
        eliciting == items # {} \/ Archetype = "probe"
    IN  [space |-> s, pn |-> next_pn[s],
         time |-> clock + Cardinality({t \in Committed : t <= s}),
         eliciting |-> eliciting, inflight |-> eliciting \/ s = INITIAL,
         items |-> items, ack |-> s \in desired \cup want_ack]

Decremented(n) == Max({0, n - 1})

\* txp_pkt_commit: the requests that ack-eliciting packets in spaces S answer
ProbeServed(S) ==
    [pto |-> [s \in Spaces |-> IF s \in S THEN Decremented(probe.pto[s]) ELSE probe.pto[s]],
     anti_initial |-> IF INITIAL \in S THEN Decremented(probe.anti_initial)
                      ELSE probe.anti_initial,
     anti_handshake |-> IF HANDSHAKE \in S THEN Decremented(probe.anti_handshake)
                        ELSE probe.anti_handshake]

Datagram == {NewPacket(s) : s \in Committed}

\* ch_tx goes on until nothing was sent.
Ticking == IF Committed # {} /\ clock < MaxPackets THEN "tx" ELSE "idle"

\* ossl_quic_tx_packetiser_generate, txp_pkt_commit, ossl_quic_fifd_pkt_commit
\* and ossl_ackm_on_tx_packet: one datagram of the packets new, of which the
\* network loses those of spaces D.
Generate(new, D) ==
    LET sent == {p.space : p \in new}
        Of(s) == CHOOSE p \in new : p.space = s
    IN  /\ new # {} /\ used.drops + Cardinality(D) <= MaxDrops
        /\ hist' = hist \cup new
        /\ next_pn' = [s \in Spaces |-> next_pn[s] + Cardinality(InSpace(new, s))]
        /\ last_eliciting' = [s \in Spaces |-> IF InSpace(Eliciting(new), s) # {}
                                               THEN Of(s).time ELSE last_eliciting[s]]
        /\ bif' = bif + Cardinality(InFlight(new))
        /\ ae_bif' = [s \in Spaces |-> ae_bif[s] + Cardinality(InSpace(Eliciting(new), s))]
        /\ probe' = ProbeServed({p.space : p \in Eliciting(new)})
        /\ cc' = OnDataSent(cc, Cardinality(InFlight(new)))
        /\ item' = [i \in Items |-> IF i \in Contents(new)
                                    THEN [item[i] EXCEPT !.state = "tx"] ELSE item[i]]
        /\ desired' = desired \ Staged
        /\ want_ack' = want_ack \ sent
        /\ credit' = IF credit = Unlimited THEN Unlimited ELSE credit - Cardinality(new)
        /\ clock' = clock + Cardinality(new)
        /\ arrived' = arrived \cup {<<p.space, p.pn>> : p \in {q \in new : q.space \notin D}}
        /\ owed' = owed \cup {p.space : p \in {q \in Eliciting(new) : q.space \notin D}}
        /\ used' = [used EXCEPT !.drops = @ + Cardinality(D)]
        /\ UNCHANGED <<is_server, largest_acked, loss_time, validated, confirmed,
                       discarded, provisioned, cutoff>>
        /\ deadline' = IF InFlight(new) = {} THEN deadline ELSE LossDetectionTimer'
        /\ tick' = IF ~is_server /\ HANDSHAKE \in sent /\ INITIAL \notin discarded
                   THEN "discard" ELSE Ticking'

\* Staging a packet takes the request for an ACK out of the ACK manager, also
\* when none of the packets is then committed.
GiveUp ==
    /\ tick # "discard" /\ Committed = {} /\ desired \cap Staged # {}
    /\ desired' = desired \ Staged
    /\ UNCHANGED <<is_server, ackm, next_pn, deadline, provisioned, probe, cc, item,
                   want_ack, credit, tick, clock, cutoff, net>>

----------------------------------------------------------------------------
(* Acknowledgement, loss and timeout.                                      *)

\* The send times that loss_delay may have passed by when a packet of space s is
\* looked at: time only goes on.
Cuts(s) == {t \in {cutoff} \cup {p.time : p \in InSpace(hist, s)} : t >= cutoff}

\* What ackm_detect_and_remove_lost_pkts takes out after the packets acked
NewlyLost(s, acked, largest, cut) == LostAmong(InSpace(hist \ acked, s), largest, cut)

\* ossl_quic_handle_frames: every packet received from an address that is not
\* validated is worth three of the same size, a Handshake packet lifts the
\* limit.  What exceeds all packets the instance can send makes no difference.
Earned(s) ==
    IF s = HANDSHAKE \/ credit = Unlimited THEN Unlimited
    ELSE Min({credit + 3, MaxPackets + 3})

\* ossl_ackm_on_rx_ack_frame with an ACK of the packets numbered A.  ECN
\* counts are left out: ackm_process_ecn looks the largest acknowledged packet
\* up after it was taken out of the history, and so never calls on_ecn.  The
\* first Handshake packet of a server is RxFirstHandshake.
RxAck(s, A, cut) ==
    LET largest == Max(A \cup {largest_acked[s]})
    IN  /\ tick = "idle" /\ s \in Live
        /\ is_server /\ s = HANDSHAKE => INITIAL \in discarded
        /\ A # {} /\ \A pn \in A : <<s, pn>> \in arrived
        /\ cutoff' = cut
        /\ largest_acked' = [largest_acked EXCEPT ![s] = largest]
        /\ validated' = (validated \/ s = HANDSHAKE)
        /\ \E acked \in {{p \in InSpace(hist, s) : p.pn \in A}} :
           \E lost \in {IF acked = {} THEN {} ELSE NewlyLost(s, acked, largest, cut)} :
           \E told \in {LostInCC(cc, lost)} :
             /\ acked = {} => cut = cutoff
             /\ hist' = hist \ (acked \cup lost)
             /\ Uncount(acked \cup lost)
             /\ loss_time' =
                  IF acked = {} THEN loss_time
                  ELSE [loss_time EXCEPT
                          ![s] = LossTimeAmong(InSpace(hist \ (acked \cup lost), s), largest)]
             /\ item' = Settle(acked, lost)
             /\ RegenAck(lost)
             /\ cc' = AckedInCC(told, acked)
             /\ credit' = Earned(s)
             /\ UNCHANGED <<is_server, next_pn, last_eliciting, confirmed, discarded,
                            provisioned, probe, desired, tick, clock, arrived,
                            used>>
             /\ deadline' = IF acked # {} \/ validated' # validated THEN LossDetectionTimer'
                            ELSE deadline

\* The ACK of everything the peer has, or one that was sent when it had packet n
\* and none of the others (one that acknowledges nothing still in the history
\* changes nothing)
RxNewAck(s, cut) ==
    /\ s \in owed
    /\ RxAck(s, {pn \in 0 .. next_pn[s] - 1 : <<s, pn>> \in arrived}, cut)
    /\ owed' = owed \ {s}

RxOldAck(s, n, cut) ==
    /\ RxAck(s, {n}, cut)
    /\ UNCHANGED owed

LoseAck(s) ==
    /\ tick = "idle" /\ s \in owed /\ used.drops < MaxDrops
    /\ owed' = owed \ {s}
    /\ used' = [used EXCEPT !.drops = @ + 1]
    /\ UNCHANGED <<is_server, ackm, next_pn, deadline, provisioned, probe, cc, item,
                   desired, want_ack, credit, tick, clock, cutoff, arrived>>

\* ossl_ackm_on_timeout when a loss time has come
LossTimeout(cut) ==
    LET s == LossSpace
        lost == LostAmong(InSpace(hist, s), largest_acked[s], cut)
    IN  /\ tick = "idle" /\ deadline = "loss" /\ loss_time[s] # 0
        /\ cut >= loss_time[s]
        /\ cutoff' = cut
        /\ hist' = hist \ lost
        /\ Uncount(lost)
        /\ loss_time' = [loss_time EXCEPT
                           ![s] = LossTimeAmong(InSpace(hist \ lost, s), largest_acked[s])]
        /\ item' = Settle({}, lost)
        /\ RegenAck(lost)
        /\ cc' = LostInCC(cc, lost)
        /\ UNCHANGED <<is_server, next_pn, largest_acked, last_eliciting, validated,
                       confirmed, discarded, provisioned, probe, desired, credit, clock,
                       net>>
        /\ deadline' = LossDetectionTimer'
        /\ tick' = Ticking'

\* The environment lets a probe timeout fire once every ACK on its way was
\* lost or received, or early as often as the bound allows.
Fires(kind) ==
    /\ tick = "idle" /\ deadline = kind /\ loss_time[LossSpace] = 0
    /\ owed \cap Live # {} => used.early < MaxEarly
    /\ used' = [used EXCEPT !.early = IF owed \cap Live # {} THEN @ + 1 ELSE @]
    /\ clock < MaxPackets
    /\ UNCHANGED <<is_server, ackm, next_pn, provisioned, cc, item, desired, want_ack, credit,
                   clock, cutoff, arrived, owed>>

\* ossl_ackm_on_timeout with nothing in flight: the anti-deadlock probe
AntiDeadlock ==
    /\ Fires("pto") /\ ElicitingBytes = 0
    /\ probe.anti_initial + probe.anti_handshake < MaxProbes
    /\ probe' = IF INITIAL \in discarded THEN [probe EXCEPT !.anti_handshake = @ + 1]
                ELSE [probe EXCEPT !.anti_initial = @ + 1]
    /\ deadline' = LossDetectionTimer'
    /\ tick' = Ticking'

\* ossl_ackm_on_timeout: a probe timeout
ProbeTimeout(s) ==
    /\ Fires("pto") /\ ElicitingBytes > 0
    /\ s \in PtoSpaces /\ probe.pto[s] < MaxProbes
    /\ probe' = [probe EXCEPT !.pto[s] = @ + 1]
    /\ deadline' = LossDetectionTimer'
    /\ tick' = Ticking'

----------------------------------------------------------------------------
(* Packet number spaces and the handshake.                                 *)

\* Mutant: the congestion controller keeps the bytes of a discarded space.
InvalidateInCC_Never(P) == cc

\* on_data_invalidated
InvalidateInCC(P) == OnDataInvalidated(cc, Cardinality(InFlight(P)))

\* ch_discard_el and ossl_ackm_on_pkt_space_discarded: the Initial or the
\* Handshake space ends, and with it the crypto data queued for it.
Discard(s) ==
    LET gone == InSpace(hist, s)
    IN  /\ s \notin discarded
        /\ hist' = hist \ gone
        /\ Uncount(gone)
        /\ item' = [i \in Items |-> IF item[i].space = s THEN FreeItem ELSE Settle(gone, {})[i]]
        /\ cc' = InvalidateInCC(gone)
        /\ last_eliciting' = [last_eliciting EXCEPT ![s] = 0]
        /\ loss_time' = [loss_time EXCEPT ![s] = 0]
        /\ discarded' = discarded \cup {s}
        /\ UNCHANGED largest_acked

\* ch_tx: a client discards the Initial keys after its first Handshake packet.
DiscardInitial ==
    /\ tick = "discard" /\ Discard(INITIAL)
    /\ UNCHANGED <<is_server, next_pn, validated, confirmed, provisioned, probe,
                   desired, want_ack, credit, clock, cutoff, net>>
    /\ deadline' = LossDetectionTimer'
    /\ tick' = Ticking'

\* ossl_quic_channel_on_handshake_confirmed
HandshakeConfirmed ==
    /\ tick = "idle" /\ APP \in provisioned /\ INITIAL \in discarded /\ ~confirmed
    /\ Discard(HANDSHAKE)
    /\ confirmed' = TRUE /\ validated' = TRUE
    /\ UNCHANGED <<is_server, next_pn, provisioned, probe, desired, want_ack, credit, tick,
                   clock, cutoff, net>>
    /\ deadline' = LossDetectionTimer'

\* The TLS glue provides the keys of the next space.
ProvideSecret(s) ==
    /\ tick = "idle" /\ s \notin provisioned /\ s - 1 \in provisioned
    /\ provisioned' = provisioned \cup {s}
    /\ UNCHANGED <<is_server, ackm, next_pn, deadline, probe, cc, item, desired, want_ack,
                   credit, tick, clock, cutoff, net>>

\* ossl_quic_handle_frames: a packet that elicits an ACK
RxPacket(s) ==
    /\ tick = "idle" /\ s \in Live \cap RxSpaces /\ used.rx < MaxRx
    /\ is_server /\ s = HANDSHAKE => INITIAL \in discarded
    /\ used' = [used EXCEPT !.rx = @ + 1]
    /\ desired' = desired \cup {s}
    /\ credit' = Earned(s)
    /\ UNCHANGED <<is_server, ackm, next_pn, deadline, provisioned, probe, cc, item,
                   want_ack, tick,
                   clock, cutoff, arrived, owed>>

\* ch_rx_handle_packet: the first Handshake packet ends the Initial space of a
\* server before its frames are handled.
RxFirstHandshake(eliciting) ==
    /\ tick = "idle" /\ is_server /\ HANDSHAKE \in Live /\ Discard(INITIAL)
    /\ desired' = IF eliciting THEN desired \cup {HANDSHAKE} ELSE desired
    /\ credit' = Unlimited
    /\ UNCHANGED <<is_server, next_pn, validated, confirmed, provisioned, probe, want_ack,
                   tick, clock, cutoff, net>>
    /\ deadline' = LossDetectionTimer'

\* ch_retry, ch_restart and ossl_ackm_mark_packet_pseudo_lost: before it has
\* heard anything else from the server, a client may be told to send its first
\* packet again.  The congestion controller is told nothing.
Retry ==
    LET lost == {p \in InSpace(hist, INITIAL) : p.pn = 0}
    IN  /\ tick = "idle" /\ ~is_server /\ used.retry < MaxRetry
        /\ largest_acked[INITIAL] = -1 /\ provisioned = {INITIAL} /\ used.rx = 0
        /\ lost # {}
        /\ hist' = hist \ lost
        /\ Uncount(lost)
        /\ item' = Settle({}, lost)
        /\ RegenAck(lost)
        /\ used' = [used EXCEPT !.retry = @ + 1, !.undone = @ + Cardinality(InFlight(lost))]
        /\ arrived' = {} /\ owed' = {}
        /\ UNCHANGED <<is_server, next_pn, largest_acked, last_eliciting, loss_time,
                       validated, confirmed, discarded, deadline, provisioned, probe, cc,
                       desired, credit, tick, clock, cutoff>>

\* ossl_quic_cfq_add_frame, or crypto data written for the space
AddFrame(i, s, unreliable) ==
    /\ tick = "idle" /\ s \in Live /\ item[i].state = "free"
    /\ unreliable => s = APP
    /\ used.frames < MaxFrames /\ used' = [used EXCEPT !.frames = @ + 1]
    /\ item' = [item EXCEPT ![i] = [state |-> "new", space |-> s, unreliable |-> unreliable]]
    /\ UNCHANGED <<is_server, ackm, next_pn, deadline, provisioned, probe, cc, desired, want_ack,
                   credit, tick, clock, cutoff, arrived, owed>>

----------------------------------------------------------------------------
(* ossl_ackm_new, ossl_quic_cfq_new, newreno_reset; a client is not limited *)
(* by credit and a server starts with what its first datagram earned it.   *)
Init ==
    /\ is_server \in Servers
    /\ hist = {} /\ next_pn = [s \in Spaces |-> 0]
    /\ largest_acked = [s \in Spaces |-> -1]
    /\ last_eliciting = [s \in Spaces |-> 0] /\ loss_time = [s \in Spaces |-> 0]
    /\ deadline = "none"
    /\ validated = FALSE /\ confirmed = FALSE
    /\ provisioned = {INITIAL} /\ discarded = {}
    /\ probe = [pto |-> [s \in Spaces |-> 0], anti_initial |-> 0, anti_handshake |-> 0]
    /\ bif = 0 /\ ae_bif = [s \in Spaces |-> 0]
    /\ cc = NewRenoInit
    /\ item = [i \in Items |-> FreeItem]
    /\ desired = {} /\ want_ack = {}
    /\ credit = IF is_server THEN 3 ELSE Unlimited
    /\ tick = "idle" /\ clock = 0 /\ cutoff = 0
    /\ arrived = {} /\ owed = {}
    /\ used = [drops |-> 0, rx |-> 0, early |-> 0, retry |-> 0, frames |-> 0, undone |-> 0]

Send == /\ tick # "discard" /\ clock < MaxPackets
        /\ \E new \in {Datagram}, D \in SUBSET Committed : Generate(new, D)
Timeout ==
    \/ \E cut \in Cuts(LossSpace) : LossTimeout(cut)
    \/ AntiDeadlock
    \/ \E s \in Spaces : ProbeTimeout(s)
Answer == \E s \in owed : \E cut \in Cuts(s) : RxNewAck(s, cut)
Reach == \E eliciting \in BOOLEAN : RxFirstHandshake(eliciting)

Next ==
    \/ Send \/ GiveUp \/ DiscardInitial
    \/ Timeout
    \/ Answer
    \/ \E p \in hist : \E cut \in Cuts(p.space) : RxOldAck(p.space, p.pn, cut)
    \/ \E s \in Spaces : LoseAck(s) \/ ProvideSecret(s) \/ RxPacket(s)
    \/ Reach
    \/ HandshakeConfirmed
    \/ Retry
    \/ \E i \in Items, s \in Spaces, u \in BOOLEAN : AddFrame(i, s, u)

\* The channel is ticked while a timer is armed or a frame can be sent, a tick
\* runs to its end, and the peer answers what it receives: one of these goes on
\* as long as one can.
Fairness ==
    WF_vars(Send \/ DiscardInitial \/ Answer \/ Timeout
            \/ (HANDSHAKE \in owed /\ Reach))

Spec == Init /\ [][Next]_vars
FairSpec == Spec /\ Fairness

----------------------------------------------------------------------------
(* Properties.                                                             *)

\* "A CFQ item is always in exactly one of these lists" and the queue knows
\* which: a frame counts as sent exactly while one packet that is not settled
\* carries it, so no callback ever meets an item that was released or reused.
ItemsExact ==
    \A i \in Items :
        Cardinality({p \in hist : i \in p.items}) = IF item[i].state = "tx" THEN 1 ELSE 0

\* The counters of the ACK manager and of the congestion controller are those
\* of the packets in its history, through every order of acknowledgement, loss,
\* timeout and discarding; only what a Retry took back stays with the
\* congestion controller.
InFlightExact ==
    /\ bif = Cardinality(InFlight(hist))
    /\ \A s \in Spaces : ae_bif[s] = Cardinality(Eliciting(InSpace(hist, s)))
    /\ cc.bytes_in_flight = bif + used.undone

\* Whenever a packet that elicits an ACK is in flight in a space whose timeout
\* runs (the application space has none before the handshake is confirmed), the
\* timer is armed; and when it fires with nothing in flight the peer has not
\* validated our address, which ossl_ackm_on_timeout asserts.
TimerArmed ==
    /\ (\E s \in Spaces : ae_bif[s] > 0 /\ (s = APP => confirmed)) => deadline \in {"loss", "pto"}
    /\ deadline = "pto" /\ loss_time[LossSpace] = 0 /\ ElicitingBytes = 0 => ~validated

\* The losses of one window of packets cost the congestion window one
\* reduction: the threshold, and with it the window, is cut again only for the
\* loss of a packet that was sent after the recovery period had started.
ReducedOncePerWindow ==
    [][cc'.slow_start_thresh # cc.slow_start_thresh =>
         \E p \in hist \ hist' : p.time > cc.cong_recovery_start_time]_vars

\* The bound on packets, or the amplification limit, has stopped the exchange.
Exhausted ==
    \/ clock >= MaxPackets
    \/ credit \in {0, 1}

\* Every queued frame is eventually acknowledged, or discarded with its space,
\* however the network loses packets and ACKs: by loss detection or, when no
\* ACK comes, by probes.  Before the handshake is confirmed the application
\* space has no timeout.
FramesSettled ==
    \A i \in Items :
        item[i].state # "free" ~> \/ item[i].state = "free"
                                  \/ Exhausted
                                  \/ item[i].space = APP /\ ~confirmed

\* "The TXP consults the CC and applies any limitations imposed by it": beyond
\* the congestion window only ACKs and probes are sent, and a probe is one that
\* a live space waits for.
WindowRespected ==
    [][\A p \in Eliciting(hist' \ hist) : TxAllowance(cc) = 0 =>
            \E s \in Live : ProbeWanted(s)]_vars

----------------------------------------------------------------------------
(* What the safety properties rest on.                                     *)

Item == [state : {"free", "new", "tx"}, space : Spaces, unreliable : BOOLEAN]

Controller == [cong_wnd : Nat, bytes_in_flight : Int, bytes_acked : Int,
               slow_start_thresh : Int, cong_recovery_start_time : Nat,
               tx_time_of_last_loss : Nat]

Used == [drops : Nat, rx : Nat, early : Nat, retry : Nat, frames : Nat, undone : Nat]

TypeOK ==
    /\ hist \subseteq Packets /\ IsFiniteSet(hist)
    /\ next_pn \in [Spaces -> Nat] /\ clock \in Nat /\ provisioned \subseteq Spaces
    /\ bif \in Nat /\ ae_bif \in [Spaces -> Nat]
    /\ item \in [Items -> Item] /\ cc \in Controller /\ used \in Used

\* Packets are told apart by their numbers, and by their times.
PacketsDistinct ==
    /\ \A p \in hist : p.pn < next_pn[p.space] /\ p.time <= clock
    /\ \A p, q \in hist : p.time = q.time => p = q

\* A frame that counts as sent is with one packet, of its space, and only such
\* frames are with packets.
FramesHeld ==
    /\ \A p \in hist : \A i \in p.items : item[i].state = "tx" /\ item[i].space = p.space
    /\ \A p, q \in hist : \A i \in p.items : i \in q.items => p = q
    /\ \A i \in Items : item[i].state = "tx" => \E p \in hist : i \in p.items

LossInv == TypeOK /\ PacketsDistinct /\ FramesHeld /\ InFlightExact
=============================================================================
