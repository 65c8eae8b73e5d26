------------------------------ MODULE KeyUpdate ------------------------------
(***************************************************************************)
(* Key update between two QUIC endpoints that both run this code: the key  *)
(* slots of the 1-RTT level (quic_record_shared.c), the choice of a key by *)
(* the Key Phase bit (quic_record_rx.c, quic_record_tx.c), and the         *)
(* channel's rules for starting, answering, confirming and refusing an     *)
(* update (quic_channel.c, quic_rx_depack.c).                              *)
(*                                                                         *)
(* A key is its generation.  Authentication is perfect: a packet is        *)
(* decrypted by the key that protects it and by no other.  The network     *)
(* delays, reorders and loses packets (one that is never received again,   *)
(* or that no key fits, stays in `net'); a packet is delivered at most     *)
(* once (module PacketRx is about copies).  The update timer of one PTO    *)
(* may fire at any time.                                                   *)
(***************************************************************************)
EXTENDS Integers, Sequences, Functions

CONSTANTS
    Unconfirmed,  \* endpoints whose handshake is not confirmed in the initial state
    Exchanged,    \* whether each has sent a 1-RTT packet before, and knows it arrived
    MaxPackets,   \* bound: 1-RTT packets the two endpoints send
    MaxUpdates    \* bound: updates each endpoint starts of its own

Endpoints == {"client", "server"}
Peer(e) == IF e = "client" THEN "server" ELSE "client"

ASSUME KeyUpdateAssumption ==
    /\ Unconfirmed \subseteq {"client"}
    /\ Exchanged \in BOOLEAN
    /\ MaxPackets \in Nat /\ MaxUpdates \in Nat

Erased == -1

\* QUIC_PN_INVALID, which is larger than every packet number.
NoPn == -1

VARIABLES
    ch,          \* the channel of each endpoint
    rxel,        \* its RX encryption level: state, key_epoch, key slots, secret ku
    tx_epoch,    \* key_epoch of its TX encryption level, which has one key slot
    tx_key,      \* the generation in that slot
    tx_ku,       \* the generation of the secret kept for the next one
    rx_pending,  \* packets decrypted and not handled
    handling,    \* whether the packets of a batch are being handled
    received,    \* packet numbers the ACK manager has recorded
    next_pn,
    net,         \* packets on their way
    started      \* updates each endpoint started of its own

els == <<rxel, tx_epoch, tx_key, tx_ku>>
vars == <<ch, els, rx_pending, handling, received, next_pn, net, started>>

NewChannel(e) ==
    [confirmed |-> e \notin Unconfirmed, ku_locally_initiated |-> FALSE,
     txku_in_progress |-> FALSE, txku_pn |-> 0, largest_acked |-> IF Exchanged THEN 0 ELSE NoPn,
     rxku_in_progress |-> FALSE, rxku_pending_confirm |-> FALSE,
     rxku_trigger_pn |-> NoPn, rxku_expected |-> FALSE, want_ack |-> FALSE,
     epoch_start_pn |-> 0, error |-> "none"]

Active(e) == ch[e].error = "none"

\* ossl_qrl_enc_level_set_provide_secret: the two key slots of the receiver
\* hold the current key and the next one.  The server's handshake is confirmed
\* when it is complete; a client that does not know it yet is sent a packet with
\* the HANDSHAKE_DONE frame in the same tick.
Init ==
    /\ ch = [e \in Endpoints |-> NewChannel(e)]
    /\ rxel = [e \in Endpoints |->
                  [state |-> "NORMAL", key_epoch |-> 0, slot |-> [i \in {0, 1} |-> i], ku |-> 2]]
    /\ tx_epoch = [e \in Endpoints |-> 0]
    /\ tx_key = [e \in Endpoints |-> 0]
    /\ tx_ku = [e \in Endpoints |-> 1]
    /\ rx_pending = [e \in Endpoints |-> <<>>]
    /\ handling = [e \in Endpoints |-> FALSE]
    /\ received = [e \in Endpoints |-> IF Exchanged THEN {0} ELSE {}]
    /\ LET first == IF Exchanged THEN 1 ELSE 0
       IN  IF Unconfirmed = {}
           THEN next_pn = [e \in Endpoints |-> first] /\ net = {}
           ELSE /\ next_pn = [e \in Endpoints |-> IF e = "server" THEN first + 1 ELSE first]
                /\ net = {[to |-> "client", pn |-> first, key |-> 0, key_phase |-> 0,
                           acks |-> {}, done |-> TRUE]}
    /\ started = [e \in Endpoints |-> 0]

----------------------------------------------------------------------------
(* The key slots.                                                          *)

Other(el) == (el.key_epoch + 1) % 2

\* ossl_qrl_enc_level_set_key_update, RX case
RxKeyUpdate(el) == [el EXCEPT !.key_epoch = @ + 1, !.state = "UPDATING"]

\* ossl_qrl_enc_level_set_key_update_done
KeyUpdateDone(el) == [el EXCEPT !.slot[Other(el)] = Erased, !.state = "COOLDOWN"]

\* Mutant: the secret for the generation after the next is not derived.
KeyCooldownDone_SameSecret(el) ==
    [el EXCEPT !.slot[Other(el)] = el.ku, !.state = "NORMAL"]

\* ossl_qrl_enc_level_set_key_cooldown_done
KeyCooldownDone(el) ==
    [el EXCEPT !.slot[Other(el)] = el.ku, !.ku = @ + 1, !.state = "NORMAL"]

\* qrx_get_cipher_ctx_idx: the slot for a Key Phase bit ...
CipherCtxIdx(el, bit) == IF el.state = "COOLDOWN" THEN el.key_epoch % 2 ELSE bit

IsOldKey(el, bit) == el.state = "UPDATING" /\ bit # el.key_epoch % 2

\* Mutant: the reported epoch does not look at the state.
RxKeyEpoch_Normal(el, bit) == el.key_epoch + (IF bit # el.key_epoch % 2 THEN 1 ELSE 0)

\* ... and the epoch it stands for
RxKeyEpoch(el, bit) ==
    CASE el.state = "NORMAL" -> el.key_epoch + (IF bit # el.key_epoch % 2 THEN 1 ELSE 0)
      [] el.state = "UPDATING" -> el.key_epoch - (IF IsOldKey(el, bit) THEN 1 ELSE 0)
      [] el.state = "COOLDOWN" -> el.key_epoch

\* qrx_decrypt_pkt_body
Decrypts(e, m) ==
    /\ ~(IsOldKey(rxel[e], m.key_phase) /\ m.pn >= ch[e].epoch_start_pn)
    /\ rxel[e].slot[CipherCtxIdx(rxel[e], m.key_phase)] = m.key

----------------------------------------------------------------------------
(* Starting an update.                                                     *)

\* txku_in_progress: the update is over when its first packet, or a later one,
\* is acknowledged.  QUIC_PN_INVALID passes the comparison as well.
TxkuOver(c) == c.largest_acked = NoPn \/ c.largest_acked >= c.txku_pn
TxkuInProgress(c) == c.txku_in_progress /\ ~TxkuOver(c)

\* Mutant: an update may be started before the previous one is acknowledged.
TxkuAllowed_InProgress(c) == c.confirmed

\* txku_allowed
TxkuAllowed(c) == c.confirmed /\ ~TxkuInProgress(c)

\* The channel after ch_trigger_txku, and the TX level after ossl_qtx_trigger_key_update
TriggeredTxku(c, pn) ==
    [c EXCEPT !.txku_in_progress = TRUE, !.txku_pn = pn,
              !.rxku_expected = c.ku_locally_initiated]

TxKeyUpdate(e) ==
    /\ tx_key' = [tx_key EXCEPT ![e] = tx_ku[e]]
    /\ tx_ku' = [tx_ku EXCEPT ![e] = @ + 1]
    /\ tx_epoch' = [tx_epoch EXCEPT ![e] = @ + 1]

\* ossl_quic_channel_trigger_txku, and ch_maybe_trigger_spontaneous_txku, which
\* asks for more (a pause of three PTO, no update of the peer in progress).
TriggerTxku(e) ==
    /\ Active(e) /\ ~handling[e] /\ rx_pending[e] = <<>>
    /\ started[e] < MaxUpdates
    /\ TxkuAllowed(ch[e])
    /\ ch' = [ch EXCEPT ![e] =
                  TriggeredTxku([ch[e] EXCEPT !.ku_locally_initiated = TRUE], next_pn[e])]
    /\ TxKeyUpdate(e)
    /\ started' = [started EXCEPT ![e] = @ + 1]
    /\ UNCHANGED <<rxel, rx_pending, handling, received, next_pn, net>>

----------------------------------------------------------------------------
(* Sending and receiving.                                                  *)

\* What txku_recommendable leaves of the flag in every ch_tx.
TxkuFlag(c) == c.txku_in_progress /\ (c.confirmed => ~TxkuOver(c))

\* ch_tx with nothing to send.
TxTick(e) ==
    /\ Active(e) /\ ~handling[e] /\ rx_pending[e] = <<>>
    /\ ch[e].txku_in_progress /\ ~TxkuFlag(ch[e])
    /\ ch' = [ch EXCEPT ![e] = [ch[e] EXCEPT !.txku_in_progress = FALSE]]
    /\ UNCHANGED <<els, rx_pending, handling, received, next_pn, net, started>>

\* ch_tx, ossl_qtx_write_pkt; an ACK frame that covers the trigger of the peer's
\* update confirms it (ch_on_txp_ack_tx); one is sent at once if wanted.
Send(e, ack) ==
    /\ Active(e) /\ ~handling[e] /\ rx_pending[e] = <<>>
    /\ next_pn["client"] + next_pn["server"] < MaxPackets
    /\ ch[e].want_ack => ack
    /\ ack => received[e] # {}
    /\ net' = net \cup {[to |-> Peer(e), pn |-> next_pn[e], key |-> tx_key[e],
                         key_phase |-> tx_epoch[e] % 2, acks |-> IF ack THEN received[e] ELSE {},
                         done |-> FALSE]}
    /\ next_pn' = [next_pn EXCEPT ![e] = @ + 1]
    /\ LET c == ch[e]
           confirms == ack /\ c.rxku_trigger_pn \in received[e]
       IN  ch' = [ch EXCEPT ![e] =
                     [c EXCEPT !.txku_in_progress = TxkuFlag(c),
                               !.rxku_pending_confirm = c.rxku_pending_confirm /\ ~confirms,
                               !.want_ack = c.want_ack /\ ~ack]]
    /\ UNCHANGED <<els, rx_pending, handling, received, started>>

\* rxku_allowed
RxkuAllowed(c) == c.confirmed /\ ~c.rxku_pending_confirm

\* What rxku_detected decides.
Decision(c) ==
    IF ~RxkuAllowed(c) THEN "PROTOCOL_VIOLATION"
    ELSE IF c.ku_locally_initiated THEN "RXKU_ONLY" ELSE "SOLICITED_TXKU"

\* Mutant: an answer to our own update is answered once more.
RxkuDetected_Answers(e, pn) ==
    LET c == [ch[e] EXCEPT !.epoch_start_pn = pn, !.ku_locally_initiated = FALSE,
                           !.rxku_in_progress = TRUE, !.rxku_pending_confirm = TRUE,
                           !.rxku_trigger_pn = pn, !.rxku_expected = FALSE, !.want_ack = TRUE]
    IN  /\ RxkuAllowed(ch[e])
        /\ ch' = [ch EXCEPT ![e] = TriggeredTxku(c, next_pn[e])]
        /\ TxKeyUpdate(e)

\* rxku_detected, after qrx_key_update_initiated has noted the packet number
RxkuDetected(e, pn) ==
    LET noted == [ch[e] EXCEPT !.epoch_start_pn = pn]
        c == [noted EXCEPT !.ku_locally_initiated = FALSE, !.rxku_in_progress = TRUE,
                           !.rxku_pending_confirm = TRUE, !.rxku_trigger_pn = pn,
                           !.rxku_expected = FALSE, !.want_ack = TRUE]
    IN  /\ ch' = [ch EXCEPT ![e] =
                     CASE Decision(ch[e]) = "PROTOCOL_VIOLATION" -> [noted EXCEPT !.error = "too soon"]
                       [] Decision(ch[e]) = "RXKU_ONLY" -> c
                       [] Decision(ch[e]) = "SOLICITED_TXKU" -> TriggeredTxku(c, next_pn[e])]
        /\ IF Decision(ch[e]) = "SOLICITED_TXKU" THEN TxKeyUpdate(e)
           ELSE UNCHANGED <<tx_epoch, tx_key, tx_ku>>

\* qrx_process_pkt: a packet that is decrypted with an unexpected Key Phase bit
\* makes the receiver update, unless it is updating already.
Decrypt(e, m) ==
    /\ Active(e) /\ ~handling[e]
    /\ m.to = e /\ Decrypts(e, m)
    /\ net' = net \ {m}
    /\ rx_pending' = [rx_pending EXCEPT ![e] =
                         Append(@, [pkt |-> m, key_epoch |-> RxKeyEpoch(rxel[e], m.key_phase)])]
    /\ IF m.key_phase # rxel[e].key_epoch % 2 /\ rxel[e].state = "NORMAL"
       THEN /\ rxel' = [rxel EXCEPT ![e] = RxKeyUpdate(rxel[e])]
            /\ RxkuDetected(e, m.pn)
       ELSE UNCHANGED <<ch, els>>
    /\ UNCHANGED <<handling, received, next_pn, started>>

\* The checks of ch_rx_handle_packet and depack_do_frame_ack
OldKeys(e, x) ==
    /\ ch[e].rxku_in_progress
    /\ x.pkt.pn >= ch[e].rxku_trigger_pn
    /\ x.key_epoch < rxel[e].key_epoch

AckWithoutUpdate(e, x) ==
    /\ x.key_epoch < rxel[e].key_epoch \/ ch[e].rxku_expected
    /\ \E pn \in x.pkt.acks : pn >= ch[e].txku_pn

KeyUpdateError(e, x) ==
    IF OldKeys(e, x) THEN "new packet with old keys"
    ELSE IF AckWithoutUpdate(e, x) THEN "acked without update" ELSE "none"

\* ossl_ackm_on_rx_ack_frame
LargestAcked(old, acks, new) ==
    new \in acks \cup {old} /\ \A pn \in acks \cup {old} : pn <= new

\* ch_rx_handle_packet, ossl_quic_handle_frames
HandlePacket(e) ==
    /\ Active(e) /\ rx_pending[e] # <<>>
    /\ LET x == Head(rx_pending[e])
           c == ch[e]
       IN  IF KeyUpdateError(e, x) # "none"
           THEN /\ ch' = [ch EXCEPT ![e] = [c EXCEPT !.error = KeyUpdateError(e, x)]]
                /\ UNCHANGED received
           ELSE /\ \E largest \in x.pkt.acks \cup {c.largest_acked} :
                      /\ LargestAcked(c.largest_acked, x.pkt.acks, largest)
                      /\ ch' = [ch EXCEPT ![e] = [c EXCEPT !.largest_acked = largest,
                                                            !.confirmed = c.confirmed \/ x.pkt.done]]
                /\ received' = [received EXCEPT ![e] = @ \cup {x.pkt.pn}]
    /\ rx_pending' = [rx_pending EXCEPT ![e] = Tail(@)]
    /\ handling' = [handling EXCEPT ![e] = Len(rx_pending[e]) > 1]
    /\ UNCHANGED <<els, next_pn, net, started>>

\* ch_rxku_tick and ossl_qrx_key_update_timeout
RxkuTick(e) ==
    /\ Active(e) /\ ~handling[e] /\ rx_pending[e] = <<>>
    /\ ch[e].rxku_in_progress
    /\ ch' = [ch EXCEPT ![e] = [ch[e] EXCEPT !.rxku_in_progress = FALSE]]
    /\ rxel' = [rxel EXCEPT ![e] = KeyCooldownDone(KeyUpdateDone(rxel[e]))]
    /\ UNCHANGED <<tx_epoch, tx_key, tx_ku, rx_pending, handling, received, next_pn, net, started>>

Next ==
    \/ \E e \in Endpoints : TriggerTxku(e) \/ TxTick(e) \/ HandlePacket(e) \/ RxkuTick(e)
    \/ \E e \in Endpoints, ack \in BOOLEAN : Send(e, ack)
    \/ \E m \in net : Decrypt(m.to, m)

Spec == Init /\ [][Next]_vars

----------------------------------------------------------------------------
(* Properties.                                                             *)

Channel ==
    [confirmed : BOOLEAN, ku_locally_initiated : BOOLEAN,
     txku_in_progress : BOOLEAN, txku_pn : Nat, largest_acked : Nat \cup {NoPn},
     rxku_in_progress : BOOLEAN, rxku_pending_confirm : BOOLEAN,
     rxku_trigger_pn : Nat \cup {NoPn}, rxku_expected : BOOLEAN, want_ack : BOOLEAN,
     epoch_start_pn : Nat,
     error : {"none", "too soon", "new packet with old keys", "acked without update"}]
RxLevel == [state : {"NORMAL", "UPDATING"}, key_epoch : Nat, slot : [{0, 1} -> Int], ku : Nat]
Packet == [to : Endpoints, pn : Nat, key : Nat, key_phase : {0, 1}, acks : SUBSET Nat,
           done : BOOLEAN]

TypeOK ==
    /\ ch \in [Endpoints -> Channel]
    /\ rxel \in [Endpoints -> RxLevel]
    /\ tx_epoch \in [Endpoints -> Nat] /\ tx_key \in [Endpoints -> Nat]
    /\ tx_ku \in [Endpoints -> Nat]
    /\ rx_pending \in [Endpoints -> Seq([pkt : Packet, key_epoch : Nat])]
    /\ handling \in [Endpoints -> BOOLEAN]
    /\ received \in [Endpoints -> SUBSET Nat]
    /\ next_pn \in [Endpoints -> Nat]
    /\ net \subseteq Packet
    /\ started \in [Endpoints -> Nat]

\* "the key epoch number actually used for packet decryption" is the one the
\* peer protected the packet with, however late the packet is, although only
\* one bit of it is on the wire and the slots are used again.
EpochExact ==
    \A e \in Endpoints : \A i \in DOMAIN rx_pending[e] :
        rx_pending[e][i].key_epoch = rx_pending[e][i].pkt.key

\* An update is answered and the answer is not: no "infinite ping-pong of key
\* updates".  Every epoch is due to an update one of the two sides started, and
\* both sides stay within one epoch of each other.
NoPingPong ==
    /\ \A e \in Endpoints : tx_epoch[e] <= started["client"] + started["server"]
    /\ tx_epoch["client"] - tx_epoch["server"] \in -1 .. 1

\* A receiver that is not in the middle of an update can decrypt whatever its
\* peer sends now: the slots hold the generation the peer uses, through any
\* number of updates from either side ("as otherwise the peer will not be able
\* to perform a Key Update ever again").
KeysMeet ==
    \A e \in Endpoints :
        rxel[e].state = "NORMAL" => tx_key[Peer(e)] \in Range(rxel[e].slot)

\* Two endpoints that both follow this code never accuse each other of an
\* error: neither updates that cross each other nor late or lost packets look
\* like a second update, an old key or an ACK without an update.  This is so from
\* where both handshakes are confirmed and each end has had a 1-RTT packet
\* acknowledged; before that an update may be taken for an error.
NoFalseAlarm == \A e \in Endpoints : Active(e)

\* "the peer cannot initiate a subsequent (spontaneous) TXKU until its prior
\* (spontaneous or solicited) TXKU has completed - meaning that prior TXKU's
\* trigger packet (or subsequent packet) has been acknowledged" (rxku_detected):
\* an endpoint is never two generations ahead of what its peer has seen.
UpdateAwaitsAck ==
    \A e \in Endpoints : tx_epoch[e] <= rxel[Peer(e)].key_epoch + 1

----------------------------------------------------------------------------
(* What the properties rest on, for endpoints with confirmed handshakes of *)
(* which each has had a 1-RTT packet acknowledged.                         *)

Opened(e) == Range(rx_pending[e])

\* Packets to e that are on their way, or decrypted and not handled.
Pkts(e) == {m \in net : m.to = e} \cup {x.pkt : x \in Opened(e)}

\* The slots hold the current generation and a neighbour of it: the next one,
\* or the last one during an update.
Slots(e) ==
    LET el == rxel[e]
        k == el.key_epoch
    IN  /\ el.slot[k % 2] = k
        /\ IF el.state = "NORMAL"
           THEN ~ch[e].rxku_in_progress /\ el.slot[(k + 1) % 2] = k + 1 /\ el.ku = k + 2
           ELSE ch[e].rxku_in_progress /\ el.slot[(k + 1) % 2] = k - 1 /\ el.ku = k + 1

\* An endpoint sends with the generation it receives, or with the next one if
\* it started an update that was not answered yet.
Epochs(e) ==
    /\ ch[e].confirmed
    /\ tx_key[e] = tx_epoch[e] /\ tx_ku[e] = tx_epoch[e] + 1
    /\ tx_epoch[e] = rxel[e].key_epoch + (IF ch[e].ku_locally_initiated THEN 1 ELSE 0)
    /\ rxel[e].key_epoch <= tx_epoch[Peer(e)]
    /\ tx_epoch[Peer(e)] <= rxel[e].key_epoch + 1
    /\ ch[e].rxku_expected => ch[e].ku_locally_initiated
    /\ tx_epoch[e] <= started["client"] + started["server"]

\* The peer has received the current generation of e, and has told so.
Heard(e) == /\ rxel[Peer(e)].key_epoch = tx_epoch[e]
            /\ ~ch[Peer(e)].rxku_pending_confirm

\* Packets of the current generation are those from txku_pn on, generations do
\* not decrease with packet numbers, and who acknowledges a packet of e's
\* current generation sends with it.
PacketsInv(e) ==
    /\ \A m \in Pkts(e) :
        /\ m.pn < next_pn[Peer(e)] /\ m.key <= tx_epoch[Peer(e)]
        /\ m.pn >= ch[Peer(e)].txku_pn => m.key = tx_epoch[Peer(e)]
        /\ ch[e].rxku_in_progress /\ m.pn >= ch[e].rxku_trigger_pn
              => m.key >= rxel[e].key_epoch
        /\ \A pn \in m.acks : /\ pn < next_pn[e]
                              /\ pn >= ch[e].txku_pn => Heard(e) /\ m.key >= tx_epoch[e]
    /\ \A m1, m2 \in Pkts(e) : m1.pn <= m2.pn => m1.key <= m2.key
    /\ \A x \in Opened(e) : x.key_epoch = x.pkt.key /\ x.key_epoch <= rxel[e].key_epoch
    /\ \A pn \in received[e] :
        /\ pn < next_pn[Peer(e)]
        /\ pn >= ch[Peer(e)].txku_pn => rxel[e].key_epoch = tx_epoch[Peer(e)]

\* An update that is over was heard of and answered; while e has not confirmed
\* its peer's update the peer starts no other, and e has sent nothing.
AcksInv(e) ==
    /\ ch[e].largest_acked \in Nat
    /\ ch[e].largest_acked < next_pn[e] /\ ch[e].txku_pn <= next_pn[e]
    /\ ~ch[e].txku_in_progress \/ ch[e].largest_acked >= ch[e].txku_pn
          => Heard(e) /\ rxel[e].key_epoch >= tx_epoch[e]
    /\ ch[e].rxku_pending_confirm =>
        /\ ch[e].want_ack
        /\ \/ ch[e].rxku_trigger_pn \in received[e]
           \/ \E x \in Opened(e) : ch[e].rxku_trigger_pn = x.pkt.pn
        /\ rxel[e].key_epoch = tx_epoch[Peer(e)]
        /\ \A m \in Pkts(Peer(e)) : m.key <= rxel[e].key_epoch

KeyInv ==
    /\ TypeOK /\ NoFalseAlarm
    /\ \A e \in Endpoints : Slots(e) /\ Epochs(e) /\ PacketsInv(e) /\ AcksInv(e)
=============================================================================
