----------------------------- MODULE MCPacketRx -----------------------------
(* Datagrams for the runs of PacketRx: one that holds a handshake packet   *)
(* and the first 1-RTT packet, and 1-RTT packets with and without gaps.    *)
EXTENDS PacketRx

Pkt(s, n, e) == [space |-> s, pn |-> n, eliciting |-> e]

MCDatagrams ==
    [d1 |-> <<Pkt(HANDSHAKE, 0, TRUE), Pkt(APP, 0, TRUE)>>,
     d2 |-> <<Pkt(APP, 1, TRUE)>>,
     d3 |-> <<Pkt(APP, 2, TRUE)>>,
     d4 |-> <<Pkt(APP, 4, FALSE)>>]
=============================================================================
