-------------------------- MODULE KeyUpdateProofs --------------------------
(***************************************************************************)
(* Proofs about KeyUpdate, for any number of packets and updates, between  *)
(* endpoints with confirmed handshakes that have each had a 1-RTT packet   *)
(* acknowledged.                                                           *)
(***************************************************************************)
EXTENDS KeyUpdate, TLAPS

\* Handshakes are confirmed and a 1-RTT packet of each has been acknowledged.
Settled == Unconfirmed = {} /\ Exchanged = TRUE

(***************************************************************************)
(* The two endpoints, the two slots, and the packets on their way.         *)
(***************************************************************************)

\* There are two endpoints, each the peer of the other.
LEMMA PeerFacts ==
    ASSUME NEW a \in Endpoints
    PROVE  /\ Peer(a) \in Endpoints /\ Peer(a) # a /\ Peer(Peer(a)) = a
           /\ \A e \in Endpoints : e = a \/ e = Peer(a)
  BY DEF Endpoints, Peer

\* The Key Phase bit of a generation and those of its neighbours.
LEMMA Phase ==
    ASSUME NEW k \in Nat
    PROVE  /\ k % 2 \in {0, 1} /\ (k + 1) % 2 \in {0, 1} /\ (k + 1) % 2 # k % 2
           /\ (k + 1 + 1) % 2 = k % 2
           /\ \A bit \in {0, 1} : bit = k % 2 \/ bit = (k + 1) % 2
  OBVIOUS

\* What a sequence holds after Append ...
LEMMA RangeAppend ==
    ASSUME NEW S, NEW s \in Seq(S), NEW x \in S
    PROVE  Range(Append(s, x)) = Range(s) \cup {x}
  <1>1. DOMAIN Append(s, x) = 1 .. Len(s) + 1 /\ DOMAIN s = 1 .. Len(s) /\ Len(s) \in Nat
    OBVIOUS
  <1>2. \A i \in 1 .. Len(s) : Append(s, x)[i] = s[i]
    OBVIOUS
  <1>3. Append(s, x)[Len(s) + 1] = x
    OBVIOUS
  <1> QED BY <1>1, <1>2, <1>3 DEF Range

\* ... and Tail.
LEMMA RangeTail ==
    ASSUME NEW S, NEW s \in Seq(S), s # <<>>
    PROVE  /\ Range(s) = {Head(s)} \cup Range(Tail(s))
           /\ Head(s) \in S /\ Tail(s) \in Seq(S)
  <1>1. DOMAIN Tail(s) = 1 .. Len(s) - 1 /\ DOMAIN s = 1 .. Len(s) /\ Len(s) \in Nat /\ Len(s) >= 1
    OBVIOUS
  <1>2. \A i \in 1 .. Len(s) - 1 : Tail(s)[i] = s[i + 1]
    OBVIOUS
  <1>3. Head(s) = s[1] /\ Head(s) \in S /\ Tail(s) \in Seq(S)
    OBVIOUS
  <1>4. Range(s) \subseteq {Head(s)} \cup Range(Tail(s))
    <2> SUFFICES ASSUME NEW i \in 1 .. Len(s), i # 1 PROVE s[i] \in Range(Tail(s))
      BY <1>1, <1>3 DEF Range
    <2>1. i - 1 \in 1 .. Len(s) - 1 /\ Tail(s)[i - 1] = s[i]
      BY <1>1, <1>2
    <2> QED BY <2>1, <1>1 DEF Range
  <1>5. {Head(s)} \cup Range(Tail(s)) \subseteq Range(s)
    BY <1>1, <1>2, <1>3 DEF Range
  <1> QED BY <1>3, <1>4, <1>5

\* A packet that was decrypted, with the epoch reported for it.
Received == [pkt : Packet, key_epoch : Nat]

\* The packets on their way are packets.
LEMMA OpenedType ==
    ASSUME TypeOK, NEW e \in Endpoints
    PROVE  /\ rx_pending[e] \in Seq(Received)
           /\ Opened(e) \subseteq Received
           /\ Pkts(e) \subseteq Packet
  <1>1. rx_pending[e] \in Seq(Received)
    BY DEF TypeOK, Received
  <1>2. Opened(e) \subseteq Received
    BY <1>1 DEF Opened, Range
  <1> QED BY <1>1, <1>2 DEF Pkts, TypeOK, Received

\* The invariant at the two ends.
LEMMA BothEnds ==
    ASSUME NEW a \in Endpoints
    PROVE  KeyInv <=> /\ TypeOK /\ Active(a) /\ Active(Peer(a))
                      /\ Slots(a) /\ Slots(Peer(a)) /\ Epochs(a) /\ Epochs(Peer(a))
                      /\ PacketsInv(a) /\ PacketsInv(Peer(a)) /\ AcksInv(a) /\ AcksInv(Peer(a))
  BY PeerFacts DEF KeyInv, NoFalseAlarm

\* It holds at the start.
LEMMA InitInv == Init /\ Settled => KeyInv
  <1> SUFFICES ASSUME Init, Settled PROVE KeyInv
    OBVIOUS
  <1>0. next_pn = [e \in Endpoints |-> 1] /\ net = {} /\ received = [e \in Endpoints |-> {0}]
    BY DEF Init, Settled
  <1>1. TypeOK
    <2>1. ch \in [Endpoints -> Channel]
      BY DEF Init, NewChannel, Channel, Settled, NoPn
    <2>2. rxel \in [Endpoints -> RxLevel]
      BY DEF Init, RxLevel
    <2> QED BY <1>0, <2>1, <2>2 DEF TypeOK, Init, Endpoints
  <1>2. ASSUME NEW e \in Endpoints
        PROVE  Active(e) /\ Slots(e) /\ Epochs(e) /\ PacketsInv(e) /\ AcksInv(e)
    <2>1. Opened(e) = {} /\ Pkts(e) = {} /\ Opened(Peer(e)) = {} /\ Pkts(Peer(e)) = {}
      BY <1>0, PeerFacts DEF Opened, Pkts, Range, Init
    <2>2. Active(e) /\ Slots(e)
      BY DEF Active, Slots, Init, NewChannel, Settled
    <2>3. Epochs(e)
      <3>1. "client" \in Endpoints /\ "server" \in Endpoints /\ Peer(e) \in Endpoints
        BY PeerFacts DEF Endpoints
      <3>2. ch[e].confirmed /\ ~ch[e].ku_locally_initiated /\ ~ch[e].rxku_expected
        BY DEF Init, NewChannel, Settled
      <3>3. /\ tx_epoch[e] = 0 /\ tx_epoch[Peer(e)] = 0 /\ tx_key[e] = 0 /\ tx_ku[e] = 1
            /\ rxel[e].key_epoch = 0 /\ started["client"] = 0 /\ started["server"] = 0
        BY <3>1 DEF Init
      <3> QED BY <3>2, <3>3 DEF Epochs
    <2>4. PacketsInv(e)
      BY <2>1, <1>0, PeerFacts DEF PacketsInv, Init, NewChannel, Settled
    <2>5. AcksInv(e)
      BY <2>1, <1>0, PeerFacts DEF AcksInv, Init, NewChannel, Settled, Heard
    <2> QED BY <2>2, <2>3, <2>4, <2>5
  <1> QED BY <1>1, <1>2 DEF KeyInv, NoFalseAlarm

(***************************************************************************)
(* A step keeps it.                                                        *)
(***************************************************************************)

\* A step that moves no packet.
LEMMA SetsKept ==
    ASSUME UNCHANGED <<rx_pending, net>>, NEW e \in Endpoints
    PROVE  Opened(e)' = Opened(e) /\ Pkts(e)' = Pkts(e)
  BY DEF Opened, Pkts

\* The types of what one endpoint keeps.
LEMMA EndType ==
    ASSUME TypeOK, NEW e \in Endpoints
    PROVE  /\ ch[e] \in Channel /\ rxel[e] \in RxLevel
           /\ tx_epoch[e] \in Nat /\ tx_key[e] \in Nat /\ tx_ku[e] \in Nat
           /\ received[e] \in SUBSET Nat /\ next_pn[e] \in Nat /\ started[e] \in Nat
           /\ started["client"] \in Nat /\ started["server"] \in Nat
           /\ net \subseteq Packet
  BY DEF TypeOK, Endpoints

\* SSL_key_update: allowed when the peer has heard of the last update and has
\* answered it, so that the new generation is one ahead of both ends.
LEMMA TriggerStep ==
    ASSUME KeyInv, NEW a \in Endpoints, TriggerTxku(a)
    PROVE  KeyInv'
  <1> DEFINE p == Peer(a)
  <1>p. p \in Endpoints /\ p # a /\ Peer(p) = a
    BY PeerFacts
  <1>i. /\ TypeOK /\ Active(a) /\ Active(p) /\ Slots(a) /\ Slots(p) /\ Epochs(a) /\ Epochs(p)
        /\ PacketsInv(a) /\ PacketsInv(p) /\ AcksInv(a) /\ AcksInv(p)
    BY BothEnds
  <1>c. /\ ch' = [ch EXCEPT ![a] = [ch[a] EXCEPT !.ku_locally_initiated = TRUE,
                      !.txku_in_progress = TRUE, !.txku_pn = next_pn[a], !.rxku_expected = TRUE]]
        /\ tx_key' = [tx_key EXCEPT ![a] = tx_ku[a]]
        /\ tx_ku' = [tx_ku EXCEPT ![a] = tx_ku[a] + 1]
        /\ tx_epoch' = [tx_epoch EXCEPT ![a] = tx_epoch[a] + 1]
        /\ started' = [started EXCEPT ![a] = started[a] + 1]
        /\ UNCHANGED <<rxel, rx_pending, handling, received, next_pn, net>>
    BY <1>i DEF TriggerTxku, TriggeredTxku, TxKeyUpdate, TypeOK, Channel
  <1>t. TypeOK'
    <2>1. ch[a] \in Channel /\ next_pn[a] \in Nat
      BY <1>i, EndType
    <2>2. [ch[a] EXCEPT !.ku_locally_initiated = TRUE, !.txku_in_progress = TRUE,
                        !.txku_pn = next_pn[a], !.rxku_expected = TRUE] \in Channel
      BY <2>1 DEF Channel
    <2>3. ch' \in [Endpoints -> Channel]
      BY <1>i, <1>c, <2>2 DEF TypeOK
    <2>4. tx_epoch[a] + 1 \in Nat /\ tx_ku[a] + 1 \in Nat /\ tx_ku[a] \in Nat /\ started[a] + 1 \in Nat
      BY <1>i, EndType
    <2> QED BY <1>i, <1>c, <2>3, <2>4 DEF TypeOK
  <1>s. \A e \in Endpoints : Opened(e)' = Opened(e) /\ Pkts(e)' = Pkts(e)
    BY <1>c, SetsKept
  <1>a. ch[a] \in Channel /\ ch[p] \in Channel
    BY <1>i, <1>p, EndType
  <1>n. /\ ch'[p] = ch[p] /\ tx_epoch'[p] = tx_epoch[p] /\ tx_key'[p] = tx_key[p]
        /\ tx_ku'[p] = tx_ku[p]
        /\ tx_epoch'[a] = tx_epoch[a] + 1 /\ tx_key'[a] = tx_ku[a] /\ tx_ku'[a] = tx_ku[a] + 1
        /\ ch'[a].confirmed = ch[a].confirmed /\ ch'[a].ku_locally_initiated = TRUE
        /\ ch'[a].txku_in_progress = TRUE /\ ch'[a].txku_pn = next_pn[a]
        /\ ch'[a].largest_acked = ch[a].largest_acked
        /\ ch'[a].rxku_in_progress = ch[a].rxku_in_progress
        /\ ch'[a].rxku_pending_confirm = ch[a].rxku_pending_confirm
        /\ ch'[a].rxku_trigger_pn = ch[a].rxku_trigger_pn
        /\ ch'[a].want_ack = ch[a].want_ack /\ ch'[a].error = ch[a].error
    BY <1>i, <1>c, <1>p, <1>a DEF TypeOK, Channel
  <1>h. /\ rxel[p].key_epoch = tx_epoch[a] /\ ~ch[p].rxku_pending_confirm
        /\ rxel[a].key_epoch = tx_epoch[a] /\ ~ch[a].ku_locally_initiated
    <2>1. Heard(a) /\ rxel[a].key_epoch >= tx_epoch[a]
      BY <1>i DEF TriggerTxku, TxkuAllowed, TxkuInProgress, TxkuOver, AcksInv, NoPn
    <2>2. rxel[a].key_epoch \in Nat
      BY <1>i, EndType DEF RxLevel
    <2> QED BY <1>i, <2>1, <2>2 DEF Heard, Epochs
  <1>1. Active(a)' /\ Active(p)' /\ Slots(a)' /\ Slots(p)'
    BY <1>i, <1>c, <1>n DEF Active, Slots
  <1>2. Epochs(a)' /\ Epochs(p)'
    <2>1. /\ started'["client"] + started'["server"] = started["client"] + started["server"] + 1
          /\ started["client"] + started["server"] \in Nat
      <3>1. started \in [Endpoints -> Nat] /\ started["client"] \in Nat /\ started["server"] \in Nat
        BY <1>i, EndType DEF TypeOK
      <3>2. CASE a = "client"
        BY <3>1, <3>2, <1>c DEF Endpoints
      <3>3. CASE a = "server"
        BY <3>1, <3>3, <1>c DEF Endpoints
      <3> QED BY <3>2, <3>3 DEF Endpoints
    <2>2. tx_epoch[a] \in Nat /\ tx_epoch[p] \in Nat
      BY <1>i, <1>p, EndType
    <2>3. Epochs(a)'
      BY <1>i, <1>c, <1>n, <1>h, <1>p, <2>1, <2>2 DEF Epochs
    <2>4. Epochs(p)'
      BY <1>i, <1>c, <1>n, <1>h, <1>p, <2>1, <2>2 DEF Epochs
    <2> QED BY <2>3, <2>4
  <1>3. PacketsInv(a)'
    <2>1. \A m \in Pkts(a) : m \in Packet
      BY <1>i, OpenedType
    <2> QED BY <1>i, <1>c, <1>n, <1>h, <1>p, <1>s, <2>1, EndType DEF PacketsInv, Packet
  <1>4. PacketsInv(p)'
    <2>1. \A m \in Pkts(p) : m \in Packet
      BY <1>i, <1>p, OpenedType
    <2> QED BY <1>i, <1>c, <1>n, <1>h, <1>p, <1>s, <2>1, EndType DEF PacketsInv, Packet, Heard
  <1>5. AcksInv(a)' /\ AcksInv(p)'
    BY <1>i, <1>c, <1>n, <1>h, <1>p, <1>s, EndType DEF AcksInv, Heard
  <1> QED BY <1>t, <1>1, <1>2, <1>3, <1>4, <1>5, <1>p, PeerFacts DEF KeyInv, NoFalseAlarm

\* ch_tx with nothing to send only clears the flag of an update that is over.
LEMMA TxTickStep ==
    ASSUME KeyInv, NEW a \in Endpoints, TxTick(a)
    PROVE  KeyInv'
  <1> DEFINE p == Peer(a)
  <1>p. p \in Endpoints /\ p # a /\ Peer(p) = a
    BY PeerFacts
  <1>i. /\ TypeOK /\ Active(a) /\ Active(p) /\ Slots(a) /\ Slots(p) /\ Epochs(a) /\ Epochs(p)
        /\ PacketsInv(a) /\ PacketsInv(p) /\ AcksInv(a) /\ AcksInv(p)
    BY BothEnds
  <1>c. /\ ch' = [ch EXCEPT ![a] = [ch[a] EXCEPT !.txku_in_progress = FALSE]]
        /\ UNCHANGED <<rxel, tx_epoch, tx_key, tx_ku, rx_pending, handling, received, next_pn, net,
                       started>>
    BY DEF TxTick, els
  <1>a. ch[a] \in Channel /\ ch[p] \in Channel
    BY <1>i, <1>p, EndType
  <1>t. TypeOK'
    <2>1. [ch[a] EXCEPT !.txku_in_progress = FALSE] \in Channel
      BY <1>a DEF Channel
    <2> QED BY <1>i, <1>c, <2>1 DEF TypeOK
  <1>s. \A e \in Endpoints : Opened(e)' = Opened(e) /\ Pkts(e)' = Pkts(e)
    BY <1>c, SetsKept
  <1>n. /\ ch'[p] = ch[p]
        /\ ch'[a].confirmed = ch[a].confirmed
        /\ ch'[a].ku_locally_initiated = ch[a].ku_locally_initiated
        /\ ch'[a].txku_in_progress = FALSE /\ ch'[a].txku_pn = ch[a].txku_pn
        /\ ch'[a].largest_acked = ch[a].largest_acked
        /\ ch'[a].rxku_in_progress = ch[a].rxku_in_progress
        /\ ch'[a].rxku_pending_confirm = ch[a].rxku_pending_confirm
        /\ ch'[a].rxku_trigger_pn = ch[a].rxku_trigger_pn
        /\ ch'[a].rxku_expected = ch[a].rxku_expected
        /\ ch'[a].want_ack = ch[a].want_ack /\ ch'[a].error = ch[a].error
    BY <1>i, <1>c, <1>p, <1>a DEF TypeOK, Channel
  <1>h. ch[a].largest_acked >= ch[a].txku_pn
    BY <1>i DEF TxTick, TxkuFlag, TxkuOver, AcksInv, NoPn
  <1>1. Active(a)' /\ Active(p)' /\ Slots(a)' /\ Slots(p)'
    BY <1>i, <1>c, <1>n DEF Active, Slots
  <1>2. Epochs(a)' /\ Epochs(p)'
    BY <1>i, <1>c, <1>n, <1>p DEF Epochs
  <1>3. PacketsInv(a)' /\ PacketsInv(p)'
    BY <1>i, <1>c, <1>n, <1>p, <1>s DEF PacketsInv, Heard
  <1>5. AcksInv(a)' /\ AcksInv(p)'
    BY <1>i, <1>c, <1>n, <1>h, <1>p, <1>s DEF AcksInv, Heard
  <1> QED BY <1>t, <1>1, <1>2, <1>3, <1>5, <1>p, PeerFacts DEF KeyInv, NoFalseAlarm

\* The end of an update: the slot of the last generation is filled with the next.
LEMMA RxkuTickStep ==
    ASSUME KeyInv, NEW a \in Endpoints, RxkuTick(a)
    PROVE  KeyInv'
  <1> DEFINE p == Peer(a)
             k == rxel[a].key_epoch
  <1>p. p \in Endpoints /\ p # a /\ Peer(p) = a
    BY PeerFacts
  <1>i. /\ TypeOK /\ Active(a) /\ Active(p) /\ Slots(a) /\ Slots(p) /\ Epochs(a) /\ Epochs(p)
        /\ PacketsInv(a) /\ PacketsInv(p) /\ AcksInv(a) /\ AcksInv(p)
    BY BothEnds
  <1>a. ch[a] \in Channel /\ ch[p] \in Channel /\ rxel[a] \in RxLevel /\ k \in Nat
    BY <1>i, <1>p, EndType DEF RxLevel
  <1>k. k % 2 \in {0, 1} /\ (k + 1) % 2 \in {0, 1} /\ (k + 1) % 2 # k % 2
    BY <1>a, Phase
  <1>r. KeyCooldownDone(KeyUpdateDone(rxel[a])) =
            [state |-> "NORMAL", key_epoch |-> k,
             slot |-> [rxel[a].slot EXCEPT ![(k + 1) % 2] = rxel[a].ku], ku |-> rxel[a].ku + 1]
    <2> DEFINE i == (k + 1) % 2
               erased == [rxel[a].slot EXCEPT ![i] = Erased]
    <2>1. rxel[a] = [state |-> rxel[a].state, key_epoch |-> k, slot |-> rxel[a].slot, ku |-> rxel[a].ku]
      BY <1>a DEF RxLevel
    <2>2. KeyUpdateDone(rxel[a]) =
              [state |-> "COOLDOWN", key_epoch |-> k, slot |-> erased, ku |-> rxel[a].ku]
      <3>1. KeyUpdateDone(rxel[a]) =
                [[rxel[a] EXCEPT !.slot = [rxel[a].slot EXCEPT ![i] = Erased]] EXCEPT !.state = "COOLDOWN"]
        BY <1>a DEF KeyUpdateDone, Other, RxLevel
      <3> QED BY <2>1, <3>1
    <2>3. [erased EXCEPT ![i] = rxel[a].ku] = [rxel[a].slot EXCEPT ![i] = rxel[a].ku]
      BY <1>a, <1>k DEF RxLevel
    <2>4. KeyCooldownDone(KeyUpdateDone(rxel[a])) =
              [state |-> "NORMAL", key_epoch |-> k, slot |-> [erased EXCEPT ![i] = rxel[a].ku],
               ku |-> rxel[a].ku + 1]
      <3> DEFINE el == KeyUpdateDone(rxel[a])
      <3>1. el.ku = rxel[a].ku /\ el.slot = erased /\ el.key_epoch = k
        BY <2>2
      <3>2. KeyCooldownDone(el) = [[[el EXCEPT !.slot = [el.slot EXCEPT ![i] = el.ku]] EXCEPT
                                      !.ku = el.ku + 1] EXCEPT !.state = "NORMAL"]
        BY <3>1, <2>2 DEF KeyCooldownDone, Other
      <3>3. el = [state |-> "COOLDOWN", key_epoch |-> k, slot |-> erased, ku |-> rxel[a].ku]
        BY <2>2
      <3> HIDE DEF el, erased
      <3>4. KeyCooldownDone(el) = [state |-> "NORMAL", key_epoch |-> k,
                slot |-> [erased EXCEPT ![i] = rxel[a].ku], ku |-> rxel[a].ku + 1]
        BY <3>1, <3>2, <3>3
      <3> QED BY <3>4 DEF el
    <2> QED BY <2>3, <2>4
  <1>c. /\ ch' = [ch EXCEPT ![a] = [ch[a] EXCEPT !.rxku_in_progress = FALSE]]
        /\ rxel' = [rxel EXCEPT ![a] = [state |-> "NORMAL", key_epoch |-> k,
             slot |-> [rxel[a].slot EXCEPT ![(k + 1) % 2] = rxel[a].ku], ku |-> rxel[a].ku + 1]]
        /\ UNCHANGED <<tx_epoch, tx_key, tx_ku, rx_pending, handling, received, next_pn, net, started>>
    BY <1>r DEF RxkuTick
  <1>t. TypeOK'
    <2>1. [ch[a] EXCEPT !.rxku_in_progress = FALSE] \in Channel
      BY <1>a DEF Channel
    <2>2. [state |-> "NORMAL", key_epoch |-> k,
           slot |-> [rxel[a].slot EXCEPT ![(k + 1) % 2] = rxel[a].ku], ku |-> rxel[a].ku + 1] \in RxLevel
      BY <1>a DEF RxLevel
    <2> QED BY <1>i, <1>c, <2>1, <2>2 DEF TypeOK
  <1>s. \A e \in Endpoints : Opened(e)' = Opened(e) /\ Pkts(e)' = Pkts(e)
    BY <1>c, SetsKept
  <1>n. /\ ch'[p] = ch[p] /\ rxel'[p] = rxel[p] /\ rxel'[a].key_epoch = k
        /\ ch'[a].confirmed = ch[a].confirmed
        /\ ch'[a].ku_locally_initiated = ch[a].ku_locally_initiated
        /\ ch'[a].txku_in_progress = ch[a].txku_in_progress /\ ch'[a].txku_pn = ch[a].txku_pn
        /\ ch'[a].largest_acked = ch[a].largest_acked
        /\ ~ch'[a].rxku_in_progress
        /\ ch'[a].rxku_pending_confirm = ch[a].rxku_pending_confirm
        /\ ch'[a].rxku_trigger_pn = ch[a].rxku_trigger_pn
        /\ ch'[a].rxku_expected = ch[a].rxku_expected
        /\ ch'[a].want_ack = ch[a].want_ack /\ ch'[a].error = ch[a].error
    BY <1>i, <1>c, <1>p, <1>a DEF TypeOK, Channel
  <1>1. Active(a)' /\ Active(p)' /\ Slots(p)'
    BY <1>i, <1>c, <1>n DEF Active, Slots
  <1>2. Slots(a)'
    <2>1. rxel[a].slot[k % 2] = k /\ rxel[a].ku = k + 1
      BY <1>i DEF RxkuTick, Slots
    <2>2. /\ rxel'[a].slot = [rxel[a].slot EXCEPT ![(k + 1) % 2] = rxel[a].ku]
          /\ rxel'[a].state = "NORMAL" /\ rxel'[a].ku = rxel[a].ku + 1
      BY <1>i, <1>c DEF TypeOK
    <2>3. rxel'[a].slot[k % 2] = k /\ rxel'[a].slot[(k + 1) % 2] = k + 1
      BY <1>a, <1>k, <2>1, <2>2 DEF RxLevel
    <2> QED BY <1>a, <1>n, <2>1, <2>2, <2>3 DEF Slots
  <1>3. Epochs(a)' /\ Epochs(p)'
    BY <1>i, <1>c, <1>n, <1>p DEF Epochs
  <1>4. PacketsInv(a)' /\ PacketsInv(p)'
    BY <1>i, <1>c, <1>n, <1>p, <1>s DEF PacketsInv, Heard
  <1>5. AcksInv(a)' /\ AcksInv(p)'
    BY <1>i, <1>c, <1>n, <1>p, <1>s DEF AcksInv, Heard
  <1> QED BY <1>t, <1>1, <1>2, <1>3, <1>4, <1>5, <1>p, PeerFacts DEF KeyInv, NoFalseAlarm

\* A packet that is sent has the sender's current generation and acknowledges
\* what the sender has handled; an update of the peer is confirmed with it.
LEMMA SendStep ==
    ASSUME KeyInv, NEW a \in Endpoints, NEW ack \in BOOLEAN, Send(a, ack)
    PROVE  KeyInv'
  <1> DEFINE p == Peer(a)
             new == [to |-> p, pn |-> next_pn[a], key |-> tx_key[a], key_phase |-> tx_epoch[a] % 2,
                     acks |-> IF ack THEN received[a] ELSE {}, done |-> FALSE]
             flag == TxkuFlag(ch[a])
             pending == ch[a].rxku_pending_confirm /\ ~(ack /\ ch[a].rxku_trigger_pn \in received[a])
             want == ch[a].want_ack /\ ~ack
             c == [ch[a] EXCEPT !.txku_in_progress = flag, !.rxku_pending_confirm = pending,
                                !.want_ack = want]
  <1>p. p \in Endpoints /\ p # a /\ Peer(p) = a
    BY PeerFacts
  <1>i. /\ TypeOK /\ Active(a) /\ Active(p) /\ Slots(a) /\ Slots(p) /\ Epochs(a) /\ Epochs(p)
        /\ PacketsInv(a) /\ PacketsInv(p) /\ AcksInv(a) /\ AcksInv(p)
    BY BothEnds
  <1>a. /\ ch[a] \in Channel /\ ch[p] \in Channel /\ next_pn[a] \in Nat /\ tx_epoch[a] \in Nat
        /\ tx_key[a] \in Nat /\ received[a] \in SUBSET Nat /\ net \subseteq Packet
    BY <1>i, <1>p, EndType
  <1>b. flag \in BOOLEAN /\ pending \in BOOLEAN /\ want \in BOOLEAN
    BY <1>a DEF TxkuFlag
  <1>h. ~pending
    <2>1. SUFFICES ASSUME ch[a].rxku_pending_confirm
                   PROVE  ack /\ ch[a].rxku_trigger_pn \in received[a]
      OBVIOUS
    <2>2. Opened(a) = {}
      BY DEF Send, Opened, Range
    <2> QED BY <1>i, <2>1, <2>2 DEF Send, AcksInv
  <1>f. ~flag => ~ch[a].txku_in_progress \/ ch[a].largest_acked >= ch[a].txku_pn
    BY <1>i DEF TxkuFlag, TxkuOver, AcksInv, NoPn
  <1>c. /\ ch' = [ch EXCEPT ![a] = c]
        /\ net' = net \cup {new} /\ next_pn' = [next_pn EXCEPT ![a] = next_pn[a] + 1]
        /\ UNCHANGED <<rxel, tx_epoch, tx_key, tx_ku, rx_pending, handling, received, started>>
    BY DEF Send, els
  <1>k. tx_key[a] = tx_epoch[a]
    BY <1>i DEF Epochs
  <1> HIDE DEF flag, pending, want
  <1>w. new \in Packet
    BY <1>a, <1>p, Phase DEF Packet
  <1>t. TypeOK'
    <2>1. c \in Channel
      BY <1>a, <1>b DEF Channel
    <2>2. net' \subseteq Packet
      BY <1>c, <1>a, <1>w
    <2>3. next_pn' \in [Endpoints -> Nat] /\ ch' \in [Endpoints -> Channel]
      BY <1>c, <1>a, <1>i, <2>1 DEF TypeOK
    <2> QED BY <1>i, <1>c, <2>2, <2>3 DEF TypeOK
  <1>n. /\ ch'[p] = ch[p] /\ next_pn'[a] = next_pn[a] + 1 /\ next_pn'[p] = next_pn[p]
        /\ ch'[a].confirmed = ch[a].confirmed
        /\ ch'[a].ku_locally_initiated = ch[a].ku_locally_initiated
        /\ ch'[a].txku_in_progress = flag /\ ch'[a].txku_pn = ch[a].txku_pn
        /\ ch'[a].largest_acked = ch[a].largest_acked
        /\ ch'[a].rxku_in_progress = ch[a].rxku_in_progress
        /\ ch'[a].rxku_pending_confirm = pending
        /\ ch'[a].rxku_trigger_pn = ch[a].rxku_trigger_pn
        /\ ch'[a].rxku_expected = ch[a].rxku_expected /\ ch'[a].error = ch[a].error
    BY <1>i, <1>c, <1>p, <1>a DEF TypeOK, Channel
  <1>s. /\ Opened(a)' = Opened(a) /\ Opened(p)' = Opened(p)
        /\ Pkts(a)' = Pkts(a) /\ Pkts(p)' = Pkts(p) \cup {new}
    <2>1. Opened(a)' = Opened(a) /\ Opened(p)' = Opened(p)
      BY <1>c DEF Opened
    <2>2. new.to = p
      OBVIOUS
    <2>3. {m \in net' : m.to = a} = {m \in net : m.to = a}
      BY <1>c, <1>p, <2>2
    <2>4. {m \in net' : m.to = p} = {m \in net : m.to = p} \cup {new}
      BY <1>c, <2>2
    <2> QED BY <2>1, <2>3, <2>4 DEF Pkts
  <1>1. Active(a)' /\ Active(p)' /\ Slots(a)' /\ Slots(p)'
    BY <1>i, <1>c, <1>n DEF Active, Slots
  <1>2. Epochs(a)' /\ Epochs(p)'
    BY <1>i, <1>c, <1>n, <1>p DEF Epochs
  <1>3. PacketsInv(a)'
    <2>1. \A m \in Pkts(a) : m \in Packet
      BY <1>i, OpenedType
    <2> QED BY <1>i, <1>a, <1>c, <1>n, <1>p, <1>s, <2>1 DEF PacketsInv, Heard, Packet
  <1>4. PacketsInv(p)'
    <2>0. \A m \in Pkts(p) : m \in Packet
      BY <1>i, <1>p, OpenedType
    <2>e. /\ rxel[p].key_epoch \in Nat /\ rxel[p].key_epoch <= tx_epoch[a]
          /\ rxel[a].key_epoch <= tx_epoch[a] /\ rxel[a].key_epoch \in Nat
      BY <1>i, <1>p, <1>a, EndType DEF Epochs, RxLevel
    <2>1. /\ new.pn = next_pn[a] /\ new.key = tx_epoch[a] /\ new.acks \subseteq received[a]
      BY <1>k
    <2>2. \A pn \in new.acks :
             /\ pn < next_pn[p]
             /\ pn >= ch[p].txku_pn => Heard(p)' /\ new.key >= tx_epoch[p]
      BY <1>i, <1>h, <1>n, <1>c, <1>p, <2>1, <2>e DEF PacketsInv, Heard
    <2> HIDE DEF new
    <2>3. \A m \in Pkts(p)' :
            /\ m.pn < next_pn'[a] /\ m.key <= tx_epoch'[a]
            /\ m.pn >= ch'[a].txku_pn => m.key = tx_epoch'[a]
            /\ ch'[p].rxku_in_progress /\ m.pn >= ch'[p].rxku_trigger_pn
                  => m.key >= rxel'[p].key_epoch
      BY <1>i, <1>a, <1>c, <1>n, <1>p, <1>s, <2>0, <2>1, <2>e DEF PacketsInv, Packet
    <2>4. \A m \in Pkts(p)' : \A pn \in m.acks :
            /\ pn < next_pn'[p]
            /\ pn >= ch'[p].txku_pn => Heard(p)' /\ m.key >= tx_epoch'[p]
      BY <1>i, <1>a, <1>c, <1>n, <1>h, <1>p, <1>s, <2>2 DEF PacketsInv, Heard
    <2>5. \A m1, m2 \in Pkts(p)' : m1.pn <= m2.pn => m1.key <= m2.key
      BY <1>i, <1>a, <1>c, <1>n, <1>p, <1>s, <2>0, <2>1 DEF PacketsInv, Packet
    <2>6. /\ \A x \in Opened(p)' : x.key_epoch = x.pkt.key /\ x.key_epoch <= rxel'[p].key_epoch
          /\ \A pn \in received'[p] :
                /\ pn < next_pn'[a]
                /\ pn >= ch'[a].txku_pn => rxel'[p].key_epoch = tx_epoch'[a]
      <3>1. received[p] \in SUBSET Nat
        BY <1>i, <1>p, EndType
      <3> QED BY <1>i, <1>a, <1>c, <1>n, <1>p, <1>s, <3>1 DEF PacketsInv
    <2> QED BY <1>p, <2>3, <2>4, <2>5, <2>6 DEF PacketsInv
  <1>5. AcksInv(a)' /\ AcksInv(p)'
    <2>1. AcksInv(a)'
      <3>1. /\ ch'[a].largest_acked \in Nat /\ ch'[a].largest_acked < next_pn'[a]
            /\ ch'[a].txku_pn <= next_pn'[a]
        <4>1. /\ ch[a].largest_acked \in Nat /\ ch[a].largest_acked < next_pn[a]
              /\ ch[a].txku_pn <= next_pn[a]
          BY <1>i DEF AcksInv
        <4>2. ch[a].txku_pn \in Nat
          BY <1>a DEF Channel
        <4> QED BY <4>1, <4>2, <1>a, <1>n
      <3>2. ~ch'[a].txku_in_progress \/ ch'[a].largest_acked >= ch'[a].txku_pn
              => Heard(a)' /\ rxel'[a].key_epoch >= tx_epoch'[a]
        BY <1>i, <1>c, <1>n, <1>f, <1>p DEF AcksInv, Heard
      <3> QED BY <1>n, <1>h, <3>1, <3>2 DEF AcksInv
    <2>2. AcksInv(p)'
      BY <1>i, <1>a, <1>c, <1>n, <1>h, <1>f, <1>p, <1>s DEF AcksInv, Heard
    <2> QED BY <2>1, <2>2
  <1> QED BY <1>t, <1>1, <1>2, <1>3, <1>4, <1>5, <1>p, PeerFacts DEF KeyInv, NoFalseAlarm

\* A packet that is handled: neither of the two accusations is true, and what it
\* acknowledges was heard by a peer that has answered.
LEMMA HandleStep ==
    ASSUME KeyInv, NEW a \in Endpoints, HandlePacket(a)
    PROVE  KeyInv'
  <1> DEFINE p == Peer(a)
             x == Head(rx_pending[a])
  <1>p. p \in Endpoints /\ p # a /\ Peer(p) = a
    BY PeerFacts
  <1>i. /\ TypeOK /\ Active(a) /\ Active(p) /\ Slots(a) /\ Slots(p) /\ Epochs(a) /\ Epochs(p)
        /\ PacketsInv(a) /\ PacketsInv(p) /\ AcksInv(a) /\ AcksInv(p)
    BY BothEnds
  <1>a. /\ ch[a] \in Channel /\ ch[p] \in Channel /\ next_pn[a] \in Nat /\ next_pn[p] \in Nat
        /\ tx_epoch[a] \in Nat /\ tx_epoch[p] \in Nat
        /\ rxel[a].key_epoch \in Nat /\ received[a] \in SUBSET Nat
    BY <1>i, <1>p, EndType DEF RxLevel
  <1>q. /\ rx_pending[a] \in Seq(Received) /\ rx_pending[a] # <<>>
        /\ x \in Received /\ Tail(rx_pending[a]) \in Seq(Received)
        /\ Opened(a) = {x} \cup Range(Tail(rx_pending[a]))
    BY <1>i, OpenedType, RangeTail DEF Opened, HandlePacket
  <1> HIDE DEF x
  <1>x. /\ x \in Opened(a) /\ x.pkt \in Pkts(a) /\ x.pkt \in Packet /\ x.key_epoch \in Nat
        /\ x.pkt.pn \in Nat /\ x.pkt.key \in Nat /\ x.pkt.acks \in SUBSET Nat /\ x.pkt.done \in BOOLEAN
    <2>1. x.pkt \in Packet /\ x.key_epoch \in Nat /\ x \in Opened(a)
      BY <1>q DEF Received
    <2> QED BY <2>1 DEF Packet, Pkts
  <1>y. /\ x.key_epoch = x.pkt.key /\ x.key_epoch <= rxel[a].key_epoch
        /\ x.pkt.pn < next_pn[p]
        /\ x.pkt.pn >= ch[p].txku_pn => x.pkt.key = tx_epoch[p]
        /\ ch[a].rxku_in_progress /\ x.pkt.pn >= ch[a].rxku_trigger_pn
              => x.pkt.key >= rxel[a].key_epoch
        /\ \A pn \in x.pkt.acks :
              pn < next_pn[a] /\ (pn >= ch[a].txku_pn => Heard(a) /\ x.pkt.key >= tx_epoch[a])
    BY <1>i, <1>x, <1>p DEF PacketsInv
  <1>e. KeyUpdateError(a, x) = "none"
    <2>1. ~OldKeys(a, x)
      BY <1>a, <1>x, <1>y DEF OldKeys
    <2>2. ~AckWithoutUpdate(a, x)
      <3> SUFFICES ASSUME NEW pn \in x.pkt.acks, pn >= ch[a].txku_pn,
                          x.key_epoch < rxel[a].key_epoch \/ ch[a].rxku_expected
                   PROVE  FALSE
        BY DEF AckWithoutUpdate
      <3>1. x.pkt.key >= tx_epoch[a]
        BY <1>y
      <3>2. /\ tx_epoch[a] = rxel[a].key_epoch + (IF ch[a].ku_locally_initiated THEN 1 ELSE 0)
            /\ ch[a].rxku_expected => ch[a].ku_locally_initiated
        BY <1>i DEF Epochs
      <3> QED BY <1>a, <1>x, <1>y, <3>1, <3>2
    <2> QED BY <2>1, <2>2 DEF KeyUpdateError
  <1>l. PICK largest \in x.pkt.acks \cup {ch[a].largest_acked} :
          /\ ch' = [ch EXCEPT ![a] = [ch[a] EXCEPT !.largest_acked = largest,
                                         !.confirmed = ch[a].confirmed \/ x.pkt.done]]
          /\ received' = [received EXCEPT ![a] = received[a] \cup {x.pkt.pn}]
    BY <1>e DEF HandlePacket, x
  <1>f. ch[a].confirmed = TRUE /\ (ch[a].confirmed \/ x.pkt.done) = TRUE
    BY <1>i, <1>a DEF Epochs, Channel
  <1>g. largest \in Nat
    BY <1>x, <1>i DEF AcksInv
  <1>c. /\ ch' = [ch EXCEPT ![a] = [ch[a] EXCEPT !.largest_acked = largest, !.confirmed = TRUE]]
        /\ received' = [received EXCEPT ![a] = received[a] \cup {x.pkt.pn}]
        /\ rx_pending' = [rx_pending EXCEPT ![a] = Tail(rx_pending[a])]
        /\ handling' = [handling EXCEPT ![a] = Len(rx_pending[a]) > 1]
        /\ UNCHANGED <<rxel, tx_epoch, tx_key, tx_ku, next_pn, net, started>>
    BY <1>l, <1>f DEF HandlePacket, els
  <1>t. TypeOK'
    <2>1. [ch[a] EXCEPT !.largest_acked = largest, !.confirmed = TRUE] \in Channel
      BY <1>a, <1>g DEF Channel
    <2>2. ch' \in [Endpoints -> Channel]
      BY <1>i, <1>c, <2>1 DEF TypeOK
    <2>3. received' \in [Endpoints -> SUBSET Nat] /\ rx_pending' \in [Endpoints -> Seq(Received)]
      BY <1>i, <1>c, <1>a, <1>q, <1>x DEF TypeOK, Received
    <2>4. (Len(rx_pending[a]) > 1) \in BOOLEAN
      OBVIOUS
    <2>5. handling' \in [Endpoints -> BOOLEAN]
      BY <1>i, <1>c, <2>4 DEF TypeOK
    <2> QED BY <1>i, <1>c, <2>2, <2>3, <2>5 DEF TypeOK, Received
  <1>n. /\ ch'[p] = ch[p] /\ received'[p] = received[p]
        /\ received'[a] = received[a] \cup {x.pkt.pn}
        /\ ch'[a].confirmed = TRUE
        /\ ch'[a].ku_locally_initiated = ch[a].ku_locally_initiated
        /\ ch'[a].txku_in_progress = ch[a].txku_in_progress /\ ch'[a].txku_pn = ch[a].txku_pn
        /\ ch'[a].largest_acked = largest
        /\ ch'[a].rxku_in_progress = ch[a].rxku_in_progress
        /\ ch'[a].rxku_pending_confirm = ch[a].rxku_pending_confirm
        /\ ch'[a].rxku_trigger_pn = ch[a].rxku_trigger_pn
        /\ ch'[a].rxku_expected = ch[a].rxku_expected
        /\ ch'[a].want_ack = ch[a].want_ack /\ ch'[a].error = ch[a].error
    BY <1>i, <1>c, <1>p, <1>a DEF TypeOK, Channel
  <1>s. /\ Opened(a) = Opened(a)' \cup {x} /\ Opened(p)' = Opened(p)
        /\ Pkts(a)' \subseteq Pkts(a) /\ Pkts(p)' = Pkts(p)
    <2>1. rx_pending'[a] = Tail(rx_pending[a]) /\ rx_pending'[p] = rx_pending[p]
      BY <1>i, <1>c, <1>p DEF TypeOK
    <2>2. Opened(a) = Opened(a)' \cup {x} /\ Opened(p)' = Opened(p)
      BY <2>1, <1>q DEF Opened
    <2> QED BY <1>c, <2>2 DEF Pkts
  <1>1. Active(a)' /\ Active(p)' /\ Slots(a)' /\ Slots(p)'
    BY <1>i, <1>c, <1>n DEF Active, Slots
  <1>2. Epochs(a)' /\ Epochs(p)'
    BY <1>i, <1>c, <1>n, <1>p DEF Epochs
  <1>3. PacketsInv(a)'
    <2>1. x.pkt.pn >= ch[p].txku_pn => rxel[a].key_epoch = tx_epoch[p]
      <3>1. rxel[a].key_epoch <= tx_epoch[p]
        BY <1>i DEF Epochs
      <3> QED BY <1>a, <1>y, <3>1
    <2> QED BY <1>i, <1>c, <1>n, <1>p, <1>s, <1>y, <2>1 DEF PacketsInv, Heard
  <1>4. PacketsInv(p)'
    BY <1>i, <1>c, <1>n, <1>p, <1>s DEF PacketsInv, Heard
  <1>5. AcksInv(a)'
    <2>1. /\ largest < next_pn[a]
          /\ largest >= ch[a].txku_pn => Heard(a) /\ rxel[a].key_epoch >= tx_epoch[a]
      <3>1. CASE largest = ch[a].largest_acked
        BY <1>i, <3>1 DEF AcksInv
      <3>2. CASE largest \in x.pkt.acks
        BY <1>a, <1>x, <1>y, <3>2
      <3> QED BY <3>1, <3>2
    <2>2. \/ ~ch[a].rxku_pending_confirm
          \/ ch[a].rxku_trigger_pn \in received'[a]
          \/ \E z \in Opened(a)' : ch[a].rxku_trigger_pn = z.pkt.pn
      BY <1>i, <1>n, <1>s DEF AcksInv
    <2> QED BY <1>i, <1>c, <1>g, <1>n, <1>p, <1>s, <2>1, <2>2 DEF AcksInv, Heard
  <1>6. AcksInv(p)'
    BY <1>i, <1>c, <1>n, <1>p, <1>s DEF AcksInv, Heard
  <1> QED BY <1>t, <1>1, <1>2, <1>3, <1>4, <1>5, <1>6, <1>p, PeerFacts DEF KeyInv, NoFalseAlarm

\* The slot that decrypts a packet is the one of its generation, and the epoch
\* reported is that generation: the current one, the next one if the Key Phase
\* bit is unexpected, or the last one during an update.
LEMMA EpochOfKey ==
    ASSUME TypeOK, NEW a \in Endpoints, Slots(a), NEW m \in Packet, Decrypts(a, m)
    PROVE  /\ RxKeyEpoch(rxel[a], m.key_phase) = m.key
           /\ IF m.key_phase # rxel[a].key_epoch % 2 /\ rxel[a].state = "NORMAL"
              THEN m.key = rxel[a].key_epoch + 1 ELSE m.key <= rxel[a].key_epoch
  <1> DEFINE k == rxel[a].key_epoch
             bit == m.key_phase
  <1>1. rxel[a] \in RxLevel /\ k \in Nat /\ rxel[a].state \in {"NORMAL", "UPDATING"}
    BY EndType DEF RxLevel
  <1>2. bit \in {0, 1} /\ m.key \in Nat
    BY DEF Packet
  <1>3. bit = k % 2 \/ (bit = (k + 1) % 2 /\ bit # k % 2)
    BY <1>1, <1>2, Phase
  <1>4. rxel[a].slot[bit] = m.key
    BY <1>1 DEF Decrypts, CipherCtxIdx
  <1>5. CASE rxel[a].state = "NORMAL"
    <2>1. rxel[a].slot[k % 2] = k /\ rxel[a].slot[(k + 1) % 2] = k + 1
      BY <1>5 DEF Slots
    <2> QED BY <1>1, <1>2, <1>3, <1>4, <1>5, <2>1 DEF RxKeyEpoch
  <1>6. CASE rxel[a].state = "UPDATING"
    <2>1. rxel[a].slot[k % 2] = k /\ rxel[a].slot[(k + 1) % 2] = k - 1
      BY <1>6 DEF Slots
    <2> QED BY <1>1, <1>2, <1>3, <1>4, <1>6, <2>1 DEF RxKeyEpoch, IsOldKey
  <1> QED BY <1>1, <1>5, <1>6

\* A packet that is decrypted moves from the network to the queue.
LEMMA DecryptSets ==
    ASSUME KeyInv, NEW m \in net, Decrypt(m.to, m)
    PROVE  LET a == m.to
               x == [pkt |-> m, key_epoch |-> m.key]
           IN  /\ m \in Packet /\ m \in Pkts(a) /\ x \in Received
               /\ rx_pending' = [rx_pending EXCEPT ![a] = Append(rx_pending[a], x)]
               /\ rx_pending' \in [Endpoints -> Seq(Received)]
               /\ net' \subseteq Packet
               /\ Opened(a)' = Opened(a) \cup {x} /\ Opened(Peer(a))' = Opened(Peer(a))
               /\ Pkts(a)' = Pkts(a) /\ Pkts(Peer(a))' = Pkts(Peer(a))
  <1> DEFINE a == m.to
             x == [pkt |-> m, key_epoch |-> m.key]
  <1>1. TypeOK /\ m \in Packet /\ a \in Endpoints
    BY DEF KeyInv, TypeOK, Packet
  <1>2. Slots(a)
    BY <1>1 DEF KeyInv
  <1>3. RxKeyEpoch(rxel[a], m.key_phase) = m.key /\ m.key \in Nat
    BY <1>1, <1>2, EpochOfKey DEF Decrypt, Packet
  <1>4. /\ rx_pending' = [rx_pending EXCEPT ![a] = Append(rx_pending[a], x)]
        /\ net' = net \ {m}
    BY <1>3 DEF Decrypt
  <1>5. x \in Received /\ rx_pending[a] \in Seq(Received)
    BY <1>1, <1>3, OpenedType DEF Received
  <1>6. x.pkt = m
    OBVIOUS
  <1> HIDE DEF x
  <1>7. rx_pending' \in [Endpoints -> Seq(Received)]
    <2>1. Append(rx_pending[a], x) \in Seq(Received)
      BY <1>5
    <2>2. rx_pending \in [Endpoints -> Seq(Received)]
      BY <1>1 DEF TypeOK, Received
    <2> QED BY <1>4, <2>1, <2>2
  <1>p. Peer(a) \in Endpoints /\ Peer(a) # a
    BY <1>1, PeerFacts
  <1>8. rx_pending'[a] = Append(rx_pending[a], x) /\ rx_pending'[Peer(a)] = rx_pending[Peer(a)]
    BY <1>1, <1>4, <1>p DEF TypeOK
  <1>9. Opened(a)' = Opened(a) \cup {x} /\ Opened(Peer(a))' = Opened(Peer(a))
    BY <1>5, <1>8, RangeAppend DEF Opened
  <1>10. Pkts(a)' = Pkts(a)
    <2>1. {z.pkt : z \in Opened(a) \cup {x}} = {z.pkt : z \in Opened(a)} \cup {m}
      BY <1>6
    <2>2. {n \in net \ {m} : n.to = a} \cup {m} = {n \in net : n.to = a}
      OBVIOUS
    <2> QED BY <1>4, <1>9, <2>1, <2>2 DEF Pkts
  <1>11. Pkts(Peer(a))' = Pkts(Peer(a))
    <2>1. {n \in net \ {m} : n.to = Peer(a)} = {n \in net : n.to = Peer(a)}
      BY <1>p
    <2> QED BY <1>4, <1>9, <2>1 DEF Pkts
  <1>12. m \in Pkts(a)
    BY DEF Pkts
  <1> QED BY <1>1, <1>4, <1>5, <1>7, <1>9, <1>10, <1>11, <1>12 DEF x, TypeOK

\* A packet of a generation the receiver knows.
LEMMA DecryptKnown ==
    ASSUME KeyInv, NEW m \in net, Decrypt(m.to, m),
           ~(m.key_phase # rxel[m.to].key_epoch % 2 /\ rxel[m.to].state = "NORMAL")
    PROVE  KeyInv'
  <1> DEFINE a == m.to
             p == Peer(a)
             x == [pkt |-> m, key_epoch |-> m.key]
  <1>0. a \in Endpoints
    BY DEF KeyInv, TypeOK, Packet
  <1>p. p \in Endpoints /\ p # a /\ Peer(p) = a
    BY <1>0, PeerFacts
  <1>i. /\ TypeOK /\ Active(a) /\ Active(p) /\ Slots(a) /\ Slots(p) /\ Epochs(a) /\ Epochs(p)
        /\ PacketsInv(a) /\ PacketsInv(p) /\ AcksInv(a) /\ AcksInv(p)
    BY <1>0, BothEnds
  <1>s. /\ m \in Packet /\ rx_pending' \in [Endpoints -> Seq(Received)] /\ net' \subseteq Packet
        /\ Opened(a)' = Opened(a) \cup {x} /\ Opened(p)' = Opened(p)
        /\ Pkts(a)' = Pkts(a) /\ Pkts(p)' = Pkts(p)
    BY DecryptSets
  <1>c. UNCHANGED <<ch, rxel, tx_epoch, tx_key, tx_ku, handling, received, next_pn, started>>
    BY DEF Decrypt, els
  <1>t. TypeOK'
    BY <1>i, <1>c, <1>s DEF TypeOK, Received
  <1>x. x.key_epoch = x.pkt.key /\ x.key_epoch <= rxel[a].key_epoch
    BY <1>0, <1>i, <1>s, EpochOfKey DEF Decrypt
  <1> HIDE DEF x
  <1>1. /\ Active(a)' /\ Active(p)' /\ Slots(a)' /\ Slots(p)' /\ Epochs(a)' /\ Epochs(p)'
    BY <1>i, <1>c, <1>p DEF Active, Slots, Epochs
  <1>2. PacketsInv(a)'
    BY <1>i, <1>c, <1>s, <1>x DEF PacketsInv, Heard
  <1>3. PacketsInv(p)'
    BY <1>i, <1>c, <1>s, <1>p DEF PacketsInv, Heard
  <1>4. AcksInv(a)' /\ AcksInv(p)'
    BY <1>i, <1>c, <1>s, <1>p DEF AcksInv, Heard
  <1> QED BY <1>0, <1>t, <1>1, <1>2, <1>3, <1>4, <1>p, PeerFacts DEF KeyInv, NoFalseAlarm

\* A packet of the next generation: it cannot come before the last update is
\* confirmed, and it is an answer to the receiver's own update or is answered.
LEMMA DecryptNext ==
    ASSUME KeyInv, NEW m \in net, Decrypt(m.to, m),
           m.key_phase # rxel[m.to].key_epoch % 2, rxel[m.to].state = "NORMAL"
    PROVE  KeyInv'
  <1> DEFINE a == m.to
             p == Peer(a)
             k == rxel[a].key_epoch
             x == [pkt |-> m, key_epoch |-> m.key]
             local == ch[a].ku_locally_initiated
  <1>0. a \in Endpoints
    BY DEF KeyInv, TypeOK, Packet
  <1>p. p \in Endpoints /\ p # a /\ Peer(p) = a
    BY <1>0, PeerFacts
  <1>i. /\ TypeOK /\ Active(a) /\ Active(p) /\ Slots(a) /\ Slots(p) /\ Epochs(a) /\ Epochs(p)
        /\ PacketsInv(a) /\ PacketsInv(p) /\ AcksInv(a) /\ AcksInv(p)
    BY <1>0, BothEnds
  <1>s. /\ m \in Packet /\ m \in Pkts(a) /\ net' \subseteq Packet
        /\ rx_pending' \in [Endpoints -> Seq(Received)]
        /\ Opened(a)' = Opened(a) \cup {x} /\ Opened(p)' = Opened(p)
        /\ Pkts(a)' = Pkts(a) /\ Pkts(p)' = Pkts(p)
    BY DecryptSets
  <1>a. /\ ch[a] \in Channel /\ ch[p] \in Channel /\ rxel[a] \in RxLevel
        /\ tx_epoch[a] \in Nat /\ tx_epoch[p] \in Nat /\ tx_ku[a] \in Nat /\ next_pn[a] \in Nat
        /\ k \in Nat /\ rxel[p].key_epoch \in Nat /\ local \in BOOLEAN /\ m.pn \in Nat
    BY <1>0, <1>i, <1>p, <1>s, EndType DEF RxLevel, Channel, Packet
  <1>k. m.key = k + 1
    BY <1>0, <1>i, <1>s, EpochOfKey DEF Decrypt
  <1>e. tx_epoch[p] = k + 1 /\ tx_epoch[a] = k + (IF local THEN 1 ELSE 0)
    <2>1. m.key <= tx_epoch[p]
      BY <1>i, <1>s DEF PacketsInv
    <2>2. tx_epoch[p] <= k + 1 /\ tx_epoch[a] = k + (IF local THEN 1 ELSE 0)
      BY <1>i DEF Epochs
    <2> QED BY <1>a, <1>k, <2>1, <2>2
  <1>f. ~ch[a].rxku_pending_confirm
    BY <1>a, <1>e, <1>i DEF AcksInv
  <1>h. ~Heard(p)
    BY <1>a, <1>e, <1>p DEF Heard
  <1>d. RxkuAllowed(ch[a])
    BY <1>i, <1>f DEF RxkuAllowed, Epochs
  <1>r. rxel' = [rxel EXCEPT ![a] = RxKeyUpdate(rxel[a])]
    BY DEF Decrypt
  <1>c. UNCHANGED <<handling, received, next_pn, started>> /\ RxkuDetected(a, m.pn)
    BY DEF Decrypt
  <1>m. /\ rxel'[a].key_epoch = k + 1 /\ rxel'[a].state = "UPDATING" /\ rxel'[a].slot = rxel[a].slot
        /\ rxel'[a].ku = rxel[a].ku /\ rxel'[p] = rxel[p] /\ rxel' \in [Endpoints -> RxLevel]
    <2>1. RxKeyUpdate(rxel[a]) \in RxLevel
      <3>1. rxel[a] = [state |-> rxel[a].state, key_epoch |-> k, slot |-> rxel[a].slot,
                       ku |-> rxel[a].ku]
        BY <1>a DEF RxLevel
      <3>2. RxKeyUpdate(rxel[a]) = [state |-> "UPDATING", key_epoch |-> k + 1,
                                    slot |-> rxel[a].slot, ku |-> rxel[a].ku]
        <4>1. RxKeyUpdate(rxel[a]) = [[rxel[a] EXCEPT !.key_epoch = k + 1] EXCEPT !.state = "UPDATING"]
          BY <1>a DEF RxKeyUpdate, RxLevel
        <4> QED BY <3>1, <4>1
      <3>3. rxel[a].slot \in [{0, 1} -> Int] /\ rxel[a].ku \in Nat /\ k + 1 \in Nat
        BY <1>a DEF RxLevel
      <3> QED BY <3>2, <3>3 DEF RxLevel
    <2>2. rxel \in [Endpoints -> RxLevel]
      BY <1>i DEF TypeOK
    <2>3. rxel'[a] = RxKeyUpdate(rxel[a]) /\ rxel'[p] = rxel[p]
      BY <1>0, <1>p, <1>r, <2>2
    <2>4. rxel' \in [Endpoints -> RxLevel]
      BY <1>r, <2>1, <2>2
    <2> QED BY <1>a, <2>3, <2>4 DEF RxKeyUpdate, RxLevel
  <1>b. /\ ch'[p] = ch[p] /\ ch' \in [Endpoints -> Channel]
        /\ ch'[a].confirmed = ch[a].confirmed /\ ch'[a].ku_locally_initiated = FALSE
        /\ ch'[a].txku_in_progress = (IF local THEN ch[a].txku_in_progress ELSE TRUE)
        /\ ch'[a].txku_pn = (IF local THEN ch[a].txku_pn ELSE next_pn[a])
        /\ ch'[a].largest_acked = ch[a].largest_acked
        /\ ch'[a].rxku_in_progress = TRUE /\ ch'[a].rxku_pending_confirm = TRUE
        /\ ch'[a].rxku_trigger_pn = m.pn /\ ch'[a].rxku_expected = FALSE
        /\ ch'[a].want_ack = TRUE /\ ch'[a].error = ch[a].error
    <2> DEFINE noted == [ch[a] EXCEPT !.epoch_start_pn = m.pn]
               c == [noted EXCEPT !.ku_locally_initiated = FALSE, !.rxku_in_progress = TRUE,
                           !.rxku_pending_confirm = TRUE, !.rxku_trigger_pn = m.pn,
                           !.rxku_expected = FALSE, !.want_ack = TRUE]
    <2>1. noted \in Channel /\ c \in Channel
      BY <1>a DEF Channel
    <2>f. /\ c.confirmed = ch[a].confirmed /\ c.ku_locally_initiated = FALSE
          /\ c.txku_in_progress = ch[a].txku_in_progress /\ c.txku_pn = ch[a].txku_pn
          /\ c.largest_acked = ch[a].largest_acked
          /\ c.rxku_in_progress = TRUE /\ c.rxku_pending_confirm = TRUE
          /\ c.rxku_trigger_pn = m.pn /\ c.rxku_expected = FALSE
          /\ c.want_ack = TRUE /\ c.error = ch[a].error
      BY <1>a DEF Channel
    <2>t. ch \in [Endpoints -> Channel]
      BY <1>i DEF TypeOK
    <2>2. CASE local
      <3>1. ch' = [ch EXCEPT ![a] = c]
        BY <1>c, <1>d, <2>2 DEF RxkuDetected, Decision
      <3> HIDE DEF c
      <3>2. ch'[a] = c /\ ch'[p] = ch[p] /\ ch' \in [Endpoints -> Channel]
        BY <1>0, <1>p, <2>1, <2>t, <3>1
      <3> QED BY <2>2, <2>f, <3>2
    <2>3. CASE ~local
      <3> DEFINE d == [c EXCEPT !.txku_in_progress = TRUE, !.txku_pn = next_pn[a],
                                !.rxku_expected = c.ku_locally_initiated]
      <3>1. ch' = [ch EXCEPT ![a] = d]
        BY <1>c, <1>d, <2>3 DEF RxkuDetected, Decision, TriggeredTxku
      <3> HIDE DEF c
      <3>2. /\ d.confirmed = c.confirmed /\ d.ku_locally_initiated = FALSE
            /\ d.txku_in_progress = TRUE /\ d.txku_pn = next_pn[a]
            /\ d.largest_acked = c.largest_acked
            /\ d.rxku_in_progress = c.rxku_in_progress
            /\ d.rxku_pending_confirm = c.rxku_pending_confirm
            /\ d.rxku_trigger_pn = c.rxku_trigger_pn /\ d.rxku_expected = FALSE
            /\ d.want_ack = c.want_ack /\ d.error = c.error /\ d \in Channel
        BY <1>a, <2>1, <2>f DEF Channel
      <3> HIDE DEF d
      <3>3. ch'[a] = d /\ ch'[p] = ch[p] /\ ch' \in [Endpoints -> Channel]
        BY <1>0, <1>p, <2>t, <3>1, <3>2
      <3> QED BY <2>3, <2>f, <3>2, <3>3
    <2> QED BY <2>2, <2>3
  <1>x. /\ tx_epoch'[a] = k + 1 /\ tx_epoch'[p] = tx_epoch[p]
        /\ tx_key'[a] = k + 1 /\ tx_ku'[a] = k + 2
        /\ tx_key'[p] = tx_key[p] /\ tx_ku'[p] = tx_ku[p]
        /\ tx_epoch' \in [Endpoints -> Nat] /\ tx_key' \in [Endpoints -> Nat]
        /\ tx_ku' \in [Endpoints -> Nat]
    <2>t. /\ tx_epoch \in [Endpoints -> Nat] /\ tx_key \in [Endpoints -> Nat]
          /\ tx_ku \in [Endpoints -> Nat]
      BY <1>i DEF TypeOK
    <2>e. tx_key[a] = tx_epoch[a] /\ tx_ku[a] = tx_epoch[a] + 1
      BY <1>i DEF Epochs
    <2>1. CASE local
      <3>1. UNCHANGED <<tx_epoch, tx_key, tx_ku>>
        BY <1>c, <1>d, <2>1 DEF RxkuDetected, Decision
      <3> QED BY <1>a, <1>e, <2>1, <2>t, <2>e, <3>1
    <2>2. CASE ~local
      <3>1. /\ tx_key' = [tx_key EXCEPT ![a] = tx_ku[a]]
            /\ tx_ku' = [tx_ku EXCEPT ![a] = tx_ku[a] + 1]
            /\ tx_epoch' = [tx_epoch EXCEPT ![a] = tx_epoch[a] + 1]
        BY <1>c, <1>d, <2>2 DEF RxkuDetected, Decision, TxKeyUpdate
      <3> QED BY <1>0, <1>p, <1>a, <1>e, <2>2, <2>t, <2>e, <3>1
    <2> QED BY <2>1, <2>2
  <1>t. TypeOK'
    BY <1>i, <1>b, <1>c, <1>m, <1>s, <1>x DEF TypeOK, Received
  <1>y. x.pkt = m /\ x.key_epoch = k + 1
    BY <1>k
  <1> HIDE DEF x
  <1>1. Active(a)' /\ Active(p)' /\ Slots(p)'
    BY <1>i, <1>b, <1>m DEF Active, Slots
  <1>2. Slots(a)'
    <2>1. /\ rxel[a].slot[k % 2] = k /\ rxel[a].slot[(k + 1) % 2] = k + 1 /\ rxel[a].ku = k + 2
      BY <1>i DEF Slots
    <2>2. (k + 1 + 1) % 2 = k % 2
      BY <1>a, Phase
    <2> QED BY <1>a, <1>b, <1>m, <2>1, <2>2 DEF Slots
  <1>3. Epochs(a)' /\ Epochs(p)'
    <2>1. rxel[p].key_epoch <= tx_epoch[a] /\ tx_epoch[a] <= rxel[p].key_epoch + 1
      BY <1>i, <1>p DEF Epochs
    <2>2. tx_epoch[p] = rxel[p].key_epoch + (IF ch[p].ku_locally_initiated THEN 1 ELSE 0)
      BY <1>i DEF Epochs
    <2>3. k + 1 <= started["client"] + started["server"]
      BY <1>i, <1>e DEF Epochs
    <2>4. Epochs(a)'
      BY <1>i, <1>a, <1>b, <1>c, <1>e, <1>m, <1>x, <2>3 DEF Epochs
    <2>5. Epochs(p)'
      BY <1>i, <1>a, <1>b, <1>c, <1>e, <1>m, <1>p, <1>x, <2>1, <2>2 DEF Epochs
    <2> QED BY <2>4, <2>5
  <1>4. PacketsInv(a)'
    <2>0. \A n \in Pkts(a) : n \in Packet
      BY <1>0, <1>i, OpenedType
    <2>1. \A n \in Pkts(a) : n.pn >= m.pn => n.key >= k + 1
      BY <1>i, <1>k, <1>s, <2>0 DEF PacketsInv, Packet
    <2>2. \A n \in Pkts(a) : \A pn \in n.acks :
             /\ pn < next_pn[a]
             /\ pn >= ch'[a].txku_pn => Heard(a)' /\ n.key >= tx_epoch'[a]
      BY <1>i, <1>a, <1>b, <1>c, <1>e, <1>m, <1>x, <2>0 DEF PacketsInv, Packet, Heard
    <2>3. \A z \in Opened(a)' : z.key_epoch = z.pkt.key /\ z.key_epoch <= rxel'[a].key_epoch
      <3>1. \A z \in Opened(a) : z \in Received
        BY <1>0, <1>i, OpenedType
      <3> QED BY <1>i, <1>a, <1>k, <1>m, <1>s, <1>y, <3>1 DEF PacketsInv, Received
    <2> QED BY <1>i, <1>b, <1>c, <1>e, <1>m, <1>s, <1>x, <2>1, <2>2, <2>3 DEF PacketsInv
  <1>5. PacketsInv(p)'
    <2>0. \A n \in Pkts(p) : n \in Packet
      BY <1>p, <1>i, OpenedType
    <2>1. \A n \in Pkts(p) : n.pn < next_pn[a] /\ n.key <= tx_epoch[a]
      BY <1>i, <1>p DEF PacketsInv
    <2>2. \A n \in Pkts(p) : n.pn >= ch'[a].txku_pn => n.key = tx_epoch'[a]
      BY <1>i, <1>a, <1>b, <1>e, <1>x, <1>p, <2>0, <2>1 DEF PacketsInv, Packet
    <2>3. \A n \in Pkts(p) : n.key <= tx_epoch'[a]
      BY <1>a, <1>e, <1>x, <2>0, <2>1 DEF Packet
    <2>4. \A n \in Pkts(p) : \A pn \in n.acks : pn < next_pn[p] /\ ~(pn >= ch[p].txku_pn)
      BY <1>i, <1>h DEF PacketsInv
    <2>5. \A pn \in received[p] :
             pn < next_pn[a] /\ (pn >= ch'[a].txku_pn => rxel[p].key_epoch = tx_epoch'[a])
      <3>1. received[p] \in SUBSET Nat
        BY <1>i, <1>p, EndType
      <3> QED BY <1>i, <1>a, <1>b, <1>e, <1>x, <1>p, <3>1 DEF PacketsInv
    <2> QED BY <1>i, <1>b, <1>c, <1>m, <1>p, <1>s, <1>x, <2>1, <2>2, <2>3, <2>4, <2>5
        DEF PacketsInv
  <1>6. AcksInv(a)'
    <2>0. /\ ch[a].largest_acked \in Nat /\ ch[a].largest_acked < next_pn[a]
          /\ ch[a].txku_pn <= next_pn[a]
      BY <1>i DEF AcksInv
    <2>1. ch'[a].txku_in_progress /\ ~(ch'[a].largest_acked >= ch'[a].txku_pn)
      <3>1. CASE local
        <4>1. ~(rxel[a].key_epoch >= tx_epoch[a])
          BY <1>a, <1>e, <3>1
        <4> QED BY <1>i, <1>b, <3>1, <4>1 DEF AcksInv
      <3>2. CASE ~local
        BY <1>a, <1>b, <2>0, <3>2
      <3> QED BY <3>1, <3>2
    <2>2. \A n \in Pkts(p) : n.key <= k + 1
      <3>1. \A n \in Pkts(p) : n.key <= tx_epoch[a] /\ n.key \in Nat
        BY <1>i, <1>p, OpenedType DEF PacketsInv, Packet
      <3> QED BY <1>a, <1>e, <3>1
    <2>3. \E z \in Opened(a)' : m.pn = z.pkt.pn
      BY <1>s, <1>y
    <2>4. ch'[a].txku_pn <= next_pn[a]
      BY <1>a, <1>b, <2>0
    <2> QED BY <1>a, <1>b, <1>c, <1>e, <1>m, <1>s, <1>x, <2>0, <2>1, <2>2, <2>3, <2>4 DEF AcksInv
  <1>7. AcksInv(p)'
    <2>1. ch[p].txku_in_progress /\ ~(ch[p].largest_acked >= ch[p].txku_pn)
      BY <1>i, <1>h DEF AcksInv
    <2>2. ch[p].rxku_pending_confirm => rxel[p].key_epoch = tx_epoch[a] /\ k + 1 <= rxel[p].key_epoch
      BY <1>i, <1>k, <1>p, <1>s DEF AcksInv
    <2>3. ch[p].rxku_pending_confirm => local
      BY <1>a, <1>e, <2>2
    <2>4. ch[p].rxku_pending_confirm => rxel[p].key_epoch = tx_epoch'[a]
      BY <1>a, <1>e, <1>x, <2>2, <2>3
    <2> QED BY <1>i, <1>b, <1>c, <1>m, <1>p, <1>s, <2>1, <2>4 DEF AcksInv
  <1> QED BY <1>0, <1>t, <1>1, <1>2, <1>3, <1>4, <1>5, <1>6, <1>7, <1>p, PeerFacts
      DEF KeyInv, NoFalseAlarm

(***************************************************************************)
(* The theorems.                                                           *)
(***************************************************************************)

\* Every step keeps the invariant.
LEMMA StepInv == KeyInv /\ [Next]_vars => KeyInv'
  <1> SUFFICES ASSUME KeyInv, [Next]_vars PROVE KeyInv'
    OBVIOUS
  <1>1. CASE UNCHANGED vars
    <2>1. UNCHANGED <<ch, rxel, tx_epoch, tx_key, tx_ku, rx_pending, handling, received, next_pn,
                      net, started>>
      BY <1>1 DEF vars, els
    <2>2. TypeOK'
      BY <2>1 DEF KeyInv, TypeOK
    <2>3. \A e \in Endpoints : Opened(e)' = Opened(e) /\ Pkts(e)' = Pkts(e)
      BY <2>1, SetsKept
    <2>4. \A e \in Endpoints : Pkts(Peer(e))' = Pkts(Peer(e))
      BY <2>3, PeerFacts
    <2>5. \A e \in Endpoints : (Active(e) /\ Slots(e) /\ Epochs(e))'
      BY <2>1 DEF KeyInv, NoFalseAlarm, Active, Slots, Epochs
    <2>6. \A e \in Endpoints : (PacketsInv(e) /\ AcksInv(e))'
      BY <2>1, <2>3, <2>4 DEF KeyInv, PacketsInv, AcksInv, Heard
    <2> QED BY <2>2, <2>5, <2>6 DEF KeyInv, NoFalseAlarm
  <1>2. CASE Next
    BY <1>2, TriggerStep, TxTickStep, HandleStep, RxkuTickStep, SendStep, DecryptKnown, DecryptNext
    DEF Next
  <1> QED BY <1>1, <1>2

\* The rules of quic_channel.c keep the keys of both ends, the packets between
\* them and the acknowledgements in step, however packets are delayed and lost.
THEOREM Inductive == Settled /\ Spec => []KeyInv
  BY InitInv, StepInv, PTL DEF Spec

\* What the invariant says of each property, in any state.
LEMMA InvImplies ==
    ASSUME KeyInv
    PROVE  TypeOK /\ EpochExact /\ NoPingPong /\ KeysMeet /\ NoFalseAlarm /\ UpdateAwaitsAck
  <1>1. TypeOK /\ NoFalseAlarm
    BY DEF KeyInv
  <1>t. ASSUME NEW e \in Endpoints
        PROVE  /\ Peer(e) \in Endpoints /\ tx_epoch[e] \in Nat /\ tx_epoch[Peer(e)] \in Nat
               /\ rxel[e].key_epoch \in Nat /\ rxel[e] \in RxLevel /\ Slots(e) /\ Epochs(e)
    BY <1>1, PeerFacts, EndType DEF RxLevel, KeyInv
  <1>2. EpochExact
    <2> SUFFICES ASSUME NEW e \in Endpoints, NEW i \in DOMAIN rx_pending[e]
                 PROVE  rx_pending[e][i].key_epoch = rx_pending[e][i].pkt.key
      BY DEF EpochExact
    <2>1. rx_pending[e][i] \in Opened(e)
      BY DEF Opened, Range
    <2> QED BY <2>1 DEF KeyInv, PacketsInv
  <1>3. NoPingPong
    <2>1. "client" \in Endpoints /\ "server" \in Endpoints /\ Peer("client") = "server"
      BY DEF Endpoints, Peer
    <2>2. \A e \in Endpoints : tx_epoch[e] <= started["client"] + started["server"]
      BY DEF KeyInv, Epochs
    <2>3. /\ tx_epoch["client"] \in Nat /\ tx_epoch["server"] \in Nat
          /\ rxel["client"].key_epoch \in Nat
          /\ tx_epoch["client"] = rxel["client"].key_epoch
                                     + (IF ch["client"].ku_locally_initiated THEN 1 ELSE 0)
          /\ rxel["client"].key_epoch <= tx_epoch["server"]
          /\ tx_epoch["server"] <= rxel["client"].key_epoch + 1
      BY <1>t, <2>1 DEF Epochs
    <2> QED BY <2>2, <2>3 DEF NoPingPong
  <1>4. KeysMeet
    <2> SUFFICES ASSUME NEW e \in Endpoints, rxel[e].state = "NORMAL"
                 PROVE  tx_key[Peer(e)] \in Range(rxel[e].slot)
      BY DEF KeysMeet
    <2> DEFINE k == rxel[e].key_epoch
    <2>1. /\ k \in Nat /\ rxel[e].slot[k % 2] = k /\ rxel[e].slot[(k + 1) % 2] = k + 1
          /\ rxel[e].slot \in [{0, 1} -> Int]
      BY <1>t DEF Slots, RxLevel
    <2>2. k % 2 \in {0, 1} /\ (k + 1) % 2 \in {0, 1}
      BY <2>1, Phase
    <2>3. k \in Range(rxel[e].slot) /\ k + 1 \in Range(rxel[e].slot)
      BY <2>1, <2>2 DEF Range
    <2>4. k <= tx_epoch[Peer(e)] /\ tx_epoch[Peer(e)] <= k + 1 /\ tx_epoch[Peer(e)] \in Nat
      BY <1>t DEF Epochs
    <2>5. tx_key[Peer(e)] = tx_epoch[Peer(e)]
      BY <1>t DEF Epochs
    <2>6. tx_epoch[Peer(e)] = k \/ tx_epoch[Peer(e)] = k + 1
      BY <2>1, <2>4
    <2> QED BY <2>3, <2>5, <2>6
  <1>5. UpdateAwaitsAck
    BY <1>t, PeerFacts DEF UpdateAwaitsAck, Epochs
  <1> QED BY <1>1, <1>2, <1>3, <1>4, <1>5

\* All variables keep their types.
THEOREM TypeCorrect == Settled /\ Spec => []TypeOK
  <1>1. KeyInv => TypeOK
    BY DEF KeyInv
  <1> QED BY <1>1, Inductive, PTL

\* The epoch of a decrypted packet is the one it was protected with, although
\* only one bit of it is on the wire (qrx_get_cipher_ctx_idx).
THEOREM EpochsNamed == Settled /\ Spec => []EpochExact
  <1>1. KeyInv => EpochExact
    BY InvImplies
  <1> QED BY <1>1, Inductive, PTL

\* No answer is answered: epochs are bounded by the updates that were started
\* (ku_locally_initiated in rxku_detected).
THEOREM AnswersEnd == Settled /\ Spec => []NoPingPong
  <1>1. KeyInv => NoPingPong
    BY InvImplies
  <1> QED BY <1>1, Inductive, PTL

\* Between updates the receiver has the key its peer sends with
\* (ossl_qrl_enc_level_set_key_cooldown_done), after any number of updates.
THEOREM KeysAgree == Settled /\ Spec => []KeysMeet
  <1>1. KeyInv => KeysMeet
    BY InvImplies
  <1> QED BY <1>1, Inductive, PTL

\* Two endpoints that follow the code never raise KEY_UPDATE_ERROR (rxku_detected,
\* ch_rx_handle_packet, depack_do_frame_ack).
THEOREM HonestPeersAgree == Settled /\ Spec => []NoFalseAlarm
  <1>1. KeyInv => NoFalseAlarm
    BY InvImplies
  <1> QED BY <1>1, Inductive, PTL

\* Once a 1-RTT packet has been acknowledged, the comment in rxku_detected is
\* true: the next update waits for the acknowledgement of the last one.
THEOREM UpdatesWait == Settled /\ Spec => []UpdateAwaitsAck
  <1>1. KeyInv => UpdateAwaitsAck
    BY InvImplies
  <1> QED BY <1>1, Inductive, PTL
=============================================================================
