-------------------------- MODULE StreamMapProofs --------------------------
(***************************************************************************)
(* Proofs about StreamMap, for any streams, any numbers of packets and     *)
(* writes, and any choice of the application's operations.                 *)
(***************************************************************************)
EXTENDS StreamMap, TLAPS

(***************************************************************************)
(* The transitions of one stream.                                          *)
(***************************************************************************)

\* What the transitions of the state machines leave alone.
Kept(q, r) ==
    /\ r.open = q.open /\ r.peer_stop_sending = q.peer_stop_sending
    /\ r.acked_stop_sending = q.acked_stop_sending /\ r.deleted = q.deleted
    /\ r.writes = q.writes /\ r.unsent = q.unsent /\ r.lost = q.lost
    /\ r.credit = q.credit /\ r.fin = q.fin /\ r.fin_unsent = q.fin_unsent
    /\ r.fin_acked = q.fin_acked /\ r.released = q.released

\* ossl_quic_stream_map_notify_totally_acked moves a stream from DATA_SENT to
\* DATA_RECVD, or takes it from the flush, and does nothing else.
LEMMA NotifyFields ==
    ASSUME NEW q \in Stream, NEW f, NEW r, r = NotifyTotallyAcked(q, f)
    PROVE  /\ r \in Stream /\ Kept(q, r)
           /\ r.recv = q.recv /\ r.stop_sending = q.stop_sending
           /\ r.want_max_stream_data = q.want_max_stream_data
           /\ r.want_stop_sending = q.want_stop_sending
           /\ r.want_reset_stream = q.want_reset_stream
           /\ r.ready_for_gc = q.ready_for_gc
           /\ \/ /\ q.send = "data_sent" /\ TotallyAcked(q, f)
                 /\ r.send = "data_recvd"
              \/ /\ r.send = q.send
                 /\ r.shutdown_flush = q.shutdown_flush \/ TotallyAcked(q, f)
<1>1. CASE q.send = "data_sent" /\ TotallyAcked(q, f)
  <2>1. r = [q EXCEPT !.send = "data_recvd", !.shutdown_flush = FALSE]
    BY <1>1 DEF NotifyTotallyAcked
  <2>2. r \in Stream
    BY <2>1 DEF Stream, SendStates
  <2> QED
    BY <1>1, <2>1, <2>2 DEF Stream, Kept
<1>2. CASE ~ (q.send = "data_sent" /\ TotallyAcked(q, f))
  <2>1. CASE q.shutdown_flush /\ q.send = "send" /\ TotallyAcked(q, f)
    <3>1. r = [q EXCEPT !.shutdown_flush = FALSE]
      BY <1>2, <2>1 DEF NotifyTotallyAcked
    <3>2. r \in Stream
      BY <3>1 DEF Stream
    <3> QED
      BY <2>1, <3>1, <3>2 DEF Stream, Kept
  <2>2. CASE ~ (q.shutdown_flush /\ q.send = "send" /\ TotallyAcked(q, f))
    <3>1. r = q
      BY <1>2, <2>2 DEF NotifyTotallyAcked
    <3> QED
      BY <3>1 DEF Kept
  <2> QED
    BY <2>1, <2>2
<1> QED
  BY <1>1, <1>2

\* Whether everything was acknowledged depends on the send buffer only.
LEMMA SameAcked ==
    ASSUME NEW q, NEW r, NEW f, Kept(q, r)
    PROVE  TotallyAcked(q, f) <=> TotallyAcked(r, f)
  BY DEF Kept, TotallyAcked

\* Whether a stream should be active depends neither on the list nor on the
\* mark of a silent FIN.
LEMMA SameListed ==
    ASSUME NEW q \in Stream, NEW r, NEW a, NEW b,
           r = [q EXCEPT !.active = a, !.silent_fin = b]
    PROVE  ShouldBeActive(q) <=> ShouldBeActive(r)
  BY DEF ShouldBeActive, HasDataToSend, HasSendBuffer, Stream

\* ossl_quic_stream_map_update_state does what notify_totally_acked does, may
\* find the stream ready to be collected, and puts it on the list or takes it
\* off.
Updated(q, f, r) ==
    /\ r \in Stream /\ Kept(q, r)
    /\ r.recv = q.recv /\ r.stop_sending = q.stop_sending
    /\ r.want_max_stream_data = q.want_max_stream_data
    /\ r.want_stop_sending = q.want_stop_sending
    /\ r.want_reset_stream = q.want_reset_stream
    /\ r.silent_fin = FALSE
    /\ r.active <=> ShouldBeActive(r)
    /\ \/ /\ q.send = "data_sent" /\ TotallyAcked(q, f)
          /\ r.send = "data_recvd"
       \/ /\ r.send = q.send
          /\ r.shutdown_flush = q.shutdown_flush \/ TotallyAcked(q, f)

\* That is all it does.
LEMMA UpdateFields ==
    ASSUME NEW q \in Stream, NEW f, NEW r, r = UpdateState(q, f)
    PROVE  Updated(q, f, r)
<1> DEFINE n == NotifyTotallyAcked(q, f)
           g == [n EXCEPT !.ready_for_gc = @ \/ ReadyForGc(n)]
<1>1. /\ n \in Stream /\ Kept(q, n)
      /\ n.recv = q.recv /\ n.stop_sending = q.stop_sending
      /\ n.want_max_stream_data = q.want_max_stream_data
      /\ n.want_stop_sending = q.want_stop_sending
      /\ n.want_reset_stream = q.want_reset_stream
      /\ \/ /\ q.send = "data_sent" /\ TotallyAcked(q, f)
            /\ n.send = "data_recvd"
         \/ /\ n.send = q.send
            /\ n.shutdown_flush = q.shutdown_flush \/ TotallyAcked(q, f)
  BY NotifyFields
<1>2. r = [g EXCEPT !.active = ShouldBeActive(g), !.silent_fin = FALSE]
  BY DEF UpdateState
<1> HIDE DEF n
<1>3. (n.ready_for_gc \/ ReadyForGc(n)) \in BOOLEAN
  OBVIOUS
<1>4. g \in Stream
  BY <1>1, <1>3 DEF Stream
<1>5. /\ Kept(n, g) /\ g.recv = n.recv /\ g.stop_sending = n.stop_sending
      /\ g.want_max_stream_data = n.want_max_stream_data
      /\ g.want_stop_sending = n.want_stop_sending
      /\ g.want_reset_stream = n.want_reset_stream
      /\ g.send = n.send /\ g.shutdown_flush = n.shutdown_flush
  BY <1>1 DEF Stream, Kept
<1> HIDE DEF g
<1>6. ShouldBeActive(g) \in BOOLEAN
  BY DEF ShouldBeActive
<1>7. r \in Stream
  BY <1>2, <1>4, <1>6 DEF Stream
<1>8. /\ Kept(g, r) /\ r.recv = g.recv /\ r.stop_sending = g.stop_sending
      /\ r.want_max_stream_data = g.want_max_stream_data
      /\ r.want_stop_sending = g.want_stop_sending
      /\ r.want_reset_stream = g.want_reset_stream
      /\ r.send = g.send /\ r.shutdown_flush = g.shutdown_flush
      /\ r.silent_fin = FALSE
  BY <1>2, <1>4 DEF Stream, Kept
<1>9. r.active = ShouldBeActive(g)
  BY <1>2, <1>4 DEF Stream
<1>10. ShouldBeActive(g) <=> ShouldBeActive(r)
  BY <1>2, <1>4, SameListed
<1>11. Kept(q, r)
  BY <1>1, <1>5, <1>8 DEF Kept
<1> QED
  BY <1>1, <1>5, <1>7, <1>8, <1>9, <1>10, <1>11 DEF Updated

\* The order of the states of both parts.
Forward(q, r) ==
    /\ r.send = q.send \/ SendRank(r) > SendRank(q)
    /\ r.recv = q.recv \/ RecvRank(r) > RecvRank(q)

\* The ranks of the states.
LEMMA Ranks ==
    ASSUME NEW q \in Stream
    PROVE  /\ SendRank(q) \in Nat /\ RecvRank(q) \in Nat
           /\ q.send = "ready" => SendRank(q) = 1
           /\ q.send = "send" => SendRank(q) = 2
           /\ q.send = "data_sent" => SendRank(q) = 3
           /\ q.send = "reset_sent" => SendRank(q) = 4
           /\ q.send \in {"data_recvd", "reset_recvd"} => SendRank(q) = 5
           /\ q.recv = "recv" => RecvRank(q) = 1
           /\ q.recv = "size_known" => RecvRank(q) = 2
           /\ q.recv = "data_recvd" => RecvRank(q) = 3
           /\ q.recv = "reset_recvd" => RecvRank(q) = 4
           /\ q.recv \in {"data_read", "reset_read"} => RecvRank(q) = 5
<1>1. q.send \in SendStates /\ q.recv \in RecvStates
  BY DEF Stream
<1> QED
  BY <1>1 DEF SendRank, RecvRank, SendStates, RecvStates

\* Two steps forward are one.
LEMMA ForwardTwice ==
    ASSUME NEW p \in Stream, NEW q \in Stream, NEW r \in Stream,
           Forward(p, q), Forward(q, r)
    PROVE  Forward(p, r)
<1>1. \A x, y \in Stream : /\ x.send = y.send => SendRank(x) = SendRank(y)
                           /\ x.recv = y.recv => RecvRank(x) = RecvRank(y)
  BY DEF SendRank, RecvRank
<1>2. /\ SendRank(p) \in Nat /\ SendRank(q) \in Nat /\ SendRank(r) \in Nat
      /\ RecvRank(p) \in Nat /\ RecvRank(q) \in Nat /\ RecvRank(r) \in Nat
  BY Ranks
<1>3. r.send = p.send \/ SendRank(r) > SendRank(p)
  BY <1>1, <1>2 DEF Forward
<1>4. r.recv = p.recv \/ RecvRank(r) > RecvRank(p)
  BY <1>1, <1>2 DEF Forward
<1> QED
  BY <1>3, <1>4 DEF Forward

\* A stream that is all right stays so when its state is updated, and is then
\* on the list if it has to be.
LEMMA UpdateSane ==
    ASSUME NEW q, NEW f, NEW shut, Sane(q, f, shut), NEW r, r = UpdateState(q, f)
    PROVE  Sane(r, f, shut) /\ Listed(r) /\ Forward(q, r)
<1>1. q \in Stream /\ f \subseteq Packet
  BY DEF Sane
<1>2. /\ r \in Stream /\ Kept(q, r)
      /\ r.recv = q.recv /\ r.stop_sending = q.stop_sending
      /\ r.want_reset_stream = q.want_reset_stream
      /\ r.active <=> ShouldBeActive(r)
      /\ \/ /\ q.send = "data_sent" /\ TotallyAcked(q, f)
            /\ r.send = "data_recvd"
         \/ /\ r.send = q.send
            /\ r.shutdown_flush = q.shutdown_flush \/ TotallyAcked(q, f)
  <2>1. Updated(q, f, r)
    BY <1>1, UpdateFields
  <2> QED
    BY <2>1 DEF Updated
<1>3. TotallyAcked(q, f) <=> TotallyAcked(r, f)
  BY <1>2, SameAcked
<1>4. Sane(r, f, shut)
  <2>1. /\ r.stop_sending => HasRecv(r)
        /\ r.peer_stop_sending => HasSend(r)
    BY <1>2 DEF Sane, Kept, HasRecv, HasSend
  <2> SUFFICES ASSUME ~r.released
               PROVE  /\ ResetKnown(r, f) /\ AckedKnown(r, f)
                      /\ DeletedKnown(r) /\ FlushKnown(r, f, shut)
    BY <1>1, <1>2, <2>1 DEF Sane
  <2>2. /\ ResetKnown(q, f) /\ AckedKnown(q, f)
        /\ DeletedKnown(q) /\ FlushKnown(q, f, shut)
    BY <1>2 DEF Sane, Kept
  <2>3. ResetKnown(r, f)
    BY <1>2, <2>2 DEF ResetKnown, SendIsReset
  <2>4. AckedKnown(r, f)
    BY <1>2, <1>3, <2>2 DEF AckedKnown, Kept
  <2>5. DeletedKnown(r)
    BY <1>2, <2>2 DEF DeletedKnown, AckedKnown, Kept, SendIsReset, HasSend
  <2>6. FlushKnown(r, f, shut)
    BY <1>2, <1>3, <2>2 DEF FlushKnown
  <2> QED
    BY <2>3, <2>4, <2>5, <2>6
<1>5. Listed(r)
  BY <1>2 DEF Listed
<1>6. Forward(q, r)
  BY <1>1, <1>2, Ranks DEF Forward
<1> QED
  BY <1>4, <1>5, <1>6

\* A transition that keeps a stream all right, moves it forward, and leaves the
\* send buffer alone.
Moved(q, f, shut, r) ==
    /\ Sane(r, f, shut) /\ Forward(q, r) /\ Kept(q, r)
    /\ Listed(q) => Listed(r)

\* Doing nothing is one.
LEMMA MovedNot ==
    ASSUME NEW q, NEW f, NEW shut, Sane(q, f, shut)
    PROVE  Moved(q, f, shut, q)
  BY DEF Moved, Forward, Kept

\* To update the state is one.
LEMMA MovedUpdate ==
    ASSUME NEW q, NEW f, NEW shut, Sane(q, f, shut)
    PROVE  Moved(q, f, shut, UpdateState(q, f)) /\ Listed(UpdateState(q, f))
<1> DEFINE r == UpdateState(q, f)
<1>1. q \in Stream
  BY DEF Sane
<1>2. Updated(q, f, r)
  BY <1>1, UpdateFields
<1>3. Sane(r, f, shut) /\ Listed(r) /\ Forward(q, r)
  BY UpdateSane
<1> HIDE DEF r
<1>4. Moved(q, f, shut, r) /\ Listed(r)
  BY <1>2, <1>3 DEF Moved, Updated
<1> QED
  BY <1>4 DEF r

\* So are a change and an update after it.
LEMMA MovedTwice ==
    ASSUME NEW q, NEW x, NEW f, NEW shut, q \in Stream,
           Sane(x, f, shut), Forward(q, x), Kept(q, x)
    PROVE  Moved(q, f, shut, UpdateState(x, f)) /\ Listed(UpdateState(x, f))
<1> DEFINE r == UpdateState(x, f)
<1>1. Moved(x, f, shut, r) /\ Listed(r)
  BY MovedUpdate
<1> HIDE DEF r
<1>2. Sane(r, f, shut) /\ Forward(x, r) /\ Kept(x, r)
  BY <1>1 DEF Moved
<1>3. x \in Stream /\ r \in Stream
  BY <1>2 DEF Sane
<1>4. Forward(q, r)
  BY <1>2, <1>3, ForwardTwice
<1>5. Kept(q, r)
  BY <1>2 DEF Kept
<1>6. Moved(q, f, shut, r) /\ Listed(r)
  BY <1>1, <1>2, <1>4, <1>5 DEF Moved
<1> QED
  BY <1>6 DEF r

\* ossl_quic_stream_map_reset_stream_send_part: what was not finished is reset.
LEMMA ResetMoves ==
    ASSUME NEW q, NEW f, NEW shut, Sane(q, f, shut),
           NEW r, r = ResetSendPart(q, f)
    PROVE  /\ Moved(q, f, shut, r)
           /\ HasSendBuffer(q) => r.send = "reset_sent" /\ Listed(r)
<1>1. CASE HasSendBuffer(q)
  <2> DEFINE x == [q EXCEPT !.send = "reset_sent", !.want_reset_stream = TRUE,
                            !.shutdown_flush = FALSE]
  <2>1. r = UpdateState(x, f)
    BY <1>1 DEF ResetSendPart
  <2>2. q \in Stream
    BY DEF Sane
  <2>3. x \in Stream
    BY <2>2 DEF Stream, SendStates
  <2>4. /\ Kept(q, x) /\ x.send = "reset_sent" /\ x.recv = q.recv
        /\ x.stop_sending = q.stop_sending
    BY <2>2 DEF Stream, Kept
  <2> HIDE DEF x
  <2>5. Sane(x, f, shut)
    <3>1. ResetKnown(x, f) /\ AckedKnown(x, f) /\ FlushKnown(x, f, shut)
      BY <2>4 DEF ResetKnown, AckedKnown, FlushKnown, SendIsReset
    <3>2. ~x.released => DeletedKnown(x)
      BY <2>4 DEF Sane, DeletedKnown, SendIsReset, Kept
    <3>3. (x.stop_sending => HasRecv(x)) /\ HasSend(x)
      BY <2>4 DEF Sane, HasRecv, HasSend
    <3> QED
      BY <2>3, <3>1, <3>2, <3>3 DEF Sane
  <2>6. Forward(q, x)
    BY <1>1, <2>2, <2>3, <2>4, Ranks DEF Forward, HasSendBuffer
  <2>7. Moved(q, f, shut, r) /\ Listed(r)
    BY <2>1, <2>2, <2>4, <2>5, <2>6, MovedTwice
  <2>8. Updated(x, f, r)
    BY <2>1, <2>3, UpdateFields
  <2>9. r.send = "reset_sent"
    BY <2>4, <2>8 DEF Updated
  <2> QED
    BY <2>7, <2>9
<1>2. CASE ~HasSendBuffer(q)
  <2>1. r = q
    BY <1>2 DEF ResetSendPart
  <2> QED
    BY <1>2, <2>1, MovedNot
<1> QED
  BY <1>1, <1>2

\* What is not about the sending part may change freely.
LEMMA SaneKept ==
    ASSUME NEW q, NEW f, NEW shut, Sane(q, f, shut),
           NEW x \in Stream, Kept(q, x), x.send = q.send,
           x.want_reset_stream = q.want_reset_stream,
           x.shutdown_flush = q.shutdown_flush,
           x.stop_sending => HasRecv(x)
    PROVE  Sane(x, f, shut)
<1>1. TotallyAcked(q, f) <=> TotallyAcked(x, f)
  BY SameAcked
<1>2. x.peer_stop_sending => HasSend(x)
  BY DEF Sane, Kept, HasSend
<1> SUFFICES ASSUME ~x.released
             PROVE  /\ ResetKnown(x, f) /\ AckedKnown(x, f)
                    /\ DeletedKnown(x) /\ FlushKnown(x, f, shut)
  BY <1>2 DEF Sane
<1>3. /\ ResetKnown(q, f) /\ AckedKnown(q, f)
      /\ DeletedKnown(q) /\ FlushKnown(q, f, shut)
  BY DEF Sane, Kept
<1>4. ResetKnown(x, f)
  BY <1>3 DEF ResetKnown, SendIsReset
<1>5. AckedKnown(x, f)
  BY <1>1, <1>3 DEF AckedKnown, Kept
<1>6. DeletedKnown(x)
  BY <1>3 DEF DeletedKnown, Kept, SendIsReset, HasSend
<1>7. FlushKnown(x, f, shut)
  BY <1>1, <1>3 DEF FlushKnown
<1> QED
  BY <1>4, <1>5, <1>6, <1>7

\* ossl_quic_stream_map_schedule_stop_sending
LEMMA ScheduleMoves ==
    ASSUME NEW q, NEW f, NEW shut, Sane(q, f, shut),
           NEW r, r = ScheduleStopSending(q, f)
    PROVE  /\ Moved(q, f, shut, r)
           /\ r.send = q.send \/ r.send = "data_recvd"
<1> DEFINE x == [q EXCEPT !.want_stop_sending = TRUE]
<1>1. CASE q.stop_sending /\ ~q.want_stop_sending /\ q.recv \in {"recv", "size_known"}
  <2>1. r = UpdateState(x, f)
    BY <1>1 DEF ScheduleStopSending
  <2>2. q \in Stream
    BY DEF Sane
  <2>3. x \in Stream
    BY <2>2 DEF Stream
  <2>4. /\ Kept(q, x) /\ x.send = q.send /\ x.recv = q.recv
        /\ x.stop_sending = q.stop_sending /\ x.shutdown_flush = q.shutdown_flush
        /\ x.want_reset_stream = q.want_reset_stream
    BY <2>2 DEF Stream, Kept
  <2> HIDE DEF x
  <2>5. x.stop_sending => HasRecv(x)
    BY <2>4 DEF Sane, HasRecv
  <2>6. Sane(x, f, shut)
    BY <2>3, <2>4, <2>5, SaneKept
  <2>7. Forward(q, x)
    BY <2>4 DEF Forward
  <2>8. Moved(q, f, shut, r)
    BY <2>1, <2>2, <2>4, <2>6, <2>7, MovedTwice
  <2>9. Updated(x, f, r)
    BY <2>1, <2>3, UpdateFields
  <2> QED
    BY <2>4, <2>8, <2>9 DEF Updated
<1>2. CASE ~ (q.stop_sending /\ ~q.want_stop_sending /\ q.recv \in {"recv", "size_known"})
  <2>1. r = q
    BY <1>2 DEF ScheduleStopSending
  <2> QED
    BY <2>1, MovedNot
<1> QED
  BY <1>1, <1>2

\* ossl_quic_stream_map_stop_sending_recv_part
LEMMA StopMoves ==
    ASSUME NEW q, NEW f, NEW shut, Sane(q, f, shut),
           NEW r, r = StopSendingRecvPart(q, f)
    PROVE  /\ Sane(r, f, shut) /\ Forward(q, r) /\ Kept(q, r)
           /\ r.send = q.send \/ r.send = "data_recvd"
<1> DEFINE x == [q EXCEPT !.stop_sending = TRUE]
<1>1. CASE ~q.stop_sending /\ q.recv \in {"recv", "size_known"}
  <2>1. r = ScheduleStopSending(x, f)
    BY <1>1 DEF StopSendingRecvPart
  <2>2. q \in Stream
    BY DEF Sane
  <2>3. x \in Stream
    BY <2>2 DEF Stream
  <2>4. /\ Kept(q, x) /\ x.send = q.send /\ x.recv = q.recv
        /\ x.shutdown_flush = q.shutdown_flush
        /\ x.want_reset_stream = q.want_reset_stream
    BY <2>2 DEF Stream, Kept
  <2> HIDE DEF x
  <2>5. HasRecv(x)
    BY <1>1, <2>4 DEF HasRecv
  <2>6. Sane(x, f, shut)
    BY <2>3, <2>4, <2>5, SaneKept
  <2>7. Forward(q, x)
    BY <2>4 DEF Forward
  <2>8. Moved(x, f, shut, r) /\ (r.send = x.send \/ r.send = "data_recvd")
    BY <2>1, <2>6, ScheduleMoves
  <2>9. Sane(r, f, shut) /\ Forward(x, r) /\ Kept(x, r) /\ r \in Stream
    BY <2>8 DEF Moved, Sane
  <2>10. Forward(q, r)
    BY <2>2, <2>3, <2>7, <2>9, ForwardTwice
  <2> QED
    BY <2>4, <2>8, <2>9, <2>10 DEF Kept
<1>2. CASE ~ (~q.stop_sending /\ q.recv \in {"recv", "size_known"})
  <2>1. r = q
    BY <1>2 DEF StopSendingRecvPart
  <2> QED
    BY <2>1 DEF Forward, Kept
<1> QED
  BY <1>1, <1>2

\* ossl_quic_stream_map_notify_reset_recv_part
LEMMA ResetRecvMoves ==
    ASSUME NEW q, NEW f, NEW shut, Sane(q, f, shut),
           NEW r, r = NotifyResetRecvPart(q, f)
    PROVE  Moved(q, f, shut, r)
<1> DEFINE x == [q EXCEPT !.recv = "reset_recvd", !.want_stop_sending = FALSE]
<1>1. CASE q.recv \in {"recv", "size_known", "data_recvd"}
  <2>1. r = UpdateState(x, f)
    BY <1>1 DEF NotifyResetRecvPart
  <2>2. q \in Stream
    BY DEF Sane
  <2>3. x \in Stream
    BY <2>2 DEF Stream, RecvStates
  <2>4. /\ Kept(q, x) /\ x.send = q.send /\ x.recv = "reset_recvd"
        /\ x.shutdown_flush = q.shutdown_flush
        /\ x.want_reset_stream = q.want_reset_stream
    BY <2>2 DEF Stream, Kept
  <2> HIDE DEF x
  <2>5. HasRecv(x)
    BY <2>4 DEF HasRecv
  <2>6. Sane(x, f, shut)
    BY <2>3, <2>4, <2>5, SaneKept
  <2>7. Forward(q, x)
    BY <1>1, <2>2, <2>3, <2>4, Ranks DEF Forward
  <2> QED
    BY <2>1, <2>2, <2>4, <2>6, <2>7, MovedTwice
<1>2. CASE ~ (q.recv \in {"recv", "size_known", "data_recvd"})
  <2>1. r = q
    BY <1>2 DEF NotifyResetRecvPart
  <2> QED
    BY <2>1, MovedNot
<1> QED
  BY <1>1, <1>2

\* A stream x after stream q, with packets g instead of f in flight: all that
\* matters is that the sending part is in the same state, that a reset that is
\* wanted or sent is known to it, and that what was acknowledged stays so.
LEMMA SaneLater ==
    ASSUME NEW q, NEW f, NEW shut, Sane(q, f, shut),
           NEW x \in Stream, NEW g, g \subseteq Packet,
           x.send = q.send, x.released = q.released,
           x.want_reset_stream => q.want_reset_stream,
           x.shutdown_flush = q.shutdown_flush, x.fin = q.fin,
           \A p \in g : p.reset => p \in f \/ q.want_reset_stream,
           TotallyAcked(q, f) => TotallyAcked(x, g),
           x.deleted => q.deleted /\ x.open = q.open,
           x.stop_sending => HasRecv(x),
           x.peer_stop_sending => HasSend(x)
    PROVE  Sane(x, g, shut)
<1> SUFFICES ASSUME ~x.released
             PROVE  /\ ResetKnown(x, g) /\ AckedKnown(x, g)
                    /\ DeletedKnown(x) /\ FlushKnown(x, g, shut)
  BY DEF Sane
<1>1. /\ ResetKnown(q, f) /\ AckedKnown(q, f)
      /\ DeletedKnown(q) /\ FlushKnown(q, f, shut)
  BY DEF Sane
<1>2. ResetKnown(x, g)
  BY <1>1 DEF ResetKnown, SendIsReset
<1>3. AckedKnown(x, g)
  BY <1>1 DEF AckedKnown
<1>4. DeletedKnown(x)
  BY <1>1 DEF DeletedKnown, SendIsReset, HasSend
<1>5. FlushKnown(x, g, shut)
  BY <1>1 DEF FlushKnown
<1> QED
  BY <1>2, <1>3, <1>4, <1>5

\* The same with the packets in flight as they were.
LEMMA SaneSame ==
    ASSUME NEW q, NEW f, NEW shut, Sane(q, f, shut),
           NEW x \in Stream, x.send = q.send, x.released = q.released,
           x.want_reset_stream = q.want_reset_stream,
           x.shutdown_flush = q.shutdown_flush, x.fin = q.fin,
           TotallyAcked(q, f) => TotallyAcked(x, f),
           x.deleted => q.deleted /\ x.open = q.open,
           x.stop_sending => HasRecv(x),
           x.peer_stop_sending => HasSend(x)
    PROVE  Sane(x, f, shut)
<1>1. f \subseteq Packet
  BY DEF Sane
<1> QED
  BY <1>1, SaneLater

(***************************************************************************)
(* The steps of the specification.                                         *)
(***************************************************************************)

\* Every stream that exists moves forward.
AllForward == \A s \in Streams : Extant(s) => Forward(qs[s], qs'[s])

\* The invariant of all streams from that of the one that changes.
LEMMA OneStream ==
    ASSUME MapInv, NEW s \in Streams, NEW r, NEW g,
           Sane(r, g, shutting_down), Listed(r), ~qs[s].released => Forward(qs[s], r),
           qs' = [qs EXCEPT ![s] = r], flight' = [flight EXCEPT ![s] = g],
           UNCHANGED shutting_down
    PROVE  MapInv' /\ AllForward
<1>1. r \in Stream /\ g \in SUBSET Packet
  BY DEF Sane
<1>2. qs \in [Streams -> Stream] /\ flight \in [Streams -> SUBSET Packet]
  BY DEF MapInv
<1>3. qs' \in [Streams -> Stream] /\ flight' \in [Streams -> SUBSET Packet]
  BY <1>1, <1>2
<1>4. \A t \in Streams : /\ t = s => qs'[t] = r /\ flight'[t] = g
                         /\ t # s => qs'[t] = qs[t] /\ flight'[t] = flight[t]
  BY <1>2
<1>5. \A t \in Streams : Sane(qs'[t], flight'[t], shutting_down') /\ Listed(qs'[t])
  BY <1>4 DEF MapInv
<1>6. AllForward
  <2> SUFFICES ASSUME NEW t \in Streams, Extant(t)
               PROVE  Forward(qs[t], qs'[t])
    BY DEF AllForward
  <2>1. CASE t = s
    BY <1>4, <2>1 DEF Extant
  <2>2. CASE t # s
    <3>1. qs'[t] = qs[t]
      BY <1>4, <2>2
    <3> QED
      BY <3>1 DEF Forward
  <2> QED
    BY <2>1, <2>2
<1> QED
  BY <1>3, <1>5, <1>6 DEF MapInv

\* The usual case: no packet is sent or settled.
LEMMA OneRecord ==
    ASSUME MapInv, NEW s \in Streams, NEW r,
           Sane(r, flight[s], shutting_down), Listed(r),
           ~qs[s].released => Forward(qs[s], r),
           Put(s, r), UNCHANGED <<flight, shutting_down>>
    PROVE  MapInv' /\ AllForward
<1>1. flight' = [flight EXCEPT ![s] = flight[s]]
  BY DEF MapInv
<1>2. qs' = [qs EXCEPT ![s] = r]
  BY DEF Put
<1> QED
  BY <1>1, <1>2, OneStream

\* What the invariant says of one stream.
LEMMA StreamInv ==
    ASSUME MapInv, NEW s \in Streams
    PROVE  /\ qs[s] \in Stream /\ flight[s] \subseteq Packet
           /\ Sane(qs[s], flight[s], shutting_down) /\ Listed(qs[s])
  BY DEF MapInv

\* A stream that can be written to: its sending part is READY or SEND, and
\* neither reset nor freed.
LEMMA Writable ==
    ASSUME NEW q, NEW f, NEW shut, Sane(q, f, shut), ~q.released, q.open,
           ValidForWrite(q)
    PROVE  /\ q.send \in {"ready", "send"} /\ ~q.fin
           /\ ~q.want_reset_stream /\ ~q.deleted /\ \A p \in f : ~p.reset
  BY DEF Sane, ResetKnown, AckedKnown, DeletedKnown, ValidForWrite, HasSendBuffer, SendIsReset

\* Before the shutdown a stream in use is all right with any data in its buffer.
LEMMA InUse ==
    ASSUME NEW x \in Stream, NEW f, f \subseteq Packet, x.send \in {"ready", "send"},
           ~x.want_reset_stream, ~x.deleted, \A p \in f : ~p.reset,
           x.stop_sending => HasRecv(x)
    PROVE  Sane(x, f, FALSE)
  BY DEF Sane, ResetKnown, AckedKnown, DeletedKnown, FlushKnown, HasSend

\* ossl_quic_stream_map_ensure_send_part_id
LEMMA EnsureFields ==
    ASSUME NEW q \in Stream, NEW e, e = EnsureSendPartId(q)
    PROVE  /\ e \in Stream /\ Kept(q, e) /\ e.recv = q.recv
           /\ e.stop_sending = q.stop_sending
           /\ e.want_reset_stream = q.want_reset_stream
           /\ q.send = "ready" => e.send = "send"
           /\ q.send # "ready" => e = q
<1>1. CASE q.send = "ready"
  <2>1. e = [q EXCEPT !.send = "send"]
    BY <1>1 DEF EnsureSendPartId
  <2>2. e \in Stream
    BY <2>1 DEF Stream, SendStates
  <2> QED
    BY <1>1, <2>1, <2>2 DEF Stream, Kept
<1>2. CASE q.send # "ready"
  <2>1. e = q
    BY <1>2 DEF EnsureSendPartId
  <2> QED
    BY <1>2, <2>1 DEF Kept
<1> QED
  BY <1>1, <1>2

\* Writing: the FIN is noted after the state was updated, but behind data that
\* makes the stream active already.
LEMMA WriteStep ==
    ASSUME MapInv, NEW s \in Streams, NEW conclude \in BOOLEAN, Write(s, conclude)
    PROVE  MapInv' /\ AllForward
<1> DEFINE q == qs[s]
           f == flight[s]
           e == EnsureSendPartId(q)
           x == [e EXCEPT !.unsent = TRUE, !.writes = @ + 1]
           u == UpdateState(x, f)
           r == [u EXCEPT !.fin = conclude, !.fin_unsent = conclude]
<1>1. /\ ~q.released /\ q.open /\ ~shutting_down /\ ValidForWrite(q)
      /\ q.writes < MaxWrites /\ Put(s, r) /\ UNCHANGED <<flight, shutting_down>>
  BY DEF Write, MayAdd, May, Extant
<1>2. q \in Stream /\ f \subseteq Packet /\ Sane(q, f, shutting_down)
  BY StreamInv
<1>3. /\ q.send \in {"ready", "send"} /\ ~q.fin
      /\ ~q.want_reset_stream /\ ~q.deleted /\ \A p \in f : ~p.reset
  BY <1>1, <1>2, Writable
<1>4. shutting_down = FALSE
  BY <1>1 DEF MapInv
<1>5. q.stop_sending => HasRecv(q)
  BY <1>2 DEF Sane
<1> HIDE DEF q, f
<1>6. /\ e \in Stream /\ Kept(q, e) /\ e.recv = q.recv
      /\ e.stop_sending = q.stop_sending
      /\ e.want_reset_stream = q.want_reset_stream /\ e.send = "send"
  BY <1>2, <1>3, EnsureFields
<1> HIDE DEF e
<1>7. x \in Stream
  <2>1. e.writes \in 0 .. MaxWrites /\ e.writes < MaxWrites
    BY <1>1, <1>6 DEF Stream, Kept
  <2>2. e.writes + 1 \in 0 .. MaxWrites
    BY <2>1, StreamMapAssumption
  <2> QED
    BY <1>6, <2>2 DEF Stream
<1>8. /\ x.send = "send" /\ x.unsent /\ x.recv = e.recv /\ x.stop_sending = e.stop_sending
      /\ x.want_reset_stream = e.want_reset_stream /\ x.deleted = e.deleted
      /\ x.open = e.open /\ x.released = e.released
  BY <1>6 DEF Stream
<1> HIDE DEF x
<1>9. Updated(x, f, u)
  BY <1>7, UpdateFields
<1> HIDE DEF u
<1>10. /\ u \in Stream /\ u.send = "send" /\ u.unsent /\ u.recv = q.recv
       /\ u.stop_sending = q.stop_sending /\ ~u.want_reset_stream /\ ~u.deleted
       /\ u.active <=> ShouldBeActive(u)
  BY <1>3, <1>6, <1>8, <1>9 DEF Updated, Kept
<1>11. r \in Stream
  BY <1>10 DEF Stream
<1>12. /\ r.send = u.send /\ r.recv = u.recv /\ r.unsent = u.unsent
       /\ r.stop_sending = u.stop_sending /\ r.want_reset_stream = u.want_reset_stream
       /\ r.deleted = u.deleted /\ r.active = u.active
       /\ r.ready_for_gc = u.ready_for_gc /\ r.lost = u.lost /\ r.credit = u.credit
       /\ r.want_max_stream_data = u.want_max_stream_data
       /\ r.want_stop_sending = u.want_stop_sending
       /\ r.peer_stop_sending = u.peer_stop_sending
  BY <1>10 DEF Stream
<1> HIDE DEF r
<1>13. r.stop_sending => HasRecv(r)
  BY <1>5, <1>10, <1>12 DEF HasRecv
<1>14. Sane(r, f, FALSE)
  BY <1>2, <1>3, <1>10, <1>11, <1>12, <1>13, InUse
<1>15. ShouldBeActive(r) <=> ShouldBeActive(u)
  BY <1>10, <1>12 DEF ShouldBeActive, HasDataToSend, HasSendBuffer
<1>16. Listed(r)
  BY <1>10, <1>12, <1>15 DEF Listed
<1>17. Forward(q, r)
  BY <1>2, <1>3, <1>10, <1>11, <1>12, Ranks DEF Forward
<1>18. Sane(r, flight[s], shutting_down) /\ Forward(qs[s], r)
  BY <1>4, <1>14, <1>17 DEF q, f
<1> QED
  BY <1>1, <1>16, <1>18, OneRecord

\* The zero-length write with SSL_WRITE_FLAG_CONCLUDE.
LEMMA ConcludeEmptyStep ==
    ASSUME MapInv, NEW s \in Streams, ConcludeEmpty(s)
    PROVE  MapInv' /\ AllForward
<1> DEFINE q == qs[s]
           f == flight[s]
           r == [q EXCEPT !.fin = TRUE, !.fin_unsent = TRUE, !.silent_fin = TRUE]
<1>1. /\ ~q.released /\ q.open /\ ~shutting_down /\ ValidForWrite(q)
      /\ Put(s, r) /\ UNCHANGED <<flight, shutting_down>>
  BY DEF ConcludeEmpty, MayAdd, May, Extant
<1>2. q \in Stream /\ f \subseteq Packet /\ Sane(q, f, shutting_down)
  BY StreamInv
<1>3. /\ q.send \in {"ready", "send"} /\ ~q.want_reset_stream /\ ~q.deleted
      /\ \A p \in f : ~p.reset
  BY <1>1, <1>2, Writable
<1>4. shutting_down = FALSE
  BY <1>1 DEF MapInv
<1>5. q.stop_sending => HasRecv(q)
  BY <1>2 DEF Sane
<1> HIDE DEF q, f
<1>6. r \in Stream
  BY <1>2 DEF Stream
<1>7. /\ r.send = q.send /\ r.recv = q.recv /\ r.stop_sending = q.stop_sending
      /\ r.want_reset_stream = q.want_reset_stream /\ r.deleted = q.deleted
      /\ r.silent_fin
  BY <1>2 DEF Stream
<1> HIDE DEF r
<1>8. r.stop_sending => HasRecv(r)
  BY <1>5, <1>7 DEF HasRecv
<1>9. Sane(r, f, FALSE)
  BY <1>2, <1>3, <1>6, <1>7, <1>8, InUse
<1>10. Listed(r) /\ Forward(q, r)
  BY <1>7 DEF Listed, Forward
<1>11. Sane(r, flight[s], shutting_down) /\ Forward(qs[s], r)
  BY <1>4, <1>9, <1>10 DEF q, f
<1> QED
  BY <1>1, <1>10, <1>11, OneRecord

\* SSL_stream_conclude.
LEMMA ConcludeStep ==
    ASSUME MapInv, NEW s \in Streams, Conclude(s)
    PROVE  MapInv' /\ AllForward
<1> DEFINE q == qs[s]
           f == flight[s]
           e == EnsureSendPartId(q)
           x == [e EXCEPT !.fin = TRUE, !.fin_unsent = TRUE]
           r == UpdateState(x, f)
<1>1. /\ ~q.released /\ q.open /\ ~shutting_down /\ ValidForWrite(q)
      /\ Put(s, r) /\ UNCHANGED <<flight, shutting_down>>
  BY DEF Conclude, MayAdd, May, Extant
<1>2. q \in Stream /\ f \subseteq Packet /\ Sane(q, f, shutting_down)
  BY StreamInv
<1>3. /\ q.send \in {"ready", "send"} /\ ~q.want_reset_stream /\ ~q.deleted
      /\ \A p \in f : ~p.reset
  BY <1>1, <1>2, Writable
<1>4. shutting_down = FALSE
  BY <1>1 DEF MapInv
<1>5. q.stop_sending => HasRecv(q)
  BY <1>2 DEF Sane
<1> HIDE DEF q, f
<1>6. /\ e \in Stream /\ Kept(q, e) /\ e.recv = q.recv
      /\ e.stop_sending = q.stop_sending
      /\ e.want_reset_stream = q.want_reset_stream /\ e.send = "send"
  BY <1>2, <1>3, EnsureFields
<1> HIDE DEF e
<1>7. x \in Stream
  BY <1>6 DEF Stream
<1>8. /\ x.send = "send" /\ x.recv = q.recv /\ x.stop_sending = q.stop_sending
      /\ ~x.want_reset_stream /\ ~x.deleted
  BY <1>3, <1>6 DEF Stream, Kept
<1> HIDE DEF x
<1>9. x.stop_sending => HasRecv(x)
  BY <1>5, <1>8 DEF HasRecv
<1>10. Sane(x, f, FALSE)
  BY <1>2, <1>3, <1>7, <1>8, <1>9, InUse
<1>11. Forward(q, x)
  BY <1>2, <1>3, <1>7, <1>8, Ranks DEF Forward
<1>12. Sane(r, f, FALSE) /\ Listed(r) /\ Forward(x, r)
  BY <1>10, UpdateSane
<1> HIDE DEF r
<1>13. r \in Stream
  BY <1>12 DEF Sane
<1>14. Forward(q, r)
  BY <1>2, <1>7, <1>11, <1>12, <1>13, ForwardTwice
<1>15. Sane(r, flight[s], shutting_down) /\ Forward(qs[s], r)
  BY <1>4, <1>12, <1>14 DEF q, f
<1> QED
  BY <1>1, <1>12, <1>15, OneRecord

\* SSL_stream_reset: the id that was ensured first makes no difference.
LEMMA ResetStep ==
    ASSUME MapInv, NEW s \in Streams, Reset(s)
    PROVE  MapInv' /\ AllForward
<1> DEFINE q == qs[s]
           f == flight[s]
           e == EnsureSendPartId(q)
           r == ResetSendPart(e, f)
<1>1. /\ ~q.released /\ q.open /\ ValidForWrite(q)
      /\ Put(s, r) /\ UNCHANGED <<flight, shutting_down>>
  BY DEF Reset, May, Extant
<1>2. q \in Stream /\ Sane(q, f, shutting_down)
  BY StreamInv
<1> HIDE DEF q, f
<1>3. HasSendBuffer(q)
  BY <1>1 DEF ValidForWrite
<1>4. r = ResetSendPart(q, f)
  <2>1. CASE q.send = "ready"
    <3>1. e = [q EXCEPT !.send = "send"]
      BY <2>1 DEF EnsureSendPartId
    <3>2. HasSendBuffer(e)
      BY <1>2, <3>1 DEF HasSendBuffer, Stream
    <3>3. [e EXCEPT !.send = "reset_sent", !.want_reset_stream = TRUE, !.shutdown_flush = FALSE]
          = [q EXCEPT !.send = "reset_sent", !.want_reset_stream = TRUE, !.shutdown_flush = FALSE]
      BY <1>2, <3>1 DEF Stream
    <3> HIDE DEF e
    <3> QED
      BY <1>3, <3>2, <3>3 DEF ResetSendPart
  <2>2. CASE q.send # "ready"
    BY <2>2 DEF EnsureSendPartId
  <2> QED
    BY <2>1, <2>2
<1> HIDE DEF r
<1>5. Moved(q, f, shutting_down, r) /\ Listed(r)
  BY <1>2, <1>3, <1>4, ResetMoves
<1>6. Sane(r, flight[s], shutting_down) /\ Forward(qs[s], r)
  BY <1>5 DEF Moved, q, f
<1> QED
  BY <1>1, <1>5, <1>6, OneRecord

\* SSL_free of a stream: what was not concluded is reset, so that the sending
\* part will end.
LEMMA FreeStep ==
    ASSUME MapInv, NEW s \in Streams, Free(s)
    PROVE  MapInv' /\ AllForward
<1> DEFINE o == qs[s]
           f == flight[s]
           q == IF o.send \in {"ready", "send"} /\ ~o.fin THEN ResetSendPart(o, f) ELSE o
           t == StopSendingRecvPart(q, f)
           x == [t EXCEPT !.deleted = TRUE, !.open = FALSE]
           r == UpdateState(x, f)
<1>1. ~o.released /\ Put(s, r) /\ UNCHANGED <<flight, shutting_down>>
  BY DEF Free, May, Extant
<1>2. o \in Stream /\ Sane(o, f, shutting_down)
  BY StreamInv
<1> HIDE DEF o, f
<1>3. /\ Sane(q, f, shutting_down) /\ Forward(o, q) /\ Kept(o, q)
      /\ q.send \in {"ready", "send"} => q.fin
  <2>1. CASE o.send \in {"ready", "send"} /\ ~o.fin
    <3>1. q = ResetSendPart(o, f) /\ HasSendBuffer(o)
      BY <2>1 DEF HasSendBuffer
    <3> HIDE DEF q
    <3>2. Moved(o, f, shutting_down, q) /\ q.send = "reset_sent"
      BY <1>2, <3>1, ResetMoves
    <3> QED
      BY <3>2 DEF Moved
  <2>2. CASE ~ (o.send \in {"ready", "send"} /\ ~o.fin)
    <3>1. q = o
      BY <2>2
    <3> QED
      BY <1>2, <2>2, <3>1 DEF Forward, Kept
  <2> QED
    BY <2>1, <2>2
<1> HIDE DEF q
<1>4. /\ Sane(t, f, shutting_down) /\ Forward(q, t) /\ Kept(q, t)
      /\ t.send = q.send \/ t.send = "data_recvd"
  BY <1>3, StopMoves
<1> HIDE DEF t
<1>5. q \in Stream /\ t \in Stream
  BY <1>3, <1>4 DEF Sane
<1>6. t.send \in {"ready", "send"} => t.fin
  BY <1>3, <1>4 DEF Kept
<1>7. Forward(o, t)
  BY <1>2, <1>3, <1>4, <1>5, ForwardTwice
<1>8. x \in Stream
  BY <1>5 DEF Stream
<1>9. /\ x.send = t.send /\ x.recv = t.recv /\ x.released = t.released
      /\ x.want_reset_stream = t.want_reset_stream /\ x.fin = t.fin
      /\ x.shutdown_flush = t.shutdown_flush /\ x.stop_sending = t.stop_sending
      /\ x.peer_stop_sending = t.peer_stop_sending
      /\ x.fin_acked = t.fin_acked /\ x.unsent = t.unsent /\ x.lost = t.lost
      /\ ~x.open
  BY <1>5 DEF Stream
<1> HIDE DEF x
<1>10. Sane(x, f, shutting_down)
  <2>1. TotallyAcked(t, f) <=> TotallyAcked(x, f)
    BY <1>9 DEF TotallyAcked
  <2>2. ~t.released
    BY <1>1, <1>3, <1>4 DEF Kept
  <2>3. /\ ResetKnown(t, f) /\ AckedKnown(t, f) /\ FlushKnown(t, f, shutting_down)
        /\ t.stop_sending => HasRecv(t)
        /\ t.peer_stop_sending => HasSend(t)
    BY <1>4, <2>2 DEF Sane
  <2>4. ResetKnown(x, f)
    BY <1>9, <2>3 DEF ResetKnown, SendIsReset
  <2>5. AckedKnown(x, f)
    BY <1>9, <2>1, <2>3 DEF AckedKnown
  <2>6. FlushKnown(x, f, shutting_down)
    BY <1>9, <2>1, <2>3 DEF FlushKnown
  <2>7. DeletedKnown(x)
    BY <1>5, <1>6, <1>9, <2>3
       DEF DeletedKnown, AckedKnown, HasSend, SendIsReset, Stream, SendStates
  <2>8. (x.stop_sending => HasRecv(x)) /\ (x.peer_stop_sending => HasSend(x))
    BY <1>9, <2>3 DEF HasRecv, HasSend
  <2>9. f \subseteq Packet
    BY <1>4 DEF Sane
  <2> QED
    BY <1>8, <2>4, <2>5, <2>6, <2>7, <2>8, <2>9 DEF Sane
<1>11. Sane(r, f, shutting_down) /\ Listed(r) /\ Forward(x, r)
  BY <1>10, UpdateSane
<1> HIDE DEF r
<1>12. r \in Stream /\ Forward(t, x)
  BY <1>9, <1>11 DEF Sane, Forward
<1>13. Forward(o, x)
  BY <1>2, <1>5, <1>7, <1>8, <1>12, ForwardTwice
<1>14. Forward(o, r)
  BY <1>2, <1>8, <1>11, <1>12, <1>13, ForwardTwice
<1>15. Sane(r, flight[s], shutting_down) /\ Forward(qs[s], r)
  BY <1>11, <1>14 DEF o, f
<1> QED
  BY <1>1, <1>11, <1>15, OneRecord

\* SSL_accept_stream.
LEMMA AcceptStep ==
    ASSUME MapInv, NEW s \in Streams, Accept(s)
    PROVE  MapInv' /\ AllForward
<1> DEFINE q == qs[s]
           f == flight[s]
           r == [q EXCEPT !.open = TRUE]
<1>1. ~q.deleted /\ Put(s, r) /\ UNCHANGED <<flight, shutting_down>>
  BY DEF Accept
<1>2. q \in Stream /\ Sane(q, f, shutting_down) /\ Listed(q)
  BY StreamInv
<1> HIDE DEF q, f
<1>3. r \in Stream
  BY <1>2 DEF Stream
<1>4. /\ r.send = q.send /\ r.recv = q.recv /\ r.released = q.released
      /\ r.want_reset_stream = q.want_reset_stream /\ r.fin = q.fin
      /\ r.shutdown_flush = q.shutdown_flush /\ r.stop_sending = q.stop_sending
      /\ r.peer_stop_sending = q.peer_stop_sending /\ r.deleted = q.deleted
      /\ r.fin_acked = q.fin_acked /\ r.unsent = q.unsent /\ r.lost = q.lost
      /\ r.active = q.active /\ r.silent_fin = q.silent_fin
      /\ r.ready_for_gc = q.ready_for_gc /\ r.credit = q.credit
      /\ r.fin_unsent = q.fin_unsent
      /\ r.want_max_stream_data = q.want_max_stream_data
      /\ r.want_stop_sending = q.want_stop_sending
  BY <1>2 DEF Stream
<1> HIDE DEF r
<1>5. TotallyAcked(q, f) <=> TotallyAcked(r, f)
  BY <1>4 DEF TotallyAcked
<1>6. (r.stop_sending => HasRecv(r)) /\ (r.peer_stop_sending => HasSend(r))
  BY <1>2, <1>4 DEF Sane, HasRecv, HasSend
<1>7. Sane(r, f, shutting_down)
  BY <1>1, <1>2, <1>3, <1>4, <1>5, <1>6, SaneSame
<1>8. Listed(r)
  BY <1>2, <1>4 DEF Listed, ShouldBeActive, HasDataToSend, HasSendBuffer
<1>9. Forward(q, r)
  BY <1>4 DEF Forward
<1>10. Sane(r, flight[s], shutting_down) /\ Forward(qs[s], r)
  BY <1>7, <1>9 DEF q, f
<1> QED
  BY <1>1, <1>8, <1>10, OneRecord

\* A change that is not about the sending part, on a stream that need not be on
\* the list after it unless it had to be before.
LEMMA Quiet ==
    ASSUME MapInv, NEW s \in Streams, NEW r \in Stream,
           Kept(qs[s], r), r.send = qs[s].send,
           r.want_reset_stream = qs[s].want_reset_stream,
           r.shutdown_flush = qs[s].shutdown_flush,
           r.stop_sending => HasRecv(r), Listed(r), Forward(qs[s], r),
           Put(s, r), UNCHANGED <<flight, shutting_down>>
    PROVE  MapInv' /\ AllForward
<1>1. Sane(qs[s], flight[s], shutting_down)
  BY StreamInv
<1>2. Sane(r, flight[s], shutting_down)
  BY <1>1, SaneKept
<1> QED
  BY <1>2, OneRecord

\* A change that is not about the sending part, with an update of the state.
LEMMA Noted ==
    ASSUME MapInv, NEW s \in Streams, NEW x \in Stream,
           Kept(qs[s], x), x.send = qs[s].send,
           x.want_reset_stream = qs[s].want_reset_stream,
           x.shutdown_flush = qs[s].shutdown_flush,
           x.stop_sending => HasRecv(x), Forward(qs[s], x),
           Put(s, UpdateState(x, flight[s])), UNCHANGED <<flight, shutting_down>>
    PROVE  MapInv' /\ AllForward
<1>1. Sane(qs[s], flight[s], shutting_down) /\ qs[s] \in Stream
  BY StreamInv
<1>2. Sane(x, flight[s], shutting_down)
  BY <1>1, SaneKept
<1> DEFINE r == UpdateState(x, flight[s])
<1>3. Moved(qs[s], flight[s], shutting_down, r) /\ Listed(r)
  BY <1>1, <1>2, MovedTwice
<1> HIDE DEF r
<1>4. Sane(r, flight[s], shutting_down) /\ Forward(qs[s], r)
  BY <1>3 DEF Moved
<1>5. Put(s, r)
  BY DEF r
<1> QED
  BY <1>3, <1>4, <1>5, OneRecord

\* SSL_read of some bytes.
LEMMA ReadSomeStep ==
    ASSUME MapInv, NEW s \in Streams, NEW bump \in BOOLEAN, ReadSome(s, bump)
    PROVE  MapInv' /\ AllForward
<1> DEFINE q == qs[s]
           x == [q EXCEPT !.want_max_stream_data = @ \/ bump]
<1>1. Put(s, UpdateState(x, flight[s])) /\ UNCHANGED <<flight, shutting_down>>
  BY DEF ReadSome
<1>2. q \in Stream /\ Sane(q, flight[s], shutting_down)
  BY StreamInv
<1> HIDE DEF q
<1>3. x \in Stream
  BY <1>2 DEF Stream
<1>4. /\ Kept(q, x) /\ x.send = q.send /\ x.recv = q.recv
      /\ x.want_reset_stream = q.want_reset_stream
      /\ x.shutdown_flush = q.shutdown_flush /\ x.stop_sending = q.stop_sending
  BY <1>2 DEF Stream, Kept
<1> HIDE DEF x
<1>5. (x.stop_sending => HasRecv(x)) /\ Forward(q, x)
  BY <1>2, <1>4 DEF Sane, HasRecv, Forward
<1> QED
  BY <1>1, <1>3, <1>4, <1>5, Noted DEF q

\* SSL_read up to the FIN.  Without bytes nobody updates the state of the
\* stream, and nothing about the list has changed.
LEMMA ReadFinStep ==
    ASSUME MapInv, NEW s \in Streams, NEW bytes \in BOOLEAN, ReadFin(s, bytes)
    PROVE  MapInv' /\ AllForward
<1> DEFINE q == qs[s]
           x == [q EXCEPT !.recv = "data_read"]
<1>1. /\ q.recv = "data_recvd" /\ UNCHANGED <<flight, shutting_down>>
      /\ Put(s, IF bytes THEN UpdateState(x, flight[s]) ELSE x)
  BY DEF ReadFin
<1>2. q \in Stream /\ Listed(q)
  BY StreamInv
<1> HIDE DEF q
<1>3. x \in Stream
  BY <1>2 DEF Stream, RecvStates
<1>4. /\ Kept(q, x) /\ x.send = q.send /\ x.recv = "data_read"
      /\ x.want_reset_stream = q.want_reset_stream
      /\ x.shutdown_flush = q.shutdown_flush
      /\ x.want_stop_sending = q.want_stop_sending
      /\ x.ready_for_gc = q.ready_for_gc
      /\ x.active = q.active /\ x.silent_fin = q.silent_fin
  BY <1>2 DEF Stream, Kept
<1> HIDE DEF x
<1>5. HasRecv(x) /\ Forward(q, x)
  BY <1>1, <1>2, <1>3, <1>4, Ranks DEF HasRecv, Forward
<1>6. Listed(x)
  BY <1>1, <1>2, <1>4 DEF Listed, ShouldBeActive, HasDataToSend, HasSendBuffer, Kept
<1>7. CASE bytes
  <2>1. Put(s, UpdateState(x, flight[s]))
    BY <1>1, <1>7
  <2> QED
    BY <1>1, <1>3, <1>4, <1>5, <2>1, Noted DEF q
<1>8. CASE ~bytes
  <2>1. Put(s, x)
    BY <1>1, <1>8
  <2> QED
    BY <1>1, <1>3, <1>4, <1>5, <1>6, <2>1, Quiet DEF q
<1> QED
  BY <1>7, <1>8

\* SSL_read that learns of a reset.
LEMMA ReadResetStep ==
    ASSUME MapInv, NEW s \in Streams, ReadReset(s)
    PROVE  MapInv' /\ AllForward
<1> DEFINE q == qs[s]
           x == [q EXCEPT !.recv = "reset_read"]
<1>1. q.recv = "reset_recvd" /\ Put(s, x) /\ UNCHANGED <<flight, shutting_down>>
  BY DEF ReadReset
<1>2. q \in Stream /\ Listed(q)
  BY StreamInv
<1> HIDE DEF q
<1>3. x \in Stream
  BY <1>2 DEF Stream, RecvStates
<1>4. /\ Kept(q, x) /\ x.send = q.send /\ x.recv = "reset_read"
      /\ x.want_reset_stream = q.want_reset_stream
      /\ x.shutdown_flush = q.shutdown_flush
      /\ x.want_stop_sending = q.want_stop_sending
      /\ x.ready_for_gc = q.ready_for_gc
      /\ x.active = q.active /\ x.silent_fin = q.silent_fin
  BY <1>2 DEF Stream, Kept
<1> HIDE DEF x
<1>5. HasRecv(x) /\ Forward(q, x)
  BY <1>1, <1>2, <1>3, <1>4, Ranks DEF HasRecv, Forward
<1>6. Listed(x)
  BY <1>1, <1>2, <1>4 DEF Listed, ShouldBeActive, HasDataToSend, HasSendBuffer, Kept
<1> QED
  BY <1>1, <1>3, <1>4, <1>5, <1>6, Quiet DEF q

\* A STREAM frame of the peer.
LEMMA RxStreamStep ==
    ASSUME MapInv, NEW s \in Streams, NEW fin \in BOOLEAN, NEW all \in BOOLEAN,
           RxStream(s, fin, all)
    PROVE  MapInv' /\ AllForward
<1> DEFINE o == qs[s]
           q == [o EXCEPT !.recv = IF fin THEN "size_known" ELSE @]
           r == IF all /\ ~q.stop_sending
                THEN [q EXCEPT !.recv = "data_recvd", !.want_stop_sending = FALSE] ELSE q
<1>1. /\ o.recv \in {"recv", "size_known"} /\ Put(s, r)
      /\ UNCHANGED <<flight, shutting_down>>
  BY DEF RxStream
<1>2. o \in Stream /\ Listed(o)
  BY StreamInv
<1> HIDE DEF o
<1>3. q \in Stream
  BY <1>1, <1>2 DEF Stream, RecvStates
<1>4. /\ Kept(o, q) /\ q.send = o.send
      /\ q.recv = o.recv \/ q.recv = "size_known"
      /\ q.want_reset_stream = o.want_reset_stream
      /\ q.want_max_stream_data = o.want_max_stream_data
      /\ q.shutdown_flush = o.shutdown_flush
      /\ q.want_stop_sending = o.want_stop_sending
      /\ q.ready_for_gc = o.ready_for_gc
      /\ q.active = o.active /\ q.silent_fin = o.silent_fin
  BY <1>2 DEF Stream, Kept
<1> HIDE DEF q
<1>5. r \in Stream
  <2>1. CASE all /\ ~q.stop_sending
    <3>1. r = [q EXCEPT !.recv = "data_recvd", !.want_stop_sending = FALSE]
      BY <2>1
    <3> HIDE DEF r
    <3> QED
      BY <1>3, <3>1 DEF Stream, RecvStates
  <2>2. CASE ~ (all /\ ~q.stop_sending)
    BY <1>3, <2>2
  <2> QED
    BY <2>1, <2>2
<1>6. /\ Kept(q, r) /\ r.send = q.send
      /\ r.recv = q.recv \/ r.recv = "data_recvd"
      /\ r.want_reset_stream = q.want_reset_stream
      /\ r.want_max_stream_data = q.want_max_stream_data
      /\ r.shutdown_flush = q.shutdown_flush
      /\ r.want_stop_sending => q.want_stop_sending
      /\ r.ready_for_gc = q.ready_for_gc
      /\ r.active = q.active /\ r.silent_fin = q.silent_fin
  BY <1>3 DEF Stream, Kept
<1> HIDE DEF r
<1>7. HasRecv(r)
  BY <1>1, <1>4, <1>6 DEF HasRecv
<1>8. Kept(o, r)
  BY <1>4, <1>6 DEF Kept
<1>9. Forward(o, r)
  BY <1>1, <1>2, <1>4, <1>5, <1>6, Ranks DEF Forward
<1>10. Listed(r)
  BY <1>1, <1>2, <1>4, <1>6, <1>8 DEF Listed, ShouldBeActive, HasDataToSend, HasSendBuffer, Kept
<1> QED
  BY <1>1, <1>4, <1>5, <1>6, <1>7, <1>8, <1>9, <1>10, Quiet DEF o

\* A RESET_STREAM frame of the peer.
LEMMA RxResetStep ==
    ASSUME MapInv, NEW s \in Streams, RxReset(s)
    PROVE  MapInv' /\ AllForward
<1> DEFINE q == qs[s]
           f == flight[s]
           n == NotifyResetRecvPart(q, f)
           r == UpdateState(n, f)
<1>1. Put(s, r) /\ UNCHANGED <<flight, shutting_down>>
  BY DEF RxReset
<1>2. q \in Stream /\ Sane(q, f, shutting_down)
  BY StreamInv
<1> HIDE DEF q, f
<1>3. Moved(q, f, shutting_down, n)
  BY <1>2, ResetRecvMoves
<1> HIDE DEF n
<1>4. Sane(n, f, shutting_down) /\ Forward(q, n) /\ Kept(q, n)
  BY <1>3 DEF Moved
<1>5. Moved(q, f, shutting_down, r) /\ Listed(r)
  BY <1>2, <1>4, MovedTwice
<1> HIDE DEF r
<1>6. Sane(r, flight[s], shutting_down) /\ Forward(qs[s], r)
  BY <1>5 DEF Moved, q, f
<1> QED
  BY <1>1, <1>5, <1>6, OneRecord

\* A STOP_SENDING frame of the peer: what it asks for is the reset.
LEMMA RxStopSendingStep ==
    ASSUME MapInv, NEW s \in Streams, RxStopSending(s)
    PROVE  MapInv' /\ AllForward
<1> DEFINE q == qs[s]
           f == flight[s]
           x == [q EXCEPT !.peer_stop_sending = TRUE]
           r == ResetSendPart(x, f)
<1>1. HasSend(q) /\ Put(s, r) /\ UNCHANGED <<flight, shutting_down>>
  BY DEF RxStopSending
<1>2. q \in Stream /\ Sane(q, f, shutting_down) /\ Listed(q)
  BY StreamInv
<1> HIDE DEF q, f
<1>3. x \in Stream
  BY <1>2 DEF Stream
<1>4. /\ x.send = q.send /\ x.recv = q.recv /\ x.released = q.released
      /\ x.want_reset_stream = q.want_reset_stream /\ x.fin = q.fin
      /\ x.shutdown_flush = q.shutdown_flush /\ x.stop_sending = q.stop_sending
      /\ x.deleted = q.deleted /\ x.open = q.open
      /\ x.fin_acked = q.fin_acked /\ x.unsent = q.unsent /\ x.lost = q.lost
      /\ x.active = q.active /\ x.silent_fin = q.silent_fin
      /\ x.ready_for_gc = q.ready_for_gc
      /\ x.want_max_stream_data = q.want_max_stream_data
      /\ x.want_stop_sending = q.want_stop_sending /\ x.peer_stop_sending
  BY <1>2 DEF Stream
<1> HIDE DEF x
<1>5. TotallyAcked(q, f) <=> TotallyAcked(x, f)
  BY <1>4 DEF TotallyAcked
<1>6. (x.stop_sending => HasRecv(x)) /\ (x.peer_stop_sending => HasSend(x))
  BY <1>1, <1>2, <1>4 DEF Sane, HasRecv, HasSend
<1>7. Sane(x, f, shutting_down)
  BY <1>2, <1>3, <1>4, <1>5, <1>6, SaneSame
<1>8. Listed(x)
  BY <1>2, <1>4 DEF Listed, ShouldBeActive
<1>9. Moved(x, f, shutting_down, r)
  BY <1>7, ResetMoves
<1> HIDE DEF r
<1>10. Sane(r, f, shutting_down) /\ Listed(r) /\ Forward(x, r) /\ r \in Stream
  BY <1>8, <1>9 DEF Moved, Sane
<1>11. Forward(q, x)
  BY <1>4 DEF Forward
<1>12. Forward(q, r)
  BY <1>2, <1>3, <1>10, <1>11, ForwardTwice
<1>13. Sane(r, flight[s], shutting_down) /\ Forward(qs[s], r)
  BY <1>10, <1>12 DEF q, f
<1> QED
  BY <1>1, <1>10, <1>13, OneRecord

\* A MAX_STREAM_DATA or MAX_DATA frame of the peer.
LEMMA RxMaxStreamDataStep ==
    ASSUME MapInv, NEW s \in Streams, RxMaxStreamData(s)
    PROVE  MapInv' /\ AllForward
<1> DEFINE q == qs[s]
           f == flight[s]
           x == [q EXCEPT !.credit = TRUE]
           r == UpdateState(x, f)
<1>1. Put(s, r) /\ UNCHANGED <<flight, shutting_down>>
  BY DEF RxMaxStreamData
<1>2. q \in Stream /\ Sane(q, f, shutting_down)
  BY StreamInv
<1> HIDE DEF q, f
<1>3. x \in Stream
  BY <1>2 DEF Stream
<1>4. /\ x.send = q.send /\ x.recv = q.recv /\ x.released = q.released
      /\ x.want_reset_stream = q.want_reset_stream /\ x.fin = q.fin
      /\ x.shutdown_flush = q.shutdown_flush /\ x.stop_sending = q.stop_sending
      /\ x.peer_stop_sending = q.peer_stop_sending
      /\ x.deleted = q.deleted /\ x.open = q.open
      /\ x.fin_acked = q.fin_acked /\ x.unsent = q.unsent /\ x.lost = q.lost
  BY <1>2 DEF Stream
<1> HIDE DEF x
<1>5. TotallyAcked(q, f) <=> TotallyAcked(x, f)
  BY <1>4 DEF TotallyAcked
<1>6. (x.stop_sending => HasRecv(x)) /\ (x.peer_stop_sending => HasSend(x))
  BY <1>2, <1>4 DEF Sane, HasRecv, HasSend
<1>7. Sane(x, f, shutting_down)
  BY <1>2, <1>3, <1>4, <1>5, <1>6, SaneSame
<1>8. Sane(r, f, shutting_down) /\ Listed(r) /\ Forward(x, r)
  BY <1>7, UpdateSane
<1> HIDE DEF r
<1>9. r \in Stream /\ Forward(q, x)
  BY <1>4, <1>8 DEF Sane, Forward
<1>10. Forward(q, r)
  BY <1>2, <1>3, <1>8, <1>9, ForwardTwice
<1>11. Sane(r, flight[s], shutting_down) /\ Forward(qs[s], r)
  BY <1>8, <1>10 DEF q, f
<1> QED
  BY <1>1, <1>8, <1>11, OneRecord

\* ossl_quic_stream_map_gc.
LEMMA GcStep ==
    ASSUME MapInv, NEW s \in Streams, Gc(s)
    PROVE  MapInv' /\ AllForward
<1> DEFINE q == qs[s]
           f == flight[s]
           r == [q EXCEPT !.released = TRUE, !.active = FALSE]
<1>1. Put(s, r) /\ UNCHANGED <<flight, shutting_down>>
  BY DEF Gc
<1>2. q \in Stream /\ Sane(q, f, shutting_down)
  BY StreamInv
<1> HIDE DEF q, f
<1>3. r \in Stream
  BY <1>2 DEF Stream
<1>4. /\ r.send = q.send /\ r.recv = q.recv /\ r.released
      /\ r.stop_sending = q.stop_sending /\ r.peer_stop_sending = q.peer_stop_sending
  BY <1>2 DEF Stream
<1> HIDE DEF r
<1>5. Sane(r, f, shutting_down) /\ Listed(r)
  BY <1>2, <1>3, <1>4 DEF Sane, HasRecv, HasSend, Listed
<1>6. Forward(q, r)
  BY <1>4 DEF Forward
<1>7. Sane(r, flight[s], shutting_down) /\ Forward(qs[s], r)
  BY <1>5, <1>6 DEF q, f
<1> QED
  BY <1>1, <1>5, <1>7, OneRecord

\* The shutdown begins: the flush waits for what is unacknowledged now.
LEMMA FlushMarks ==
    ASSUME NEW q, NEW f, NEW shut, Sane(q, f, shut), Listed(q),
           NEW r, r = IF ~q.released /\ EligibleForFlush(q, f)
                      THEN [q EXCEPT !.shutdown_flush = TRUE] ELSE q
    PROVE  Sane(r, f, TRUE) /\ Listed(r) /\ Forward(q, r)
<1>1. q \in Stream
  BY DEF Sane
<1>2. CASE ~q.released /\ EligibleForFlush(q, f)
  <2>1. r = [q EXCEPT !.shutdown_flush = TRUE]
    BY <1>2
  <2>2. r \in Stream
    BY <1>1, <2>1 DEF Stream
  <2>3. /\ Kept(q, r) /\ r.send = q.send /\ r.recv = q.recv
        /\ r.want_reset_stream = q.want_reset_stream
        /\ r.stop_sending = q.stop_sending /\ r.shutdown_flush
        /\ r.ready_for_gc = q.ready_for_gc
        /\ r.want_max_stream_data = q.want_max_stream_data
        /\ r.want_stop_sending = q.want_stop_sending
        /\ r.active = q.active /\ r.silent_fin = q.silent_fin
    BY <1>1, <2>1 DEF Stream, Kept
  <2>4. /\ ResetKnown(q, f) /\ AckedKnown(q, f) /\ DeletedKnown(q)
        /\ f \subseteq Packet
        /\ q.stop_sending => HasRecv(q)
        /\ q.peer_stop_sending => HasSend(q)
    BY <1>2 DEF Sane
  <2>5. TotallyAcked(q, f) <=> TotallyAcked(r, f)
    BY <2>3, SameAcked
  <2>6. ResetKnown(r, f)
    BY <2>3, <2>4 DEF ResetKnown, SendIsReset
  <2>7. AckedKnown(r, f)
    BY <2>3, <2>4, <2>5 DEF AckedKnown, Kept
  <2>8. DeletedKnown(r)
    BY <2>3, <2>4 DEF DeletedKnown, SendIsReset, HasSend, Kept
  <2>9. FlushKnown(r, f, TRUE)
    BY <2>3 DEF FlushKnown
  <2>10. (r.stop_sending => HasRecv(r)) /\ (r.peer_stop_sending => HasSend(r))
    BY <2>3, <2>4 DEF HasRecv, HasSend, Kept
  <2>11. Sane(r, f, TRUE)
    BY <2>2, <2>4, <2>6, <2>7, <2>8, <2>9, <2>10 DEF Sane
  <2>12. Listed(r)
    BY <2>3 DEF Listed, ShouldBeActive, HasDataToSend, HasSendBuffer, Kept
  <2> QED
    BY <2>3, <2>11, <2>12 DEF Forward
<1>3. CASE ~ (~q.released /\ EligibleForFlush(q, f))
  <2>1. r = q
    BY <1>3
  <2>2. ~q.released => FlushKnown(q, f, TRUE)
    BY <1>3 DEF EligibleForFlush, FlushKnown
  <2>3. Sane(q, f, TRUE)
    BY <2>2 DEF Sane
  <2> QED
    BY <2>1, <2>3 DEF Forward
<1> QED
  BY <1>2, <1>3

\* SSL_shutdown marks the streams one by one and lets nothing be added later.
LEMMA ShutdownStep ==
    ASSUME MapInv, BeginShutdownFlush
    PROVE  MapInv' /\ AllForward
<1>1. flight \in [Streams -> SUBSET Packet]
  BY DEF MapInv
<1>2. shutting_down' = TRUE /\ flight' = flight
  BY DEF BeginShutdownFlush
<1>3. ASSUME NEW s \in Streams
      PROVE  Sane(qs'[s], flight[s], TRUE) /\ Listed(qs'[s]) /\ Forward(qs[s], qs'[s])
  <2>1. Sane(qs[s], flight[s], shutting_down) /\ Listed(qs[s])
    BY StreamInv
  <2>2. qs'[s] = IF ~qs[s].released /\ EligibleForFlush(qs[s], flight[s])
                 THEN [qs[s] EXCEPT !.shutdown_flush = TRUE] ELSE qs[s]
    BY DEF BeginShutdownFlush, Extant
  <2> QED
    BY <2>1, <2>2, FlushMarks
<1>4. \A s \in Streams : qs'[s] \in Stream
  BY <1>3 DEF Sane
<1>5. DOMAIN qs' = Streams /\ qs' = [s \in Streams |-> qs'[s]]
  BY DEF BeginShutdownFlush
<1>6. qs' \in [Streams -> Stream]
  BY <1>4, <1>5
<1>7. \A s \in Streams : Sane(qs'[s], flight'[s], shutting_down') /\ Listed(qs'[s])
  BY <1>2, <1>3
<1>8. AllForward
  BY <1>3 DEF AllForward
<1> QED
  BY <1>1, <1>2, <1>6, <1>7, <1>8 DEF MapInv

\* ossl_quic_stream_map_notify_all_data_sent, after the state was updated.
LEMMA AllDataSentSane ==
    ASSUME NEW u, NEW f, NEW shut, Sane(u, f, shut), Listed(u),
           NEW r, r = NotifyAllDataSent(u)
    PROVE  Sane(r, f, shut) /\ Listed(r) /\ Forward(u, r)
<1> DEFINE C == u.send = "send" /\ u.fin /\ ~u.unsent /\ ~u.lost /\ ~u.fin_unsent
<1>1. u \in Stream
  BY DEF Sane
<1>2. CASE C
  <2>1. r = [u EXCEPT !.send = "data_sent"]
    BY <1>2 DEF NotifyAllDataSent
  <2>2. r \in Stream
    BY <1>1, <2>1 DEF Stream, SendStates
  <2>3. /\ Kept(u, r) /\ r.send = "data_sent" /\ r.recv = u.recv
        /\ r.want_reset_stream = u.want_reset_stream
        /\ r.stop_sending = u.stop_sending /\ r.shutdown_flush = u.shutdown_flush
        /\ r.ready_for_gc = u.ready_for_gc
        /\ r.want_max_stream_data = u.want_max_stream_data
        /\ r.want_stop_sending = u.want_stop_sending
        /\ r.active = u.active /\ r.silent_fin = u.silent_fin
    BY <1>1, <2>1 DEF Stream, Kept
  <2>4. TotallyAcked(u, f) <=> TotallyAcked(r, f)
    BY <2>3, SameAcked
  <2>5. f \subseteq Packet /\ (r.stop_sending => HasRecv(r)) /\ HasSend(r)
    BY <2>3 DEF Sane, HasRecv, HasSend
  <2>6. ~r.released => /\ ResetKnown(r, f) /\ AckedKnown(r, f)
                       /\ DeletedKnown(r) /\ FlushKnown(r, f, shut)
    <3> SUFFICES ASSUME ~r.released
                 PROVE  /\ ResetKnown(r, f) /\ AckedKnown(r, f)
                        /\ DeletedKnown(r) /\ FlushKnown(r, f, shut)
      OBVIOUS
    <3>1. /\ ResetKnown(u, f) /\ DeletedKnown(u) /\ FlushKnown(u, f, shut)
      BY <2>3 DEF Sane, Kept
    <3>2. ResetKnown(r, f)
      BY <1>2, <2>3, <3>1 DEF ResetKnown, SendIsReset
    <3>3. AckedKnown(r, f)
      BY <1>2, <2>3 DEF AckedKnown, Kept
    <3>4. DeletedKnown(r)
      BY <1>2, <2>3, <3>1 DEF DeletedKnown, Kept
    <3>5. FlushKnown(r, f, shut)
      BY <1>2, <2>3, <2>4, <3>1 DEF FlushKnown
    <3> QED
      BY <3>2, <3>3, <3>4, <3>5
  <2>7. Sane(r, f, shut)
    BY <2>2, <2>5, <2>6 DEF Sane
  <2>8. Listed(r)
    BY <1>2, <2>3 DEF Listed, ShouldBeActive, HasDataToSend, HasSendBuffer, Kept
  <2>9. Forward(u, r)
    BY <1>1, <1>2, <2>2, <2>3, Ranks DEF Forward
  <2> QED
    BY <2>7, <2>8, <2>9
<1>3. CASE ~C
  <2>1. r = u
    BY <1>3 DEF NotifyAllDataSent
  <2> QED
    BY <2>1 DEF Forward
<1> QED
  BY <1>2, <1>3

\* What a packet changes of its stream.
SentOff(q, p, left, x) ==
    /\ x \in Stream
    /\ x.send = q.send /\ x.recv = q.recv /\ x.released = q.released
    /\ x.want_reset_stream => q.want_reset_stream
    /\ x.shutdown_flush = q.shutdown_flush /\ x.fin = q.fin
    /\ x.fin_acked = q.fin_acked /\ x.deleted = q.deleted /\ x.open = q.open
    /\ x.stop_sending = q.stop_sending
    /\ x.peer_stop_sending = q.peer_stop_sending
    /\ x.lost = left.lost /\ x.unsent = left.unsent

\* The frames that were sent, the rest of the data, and the credit.
LEMMA SentFields ==
    ASSUME NEW q \in Stream, NEW p \in Packet, NEW left, NEW credit \in BOOLEAN,
           left.lost \in BOOLEAN, left.unsent \in BOOLEAN
    PROVE  SentOff(q, p, left, [Sent(q, p) EXCEPT !.lost = left.lost, !.unsent = left.unsent,
                                                  !.credit = credit])
<1> DEFINE a == q.want_stop_sending /\ ~p.stop
           b == q.want_reset_stream /\ ~p.reset
           c == q.want_max_stream_data /\ ~p.max
           d == q.fin_unsent /\ ~p.fin
           l == left.lost
           n == left.unsent
           x == [q EXCEPT !.want_stop_sending = a, !.want_reset_stream = b,
                          !.want_max_stream_data = c, !.fin_unsent = d,
                          !.lost = l, !.unsent = n, !.credit = credit]
<1>1. /\ a \in BOOLEAN /\ b \in BOOLEAN /\ c \in BOOLEAN /\ d \in BOOLEAN
      /\ l \in BOOLEAN /\ n \in BOOLEAN
  OBVIOUS
<1>2. b => q.want_reset_stream
  OBVIOUS
<1>3. x = [Sent(q, p) EXCEPT !.lost = left.lost, !.unsent = left.unsent, !.credit = credit]
  BY DEF Sent
<1> HIDE DEF a, b, c, d, l, n
<1>4. x \in Stream
  BY <1>1 DEF Stream
<1>5. /\ x.send = q.send /\ x.recv = q.recv /\ x.released = q.released
      /\ x.want_reset_stream = b
      /\ x.shutdown_flush = q.shutdown_flush /\ x.fin = q.fin
      /\ x.fin_acked = q.fin_acked /\ x.deleted = q.deleted /\ x.open = q.open
      /\ x.stop_sending = q.stop_sending
      /\ x.peer_stop_sending = q.peer_stop_sending
      /\ x.lost = l /\ x.unsent = n
  BY DEF Stream
<1> HIDE DEF x
<1>6. SentOff(q, p, left, x)
  BY <1>2, <1>4, <1>5 DEF SentOff, l, n
<1> QED
  BY <1>3, <1>6

\* What a packet leaves of a stream: nothing becomes unacknowledged that was
\* not, as only data that was unsent or lost is in it.
LEMMA SentSane ==
    ASSUME NEW q, NEW f, NEW shut, Sane(q, f, shut),
           NEW p \in Packet, NEW left \in Leftovers(q, p), Frames(q, p),
           NEW g, g \subseteq f \cup {p}, NEW x, SentOff(q, p, left, x)
    PROVE  Sane(x, g, shut) /\ Forward(q, x)
<1>1. f \subseteq Packet
  BY DEF Sane
<1>2. ~p.data => left.lost = q.lost /\ left.unsent = q.unsent
  BY DEF Leftovers
<1>3. g \subseteq Packet /\ \A o \in g : o \in f \/ o = p
  BY <1>1
<1>4. \A o \in g : o.reset => o \in f \/ q.want_reset_stream
  BY <1>3 DEF Frames
<1>5. TotallyAcked(q, f) => TotallyAcked(x, g)
  <2> SUFFICES ASSUME TotallyAcked(q, f)
               PROVE  TotallyAcked(x, g)
    OBVIOUS
  <2>1. ~p.data
    BY DEF TotallyAcked, Frames
  <2> QED
    BY <1>2, <1>3, <2>1 DEF TotallyAcked, SentOff
<1>6. (x.stop_sending => HasRecv(x)) /\ (x.peer_stop_sending => HasSend(x))
  BY DEF Sane, HasRecv, HasSend, SentOff
<1>7. Sane(x, g, shut)
  BY <1>3, <1>4, <1>5, <1>6, SaneLater DEF SentOff
<1> QED
  BY <1>7 DEF Forward, SentOff

\* The packetiser.
LEMMA TxStep ==
    ASSUME MapInv, NEW s \in Streams, TxSome(s)
    PROVE  MapInv' /\ AllForward
<1>1. PICK p \in NewPackets(s), credit \in BOOLEAN :
        \E left \in Leftovers(qs[s], p) : Tx(s, p, left, credit)
  BY DEF TxSome
<1>2. PICK left \in Leftovers(qs[s], p) : Tx(s, p, left, credit)
  BY <1>1
<1> DEFINE q == qs[s]
           f == flight[s]
           g == IF HasChunk(p) THEN f \cup {p} ELSE f
           x == [Sent(q, p) EXCEPT !.lost = left.lost, !.unsent = left.unsent,
                                   !.credit = credit]
           u == UpdateState(x, g)
           r == NotifyAllDataSent(u)
<1>3. p \in Packet
  BY DEF NewPackets
<1>4. flight \in [Streams -> SUBSET Packet]
  BY DEF MapInv
<1>5. flight' = IF HasChunk(p) THEN [flight EXCEPT ![s] = @ \cup {p}] ELSE flight
  BY <1>2 DEF Tx
<1>6. flight' = [flight EXCEPT ![s] = g]
  <2>1. CASE HasChunk(p)
    BY <1>4, <1>5, <2>1
  <2>2. CASE ~HasChunk(p)
    BY <1>4, <1>5, <2>2
  <2> QED
    BY <2>1, <2>2
<1>7. flight'[s] = g
  BY <1>4, <1>6
<1>8. Frames(q, p) /\ Put(s, r) /\ UNCHANGED shutting_down
  BY <1>2, <1>7 DEF Tx
<1>9. q \in Stream /\ Sane(q, f, shutting_down)
  BY StreamInv
<1>10. left \in Leftovers(q, p)
  BY <1>2
<1>11. qs' = [qs EXCEPT ![s] = r]
  BY <1>8 DEF Put
<1> HIDE DEF q, f
<1>12. Sane(x, g, shutting_down) /\ Forward(q, x)
  <2>1. left.lost \in BOOLEAN /\ left.unsent \in BOOLEAN
    BY <1>10 DEF Leftovers
  <2>2. SentOff(q, p, left, x)
    BY <1>3, <1>9, <2>1, SentFields
  <2>3. g \subseteq f \cup {p}
    OBVIOUS
  <2> HIDE DEF x, g
  <2> QED
    BY <1>3, <1>8, <1>9, <1>10, <2>2, <2>3, SentSane
<1> HIDE DEF x, g
<1>13. Sane(u, g, shutting_down) /\ Listed(u) /\ Forward(x, u)
  BY <1>12, UpdateSane
<1> HIDE DEF u
<1>14. Sane(r, g, shutting_down) /\ Listed(r) /\ Forward(u, r)
  BY <1>13, AllDataSentSane
<1> HIDE DEF r
<1>15. x \in Stream /\ u \in Stream /\ r \in Stream
  BY <1>12, <1>13, <1>14 DEF Sane
<1>16. Forward(q, u)
  BY <1>9, <1>12, <1>13, <1>15, ForwardTwice
<1>17. Forward(q, r)
  BY <1>9, <1>14, <1>15, <1>16, ForwardTwice
<1>18. Forward(qs[s], r)
  BY <1>17 DEF q
<1> QED
  BY <1>6, <1>8, <1>11, <1>14, <1>18, OneStream

\* Packets that are gone are missed by nothing.
LEMMA Fewer ==
    ASSUME NEW q, NEW f, NEW shut, Sane(q, f, shut), NEW g, g \subseteq f
    PROVE  Sane(q, g, shut)
<1>1. /\ q \in Stream /\ g \subseteq Packet
      /\ q.stop_sending => HasRecv(q)
      /\ q.peer_stop_sending => HasSend(q)
  BY DEF Sane
<1>2. TotallyAcked(q, f) => TotallyAcked(q, g)
  BY DEF TotallyAcked
<1> QED
  BY <1>1, <1>2, SaneLater

\* The acknowledgement of data or of the FIN.
LEMMA AckDataSane ==
    ASSUME NEW q, NEW g, NEW shut, Sane(q, g, shut), Listed(q), NEW p \in Packet,
           NEW d, d = AckData(q, p, g)
    PROVE  Sane(d, g, shut) /\ Listed(d) /\ Forward(q, d)
<1> DEFINE a == q.fin_acked \/ p.fin
           x == [q EXCEPT !.fin_acked = a]
<1>1. q \in Stream
  BY DEF Sane
<1>2. d = IF ~HasSendBuffer(q) \/ ~(p.data \/ p.fin) THEN q
          ELSE IF TotallyAcked(x, g) THEN UpdateState(x, g) ELSE x
  BY DEF AckData
<1>3. a \in BOOLEAN /\ (q.fin_acked => a)
  OBVIOUS
<1> HIDE DEF a
<1>4. x \in Stream
  BY <1>1, <1>3 DEF Stream
<1>5. /\ x.send = q.send /\ x.recv = q.recv /\ x.released = q.released
      /\ x.want_reset_stream = q.want_reset_stream /\ x.fin = q.fin
      /\ x.shutdown_flush = q.shutdown_flush /\ x.stop_sending = q.stop_sending
      /\ x.peer_stop_sending = q.peer_stop_sending
      /\ x.deleted = q.deleted /\ x.open = q.open
      /\ x.fin_acked = a /\ x.unsent = q.unsent /\ x.lost = q.lost
      /\ x.active = q.active /\ x.silent_fin = q.silent_fin
      /\ x.ready_for_gc = q.ready_for_gc /\ x.credit = q.credit
      /\ x.fin_unsent = q.fin_unsent
      /\ x.want_max_stream_data = q.want_max_stream_data
      /\ x.want_stop_sending = q.want_stop_sending
  BY <1>1 DEF Stream
<1> HIDE DEF x
<1>6. TotallyAcked(q, g) => TotallyAcked(x, g)
  BY <1>3, <1>5 DEF TotallyAcked
<1>7. (x.stop_sending => HasRecv(x)) /\ (x.peer_stop_sending => HasSend(x))
  BY <1>5 DEF Sane, HasRecv, HasSend
<1>8. Sane(x, g, shut)
  BY <1>4, <1>5, <1>6, <1>7, SaneSame
<1>9. Listed(x)
  BY <1>5 DEF Listed, ShouldBeActive, HasDataToSend, HasSendBuffer
<1>10. Forward(q, x)
  BY <1>5 DEF Forward
<1>11. CASE d = q
  BY <1>11 DEF Forward
<1>12. CASE d = x
  BY <1>8, <1>9, <1>10, <1>12
<1>13. CASE d = UpdateState(x, g)
  <2>1. Sane(d, g, shut) /\ Listed(d) /\ Forward(x, d)
    BY <1>8, <1>13, UpdateSane
  <2>2. d \in Stream
    BY <2>1 DEF Sane
  <2> QED
    BY <1>1, <1>4, <1>10, <2>1, <2>2, ForwardTwice
<1> QED
  BY <1>2, <1>11, <1>12, <1>13

\* The acknowledgement of STOP_SENDING or RESET_STREAM: a stream that still has
\* a send buffer was not reset.
LEMMA AckAbortSane ==
    ASSUME NEW q, NEW g, NEW shut, Sane(q, g, shut), Listed(q), NEW p \in Packet,
           NEW d, d = AckAbort(q, p, g)
    PROVE  Sane(d, g, shut) /\ Listed(d) /\ Forward(q, d)
<1> DEFINE a == q.acked_stop_sending \/ p.stop
           x == [q EXCEPT !.acked_stop_sending = a]
<1>1. q \in Stream
  BY DEF Sane
<1>2. CASE ~HasSendBuffer(q) \/ ~(p.stop \/ p.reset)
  <2>1. d = q
    BY <1>2 DEF AckAbort
  <2> QED
    BY <2>1 DEF Forward
<1>3. CASE ~ (~HasSendBuffer(q) \/ ~(p.stop \/ p.reset))
  <2>1. q.send # "reset_sent"
    BY <1>3 DEF HasSendBuffer
  <2>2. d = UpdateState([q EXCEPT !.acked_stop_sending = a,
              !.send = IF p.reset /\ q.send = "reset_sent" THEN "reset_recvd" ELSE q.send], g)
    BY <1>3 DEF AckAbort
  <2>3. [q EXCEPT !.acked_stop_sending = a,
              !.send = IF p.reset /\ q.send = "reset_sent" THEN "reset_recvd" ELSE q.send] = x
    BY <1>1, <2>1 DEF Stream
  <2>4. d = UpdateState(x, g)
    BY <2>2, <2>3
  <2>5. a \in BOOLEAN
    OBVIOUS
  <2> HIDE DEF a
  <2>6. x \in Stream
    BY <1>1, <2>5 DEF Stream
  <2>7. /\ x.send = q.send /\ x.recv = q.recv /\ x.released = q.released
        /\ x.want_reset_stream = q.want_reset_stream /\ x.fin = q.fin
        /\ x.shutdown_flush = q.shutdown_flush /\ x.stop_sending = q.stop_sending
        /\ x.peer_stop_sending = q.peer_stop_sending
        /\ x.deleted = q.deleted /\ x.open = q.open
        /\ x.fin_acked = q.fin_acked /\ x.unsent = q.unsent /\ x.lost = q.lost
    BY <1>1 DEF Stream
  <2> HIDE DEF x
  <2>8. TotallyAcked(q, g) => TotallyAcked(x, g)
    BY <2>7 DEF TotallyAcked
  <2>9. (x.stop_sending => HasRecv(x)) /\ (x.peer_stop_sending => HasSend(x))
    BY <2>7 DEF Sane, HasRecv, HasSend
  <2>10. Sane(x, g, shut)
    BY <2>6, <2>7, <2>8, <2>9, SaneSame
  <2>11. Sane(d, g, shut) /\ Listed(d) /\ Forward(x, d)
    BY <2>4, <2>10, UpdateSane
  <2>12. d \in Stream /\ Forward(q, x)
    BY <2>7, <2>11 DEF Sane, Forward
  <2> QED
    BY <1>1, <2>6, <2>11, <2>12, ForwardTwice
<1> QED
  BY <1>2, <1>3

\* A packet is acknowledged.
LEMMA AckedStep ==
    ASSUME MapInv, NEW s \in Streams, NEW p, Acked(s, p)
    PROVE  MapInv' /\ AllForward
<1> DEFINE q == qs[s]
           f == flight[s]
           g == f \ {p}
           d == AckData(q, p, g)
           r == AckAbort(d, p, g)
<1>1. qs \in [Streams -> Stream] /\ flight \in [Streams -> SUBSET Packet]
  BY DEF MapInv
<1>2. /\ p \in f /\ UNCHANGED shutting_down
      /\ flight' = [flight EXCEPT ![s] = g] /\ flight'[s] = g
  BY <1>1 DEF Acked
<1>3. q \in Stream /\ f \subseteq Packet /\ Sane(q, f, shutting_down) /\ Listed(q)
  BY StreamInv
<1>4. qs' = IF ~q.released THEN [qs EXCEPT ![s] = r] ELSE [qs EXCEPT ![s] = q]
  BY <1>1, <1>2 DEF Acked, Extant
<1> HIDE DEF q, f
<1>5. p \in Packet /\ Sane(q, g, shutting_down)
  BY <1>2, <1>3, Fewer
<1> HIDE DEF g
<1>6. Sane(d, g, shutting_down) /\ Listed(d) /\ Forward(q, d)
  BY <1>3, <1>5, AckDataSane
<1> HIDE DEF d
<1>7. Sane(r, g, shutting_down) /\ Listed(r) /\ Forward(d, r)
  BY <1>5, <1>6, AckAbortSane
<1> HIDE DEF r
<1>8. d \in Stream /\ r \in Stream
  BY <1>6, <1>7 DEF Sane
<1>9. Forward(q, r)
  BY <1>3, <1>6, <1>7, <1>8, ForwardTwice
<1>10. CASE ~q.released
  <2>1. qs' = [qs EXCEPT ![s] = r] /\ Forward(qs[s], r)
    BY <1>4, <1>9, <1>10 DEF q
  <2> QED
    BY <1>2, <1>7, <2>1, OneStream
<1>11. CASE q.released
  <2>1. qs' = [qs EXCEPT ![s] = q] /\ qs[s].released
    BY <1>4, <1>11 DEF q
  <2> QED
    BY <1>2, <1>3, <1>5, <2>1, OneStream
<1> QED
  BY <1>10, <1>11

\* The loss of a packet: its data becomes lost while it was unacknowledged
\* anyway, and a stream with a send buffer had no RESET_STREAM in it.
LEMMA OnLostSane ==
    ASSUME NEW q, NEW f, NEW shut, Sane(q, f, shut), Listed(q), NEW p \in f,
           ~q.released, NEW g, g = f \ {p}, NEW d, d = OnLost(q, p, g)
    PROVE  Sane(d, g, shut) /\ Listed(d) /\ Forward(q, d)
<1> DEFINE l == q.lost \/ p.data
           n == q.fin_unsent \/ (p.fin /\ ~q.fin_acked)
           w == q.want_reset_stream \/ p.reset
           x == [q EXCEPT !.lost = l, !.fin_unsent = n, !.want_reset_stream = w]
           t == IF p.stop THEN ScheduleStopSending(x, g) ELSE x
           y == [t EXCEPT !.want_max_stream_data = TRUE]
<1>1. q \in Stream /\ f \subseteq Packet /\ g \subseteq Packet
  BY DEF Sane
<1>2. CASE ~HasSendBuffer(q)
  <2>1. d = q
    BY <1>2 DEF OnLost
  <2>2. Sane(q, g, shut)
    BY Fewer
  <2> QED
    BY <2>1, <2>2 DEF Forward
<1>3. CASE HasSendBuffer(q)
  <2>1. d = UpdateState(y, g)
    BY <1>3 DEF OnLost
  <2>2. l \in BOOLEAN /\ n \in BOOLEAN /\ w \in BOOLEAN
    OBVIOUS
  <2>3. w => q.want_reset_stream
    BY <1>3 DEF Sane, ResetKnown, SendIsReset, HasSendBuffer
  <2>4. TotallyAcked(q, f) => ~l
    BY DEF TotallyAcked
  <2> HIDE DEF l, n, w
  <2>5. x \in Stream
    BY <1>1, <2>2 DEF Stream
  <2>6. /\ x.send = q.send /\ x.recv = q.recv /\ x.released = q.released
        /\ x.want_reset_stream = w /\ x.fin = q.fin
        /\ x.shutdown_flush = q.shutdown_flush /\ x.stop_sending = q.stop_sending
        /\ x.peer_stop_sending = q.peer_stop_sending
        /\ x.deleted = q.deleted /\ x.open = q.open
        /\ x.fin_acked = q.fin_acked /\ x.unsent = q.unsent /\ x.lost = l
    BY <1>1 DEF Stream
  <2> HIDE DEF x
  <2>7. TotallyAcked(q, f) => TotallyAcked(x, g)
    BY <2>4, <2>6 DEF TotallyAcked
  <2>8. (x.stop_sending => HasRecv(x)) /\ (x.peer_stop_sending => HasSend(x))
    BY <2>6 DEF Sane, HasRecv, HasSend
  <2>9. \A o \in g : o.reset => o \in f \/ q.want_reset_stream
    OBVIOUS
  <2>10. Sane(x, g, shut)
    BY <1>1, <2>3, <2>5, <2>6, <2>7, <2>8, <2>9, SaneLater
  <2>11. Moved(x, g, shut, t)
    <3>1. CASE p.stop
      BY <2>10, <3>1, ScheduleMoves
    <3>2. CASE ~p.stop
      BY <2>10, <3>2, MovedNot
    <3> QED
      BY <3>1, <3>2
  <2> HIDE DEF t
  <2>12. Sane(t, g, shut) /\ Forward(x, t) /\ t \in Stream
    BY <2>11 DEF Moved, Sane
  <2>13. y \in Stream
    BY <2>12 DEF Stream
  <2>14. /\ Kept(t, y) /\ y.send = t.send /\ y.recv = t.recv
         /\ y.want_reset_stream = t.want_reset_stream
         /\ y.shutdown_flush = t.shutdown_flush /\ y.stop_sending = t.stop_sending
    BY <2>12 DEF Stream, Kept
  <2> HIDE DEF y
  <2>15. y.stop_sending => HasRecv(y)
    BY <2>12, <2>14 DEF Sane, HasRecv
  <2>16. Sane(y, g, shut)
    BY <2>12, <2>13, <2>14, <2>15, SaneKept
  <2>17. Sane(d, g, shut) /\ Listed(d) /\ Forward(y, d)
    BY <2>1, <2>16, UpdateSane
  <2>18. Forward(q, x) /\ Forward(t, y) /\ d \in Stream
    BY <2>6, <2>14, <2>17 DEF Forward, Sane
  <2>19. Forward(q, t)
    BY <1>1, <2>5, <2>12, <2>18, ForwardTwice
  <2>20. Forward(q, y)
    BY <1>1, <2>12, <2>13, <2>18, <2>19, ForwardTwice
  <2>21. Forward(q, d)
    BY <1>1, <2>13, <2>17, <2>18, <2>20, ForwardTwice
  <2> QED
    BY <2>17, <2>21
<1> QED
  BY <1>2, <1>3

\* A packet is declared lost.
LEMMA LostStep ==
    ASSUME MapInv, NEW s \in Streams, NEW p, Lost(s, p)
    PROVE  MapInv' /\ AllForward
<1> DEFINE q == qs[s]
           f == flight[s]
           g == f \ {p}
           r == OnLost(q, p, g)
<1>1. qs \in [Streams -> Stream] /\ flight \in [Streams -> SUBSET Packet]
  BY DEF MapInv
<1>2. /\ p \in f /\ UNCHANGED shutting_down
      /\ flight' = [flight EXCEPT ![s] = g] /\ flight'[s] = g
  BY <1>1 DEF Lost
<1>3. q \in Stream /\ Sane(q, f, shutting_down) /\ Listed(q)
  BY StreamInv
<1>4. qs' = IF ~q.released THEN [qs EXCEPT ![s] = r] ELSE [qs EXCEPT ![s] = q]
  BY <1>1, <1>2 DEF Lost, Extant
<1> HIDE DEF q, f
<1>5. Sane(q, g, shutting_down)
  BY <1>3, Fewer
<1>6. CASE ~q.released
  <2>1. Sane(r, g, shutting_down) /\ Listed(r) /\ Forward(q, r)
    BY <1>2, <1>3, <1>6, OnLostSane
  <2> HIDE DEF r, g
  <2>2. qs' = [qs EXCEPT ![s] = r] /\ Forward(qs[s], r)
    BY <1>4, <1>6, <2>1 DEF q
  <2> QED
    BY <1>2, <2>1, <2>2, OneStream
<1>7. CASE q.released
  <2> HIDE DEF r, g
  <2>1. qs' = [qs EXCEPT ![s] = q] /\ qs[s].released
    BY <1>4, <1>7 DEF q
  <2> QED
    BY <1>2, <1>3, <1>5, <2>1, OneStream
<1> QED
  BY <1>6, <1>7

(***************************************************************************)
(* The theorems.                                                           *)
(***************************************************************************)

\* A new stream.
LEMMA NewSane ==
    ASSUME NEW k \in AllKinds, NEW q, q = NewStream(k)
    PROVE  /\ Sane(q, {}, FALSE) /\ Listed(q)
           /\ k \in RemoteKinds => ~q.open
<1>1. 0 \in 0 .. MaxWrites
  BY StreamMapAssumption
<1>2. q \in Stream
  BY <1>1 DEF NewStream, Stream, SendStates, RecvStates
<1>3. /\ q.send \in {"none", "ready"} /\ ~q.want_reset_stream /\ ~q.deleted
      /\ ~q.stop_sending /\ ~q.peer_stop_sending
      /\ ~q.want_max_stream_data /\ ~q.want_stop_sending
      /\ ~q.lost /\ ~q.unsent /\ ~q.fin_unsent
      /\ k \in RemoteKinds => ~q.open
  BY DEF NewStream
<1> HIDE DEF NewStream
<1>4. Sane(q, {}, FALSE)
  BY <1>2, <1>3 DEF Sane, ResetKnown, AckedKnown, DeletedKnown, FlushKnown
<1>5. Listed(q)
  BY <1>3 DEF Listed, ShouldBeActive, HasDataToSend
<1> QED
  BY <1>3, <1>4, <1>5

\* A stream that is refused when it is created.
LEMMA RejectSane ==
    ASSUME NEW q, Sane(q, {}, FALSE), ~q.open, NEW r, r = RejectStream(q)
    PROVE  Sane(r, {}, FALSE) /\ Listed(r)
<1> DEFINE o == StopSendingRecvPart(q, {})
           t == ResetSendPart(o, {})
           x == [t EXCEPT !.deleted = TRUE]
<1>1. r = UpdateState(x, {})
  BY DEF RejectStream
<1>2. Sane(o, {}, FALSE) /\ Kept(q, o)
  BY StopMoves
<1> HIDE DEF o
<1>3. Moved(o, {}, FALSE, t) /\ (HasSendBuffer(o) => t.send = "reset_sent")
  BY <1>2, ResetMoves
<1>4. ~HasSendBuffer(o) => t = o
  BY DEF ResetSendPart
<1>5. t.send \notin {"ready", "send", "data_sent"}
  BY <1>3, <1>4 DEF HasSendBuffer
<1> HIDE DEF t
<1>6. Sane(t, {}, FALSE) /\ Kept(o, t) /\ t \in Stream
  BY <1>3 DEF Moved, Sane
<1>7. x \in Stream
  BY <1>6 DEF Stream
<1>8. /\ x.send = t.send /\ x.recv = t.recv /\ x.released = t.released
      /\ x.want_reset_stream = t.want_reset_stream /\ x.fin = t.fin
      /\ x.stop_sending = t.stop_sending /\ x.peer_stop_sending = t.peer_stop_sending
      /\ x.fin_acked = t.fin_acked /\ x.unsent = t.unsent /\ x.lost = t.lost
      /\ x.open = t.open
  BY <1>6 DEF Stream
<1> HIDE DEF x
<1>9. ~x.open
  BY <1>2, <1>6, <1>8 DEF Kept
<1>10. Sane(x, {}, FALSE)
  <2>1. (x.stop_sending => HasRecv(x)) /\ (x.peer_stop_sending => HasSend(x))
    BY <1>6, <1>8 DEF Sane, HasRecv, HasSend
  <2> SUFFICES ASSUME ~x.released
               PROVE  /\ ResetKnown(x, {}) /\ AckedKnown(x, {})
                      /\ DeletedKnown(x) /\ FlushKnown(x, {}, FALSE)
    BY <1>7, <2>1 DEF Sane
  <2>2. ResetKnown(t, {}) /\ AckedKnown(t, {})
    BY <1>6, <1>8 DEF Sane
  <2>3. TotallyAcked(t, {}) => TotallyAcked(x, {})
    BY <1>8 DEF TotallyAcked
  <2>4. ResetKnown(x, {}) /\ AckedKnown(x, {})
    BY <1>8, <2>2, <2>3 DEF ResetKnown, AckedKnown, SendIsReset
  <2>5. DeletedKnown(x)
    BY <1>5, <1>6, <1>8, <1>9, <2>2
       DEF DeletedKnown, AckedKnown, HasSend, SendIsReset, Stream, SendStates
  <2> QED
    BY <2>4, <2>5 DEF FlushKnown
<1> QED
  BY <1>1, <1>10, UpdateSane

\* The invariant holds initially.
LEMMA InitInv == Init => MapInv
<1> SUFFICES ASSUME Init
             PROVE  MapInv
  OBVIOUS
<1>1. \A k \in Kinds : Sane(NewStream(k), {}, FALSE) /\ Listed(NewStream(k))
  BY NewSane, StreamMapAssumption
<1>2. ASSUME NEW k \in Kinds \cap RemoteKinds
      PROVE  Sane(RejectStream(NewStream(k)), {}, FALSE)
             /\ Listed(RejectStream(NewStream(k)))
  <2>1. Sane(NewStream(k), {}, FALSE) /\ ~NewStream(k).open
    BY NewSane, StreamMapAssumption
  <2> QED
    BY <2>1, RejectSane
<1>3. DOMAIN qs = Streams /\ qs = [s \in Streams |-> qs[s]]
  BY DEF Init
<1>4. ASSUME NEW s \in Streams
      PROVE  Sane(qs[s], {}, FALSE) /\ Listed(qs[s])
  <2>1. \/ \E k \in Kinds : qs[s] = NewStream(k)
        \/ \E k \in Kinds \cap RemoteKinds : qs[s] = RejectStream(NewStream(k))
    BY DEF Init
  <2> QED
    BY <1>1, <1>2, <2>1
<1>5. qs \in [Streams -> Stream]
  BY <1>3, <1>4 DEF Sane
<1>6. /\ flight \in [Streams -> SUBSET Packet] /\ shutting_down = FALSE
      /\ \A s \in Streams : flight[s] = {}
  BY DEF Init
<1> QED
  BY <1>4, <1>5, <1>6 DEF MapInv

\* Every step keeps the invariant and moves no stream backwards.
LEMMA StepInv ==
    ASSUME MapInv, [Next]_vars
    PROVE  MapInv' /\ AllForward
<1>1. CASE BeginShutdownFlush
  BY <1>1, ShutdownStep
<1>2. ASSUME NEW s \in Streams,
             \/ \E conclude \in BOOLEAN : Write(s, conclude)
             \/ ConcludeEmpty(s) \/ Conclude(s) \/ Reset(s) \/ Free(s)
             \/ Accept(s)
      PROVE  MapInv' /\ AllForward
  BY <1>2, WriteStep, ConcludeEmptyStep, ConcludeStep, ResetStep, FreeStep, AcceptStep
<1>3. ASSUME NEW s \in Streams,
             \/ \E b \in BOOLEAN : ReadSome(s, b) \/ ReadFin(s, b)
             \/ ReadReset(s)
      PROVE  MapInv' /\ AllForward
  BY <1>3, ReadSomeStep, ReadFinStep, ReadResetStep
<1>4. ASSUME NEW s \in Streams,
             \/ \E fin, all \in BOOLEAN : RxStream(s, fin, all)
             \/ RxReset(s) \/ RxStopSending(s) \/ RxMaxStreamData(s)
      PROVE  MapInv' /\ AllForward
  BY <1>4, RxStreamStep, RxResetStep, RxStopSendingStep, RxMaxStreamDataStep
<1>5. ASSUME NEW s \in Streams,
             \/ TxSome(s)
             \/ \E p \in flight[s] : Acked(s, p) \/ Lost(s, p)
             \/ Gc(s)
      PROVE  MapInv' /\ AllForward
  BY <1>5, TxStep, AckedStep, LostStep, GcStep
<1>6. CASE UNCHANGED vars
  <2>1. qs' = qs /\ flight' = flight /\ shutting_down' = shutting_down
    BY <1>6 DEF vars
  <2>2. MapInv'
    BY <2>1 DEF MapInv
  <2>3. AllForward
    BY <2>1 DEF AllForward, Forward
  <2> QED
    BY <2>2, <2>3
<1> QED
  BY <1>1, <1>2, <1>3, <1>4, <1>5, <1>6 DEF Next

\* The invariant of the stream map: for every stream, what its state says of
\* resets, acknowledgements, the freed object and the shutdown flush is so, and
\* the stream is on the active list if it has something to send.
THEOREM Inductive == Spec => []MapInv
<1>1. MapInv /\ [Next]_vars => MapInv'
  BY StepInv
<1> QED
  BY InitInv, <1>1, PTL DEF Spec

\* The fields of every stream and every packet keep their types, STOP_SENDING
\* is only requested of a stream with a receiving part, and only a stream with
\* a sending part is asked to stop.
THEOREM TypeCorrect == Spec => []TypeOK
<1>1. MapInv => TypeOK
  BY DEF MapInv, TypeOK, Sane
<1> QED
  BY Inductive, <1>1, PTL

\* A stream with something to send is on the list that the packetiser serves,
\* whichever caller of ossl_quic_stream_map_update_state ran last, unless a
\* zero-length write has concluded it.
THEOREM Active == Spec => []ActiveCurrent
<1>1. MapInv => ActiveCurrent
  BY DEF MapInv, ActiveCurrent, Listed, Extant
<1> QED
  BY Inductive, <1>1, PTL

\* The assertion of txp_generate_stream_related: RESET_STREAM is only sent for
\* a stream in state RESET_SENT.
THEOREM ResetAsserted == Spec => []ResetOnlyInResetSent
<1>1. MapInv => ResetOnlyInResetSent
  BY DEF MapInv, ResetOnlyInResetSent, Sane, ResetKnown, Extant
<1> QED
  BY Inductive, <1>1, PTL

\* The assertion of qsm_ready_for_gc: the sending part of a stream whose object
\* was freed is reset or concluded.
THEOREM DeletedAsserted == Spec => []DeletedIsFinished
<1>1. MapInv => DeletedIsFinished
  BY DEF MapInv, DeletedIsFinished, Sane, DeletedKnown, Extant
<1> QED
  BY Inductive, <1>1, PTL

\* A stream in state DATA_RECVD, whose send buffer the code has freed, was
\* concluded and acknowledged to the last byte.
THEOREM AckedAll == Spec => []DataRecvdIsAcked
<1>1. MapInv => DataRecvdIsAcked
  BY DEF MapInv, DataRecvdIsAcked, Sane, AckedKnown, Extant
<1> QED
  BY Inductive, <1>1, PTL

\* When no stream holds back the shutdown any more, nothing that was written on
\* a stream in SEND or DATA_SENT is unacknowledged.
THEOREM Flushed == Spec => []FlushCoversAll
<1>1. MapInv => FlushCoversAll
  BY DEF MapInv, FlushCoversAll, Sane, FlushKnown, Extant
<1> QED
  BY Inductive, <1>1, PTL

\* Both parts of a stream only move forward through their states, whatever the
\* order in which calls, frames, acknowledgements and losses come.
THEOREM Forwards == Spec => StatesForward
<1>1. MapInv /\ [Next]_vars =>
        [\A s \in Streams : Extant(s) =>
            /\ qs'[s].send = qs[s].send \/ SendRank(qs'[s]) > SendRank(qs[s])
            /\ qs'[s].recv = qs[s].recv \/ RecvRank(qs'[s]) > RecvRank(qs[s])]_vars
  BY StepInv DEF AllForward, Forward
<1> QED
  BY Inductive, <1>1, PTL DEF Spec, StatesForward
=============================================================================
