------------------------------ MODULE NewReno ------------------------------
(***************************************************************************)
(* The congestion controller of ssl/quic/cc_newreno.c as operations on a   *)
(* record, one per method of OSSL_CC_METHOD that the ACK manager and the   *)
(* packetiser call.  Bytes are counted in datagrams of the maximum size,   *)
(* time in packets sent.                                                   *)
(*                                                                         *)
(* The ACK manager reports a batch of lost packets one by one and then     *)
(* calls on_data_lost_finished, so a batch is one operation here.          *)
(* Persistent congestion is never signalled (ackm_in_persistent_congestion *)
(* answers 0), and on_ecn is never called: see LossRecovery.               *)
(***************************************************************************)
EXTENDS Integers, FiniteSets, FiniteSetsExt

CONSTANTS
    InitWnd,  \* k_init_wnd
    MinWnd    \* k_min_wnd, two datagrams

ASSUME NewRenoAssumption == InitWnd \in Nat /\ MinWnd \in Nat \ {0} /\ MinWnd <= InitWnd

Unset == -1  \* slow_start_thresh = UINT64_MAX

\* newreno_reset
NewRenoInit ==
    [cong_wnd |-> InitWnd, bytes_in_flight |-> 0, bytes_acked |-> 0,
     slow_start_thresh |-> Unset, cong_recovery_start_time |-> 0,
     tx_time_of_last_loss |-> 0]

\* newreno_get_tx_allowance
TxAllowance(cc) == Max({0, cc.cong_wnd - cc.bytes_in_flight})

\* newreno_on_data_sent
OnDataSent(cc, n) == [cc EXCEPT !.bytes_in_flight = @ + n]

\* newreno_on_data_invalidated
OnDataInvalidated(cc, n) == [cc EXCEPT !.bytes_in_flight = @ - n]

\* newreno_in_cong_recovery
InCongRecovery(cc, tx_time) == tx_time <= cc.cong_recovery_start_time

\* Mutant: every batch of losses cuts the window, whenever its packets were sent.
Cong_Always(cc, tx_time, now) ==
    [cc EXCEPT !.cong_recovery_start_time = now,
               !.slow_start_thresh = cc.cong_wnd \div 2,
               !.cong_wnd = Max({cc.cong_wnd \div 2, MinWnd})]

\* newreno_cong
Cong(cc, tx_time, now) ==
    IF InCongRecovery(cc, tx_time) THEN cc
    ELSE [cc EXCEPT !.cong_recovery_start_time = now,
                    !.slow_start_thresh = cc.cong_wnd \div 2,
                    !.cong_wnd = Max({cc.cong_wnd \div 2, MinWnd})]

\* newreno_on_data_lost for each of a batch of n packets sent at the given
\* times, then newreno_on_data_lost_finished: only packets sent after the last
\* loss that was acted upon start processing_loss.
OnDataLost(cc, n, times, now) ==
    LET less == [cc EXCEPT !.bytes_in_flight = @ - n]
        news == {t \in times : t > cc.tx_time_of_last_loss}
    IN  IF news = {} THEN less
        ELSE Cong([less EXCEPT !.bytes_acked = 0, !.tx_time_of_last_loss = Max(news)],
                  Max(news), now)

SlowStart(cc) == cc.slow_start_thresh = Unset \/ cc.cong_wnd < cc.slow_start_thresh

\* newreno_is_cong_limited
IsCongLimited(cc) ==
    LET wnd_rem == cc.cong_wnd - cc.bytes_in_flight
    IN  \/ wnd_rem <= 3
        \/ SlowStart(cc) /\ wnd_rem <= cc.cong_wnd \div 2

\* newreno_on_data_acked
OnDataAcked(cc, tx_time) ==
    LET less == [cc EXCEPT !.bytes_in_flight = @ - 1]
    IN  IF ~IsCongLimited(less) \/ InCongRecovery(less, tx_time) THEN less
        ELSE IF SlowStart(less) THEN [less EXCEPT !.cong_wnd = @ + 1]
        ELSE IF less.bytes_acked + 1 >= less.cong_wnd
        THEN [less EXCEPT !.bytes_acked = @ + 1 - less.cong_wnd, !.cong_wnd = @ + 1]
        ELSE [less EXCEPT !.bytes_acked = @ + 1]
=============================================================================
