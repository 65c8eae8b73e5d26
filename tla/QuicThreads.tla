---------------------------- MODULE QuicThreads ----------------------------
(***************************************************************************)
(* The threads of a QUIC domain in thread assisted mode: application       *)
(* threads in the reactor (module Reactor), the assist thread              *)
(* (quic_thread_assist.c) that ticks it, and the threads that stop the     *)
(* assist thread and join it (module ThreadJoin): SSL_free through         *)
(* ossl_quic_thread_assist_wait_stopped, and others that join the handle   *)
(* at the same time, which ossl_crypto_thread_native_join is written for.  *)
(***************************************************************************)
EXTENDS Reactor, ThreadJoin

CONSTANT Closer   \* the thread in SSL_free, one of the joiners

ASSUME ThreadsAssumption ==
    /\ Closer \in Joiners
    /\ Nobody \notin Threads
    /\ IsFiniteSet(Apps) /\ Assist \notin Apps
    /\ Readers \cap Pollers = {} /\ (Readers \union Pollers) \cap Handlers = {}
    /\ Items \in Seq(Streams) /\ Items # <<>>
    /\ Programs \subseteq SUBSET (Apps \union Joiners)
    /\ MaxDatagrams \in Nat

VARIABLES
    teardown,   \* qta->teardown
    dozing      \* whether the assist thread is asleep on qta->cv

assistVars == <<teardown, dozing>>
vars == <<reactorVars, joinVars, assistVars>>

Init == ReactorInit /\ JoinInit /\ teardown = FALSE /\ dozing = FALSE

-----------------------------------------------------------------------------
(* assist_thread_main.                                                     *)

\* The top of the loop: break, or sleep on qta->cv until the tick deadline.
AssistLoop ==
    /\ pc[Assist] = "loop"
    /\ CanLock(Assist)
    /\ Continue(Assist, IF teardown THEN "exit" ELSE "wait")
    /\ dozing' = ~teardown
    /\ UNCHANGED <<running, rtor, io, pollv, ok, joinVars, teardown>>

\* It has the mutex again: break, or tick.
AssistWoken ==
    /\ pc[Assist] = "wait"
    /\ ~dozing
    /\ CanLock(Assist)
    /\ Continue(Assist, IF teardown THEN "exit" ELSE "tick")
    /\ UNCHANGED <<running, rtor, io, pollv, ok, joinVars, assistVars>>

\* The tick deadline passes.
AssistTimeout ==
    /\ pc[Assist] = "wait"
    /\ dozing
    /\ dozing' = FALSE
    /\ UNCHANGED <<reactorVars, joinVars, teardown>>

\* The routine has returned to thread_start_thunk.
AssistEnds ==
    /\ pc[Assist] = "exit"
    /\ Continue(Assist, "ended")
    /\ ThreadFinishes
    /\ UNCHANGED <<running, rtor, io, pollv, ok, assistVars>>

-----------------------------------------------------------------------------
\* ossl_quic_thread_assist_wait_stopped: stop_async, then the join, without the
\* mutex.  Other joiners only join.
StopOrJoin(j) ==
    /\ j \in running
    /\ JoinCall(j)
    /\ IF j = Closer
       THEN owner = Nobody /\ teardown' = TRUE /\ dozing' = FALSE
       ELSE UNCHANGED assistVars
    /\ UNCHANGED reactorVars

Joining(j) == JoinStep(j) \/ JoinPerformed(j)

AssistStep == AssistLoop \/ AssistWoken \/ AssistEnds
AppStep(t) == ReactorStep(t) /\ UNCHANGED <<joinVars, assistVars>>

Next ==
    \/ \E t \in Threads : AppStep(t)
    \/ ReactorEnv /\ UNCHANGED <<joinVars, assistVars>>
    \/ AssistStep \/ AssistTimeout
    \/ \E j \in Joiners : \/ StopOrJoin(j)
                          \/ (Joining(j) \/ JoinFails(j)) /\ UNCHANGED <<reactorVars, assistVars>>

Spec == Init /\ [][Next]_vars

\* Every thread inside the library goes on, and one that wants the mutex gets it
\* in the end; no timer has to fire and no application has to call.  The
\* operating system's join succeeds in the end or fails: it does not hang on a
\* thread that has finished.
Fairness ==
    /\ \A t \in Threads : SF_vars(AppStep(t))
    /\ SF_vars(AssistStep)
    /\ \A j \in Joiners : WF_vars((Joining(j) \/ JoinFails(j)) /\ UNCHANGED <<reactorVars, assistVars>>)

FairSpec == Spec /\ Fairness

-----------------------------------------------------------------------------
\* A blocked SSL_read or SSL_poll whose data another thread has read from the
\* socket returns, although no timer fires: no notification is lost between the
\* test and the wait, and no thread is held in the notifier's two phases for ever
\* (block_until_pred, poll_translate_ssl_quic, rtor_notify_other_threads).
Waits(t) == IF t \in Readers THEN IsReady(t)
            ELSE \E i \in 1..Len(Items) : IsReady(Items[i])
BlockedReturn ==
    \A t \in Readers \union Pollers :
        (pc[t] # "idle" /\ Waits(t)) ~> (pc[t] = "idle")

\* Once SSL_free asks for it the assist thread ends and every joiner returns,
\* whoever performs the join and whether or not it fails for one of them
\* (assist_thread_main, ossl_crypto_thread_native_join).
TeardownCompletes ==
    \A j \in Joiners :
        (teardown /\ join_pc[j] # "outside") ~> (join_pc[j] \in {"returned", "failed"})

-----------------------------------------------------------------------------
(* What the safety properties rest on, for SSL_poll with one item.         *)

ReaderLabels == {"idle", "tick", "test", "poll", "leave", "notify", "left"}
PollerLabels == ReaderLabels \union {"enter", "recheck", "abort"}
AssistLabels == {"loop", "wait", "tick", "notify", "exit", "ended"}

TypeOK ==
    /\ running \in Programs
    /\ owner \in Threads \union {Nobody}
    /\ pc \in [Threads -> PollerLabels \union AssistLabels]
    /\ waiters \in Nat /\ signalled \in BOOLEAN /\ asleep \subseteq Threads
    /\ net \subseteq Streams /\ ready \subseteq Streams
    /\ terminated \in BOOLEAN /\ arrived \in Nat
    /\ item \in [Pollers -> 1 .. Len(Items)] /\ hits \in [Pollers -> BOOLEAN]
    /\ count \in [Pollers -> Nat] /\ ok \in [Threads -> BOOLEAN]
    /\ thread \in [finished : BOOLEAN, join_await : BOOLEAN, joined : BOOLEAN]
    /\ join_pc \in [Joiners -> {"outside", "join", "performing", "returned", "failed"}]
    /\ join_asleep \subseteq Joiners /\ reaped \in Nat
    /\ teardown \in BOOLEAN /\ dozing \in BOOLEAN

\* Where each kind of thread can be.
Roles ==
    /\ \A t \in Readers : pc[t] \in ReaderLabels
    /\ \A t \in Pollers : pc[t] \in PollerLabels
    /\ \A t \in Handlers : pc[t] \in {"idle", "tick", "notify"}
    /\ pc[Assist] \in AssistLabels

\* A thread in SSL_poll is inside the section from entering to leaving it.
SectionsExact ==
    \A p \in Pollers :
        count[p] = IF pc[p] \in {"recheck", "poll", "leave", "abort"} THEN 1 ELSE 0

\* One joiner at a time performs the join, only until it has succeeded.
JoinsInv ==
    /\ reaped = IF thread.joined THEN 1 ELSE 0
    /\ \A j \in Joiners : join_pc[j] = "performing" => thread.join_await /\ ~thread.joined
    /\ \A j, k \in Joiners : join_pc[j] = "performing" /\ join_pc[k] = "performing" => j = k

ThreadsInv ==
    TypeOK /\ Roles /\ SectionsExact /\ WaitersExact /\ NotifierWillClear /\ JoinsInv
=============================================================================
