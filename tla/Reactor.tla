------------------------------ MODULE Reactor ------------------------------
(***************************************************************************)
(* The QUIC reactor shared by the threads of one domain                    *)
(* (quic_reactor.c, quic_reactor_wait_ctx.c), with its three kinds of      *)
(* users: blocking calls (ossl_quic_reactor_block_until_pred), SSL_poll    *)
(* (ssl/rio/poll_immediate.c) and calls that only tick                     *)
(* (SSL_handle_events).                                                    *)
(*                                                                         *)
(* Everything but the wait in the operating system's poll is done under    *)
(* the reactor's mutex, `owner'.  A section of code that gives the mutex   *)
(* up at its end is one action; one that goes on to another holds it       *)
(* between them.  Waiting for `notifier_cv' gives it up too; the sleepers  *)
(* are explicit.  The notifier's descriptor is readable while              *)
(* signalled_notifier is set: both are changed together.                   *)
(*                                                                         *)
(* Each reader waits for data on a stream of its own, each poller for any  *)
(* of the streams Items.  A datagram is the stream it has data for.        *)
(***************************************************************************)
EXTENDS Integers, Sequences, FiniteSets

CONSTANTS
    Readers,       \* threads blocked in SSL_read: the stream of each has its name
    Pollers,       \* threads in SSL_poll
    Handlers,      \* threads that call SSL_handle_events
    Assist,        \* the assist thread (module QuicThreads)
    Items,         \* the sequence of streams every SSL_poll asks about
    Programs,      \* the sets of application threads to consider together
    MaxDatagrams,  \* bound: datagrams that arrive
    Nobody

Apps == Readers \union Pollers \union Handlers
Threads == Apps \union {Assist}
Streams == Readers \union {Items[i] : i \in 1..Len(Items)}

VARIABLES
    running,     \* the application threads of this behaviour
    owner,       \* holder of the mutex
    pc,          \* where each thread is
    waiters,     \* cur_blocking_waiters
    signalled,   \* signalled_notifier
    asleep,      \* threads asleep on notifier_cv
    net,         \* streams with data in the socket
    ready,       \* streams with data to read
    terminated,  \* the connections have timed out
    arrived,     \* datagrams arrived so far
    item,        \* SSL_poll: index of the item at hand
    hits,        \* SSL_poll: result_count > 0
    ok,          \* whether the OS poll succeeded and blocking was not aborted
    count        \* blocking_count of SSL_poll's slot for this reactor

rtor == <<waiters, signalled, asleep>>
io == <<net, ready, terminated, arrived>>
pollv == <<item, hits, count>>
reactorVars == <<running, owner, pc, rtor, io, pollv, ok>>

ReactorInit ==
    /\ running \in Programs
    /\ owner = Nobody
    /\ pc = [t \in Threads |-> IF t = Assist THEN "loop" ELSE "idle"]
    /\ waiters = 0 /\ signalled = FALSE /\ asleep = {}
    /\ net = {} /\ ready = {} /\ terminated = FALSE /\ arrived = 0
    /\ item = [p \in Pollers |-> 1]
    /\ hits = [p \in Pollers |-> FALSE]
    /\ count = [p \in Pollers |-> 0]
    /\ ok = [t \in Threads |-> TRUE]

\* What a blocked call waits for.  A terminated connection ends every wait.
IsReady(s) == s \in ready \/ terminated

CanLock(t) == owner \in {Nobody, t}
Goto(t, l) == pc' = [pc EXCEPT ![t] = l]

\* A thread goes on at l, with the mutex or without.  SSL_poll takes it for
\* each of its calls.
Holds(t, l) == l \in {"test", "loop"} \union (IF t \in Pollers THEN {} ELSE {"tick", "leave"})
Continue(t, l) ==
    /\ Goto(t, l)
    /\ owner' = IF Holds(t, l) THEN t ELSE Nobody

-----------------------------------------------------------------------------
(* The notifier.                                                           *)

\* Mutant: the notifier is signalled although nobody blocks.
NotifyOtherThreads_Always(t, l) ==
    /\ signalled' = TRUE
    /\ asleep' = asleep \union {t}
    /\ Goto(t, "notify")
    /\ owner' = Nobody

\* rtor_notify_other_threads: signal, and wait until all have left.
NotifyOtherThreads(t, l) ==
    IF waiters = 0
    THEN Continue(t, l) /\ UNCHANGED <<signalled, asleep>>
    ELSE /\ signalled' = TRUE
         /\ asleep' = asleep \union {t}
         /\ Goto(t, "notify")
         /\ owner' = Nobody

\* Mutant: a thread that is not the last one out does not wait for it.
LeaveBlockingSection_OnePhase(t, l) ==
    /\ waiters' = waiters - 1
    /\ IF signalled /\ waiters = 1
       THEN signalled' = FALSE /\ asleep' = {}
       ELSE UNCHANGED <<signalled, asleep>>
    /\ Continue(t, l)

\* ossl_quic_reactor_leave_blocking_section: the last one out clears the
\* notifier and releases the others, who wait for it.
LeaveBlockingSection(t, l) ==
    /\ waiters' = waiters - 1
    /\ IF ~signalled THEN Continue(t, l) /\ UNCHANGED <<signalled, asleep>>
       ELSE IF waiters = 1
       THEN signalled' = FALSE /\ asleep' = {} /\ Continue(t, l)
       ELSE /\ asleep' = asleep \union {t}
            /\ Goto(t, "left")
            /\ owner' = Nobody
            /\ UNCHANGED signalled

\* Where a thread goes on after a tick, and after it has left its section.
AfterTick(t) == IF t \in Handlers THEN "idle" ELSE IF t = Assist THEN "loop" ELSE "test"
AfterLeave(t) == IF ok[t] THEN "tick" ELSE "idle"

\* ossl_crypto_condvar_wait returns: with the mutex, and the loop tests again.
Awake(t) ==
    /\ pc[t] \in {"notify", "left"}
    /\ t \notin asleep
    /\ owner = Nobody
    /\ IF signalled
       THEN asleep' = asleep \union {t} /\ UNCHANGED <<owner, pc>>
       ELSE /\ Continue(t, IF pc[t] = "notify" THEN AfterTick(t) ELSE AfterLeave(t))
            /\ UNCHANGED asleep
    /\ UNCHANGED <<running, waiters, signalled, io, pollv, ok>>

-----------------------------------------------------------------------------
(* The tick, and the calls that need nothing else.                         *)

\* ossl_quic_reactor_tick: the port reads what the socket has, the channels
\* handle it, or find that the idle timeout has passed or that TLS has failed.
\* Other threads are told of either (ossl_quic_channel_subtick); that they are
\* also told of datagrams still to be sent is left out.  A terminated channel does
\* nothing.
Tick(t) ==
    /\ pc[t] = "tick"
    /\ CanLock(t)
    /\ \E ends \in BOOLEAN :
         /\ ends => ~terminated
         /\ net' = {}
         /\ ready' = IF terminated THEN ready ELSE ready \union net
         /\ terminated' = (terminated \/ ends)
         /\ IF ends \/ (net # {} /\ ~terminated)
            THEN NotifyOtherThreads(t, AfterTick(t))
            ELSE Continue(t, AfterTick(t)) /\ UNCHANGED <<signalled, asleep>>
    /\ UNCHANGED <<running, waiters, arrived, pollv, ok>>

\* An application thread calls SSL_read, SSL_poll or SSL_handle_events.  Each
\* begins with a tick; SSL_poll has a new waiting context.
Call(t) ==
    /\ t \in running
    /\ pc[t] = "idle"
    /\ Goto(t, "tick")
    /\ ok' = [ok EXCEPT ![t] = TRUE]
    /\ IF t \in Pollers
       THEN /\ item' = [item EXCEPT ![t] = 1]
            /\ hits' = [hits EXCEPT ![t] = FALSE]
            /\ count' = [count EXCEPT ![t] = 0]
       ELSE UNCHANGED pollv
    /\ UNCHANGED <<running, owner, rtor, io>>

\* A datagram reaches the socket.
Arrive(s) ==
    /\ arrived < MaxDatagrams
    /\ arrived' = arrived + 1
    /\ net' = net \union {s}
    /\ UNCHANGED <<running, owner, pc, rtor, ready, terminated, pollv, ok>>

-----------------------------------------------------------------------------
(* Waiting in the operating system.                                        *)

\* poll_two_fds, ossl_rio_poll_builder_poll: woken by the socket or the notifier.
PollWakes(t) ==
    /\ pc[t] = "poll"
    /\ CanLock(t)
    /\ net # {} \/ signalled
    /\ Continue(t, "leave")
    /\ UNCHANGED <<running, rtor, io, pollv, ok>>

\* The deadline passes, or the call fails.
PollEnds(t) ==
    /\ pc[t] = "poll"
    /\ CanLock(t)
    /\ Continue(t, "leave")
    /\ \E good \in BOOLEAN : ok' = [ok EXCEPT ![t] = good]
    /\ UNCHANGED <<running, rtor, io, pollv>>

-----------------------------------------------------------------------------
(* ossl_quic_reactor_block_until_pred.                                     *)

\* The predicate (quic_read_again, which takes the data), then
\* ossl_quic_reactor_enter_blocking_section.
TestPred(t) ==
    /\ t \in Readers
    /\ pc[t] = "test"
    /\ CanLock(t)
    /\ IF IsReady(t)
       THEN ready' = ready \ {t} /\ Continue(t, "idle") /\ UNCHANGED waiters
       ELSE waiters' = waiters + 1 /\ Continue(t, "poll") /\ UNCHANGED ready
    /\ UNCHANGED <<running, signalled, asleep, net, terminated, arrived, pollv, ok>>

\* Mutant: the return after a failed poll comes before the section is left.
LeavePred_ErrorFirst(t) ==
    /\ t \in Readers
    /\ pc[t] = "leave"
    /\ CanLock(t)
    /\ IF ok[t] THEN LeaveBlockingSection(t, "tick") ELSE Continue(t, "idle") /\ UNCHANGED rtor
    /\ UNCHANGED <<running, io, pollv, ok>>

LeavePred(t) ==
    /\ t \in Readers
    /\ pc[t] = "leave"
    /\ CanLock(t)
    /\ LeaveBlockingSection(t, AfterLeave(t))
    /\ UNCHANGED <<running, io, pollv, ok>>

-----------------------------------------------------------------------------
(* SSL_poll.  Every call into the domain takes the mutex and gives it up.  *)

\* poll_readout, one item (ossl_quic_conn_poll_events after its tick).
Readout(t) ==
    /\ t \in Pollers
    /\ pc[t] = "test"
    /\ CanLock(t)
    /\ LET hit == hits[t] \/ IsReady(Items[item[t]])
           last == item[t] = Len(Items)
       IN /\ hits' = [hits EXCEPT ![t] = hit /\ ~last]
          /\ item' = [item EXCEPT ![t] = IF last THEN 1 ELSE @ + 1]
          /\ Continue(t, IF ~last THEN "tick" ELSE IF hit THEN "idle" ELSE "enter")
    /\ UNCHANGED <<running, rtor, io, count, ok>>

\* poll_translate_ssl_quic, first part: ossl_quic_reactor_wait_ctx_enter.
EnterItem(t) ==
    /\ pc[t] = "enter"
    /\ CanLock(t)
    /\ count' = [count EXCEPT ![t] = @ + 1]
    /\ waiters' = IF count[t] = 0 THEN waiters + 1 ELSE waiters
    /\ Continue(t, "recheck")
    /\ UNCHANGED <<running, signalled, asleep, io, item, hits, ok>>

\* Mutant: nothing is read out again after the section has been entered.
RecheckItem_Skipped(t) ==
    /\ pc[t] = "recheck"
    /\ CanLock(t)
    /\ item' = [item EXCEPT ![t] = IF @ = Len(Items) THEN 1 ELSE @ + 1]
    /\ Continue(t, IF item[t] = Len(Items) THEN "poll" ELSE "enter")
    /\ UNCHANGED <<running, rtor, io, hits, count, ok>>

\* Second part: an item that became ready meanwhile aborts the wait, and
\* poll_block then returns the 0 it started with.
RecheckItem(t) ==
    /\ pc[t] = "recheck"
    /\ CanLock(t)
    /\ LET abort == IsReady(Items[item[t]])
           last == item[t] = Len(Items)
       IN /\ ok' = [ok EXCEPT ![t] = ~abort]
          /\ item' = [item EXCEPT ![t] = IF last \/ abort THEN 1 ELSE @ + 1]
          /\ Continue(t, IF abort THEN "abort" ELSE IF last THEN "poll" ELSE "enter")
    /\ UNCHANGED <<running, rtor, io, hits, count>>

\* slot_deactivate: the last item out leaves the reactor's section.
\* postpoll_translation_cleanup goes through all items; an abort leaves for the
\* item at hand only.
LeaveItem(t) ==
    /\ t \in Pollers
    /\ pc[t] \in {"leave", "abort"}
    /\ CanLock(t)
    /\ count' = [count EXCEPT ![t] = @ - 1]
    /\ IF count[t] > 1
       THEN Continue(t, IF pc[t] = "abort" THEN "idle" ELSE "leave") /\ UNCHANGED rtor
       ELSE LeaveBlockingSection(t, AfterLeave(t))
    /\ UNCHANGED <<running, io, item, hits, ok>>

-----------------------------------------------------------------------------
\* What a thread inside the library does by itself: timeouts are not counted on.
ReactorStep(t) ==
    \/ Tick(t) \/ Awake(t) \/ PollWakes(t)
    \/ TestPred(t) \/ LeavePred(t)
    \/ Readout(t) \/ EnterItem(t) \/ RecheckItem(t) \/ LeaveItem(t)

ReactorEnv ==
    \/ \E t \in Apps : Call(t) \/ PollEnds(t)
    \/ \E s \in Streams : Arrive(s)

-----------------------------------------------------------------------------
\* cur_blocking_waiters counts the threads inside a blocking section, so that
\* "the last one out" is the last one (enter and leave in block_until_pred and
\* in poll_translate, postpoll_translation_cleanup).
InSection(t) == \/ t \in Readers /\ pc[t] \in {"poll", "leave"}
                \/ t \in Pollers /\ count[t] > 0
WaitersExact == waiters = Cardinality({t \in Apps : InSection(t)})

\* A signalled notifier has somebody left to clear it, and once it is cleared
\* nobody sleeps on: no thread waits for a last one out that has gone already
\* (rtor_notify_other_threads, ossl_quic_reactor_leave_blocking_section).
NotifierWillClear == IF signalled THEN waiters > 0 ELSE asleep = {}

\* The assertion of ossl_quic_reactor_wait_ctx_cleanup: an SSL_poll that has
\* returned has left every section it entered.
SectionsLeft == \A p \in Pollers : pc[p] = "idle" => count[p] = 0
=============================================================================
