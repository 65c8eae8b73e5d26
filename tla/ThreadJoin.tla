----------------------------- MODULE ThreadJoin -----------------------------
(***************************************************************************)
(* Joining a native thread (crypto/thread/arch.c, arch/thread_posix.c).    *)
(* Any number of threads may join one handle: one of them performs the     *)
(* join of the operating system, the others learn of it through the state  *)
(* flags.  Every section under `statelock' is short and waits for nothing  *)
(* but the handle's one condition variable, so it is one action here.      *)
(* Sleeping is explicit: condvar_signal wakes one of the sleepers,         *)
(* condvar_broadcast all of them.                                          *)
(***************************************************************************)
EXTENDS Naturals

CONSTANT Joiners   \* threads that call ossl_crypto_thread_native_join

VARIABLES
    thread,      \* the state flags of the handle
    join_pc,     \* where each joiner is in ossl_crypto_thread_native_join
    join_asleep, \* joiners asleep on thread->condvar
    reaped       \* times pthread_join has succeeded for the handle

joinVars == <<thread, join_pc, join_asleep, reaped>>

JoinInit ==
    /\ thread = [finished |-> FALSE, join_await |-> FALSE, joined |-> FALSE]
    /\ join_pc = [j \in Joiners |-> "outside"]
    /\ join_asleep = {}
    /\ reaped = 0

\* ossl_crypto_condvar_signal: wakes one sleeper, if there is one.
CondvarSignal ==
    IF join_asleep = {} THEN join_asleep' = {}
    ELSE \E j \in join_asleep : join_asleep' = join_asleep \ {j}

\* thread_start_thunk, after the routine has returned.
ThreadFinishes ==
    /\ ~thread.finished
    /\ thread' = [thread EXCEPT !.finished = TRUE]
    /\ join_asleep' = {}
    /\ UNCHANGED <<join_pc, reaped>>

JoinCall(j) ==
    /\ join_pc[j] = "outside"
    /\ join_pc' = [join_pc EXCEPT ![j] = "join"]
    /\ UNCHANGED <<thread, join_asleep, reaped>>

\* The label "pass" of ossl_crypto_thread_native_join: every joiner that
\* returns wakes one more, whether or not it did the join itself.
JoinPass(j) ==
    /\ thread' = [thread EXCEPT !.joined = TRUE]
    /\ join_pc' = [join_pc EXCEPT ![j] = "returned"]
    /\ CondvarSignal

\* Mutant: a join in progress is not waited for.
MustWait_NotAwait == ~thread.joined /\ ~thread.finished

\* The two waiting loops: for the thread to end, then for a join in progress.
MustWait == /\ ~thread.joined
            /\ ~thread.finished \/ thread.join_await

JoinStep(j) ==
    /\ join_pc[j] = "join"
    /\ j \notin join_asleep
    /\ UNCHANGED reaped
    /\ CASE MustWait ->
              /\ join_asleep' = join_asleep \union {j}
              /\ UNCHANGED <<thread, join_pc>>
         [] thread.joined -> JoinPass(j)
         [] OTHER ->
              /\ thread' = [thread EXCEPT !.join_await = TRUE]
              /\ join_pc' = [join_pc EXCEPT ![j] = "performing"]
              /\ UNCHANGED join_asleep

\* ossl_crypto_thread_native_perform_join succeeds.
JoinPerformed(j) ==
    /\ join_pc[j] = "performing"
    /\ reaped' = reaped + 1
    /\ JoinPass(j)

\* It fails: JOIN_AWAIT is withdrawn and one sleeper is woken to try in its turn.
\* The code takes this branch also when pthread_join succeeds and the thread
\* returned something, which one that has set FINISHED never does.
JoinFails(j) ==
    /\ join_pc[j] = "performing"
    /\ thread' = [thread EXCEPT !.join_await = FALSE]
    /\ join_pc' = [join_pc EXCEPT ![j] = "failed"]
    /\ CondvarSignal
    /\ UNCHANGED reaped

-----------------------------------------------------------------------------
\* The thread is joined with the operating system once, whoever joins it: a
\* second pthread_join of a reaped thread is undefined (JOIN_AWAIT in
\* ossl_crypto_thread_native_join).
JoinedOnce == reaped <= 1

=============================================================================
