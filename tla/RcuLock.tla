------------------------------ MODULE RcuLock ------------------------------
(***************************************************************************)
(* The read-copy-update lock of crypto/threads_pthread.c, at the           *)
(* granularity of its atomic accesses and mutex-protected regions.         *)
(*                                                                         *)
(* A lock owns a ring of GroupCount quiescent points (qps), each a counter *)
(* of the readers that entered through it.  A reader counts itself into    *)
(* the qp that reader_idx names and checks that reader_idx has not moved.  *)
(* ossl_synchronize_rcu moves reader_idx to the next qp and waits for the  *)
(* one it left to drain; synchronizers retire their qps in the order of    *)
(* the ids that update_qp hands out.  All of it is there so that an object *)
(* unlinked under the write lock can be freed after a synchronization.     *)
(*                                                                         *)
(* The protected data is a single pointer `ptr' to an object of a heap,    *)
(* used the way test/threadstest.c and crypto/conf/conf_mod.c use it.      *)
(* Callbacks of one batch run in any order here (the code runs them last   *)
(* queued first): no property tells the orders apart.  Accesses interleave *)
(* sequentially consistently.                                              *)
(***************************************************************************)
EXTENDS Integers, FiniteSets

CONSTANTS
    Threads,     \* the threads that use the lock
    Readers,     \* those of them that enter read sections
    Objs,        \* the objects that ptr may refer to
    GroupCount,  \* group_count: number of elements of qp_group
    IdMod,       \* ids are counted modulo IdMod (2^32 in the code)
    MaxDepth,    \* bound on the nesting of ossl_rcu_read_lock
    None         \* "no thread" and "no object"

\* ossl_rcu_lock_new allocates at least two qps; num_writers is an int, so
\* the ids of the writers in flight never meet modulo 2^32.
ASSUME ConstAssumption ==
    /\ IsFiniteSet(Threads) /\ Readers \subseteq Threads
    /\ GroupCount \in Nat /\ GroupCount >= 2
    /\ IdMod \in Nat /\ IdMod >= GroupCount
    /\ MaxDepth \in Nat /\ MaxDepth >= 1
    /\ None \notin Threads /\ None \notin Objs

VARIABLES
    alive,              \* the lock is allocated
    dying,              \* the thread inside ossl_rcu_lock_free, or None
    users,              \* qp_group[i].users
    reader_idx, current_alloc_idx, writers_alloced, id_ctr, next_to_retire,
    cb_items,           \* objects whose callbacks wait for a synchronization
    write_lock,         \* holder of the mutex, or None
    prior_lock,         \* holder of the mutex, or None
    pc,                 \* where each thread is
    qp,                 \* qp_idx of a reader, index of a synchronizer's qp
    curr_id,            \* curr_id of a synchronizer
    depth,              \* thread_qps[].depth of a reader
    cbs,                \* the callbacks a synchronizer took with it
    old,                \* object a writer frees itself after synchronizing
    refs,               \* objects a reader dereferenced in its section
    ptr,                \* the shared pointer
    heap                \* the allocated objects

ringvars == <<users, reader_idx, current_alloc_idx, writers_alloced, id_ctr>>
datavars == <<ptr, heap>>
vars == <<alive, dying, users, reader_idx, current_alloc_idx, writers_alloced,
          id_ctr, next_to_retire, cb_items, write_lock, prior_lock, pc, qp,
          curr_id, depth, cbs, old, refs, ptr, heap>>

Qps == 0 .. GroupCount - 1
Ids == 0 .. IdMod - 1

\* The locations at which a thread can be interrupted.
Reading == {"rd_add", "rd_check", "rd_sub", "reading"}
Syncing == {"update_qp", "alloc_wait", "prior", "prior_wait", "spin",
            "retire", "callbacks"}
PCs == {"idle", "writing"} \cup Reading \cup Syncing

NextQp(i) == IF i + 1 = GroupCount THEN 0 ELSE i + 1
NextId(i) == IF i + 1 = IdMod THEN 0 ELSE i + 1

Init ==
    /\ alive = TRUE /\ dying = None
    /\ users = [i \in Qps |-> 0]
    /\ reader_idx = 0 /\ current_alloc_idx = 0 /\ writers_alloced = 0
    /\ id_ctr = 0 /\ next_to_retire = 0
    /\ cb_items = {}
    /\ write_lock = None /\ prior_lock = None
    /\ pc = [t \in Threads |-> "idle"]
    /\ qp = [t \in Threads |-> 0]
    /\ curr_id = [t \in Threads |-> 0]
    /\ depth = [t \in Threads |-> 0]
    /\ cbs = [t \in Threads |-> {}]
    /\ old = [t \in Threads |-> None]
    /\ refs = [t \in Threads |-> {}]
    /\ ptr \in Objs
    /\ heap = {ptr}

----------------------------------------------------------------------------
(* The read side.                                                          *)

\* A thread may use the lock: it is idle, owes no synchronization, and
\* nobody is freeing the lock.
MayEnter(t) == pc[t] = "idle" /\ old[t] = None /\ alive /\ dying = None

\* ossl_rcu_read_lock, first acquisition: get_hold_current_qp loads reader_idx.
ReadLock(t) ==
    /\ t \in Readers
    /\ MayEnter(t)
    /\ qp' = [qp EXCEPT ![t] = reader_idx]
    /\ pc' = [pc EXCEPT ![t] = "rd_add"]
    /\ UNCHANGED <<alive, dying, ringvars, next_to_retire, cb_items, write_lock,
                   prior_lock, curr_id, depth, cbs, old, refs, datavars>>

\* ATOMIC_ADD_FETCH(&qp_group[qp_idx].users, 1)
ReadAdd(t) ==
    /\ pc[t] = "rd_add"
    /\ users' = [users EXCEPT ![qp[t]] = @ + 1]
    /\ pc' = [pc EXCEPT ![t] = "rd_check"]
    /\ UNCHANGED <<alive, dying, reader_idx, current_alloc_idx, writers_alloced,
                   id_ctr, next_to_retire, cb_items, write_lock, prior_lock, qp,
                   curr_id, depth, cbs, old, refs, datavars>>

\* Mutant: the hold is taken without the second load of reader_idx.
ReadCheck_NoRecheck(t) ==
    /\ pc[t] = "rd_check"
    /\ pc' = [pc EXCEPT ![t] = "reading"]
    /\ depth' = [depth EXCEPT ![t] = 1]
    /\ UNCHANGED <<alive, dying, ringvars, next_to_retire, cb_items, write_lock,
                   prior_lock, qp, curr_id, cbs, old, refs, datavars>>

\* The second load of reader_idx: the hold is good unless the index moved.
ReadCheck(t) ==
    /\ pc[t] = "rd_check"
    /\ \/ /\ qp[t] = reader_idx
          /\ pc' = [pc EXCEPT ![t] = "reading"]
          /\ depth' = [depth EXCEPT ![t] = 1]
       \/ /\ qp[t] # reader_idx
          /\ pc' = [pc EXCEPT ![t] = "rd_sub"]
          /\ UNCHANGED depth
    /\ UNCHANGED <<alive, dying, ringvars, next_to_retire, cb_items, write_lock,
                   prior_lock, qp, curr_id, cbs, old, refs, datavars>>

\* Undo the count on the stale qp and load reader_idx again.
ReadSub(t) ==
    /\ pc[t] = "rd_sub"
    /\ users' = [users EXCEPT ![qp[t]] = @ - 1]
    /\ qp' = [qp EXCEPT ![t] = reader_idx]
    /\ pc' = [pc EXCEPT ![t] = "rd_add"]
    /\ UNCHANGED <<alive, dying, reader_idx, current_alloc_idx, writers_alloced,
                   id_ctr, next_to_retire, cb_items, write_lock, prior_lock,
                   curr_id, depth, cbs, old, refs, datavars>>

\* ossl_rcu_read_lock by a thread that already holds this lock.
ReadNest(t) ==
    /\ pc[t] = "reading" /\ depth[t] < MaxDepth
    /\ depth' = [depth EXCEPT ![t] = @ + 1]
    /\ UNCHANGED <<alive, dying, ringvars, next_to_retire, cb_items, write_lock,
                   prior_lock, pc, qp, curr_id, cbs, old, refs, datavars>>

\* ossl_rcu_uptr_deref inside a read-side section.
Deref(t) ==
    /\ pc[t] = "reading"
    /\ refs' = [refs EXCEPT ![t] = @ \cup {ptr}]
    /\ UNCHANGED <<alive, dying, ringvars, next_to_retire, cb_items, write_lock,
                   prior_lock, pc, qp, curr_id, depth, cbs, old, datavars>>

\* ossl_rcu_read_unlock: the outermost unlock leaves the qp.
ReadUnlock(t) ==
    /\ pc[t] = "reading"
    /\ depth' = [depth EXCEPT ![t] = @ - 1]
    /\ \/ /\ depth[t] > 1
          /\ UNCHANGED <<users, pc, qp, refs>>
       \/ /\ depth[t] = 1
          /\ users' = [users EXCEPT ![qp[t]] = @ - 1]
          /\ qp' = [qp EXCEPT ![t] = 0]
          /\ pc' = [pc EXCEPT ![t] = "idle"]
          /\ refs' = [refs EXCEPT ![t] = {}]
    /\ UNCHANGED <<alive, dying, reader_idx, current_alloc_idx, writers_alloced,
                   id_ctr, next_to_retire, cb_items, write_lock, prior_lock,
                   curr_id, cbs, old, datavars>>

----------------------------------------------------------------------------
(* The write side.                                                         *)

\* ossl_rcu_write_lock
WriteLock(t) ==
    /\ MayEnter(t) /\ write_lock = None
    /\ write_lock' = t
    /\ pc' = [pc EXCEPT ![t] = "writing"]
    /\ UNCHANGED <<alive, dying, ringvars, next_to_retire, cb_items, prior_lock,
                   qp, curr_id, depth, cbs, old, refs, datavars>>

\* Replace the object: ossl_rcu_assign_uptr, then either ossl_rcu_call for
\* the old one, or keep it to free after ossl_synchronize_rcu (also what is
\* left to do when ossl_rcu_call cannot allocate and returns 0).
Publish(t) ==
    /\ pc[t] = "writing" /\ old[t] = None
    /\ \E new \in Objs \ heap :
          /\ ptr' = new
          /\ heap' = heap \cup {new}
    /\ \/ cb_items' = cb_items \cup {ptr} /\ UNCHANGED old
       \/ old' = [old EXCEPT ![t] = ptr] /\ UNCHANGED cb_items
    /\ UNCHANGED <<alive, dying, ringvars, next_to_retire, write_lock,
                   prior_lock, pc, qp, curr_id, depth, cbs, refs>>

\* ossl_rcu_write_unlock
WriteUnlock(t) ==
    /\ pc[t] = "writing"
    /\ write_lock' = None
    /\ pc' = [pc EXCEPT ![t] = "idle"]
    /\ UNCHANGED <<alive, dying, ringvars, next_to_retire, cb_items, prior_lock,
                   qp, curr_id, depth, cbs, old, refs, datavars>>

\* ossl_synchronize_rcu begins: take the queued callbacks under write_lock.
TakeCallbacks(t) ==
    /\ write_lock = None
    /\ cbs' = [cbs EXCEPT ![t] = cb_items]
    /\ cb_items' = {}
    /\ pc' = [pc EXCEPT ![t] = "update_qp"]
    /\ UNCHANGED <<alive, ringvars, next_to_retire, write_lock, prior_lock, qp,
                   curr_id, depth, old, refs, datavars>>

Synchronize(t) ==
    /\ pc[t] = "idle" /\ alive /\ dying = None
    /\ TakeCallbacks(t)
    /\ UNCHANGED dying

\* Both update_qp and retire_qp end with pthread_cond_signal(&alloc_signal):
\* it wakes one of the waiting threads, if there is one.
Waiters == {u \in Threads : pc[u] = "alloc_wait"}

\* Mutant: nobody is signalled.
SignalAlloc_Never(pcs) == pc' = pcs

SignalAlloc(pcs) ==
    \/ Waiters = {} /\ pc' = pcs
    \/ \E u \in Waiters : pc' = [pcs EXCEPT ![u] = "update_qp"]

\* Mutant: the store to reader_idx is missing.
UpdateQp_SameReaderIdx(t) ==
    /\ pc[t] = "update_qp"
    /\ GroupCount - writers_alloced >= 2
    /\ qp' = [qp EXCEPT ![t] = current_alloc_idx]
    /\ writers_alloced' = writers_alloced + 1
    /\ current_alloc_idx' = NextQp(current_alloc_idx)
    /\ curr_id' = [curr_id EXCEPT ![t] = id_ctr]
    /\ id_ctr' = NextId(id_ctr)
    /\ SignalAlloc([pc EXCEPT ![t] = "prior"])
    /\ UNCHANGED <<alive, dying, users, reader_idx, next_to_retire, cb_items,
                   write_lock, prior_lock, depth, cbs, old, refs, datavars>>

\* update_qp with a qp to spare: leave the current qp to be drained and
\* point the readers to the next one.
UpdateQp(t) ==
    /\ pc[t] = "update_qp"
    /\ GroupCount - writers_alloced >= 2
    /\ qp' = [qp EXCEPT ![t] = current_alloc_idx]
    /\ writers_alloced' = writers_alloced + 1
    /\ current_alloc_idx' = NextQp(current_alloc_idx)
    /\ curr_id' = [curr_id EXCEPT ![t] = id_ctr]
    /\ id_ctr' = NextId(id_ctr)
    /\ reader_idx' = current_alloc_idx'
    /\ SignalAlloc([pc EXCEPT ![t] = "prior"])
    /\ UNCHANGED <<alive, dying, users, next_to_retire, cb_items, write_lock,
                   prior_lock, depth, cbs, old, refs, datavars>>

\* update_qp with no qp to spare: pthread_cond_wait(&alloc_signal).
AllocWait(t) ==
    /\ pc[t] = "update_qp"
    /\ GroupCount - writers_alloced < 2
    /\ pc' = [pc EXCEPT ![t] = "alloc_wait"]
    /\ UNCHANGED <<alive, dying, ringvars, next_to_retire, cb_items, write_lock,
                   prior_lock, qp, curr_id, depth, cbs, old, refs, datavars>>

\* Retire in order: with prior_lock taken, go on only if it is our turn and
\* otherwise release it in pthread_cond_wait(&prior_signal).
PriorLock(t) ==
    /\ pc[t] = "prior" /\ prior_lock = None
    /\ \/ /\ next_to_retire = curr_id[t]
          /\ prior_lock' = t
          /\ pc' = [pc EXCEPT ![t] = "spin"]
       \/ /\ next_to_retire # curr_id[t]
          /\ pc' = [pc EXCEPT ![t] = "prior_wait"]
          /\ UNCHANGED prior_lock
    /\ UNCHANGED <<alive, dying, ringvars, next_to_retire, cb_items, write_lock,
                   qp, curr_id, depth, cbs, old, refs, datavars>>

\* Mutant: the busy loop does not wait for the count to reach 0.
Drained_NoWait(t) ==
    /\ pc[t] = "spin"
    /\ next_to_retire' = NextId(next_to_retire)
    /\ prior_lock' = None
    /\ pc' = [u \in Threads |-> IF u = t THEN "retire"
                                ELSE IF pc[u] = "prior_wait" THEN "prior"
                                ELSE pc[u]]
    /\ UNCHANGED <<alive, dying, ringvars, cb_items, write_lock, qp, curr_id,
                   depth, cbs, old, refs, datavars>>

\* Mutant: the threads that wait for their turn are not woken.
Drained_NoBroadcast(t) ==
    /\ pc[t] = "spin" /\ users[qp[t]] = 0
    /\ next_to_retire' = NextId(next_to_retire)
    /\ prior_lock' = None
    /\ pc' = [pc EXCEPT ![t] = "retire"]
    /\ UNCHANGED <<alive, dying, ringvars, cb_items, write_lock, qp, curr_id,
                   depth, cbs, old, refs, datavars>>

\* The busy loop, holding prior_lock, sees no users on our qp; then
\* next_to_retire++ and pthread_cond_broadcast(&prior_signal).
Drained(t) ==
    /\ pc[t] = "spin" /\ users[qp[t]] = 0
    /\ next_to_retire' = NextId(next_to_retire)
    /\ prior_lock' = None
    /\ pc' = [u \in Threads |-> IF u = t THEN "retire"
                                ELSE IF pc[u] = "prior_wait" THEN "prior"
                                ELSE pc[u]]
    /\ UNCHANGED <<alive, dying, ringvars, cb_items, write_lock, qp, curr_id,
                   depth, cbs, old, refs, datavars>>

\* retire_qp
RetireQp(t) ==
    /\ pc[t] = "retire"
    /\ writers_alloced' = writers_alloced - 1
    /\ SignalAlloc([pc EXCEPT ![t] = "callbacks"])
    /\ UNCHANGED <<alive, dying, users, reader_idx, current_alloc_idx, id_ctr,
                   next_to_retire, cb_items, write_lock, prior_lock, qp,
                   curr_id, depth, cbs, old, refs, datavars>>

\* One iteration of the callback loop: tmpcb->fn(tmpcb->data) frees an object.
RunCallback(t) ==
    /\ pc[t] = "callbacks"
    /\ \E o \in cbs[t] :
          /\ cbs' = [cbs EXCEPT ![t] = @ \ {o}]
          /\ heap' = heap \ {o}
    /\ UNCHANGED <<alive, dying, ringvars, next_to_retire, cb_items, write_lock,
                   prior_lock, pc, qp, curr_id, depth, old, refs, ptr>>

\* The locals of ossl_synchronize_rcu go out of scope.
EndSync(t) ==
    /\ pc[t] = "callbacks" /\ cbs[t] = {}
    /\ qp' = [qp EXCEPT ![t] = 0]
    /\ curr_id' = [curr_id EXCEPT ![t] = 0]
    /\ pc' = [pc EXCEPT ![t] = "idle"]

\* ossl_synchronize_rcu returns; the caller frees the object it kept.
SyncReturn(t) ==
    /\ EndSync(t) /\ dying # t
    /\ heap' = heap \ {old[t]}
    /\ old' = [old EXCEPT ![t] = None]
    /\ UNCHANGED <<alive, dying, ringvars, next_to_retire, cb_items, write_lock,
                   prior_lock, depth, cbs, refs, ptr>>

\* A condition wait may return without a signal.
SpuriousWakeup(t) ==
    /\ pc[t] \in {"alloc_wait", "prior_wait"}
    /\ pc' = [pc EXCEPT ![t] = IF @ = "alloc_wait" THEN "update_qp" ELSE "prior"]
    /\ UNCHANGED <<alive, dying, ringvars, next_to_retire, cb_items, write_lock,
                   prior_lock, qp, curr_id, depth, cbs, old, refs, datavars>>

----------------------------------------------------------------------------
(* Creation and destruction.  The caller of ossl_rcu_lock_free must be the *)
(* only user left.                                                         *)

LockFree(t) ==
    /\ alive /\ dying = None
    /\ \A u \in Threads : pc[u] = "idle" /\ old[u] = None
    /\ TakeCallbacks(t)
    /\ dying' = t

LockFreed(t) ==
    /\ EndSync(t) /\ dying = t
    /\ alive' = FALSE /\ dying' = None
    /\ UNCHANGED <<ringvars, next_to_retire, cb_items, write_lock, prior_lock,
                   depth, cbs, old, refs, datavars>>

\* ossl_rcu_lock_new: OPENSSL_zalloc and allocate_new_qp_group.
LockNew ==
    /\ ~alive /\ alive' = TRUE
    /\ users' = [i \in Qps |-> 0]
    /\ reader_idx' = 0 /\ current_alloc_idx' = 0 /\ writers_alloced' = 0
    /\ id_ctr' = 0 /\ next_to_retire' = 0
    /\ cb_items' = {}
    /\ write_lock' = None /\ prior_lock' = None
    /\ UNCHANGED <<dying, pc, qp, curr_id, depth, cbs, old, refs, datavars>>

----------------------------------------------------------------------------

ReaderStep(t) ==
    ReadLock(t) \/ ReadAdd(t) \/ ReadCheck(t) \/ ReadSub(t) \/ ReadNest(t)
    \/ Deref(t) \/ ReadUnlock(t)

WriterStep(t) == WriteLock(t) \/ Publish(t) \/ WriteUnlock(t) \/ Synchronize(t)

SyncStep(t) ==
    UpdateQp(t) \/ AllocWait(t) \/ PriorLock(t) \/ Drained(t) \/ RetireQp(t)
    \/ RunCallback(t) \/ SyncReturn(t)

Next ==
    \/ \E t \in Threads : ReaderStep(t) \/ WriterStep(t) \/ SyncStep(t)
                          \/ SpuriousWakeup(t) \/ LockFree(t) \/ LockFreed(t)
    \/ LockNew

Spec == Init /\ [][Next]_vars

\* The unlock that ends a read section, and not only a nested one.
LeaveSection(t) == depth[t] = 1 /\ ReadUnlock(t)

\* What a thread inside the lock's code, or inside a section, does next.
Proceed(t) ==
    ReadAdd(t) \/ ReadCheck(t) \/ ReadSub(t) \/ ReadUnlock(t) \/ WriteUnlock(t)
    \/ SyncStep(t)

\* A thread that is inside the lock's code is scheduled, and a reader does
\* leave its section, however it nests (the contract of ossl_synchronize_rcu);
\* nothing is assumed about wakeups being spurious or about who wins a mutex.
Fairness == \A t \in Threads : WF_vars(Proceed(t)) /\ SF_vars(LeaveSection(t))

FairSpec == Spec /\ Fairness

----------------------------------------------------------------------------
(* Properties.                                                             *)

\* The ranges of the lock's fields and of its users' locals: update_qp never
\* allocates the last qp, read nesting is balanced, and ids stay in range.
TypeOK ==
    /\ alive \in BOOLEAN /\ dying \in Threads \cup {None}
    /\ users \in [Qps -> Nat]
    /\ reader_idx \in Qps /\ current_alloc_idx \in Qps
    /\ writers_alloced \in 0 .. GroupCount - 1
    /\ id_ctr \in Ids /\ next_to_retire \in Ids
    /\ cb_items \subseteq Objs
    /\ write_lock \in Threads \cup {None} /\ prior_lock \in Threads \cup {None}
    /\ pc \in [Threads -> PCs]
    /\ qp \in [Threads -> Qps]
    /\ curr_id \in [Threads -> Ids]
    /\ depth \in [Threads -> 0 .. MaxDepth]
    /\ cbs \in [Threads -> SUBSET Objs]
    /\ old \in [Threads -> Objs \cup {None}]
    /\ refs \in [Threads -> SUBSET Objs]
    /\ ptr \in Objs /\ heap \subseteq Objs

\* No use after free: an object a reader dereferenced stays allocated until
\* the reader leaves its section, whatever synchronizers and callbacks run.
NoUseAfterFree == \A t \in Threads : refs[t] \subseteq heap

\* Objects that thread t is to free.
Pending(t) == cbs[t] \cup ({old[t]} \ {None})

\* Every unlinked object is freed exactly once: it waits in one place only
\* (the lock's callback list, one synchronizer's batch, or one writer), it is
\* still allocated there, and it is no longer the published object.
FreedOnce ==
    /\ ptr \in heap /\ ptr \notin cb_items
    /\ cb_items \subseteq heap
    /\ \A t \in Threads :
          /\ Pending(t) \subseteq heap \ (cb_items \cup {ptr})
          /\ old[t] \notin cbs[t]
          /\ \A u \in Threads \ {t} : Pending(t) \cap Pending(u) = {}

\* Threads between their increment and their decrement of users of a qp.
Counted(i) == {t \in Threads : pc[t] \in {"rd_check", "rd_sub", "reading"}
                               /\ qp[t] = i}

\* The counters count: users of a qp is the number of threads that
\* hold it, so OPENSSL_assert(ret != UINT64_MAX) in ossl_rcu_read_unlock never
\* fires.
UsersExact == \A i \in Qps : users[i] = Cardinality(Counted(i))

\* While a qp is to spare, threads that wait for one are not alone: another
\* thread is on its way to take it and will signal them.
QpAwaited ==
    (Waiters # {} /\ GroupCount - writers_alloced >= 2)
        => \E t \in Threads : pc[t] = "update_qp"

\* Nobody sleeps when it is its turn to retire.
TurnAwaited ==
    \A t \in Threads : pc[t] = "prior_wait" => curr_id[t] # next_to_retire

\* No wakeup is lost, of the threads that wait for a qp, where a signal wakes one
\* of them, and of those that wait for their turn, where only a broadcast reaches
\* the right one.
NoLostWakeup == QpAwaited /\ TurnAwaited

\* ossl_rcu_lock_free leaves nothing behind: no reader is counted, no qp is
\* being retired ("There should only be a single qp left now") and every
\* queued callback has run.
CleanTeardown ==
    ~alive => /\ \A i \in Qps : users[i] = 0
              /\ writers_alloced = 0 /\ next_to_retire = id_ctr
              /\ cb_items = {} /\ \A t \in Threads : Pending(t) = {}
              /\ heap = {ptr}

\* Threads that left a qp with update_qp and have not seen it drained.
Waiting(t) == pc[t] \in {"prior", "prior_wait", "spin"}

\* Every synchronizer drains a qp of its own, which is not the one that new
\* readers enter: GroupCount, the ids modulo IdMod and the in-order
\* retirement keep the ring from lapping itself.
OwnQp ==
    \A t \in Threads : Waiting(t) =>
        /\ qp[t] # reader_idx
        /\ \A u \in Threads \ {t} :
              Waiting(u) => qp[t] # qp[u] /\ curr_id[t] # curr_id[u]

\* Somebody always gets through: while a thread synchronizes, some thread
\* eventually completes its grace period.
GracePeriodsEnd ==
    (\E t \in Threads : pc[t] \in Syncing)
        ~> (\E t \in Threads : pc[t] = "callbacks")

Reclaim == INSTANCE SafeReclaim

\* The lock implements safe reclamation of the objects it protects.
ImplementsSafeReclaim == Reclaim!Spec

----------------------------------------------------------------------------
(* The inductive invariant behind NoUseAfterFree.                          *)

\* How many ids were handed out since i, and the qp that was current then.
Age(i) == IF id_ctr >= i THEN id_ctr - i ELSE id_ctr - i + IdMod
QpAtAge(k) == IF current_alloc_idx >= k THEN current_alloc_idx - k
                                        ELSE current_alloc_idx - k + GroupCount

WaitSet == {t \in Threads : Waiting(t)}
AllocSet == {t \in Threads : Waiting(t) \/ pc[t] = "retire"}

\* The counters agree with where the threads are.
CountInv ==
    /\ UsersExact
    /\ writers_alloced = Cardinality(AllocSet)
    /\ Age(next_to_retire) = Cardinality(WaitSet)

\* A waiting synchronizer drains the qp that was current when it took its id.
RingInv ==
    /\ reader_idx = current_alloc_idx
    /\ \A t \in Threads : Waiting(t) =>
          /\ Age(curr_id[t]) \in 1 .. Age(next_to_retire)
          /\ qp[t] = QpAtAge(Age(curr_id[t]))
    /\ \A t, u \in Threads :
          (t # u /\ Waiting(t) /\ Waiting(u)) => curr_id[t] # curr_id[u]
    /\ \A t \in Threads : pc[t] = "spin" => curr_id[t] = next_to_retire

\* A reader sits in the current qp or in one that is still being drained.
ReaderInv ==
    \A t \in Threads :
        /\ refs[t] # {} => pc[t] = "reading"
        /\ pc[t] = "reading" =>
              \/ qp[t] = reader_idx
              \/ \E w \in Threads : Waiting(w) /\ qp[w] = qp[t]

\* A reader of an object that synchronizer w will free sits in a qp that was
\* left no later than w's; once w's qp has drained there is no such reader.
HoldInv ==
    \A r, w \in Threads : refs[r] \cap Pending(w) # {} =>
        /\ pc[w] \notin {"retire", "callbacks"}
        /\ Waiting(w) => \E v \in Threads :
              /\ Waiting(v) /\ qp[v] = qp[r]
              /\ Age(curr_id[v]) >= Age(curr_id[w])

\* Once ossl_rcu_lock_free has begun, only its caller is active, and nothing
\* is queued that its own batch does not hold.
LifeInv ==
    /\ \A t \in Threads : (~alive \/ dying # None) /\ t # dying => pc[t] = "idle"
    /\ \A t \in Threads : ~alive \/ dying # None => old[t] = None
    /\ ~alive \/ dying # None => cb_items = {}
    /\ ~alive => dying = None
    /\ \A t \in Threads : dying = t => pc[t] \in Syncing

\* No object is forgotten: it is published or waits to be freed, and a batch
\* of callbacks belongs to a running synchronization.
HeapInv ==
    /\ \A o \in heap : o = ptr \/ o \in cb_items \/ \E t \in Threads : o \in Pending(t)
    /\ \A t \in Threads : cbs[t] # {} => pc[t] \in Syncing

\* The invariant the proofs rest on: where the readers of an object that
\* waits to be freed sit in the ring, relative to the synchronizer that will
\* free it, together with the facts that make this inductive.
IndInv == TypeOK /\ CountInv /\ RingInv /\ ReaderInv /\ FreedOnce /\ HoldInv
          /\ LifeInv /\ HeapInv /\ NoUseAfterFree
=============================================================================
