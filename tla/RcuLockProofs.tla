--------------------------- MODULE RcuLockProofs ---------------------------
(***************************************************************************)
(* Proofs about RcuLock, for any number of threads, objects and qps.       *)
(***************************************************************************)
EXTENDS RcuLock, FiniteSetTheorems, TLAPS

\* pthread_cond_signal changes the location of a waiting thread only, and
\* only to the point where it looks at the ring again.
LEMMA SignalEffect ==
    ASSUME pc \in [Threads -> PCs],
           NEW pcs \in [Threads -> PCs],
           NEW t \in Threads, pc[t] # "alloc_wait",
           \A u \in Threads \ {t} : pcs[u] = pc[u],
           SignalAlloc(pcs)
    PROVE  /\ pc' \in [Threads -> PCs]
           /\ pc'[t] = pcs[t]
           /\ \A u \in Threads \ {t} :
                 pc'[u] = pc[u] \/ (pc[u] = "alloc_wait" /\ pc'[u] = "update_qp")
  BY DEF SignalAlloc, Waiters, PCs, Reading, Syncing

\* Sets of threads are finite, and their cardinality follows single changes.
LEMMA ThreadCard ==
    ASSUME NEW S \in SUBSET Threads
    PROVE  /\ IsFiniteSet(S) /\ Cardinality(S) \in Nat
           /\ Cardinality(S) = 0 <=> S = {}
  BY ConstAssumption, FS_Subset, FS_CardinalityType, FS_EmptySet

\* A thread that joins a set of threads is counted.
LEMMA CardAdd ==
    ASSUME NEW S \in SUBSET Threads, NEW T, NEW t \in Threads,
           t \notin S, T = S \cup {t}
    PROVE  Cardinality(S) \in Nat /\ Cardinality(T) = Cardinality(S) + 1
  BY ThreadCard, FS_AddElement

\* A thread that leaves one is no longer counted.
LEMMA CardRemove ==
    ASSUME NEW S \in SUBSET Threads, NEW T, NEW t \in Threads,
           t \in S, T = S \ {t}
    PROVE  /\ Cardinality(S) \in Nat /\ Cardinality(S) >= 1
           /\ Cardinality(T) = Cardinality(S) - 1
  <1>1. Cardinality(S) \in Nat /\ Cardinality(S) # 0
    BY ThreadCard
  <1>2. QED
    BY <1>1, ThreadCard, FS_RemoveElement

\* Only threads are counted.
LEMMA CountedThreads == \A i : Counted(i) \in SUBSET Threads
  BY DEF Counted

\* Waiting synchronizers are among those with an allocated qp.
LEMMA WaitAlloc ==
    /\ WaitSet \in SUBSET Threads /\ AllocSet \in SUBSET Threads
    /\ Cardinality(WaitSet) <= Cardinality(AllocSet)
  <1>1. WaitSet \in SUBSET AllocSet /\ AllocSet \in SUBSET Threads
    BY DEF WaitSet, AllocSet
  <1>2. IsFiniteSet(AllocSet)
    BY <1>1, ConstAssumption, FS_Subset
  <1>3. QED
    BY <1>1, <1>2, FS_Subset

\* The types, with reader and waiter counts that agree with the threads' places.
TypeCount == TypeOK /\ CountInv

\* A new lock has no readers and no waiters.
LEMMA InitTypeCount == Init => TypeCount
  <1> SUFFICES ASSUME Init PROVE TypeCount
    OBVIOUS
  <1>1. TypeOK
    BY ConstAssumption
    DEF Init, TypeOK, Qps, Ids, PCs, Reading, Syncing
  <1>2. /\ WaitSet = {} /\ AllocSet = {}
        /\ \A i \in Qps : Counted(i) = {}
    BY DEF Init, WaitSet, AllocSet, Waiting, Counted
  <1>3. CountInv
    BY <1>2, FS_EmptySet DEF Init, CountInv, UsersExact, Age
  <1> QED BY <1>1, <1>3 DEF TypeCount

\* An action that moves no thread across the boundaries that the counters
\* watch, and leaves the counters alone, preserves CountInv.
LEMMA CountFrame ==
    ASSUME TypeOK, CountInv, pc' \in [Threads -> PCs],
           UNCHANGED <<ringvars, next_to_retire>>,
           \A u \in Threads :
               /\ pc[u] \in {"rd_check", "rd_sub", "reading"}
                     => qp'[u] = qp[u]
               /\ pc'[u] \in {"rd_check", "rd_sub", "reading"}
                     <=> pc[u] \in {"rd_check", "rd_sub", "reading"}
               /\ pc'[u] \in {"prior", "prior_wait", "spin"}
                     <=> pc[u] \in {"prior", "prior_wait", "spin"}
               /\ pc'[u] = "retire" <=> pc[u] = "retire"
    PROVE  CountInv'
  <1>1. WaitSet' = WaitSet /\ AllocSet' = AllocSet
    BY DEF WaitSet, AllocSet, Waiting
  <1>2. \A i \in Qps : Counted(i)' = Counted(i)
    BY DEF Counted
  <1>3. Age(next_to_retire)' = Age(next_to_retire)
    BY DEF Age, ringvars
  <1>4. QED
    BY <1>1, <1>2, <1>3 DEF CountInv, UsersExact, ringvars

\* What holds of the threads and the counters, one action at a time.
LEMMA NextTypeCount ==
    ASSUME TypeCount, LifeInv, [Next]_vars
    PROVE  TypeCount'
  <1> USE DEF TypeCount
  <1>0. /\ TypeOK /\ CountInv
        /\ pc \in [Threads -> PCs]
    BY DEF TypeOK
  <1>1. ASSUME NEW t \in Threads, ReadLock(t) PROVE TypeCount'
    <2>1. TypeOK' BY <1>0, <1>1 DEF TypeOK, ReadLock, MayEnter, PCs, Reading, ringvars, datavars
    <2>2. CountInv' BY <1>0, <1>1, <2>1, CountFrame DEF ReadLock, MayEnter, TypeOK
    <2> QED BY <2>1, <2>2
  <1>2. ASSUME NEW t \in Threads, ReadAdd(t) PROVE TypeCount'
    <2>1. TypeOK' BY <1>0, <1>2, ConstAssumption DEF TypeOK, ReadAdd, PCs, Reading, datavars
    <2>2. /\ WaitSet' = WaitSet /\ AllocSet' = AllocSet
          /\ Age(next_to_retire)' = Age(next_to_retire)
      BY <1>0, <1>2 DEF ReadAdd, WaitSet, AllocSet, Waiting, Age, TypeOK
    <2>q. PICK q \in Qps : q = qp[t]
      BY <1>0 DEF TypeOK
    <2>3. /\ t \notin Counted(q) /\ Counted(q)' = Counted(q) \cup {t}
          /\ \A i \in Qps \ {q} : Counted(i)' = Counted(i)
      BY <1>0, <1>2, <2>q DEF ReadAdd, Counted, TypeOK
    <2>c. Cardinality(Counted(q)') = Cardinality(Counted(q)) + 1
      BY <2>3, CardAdd, CountedThreads
    <2>4. UsersExact'
      BY <1>0, <1>2, <2>q, <2>3, <2>c DEF ReadAdd, CountInv, UsersExact, TypeOK
    <2> QED BY <1>0, <1>2, <2>1, <2>2, <2>4 DEF CountInv, ReadAdd
  <1>3. ASSUME NEW t \in Threads, ReadCheck(t) PROVE TypeCount'
    <2>1. TypeOK' BY <1>0, <1>3, ConstAssumption DEF TypeOK, ReadCheck, PCs, Reading, ringvars, datavars
    <2>2. CountInv' BY <1>0, <1>3, <2>1, CountFrame DEF ReadCheck, TypeOK
    <2> QED BY <2>1, <2>2
  <1>4. ASSUME NEW t \in Threads, ReadSub(t) PROVE TypeCount'
    <2>2. /\ WaitSet' = WaitSet /\ AllocSet' = AllocSet
          /\ Age(next_to_retire)' = Age(next_to_retire)
      BY <1>0, <1>4 DEF ReadSub, WaitSet, AllocSet, Waiting, Age, TypeOK
    <2>q. PICK q \in Qps : q = qp[t]
      BY <1>0 DEF TypeOK
    <2>3. /\ t \in Counted(q) /\ Counted(q)' = Counted(q) \ {t}
          /\ \A i \in Qps \ {q} : Counted(i)' = Counted(i)
      BY <1>0, <1>4, <2>q DEF ReadSub, Counted, TypeOK
    <2>c. /\ Cardinality(Counted(q)') = Cardinality(Counted(q)) - 1
          /\ Cardinality(Counted(q)) >= 1
      BY <2>3, CardRemove, CountedThreads
    <2>4. UsersExact' /\ users[qp[t]] >= 1
      BY <1>0, <1>4, <2>q, <2>3, <2>c DEF ReadSub, CountInv, UsersExact, TypeOK
    <2>5. TypeOK' BY <1>0, <1>4, <2>4 DEF TypeOK, ReadSub, PCs, Reading, datavars
    <2> QED BY <1>0, <1>4, <2>5, <2>2, <2>4 DEF CountInv, ReadSub
  <1>5. ASSUME NEW t \in Threads, ReadNest(t) PROVE TypeCount'
    <2>1. TypeOK' BY <1>0, <1>5, ConstAssumption DEF TypeOK, ReadNest, ringvars, datavars
    <2>2. CountInv' BY <1>0, <1>5, <2>1, CountFrame DEF ReadNest, TypeOK
    <2> QED BY <2>1, <2>2
  <1>6. ASSUME NEW t \in Threads, Deref(t) PROVE TypeCount'
    <2>1. TypeOK' BY <1>0, <1>6 DEF TypeOK, Deref, ringvars, datavars
    <2>2. CountInv' BY <1>0, <1>6, <2>1, CountFrame DEF Deref, TypeOK
    <2> QED BY <2>1, <2>2
  <1>7. ASSUME NEW t \in Threads, ReadUnlock(t) PROVE TypeCount'
    <2>2. /\ WaitSet' = WaitSet /\ AllocSet' = AllocSet
          /\ Age(next_to_retire)' = Age(next_to_retire)
      BY <1>0, <1>7 DEF ReadUnlock, WaitSet, AllocSet, Waiting, Age, TypeOK
    <2>3. CASE depth[t] > 1
      <3>d. depth' \in [Threads -> 0 .. MaxDepth]
        BY <1>0, <1>7, <2>3, ConstAssumption DEF TypeOK, ReadUnlock
      <3>1. TypeOK' BY <1>0, <1>7, <2>3, <3>d DEF TypeOK, ReadUnlock, datavars
      <3>2. \A i \in Qps : Counted(i)' = Counted(i)
        BY <1>0, <1>7, <2>3 DEF ReadUnlock, Counted, TypeOK
      <3> QED BY <1>0, <1>7, <2>2, <2>3, <3>1, <3>2 DEF CountInv, UsersExact, ReadUnlock, TypeOK
    <2>4. CASE depth[t] = 1
      <3>q. PICK q \in Qps : q = qp[t]
        BY <1>0 DEF TypeOK
      <3>1. /\ t \in Counted(q) /\ Counted(q)' = Counted(q) \ {t}
            /\ \A i \in Qps \ {q} : Counted(i)' = Counted(i)
        BY <1>0, <1>7, <2>4, <3>q DEF ReadUnlock, Counted, TypeOK
      <3>c. /\ Cardinality(Counted(q)') = Cardinality(Counted(q)) - 1
            /\ Cardinality(Counted(q)) >= 1
        BY <3>1, CardRemove, CountedThreads
      <3>2. users' = [users EXCEPT ![qp[t]] = @ - 1]
        BY <1>0, <1>7, <2>4 DEF ReadUnlock, TypeOK
      <3>3. UsersExact' /\ users[qp[t]] >= 1
        BY <1>0, <3>q, <3>1, <3>2, <3>c DEF CountInv, UsersExact, TypeOK
      <3>d. /\ depth' \in [Threads -> 0 .. MaxDepth]
            /\ users' \in [Qps -> Nat]
        BY <1>0, <1>7, <2>4, <3>2, <3>3, ConstAssumption DEF TypeOK, ReadUnlock
      <3>e. 0 \in Qps
        BY ConstAssumption DEF Qps
      <3>4. TypeOK'
        BY <1>0, <1>7, <2>4, <3>d, <3>e DEF TypeOK, ReadUnlock, PCs, datavars
      <3> QED BY <1>0, <1>7, <2>2, <3>3, <3>4 DEF CountInv, ReadUnlock
    <2> QED BY <1>0, <1>7, <2>3, <2>4 DEF ReadUnlock, TypeOK
  <1>8. ASSUME NEW t \in Threads, WriteLock(t) PROVE TypeCount'
    <2>1. TypeOK' BY <1>0, <1>8, ConstAssumption DEF TypeOK, WriteLock, PCs, Reading, Syncing, ringvars, datavars, MayEnter
    <2>2. CountInv' BY <1>0, <1>8, <2>1, CountFrame DEF WriteLock, TypeOK, MayEnter
    <2> QED BY <2>1, <2>2
  <1>9. ASSUME NEW t \in Threads, Publish(t) PROVE TypeCount'
    <2>1. TypeOK' BY <1>0, <1>9, ConstAssumption DEF TypeOK, Publish, PCs, Reading, Syncing, ringvars, datavars
    <2>2. CountInv' BY <1>0, <1>9, <2>1, CountFrame DEF Publish, TypeOK
    <2> QED BY <2>1, <2>2
  <1>10. ASSUME NEW t \in Threads, WriteUnlock(t) PROVE TypeCount'
    <2>1. TypeOK' BY <1>0, <1>10, ConstAssumption DEF TypeOK, WriteUnlock, PCs, Reading, Syncing, ringvars, datavars
    <2>2. CountInv' BY <1>0, <1>10, <2>1, CountFrame DEF WriteUnlock, TypeOK
    <2> QED BY <2>1, <2>2
  <1>11. ASSUME NEW t \in Threads, Synchronize(t) PROVE TypeCount'
    <2>1. TypeOK' BY <1>0, <1>11, ConstAssumption DEF TypeOK, Synchronize, PCs, Reading, Syncing, ringvars, datavars, TakeCallbacks
    <2>2. CountInv' BY <1>0, <1>11, <2>1, CountFrame DEF Synchronize, TypeOK, TakeCallbacks
    <2> QED BY <2>1, <2>2
  <1>12. ASSUME NEW t \in Threads, UpdateQp(t) PROVE TypeCount'
    <2> DEFINE pcs == [pc EXCEPT ![t] = "prior"]
    <2>1. /\ pc[t] = "update_qp" /\ GroupCount - writers_alloced >= 2
          /\ SignalAlloc(pcs)
          /\ pcs \in [Threads -> PCs] /\ pcs[t] = "prior"
          /\ \A u \in Threads \ {t} : pcs[u] = pc[u]
      BY <1>0, <1>12 DEF UpdateQp, PCs, Syncing
    <2> HIDE DEF pcs
    <2>2. /\ pc' \in [Threads -> PCs] /\ pc'[t] = "prior"
          /\ \A u \in Threads \ {t} :
                pc'[u] = pc[u] \/ (pc[u] = "alloc_wait" /\ pc'[u] = "update_qp")
      BY <1>0, <2>1, SignalEffect
    <2>a. /\ writers_alloced' \in 0 .. GroupCount - 1
          /\ current_alloc_idx' \in Qps /\ id_ctr' \in Ids
      BY <1>0, <1>12, <2>1, ConstAssumption
      DEF TypeOK, UpdateQp, NextQp, NextId, Qps, Ids
    <2>3. TypeOK'
      BY <1>0, <1>12, <2>a, <2>2 DEF TypeOK, UpdateQp, datavars
    <2>4. /\ t \notin WaitSet /\ WaitSet' = WaitSet \cup {t}
          /\ t \notin AllocSet /\ AllocSet' = AllocSet \cup {t}
      BY <2>1, <2>2 DEF WaitSet, AllocSet, Waiting
    <2>5. \A i \in Qps : Counted(i)' = Counted(i)
      BY <1>0, <1>12, <2>1, <2>2 DEF Counted, UpdateQp, TypeOK
    <2>6. /\ Cardinality(WaitSet') = Cardinality(WaitSet) + 1
          /\ Cardinality(AllocSet') = Cardinality(AllocSet) + 1
      BY <2>4, CardAdd, WaitAlloc
    <2>b. Cardinality(WaitSet) \in Nat /\ Cardinality(AllocSet) \in Nat
      BY WaitAlloc, ThreadCard
    <2>7. Age(next_to_retire) + 1 < IdMod
      BY <1>0, <2>1, <2>b, WaitAlloc, ConstAssumption DEF CountInv, TypeOK
    <2>8. Age(next_to_retire)' = Age(next_to_retire) + 1
      BY <1>0, <1>12, <2>7, ConstAssumption DEF UpdateQp, Age, NextId, TypeOK, Ids
    <2> QED BY <1>0, <1>12, <2>3, <2>5, <2>6, <2>8 DEF CountInv, UsersExact, UpdateQp
  <1>13. ASSUME NEW t \in Threads, AllocWait(t) PROVE TypeCount'
    <2>1. TypeOK' BY <1>0, <1>13, ConstAssumption DEF TypeOK, AllocWait, PCs, Reading, Syncing, ringvars, datavars
    <2>2. CountInv' BY <1>0, <1>13, <2>1, CountFrame DEF AllocWait, TypeOK
    <2> QED BY <2>1, <2>2
  <1>14. ASSUME NEW t \in Threads, PriorLock(t) PROVE TypeCount'
    <2>1. TypeOK' BY <1>0, <1>14, ConstAssumption DEF TypeOK, PriorLock, PCs, Reading, Syncing, ringvars, datavars
    <2>2. CountInv' BY <1>0, <1>14, <2>1, CountFrame DEF PriorLock, TypeOK
    <2> QED BY <2>1, <2>2
  <1>15. ASSUME NEW t \in Threads, Drained(t) PROVE TypeCount'
    <2>1. TypeOK'
      BY <1>0, <1>15, ConstAssumption
      DEF TypeOK, Drained, PCs, Syncing, NextId, Ids, ringvars, datavars
    <2>2. /\ t \in WaitSet /\ WaitSet' = WaitSet \ {t} /\ AllocSet' = AllocSet
      BY <1>0, <1>15 DEF Drained, WaitSet, AllocSet, Waiting, TypeOK
    <2>3. \A i \in Qps : Counted(i)' = Counted(i)
      BY <1>0, <1>15 DEF Counted, Drained, TypeOK
    <2>4. Cardinality(WaitSet') = Cardinality(WaitSet) - 1 /\ Cardinality(WaitSet) >= 1
      BY <2>2, CardRemove, WaitAlloc
    <2>5. Age(next_to_retire)' = Age(next_to_retire) - 1
      BY <1>0, <1>15, <2>4, ConstAssumption
      DEF CountInv, Drained, Age, NextId, TypeOK, Ids, ringvars
    <2> QED BY <1>0, <1>15, <2>1, <2>2, <2>3, <2>4, <2>5 DEF CountInv, UsersExact, Drained, ringvars
  <1>16. ASSUME NEW t \in Threads, RetireQp(t) PROVE TypeCount'
    <2> DEFINE pcs == [pc EXCEPT ![t] = "callbacks"]
    <2>1. /\ pc[t] = "retire" /\ SignalAlloc(pcs)
          /\ pcs \in [Threads -> PCs] /\ pcs[t] = "callbacks"
          /\ \A u \in Threads \ {t} : pcs[u] = pc[u]
      BY <1>0, <1>16 DEF RetireQp, PCs, Syncing
    <2> HIDE DEF pcs
    <2>2. /\ pc' \in [Threads -> PCs] /\ pc'[t] = "callbacks"
          /\ \A u \in Threads \ {t} :
                pc'[u] = pc[u] \/ (pc[u] = "alloc_wait" /\ pc'[u] = "update_qp")
      BY <1>0, <2>1, SignalEffect
    <2>3. /\ WaitSet' = WaitSet
          /\ t \in AllocSet /\ AllocSet' = AllocSet \ {t}
      BY <2>1, <2>2 DEF WaitSet, AllocSet, Waiting
    <2>4. Cardinality(AllocSet') = Cardinality(AllocSet) - 1 /\ Cardinality(AllocSet) >= 1
      BY <2>3, CardRemove, WaitAlloc
    <2>5. TypeOK'
      BY <1>0, <1>16, <2>2, <2>4, ConstAssumption DEF TypeOK, CountInv, RetireQp, datavars
    <2>6. \A i \in Qps : Counted(i)' = Counted(i)
      BY <1>0, <1>16, <2>1, <2>2 DEF Counted, RetireQp
    <2>7. Age(next_to_retire)' = Age(next_to_retire)
      BY <1>16 DEF RetireQp, Age
    <2> QED BY <1>0, <1>16, <2>3, <2>4, <2>5, <2>6, <2>7 DEF CountInv, UsersExact, RetireQp
  <1>17. ASSUME NEW t \in Threads, RunCallback(t) PROVE TypeCount'
    <2>1. TypeOK' BY <1>0, <1>17, ConstAssumption DEF TypeOK, RunCallback, PCs, Reading, Syncing, ringvars, datavars
    <2>2. CountInv' BY <1>0, <1>17, <2>1, CountFrame DEF RunCallback, TypeOK
    <2> QED BY <2>1, <2>2
  <1>18. ASSUME NEW t \in Threads, SyncReturn(t) PROVE TypeCount'
    <2>1. TypeOK' BY <1>0, <1>18, ConstAssumption DEF TypeOK, SyncReturn, PCs, Reading, Syncing, ringvars, datavars, EndSync, Qps, Ids
    <2>2. CountInv' BY <1>0, <1>18, <2>1, CountFrame DEF SyncReturn, TypeOK, EndSync, Qps, Ids
    <2> QED BY <2>1, <2>2
  <1>19. ASSUME NEW t \in Threads, SpuriousWakeup(t) PROVE TypeCount'
    <2>1. TypeOK' BY <1>0, <1>19, ConstAssumption DEF TypeOK, SpuriousWakeup, PCs, Reading, Syncing, ringvars, datavars
    <2>2. CountInv' BY <1>0, <1>19, <2>1, CountFrame DEF SpuriousWakeup, TypeOK
    <2> QED BY <2>1, <2>2
  <1>20. ASSUME NEW t \in Threads, LockFree(t) PROVE TypeCount'
    <2>1. TypeOK' BY <1>0, <1>20, ConstAssumption DEF TypeOK, LockFree, PCs, Reading, Syncing, ringvars, datavars, TakeCallbacks
    <2>2. CountInv' BY <1>0, <1>20, <2>1, CountFrame DEF LockFree, TypeOK, TakeCallbacks
    <2> QED BY <2>1, <2>2
  <1>21. ASSUME NEW t \in Threads, LockFreed(t) PROVE TypeCount'
    <2>1. alive' \in BOOLEAN
      BY <1>21 DEF LockFreed
    <2>3. TypeOK'
      BY <1>0, <1>21, <2>1, ConstAssumption
      DEF TypeOK, LockFreed, PCs, EndSync, Qps, Ids, ringvars, datavars
    <2>2. CountInv' BY <1>0, <1>21, <2>3, CountFrame DEF LockFreed, TypeOK, EndSync
    <2> QED BY <2>3, <2>2
  <1>22. ASSUME LockNew PROVE TypeCount'
    <2>1. TypeOK' BY <1>0, <1>22, ConstAssumption DEF TypeOK, LockNew, Qps, Ids, datavars
    <2>2. /\ WaitSet' = {} /\ AllocSet' = {}
          /\ \A i \in Qps : Counted(i)' = {}
      BY <1>22, ConstAssumption DEF LifeInv, LockNew, WaitSet, AllocSet, Waiting, Counted
    <2> QED BY <1>22, <2>1, <2>2, FS_EmptySet DEF LockNew, CountInv, UsersExact, Age
  <1>23. CASE UNCHANGED vars
    <2>1. TypeOK' BY <1>0, <1>23 DEF TypeOK, vars
    <2>2. CountInv' BY <1>0, <1>23, <2>1, CountFrame DEF vars, ringvars, TypeOK
    <2> QED BY <2>1, <2>2
  <1> QED
    BY <1>1, <1>2, <1>3, <1>4, <1>5, <1>6, <1>7, <1>8, <1>9, <1>10, <1>11, <1>12,
       <1>13, <1>14, <1>15, <1>16, <1>17, <1>18, <1>19, <1>20, <1>21, <1>22, <1>23
    DEF Next, ReaderStep, WriterStep, SyncStep

----------------------------------------------------------------------------
(* The ring: each waiting synchronizer owns the qp of its id's age.        *)

\* An action that leaves the ring's indices and the waiting synchronizers
\* alone preserves RingInv.
LEMMA RingFrame ==
    ASSUME RingInv,
           UNCHANGED <<reader_idx, current_alloc_idx, id_ctr, next_to_retire>>,
           \A u \in Threads :
               /\ Waiting(u)' => /\ Waiting(u)
                                 /\ qp'[u] = qp[u] /\ curr_id'[u] = curr_id[u]
               /\ pc'[u] = "spin" => pc[u] = "spin" \/ curr_id[u] = next_to_retire
    PROVE  RingInv'
  <1>2. \A u \in Threads : pc'[u] = "spin" => Waiting(u)'
    BY DEF Waiting
  <1>3. \A u \in Threads : Waiting(u)' =>
           /\ Age(curr_id[u])' = Age(curr_id[u])
           /\ Age(next_to_retire)' = Age(next_to_retire)
           /\ QpAtAge(Age(curr_id[u]))' = QpAtAge(Age(curr_id[u]))
    BY DEF Age, QpAtAge
  <1> QED
    BY <1>2, <1>3 DEF RingInv

\* Every step keeps each waiting synchronizer at the qp that was current when it
\* took its id.
LEMMA NextRing ==
    ASSUME TypeCount, RingInv, LifeInv, [Next]_vars
    PROVE  RingInv'
  <1>0. TypeOK /\ CountInv /\ TypeOK' /\ CountInv'
    BY NextTypeCount DEF TypeCount
  <1>1. ASSUME NEW t \in Threads, ReaderStep(t) PROVE RingInv'
    BY <1>0, <1>1, RingFrame
    DEF ReaderStep, ReadLock, MayEnter, ReadAdd, ReadCheck, ReadSub, ReadNest, Deref,
        ReadUnlock, Waiting, ringvars, TypeOK
  <1>2. ASSUME NEW t \in Threads, WriterStep(t) PROVE RingInv'
    BY <1>0, <1>2, RingFrame
    DEF WriterStep, WriteLock, MayEnter, Publish, WriteUnlock, Synchronize, TakeCallbacks,
        Waiting, ringvars, TypeOK
  <1>3. ASSUME NEW t \in Threads, UpdateQp(t) PROVE RingInv'
    <2> DEFINE pcs == [pc EXCEPT ![t] = "prior"]
    <2>1. /\ pc[t] = "update_qp" /\ GroupCount - writers_alloced >= 2
          /\ SignalAlloc(pcs)
          /\ pcs \in [Threads -> PCs] /\ pcs[t] = "prior"
          /\ \A u \in Threads \ {t} : pcs[u] = pc[u]
      BY <1>0, <1>3 DEF UpdateQp, PCs, Syncing, TypeOK
    <2> HIDE DEF pcs
    <2>2. /\ pc'[t] = "prior"
          /\ \A u \in Threads \ {t} :
                pc'[u] = pc[u] \/ (pc[u] = "alloc_wait" /\ pc'[u] = "update_qp")
      BY <1>0, <2>1, SignalEffect DEF TypeOK
    <2>3. /\ \A u \in Threads : Waiting(u)' <=> (Waiting(u) \/ u = t)
          /\ ~Waiting(t)
          /\ \A u \in Threads : pc'[u] = "spin" => pc[u] = "spin" /\ u # t
      BY <2>1, <2>2 DEF Waiting
    <2>4. /\ qp' = [qp EXCEPT ![t] = current_alloc_idx]
          /\ curr_id' = [curr_id EXCEPT ![t] = id_ctr]
          /\ reader_idx' = current_alloc_idx' /\ current_alloc_idx' = NextQp(current_alloc_idx)
          /\ id_ctr' = NextId(id_ctr) /\ next_to_retire' = next_to_retire
      BY <1>3 DEF UpdateQp
    <2>5. Cardinality(WaitSet) \in Nat /\ Cardinality(AllocSet) \in Nat
      BY WaitAlloc, ThreadCard
    <2>6. Age(next_to_retire) \in 0 .. GroupCount - 2
      BY <1>0, <2>1, <2>5, WaitAlloc, ConstAssumption DEF CountInv, TypeOK
    <2>7. Age(next_to_retire)' = Age(next_to_retire) + 1
      BY <1>0, <2>4, <2>6, ConstAssumption DEF Age, NextId, TypeOK, Ids
    <2>8. ASSUME NEW u \in Threads, Waiting(u)
          PROVE  /\ curr_id'[u] = curr_id[u] /\ qp'[u] = qp[u] /\ u # t
                 /\ Age(curr_id[u])' = Age(curr_id[u]) + 1
                 /\ qp'[u] = QpAtAge(Age(curr_id[u]))'
                 /\ curr_id[u] # id_ctr
      <3>1. curr_id'[u] = curr_id[u] /\ qp'[u] = qp[u] /\ u # t
        BY <1>0, <2>3, <2>4, <2>8 DEF TypeOK
      <3>2. Age(curr_id[u]) \in 1 .. Age(next_to_retire) /\ qp[u] = QpAtAge(Age(curr_id[u]))
        BY <2>8 DEF RingInv
      <3>3. Age(curr_id[u])' = Age(curr_id[u]) + 1 /\ curr_id[u] # id_ctr
        BY <1>0, <2>4, <2>6, <3>1, <3>2, ConstAssumption DEF Age, NextId, TypeOK, Ids
      <3>4. qp'[u] = QpAtAge(Age(curr_id[u]))'
        <4>1. PICK k \in 1 .. GroupCount - 2 : k = Age(curr_id[u])
          BY <2>6, <3>2, ConstAssumption
        <4>2. QpAtAge(Age(curr_id[u]))' =
                 IF current_alloc_idx' >= k + 1 THEN current_alloc_idx' - (k + 1)
                                                ELSE current_alloc_idx' - (k + 1) + GroupCount
          BY <3>3, <4>1 DEF QpAtAge
        <4>3. qp'[u] = IF current_alloc_idx >= k THEN current_alloc_idx - k
                                                 ELSE current_alloc_idx - k + GroupCount
          BY <3>1, <3>2, <4>1 DEF QpAtAge
        <4>4. /\ current_alloc_idx \in 0 .. GroupCount - 1 /\ GroupCount \in Nat
              /\ current_alloc_idx' = IF current_alloc_idx + 1 = GroupCount
                                      THEN 0 ELSE current_alloc_idx + 1
          BY <1>0, <2>4, ConstAssumption DEF NextQp, TypeOK, Qps
        <4> QED
          BY <4>1, <4>2, <4>3, <4>4
      <3> QED BY <3>1, <3>3, <3>4
    <2>9. /\ curr_id'[t] = id_ctr /\ qp'[t] = current_alloc_idx
          /\ Age(curr_id[t])' = 1 /\ qp'[t] = QpAtAge(Age(curr_id[t]))'
      <3>1. curr_id'[t] = id_ctr /\ qp'[t] = current_alloc_idx
        BY <1>0, <2>4 DEF TypeOK
      <3>2. Age(curr_id[t])' = 1
        BY <1>0, <2>4, <3>1, ConstAssumption DEF Age, NextId, TypeOK, Ids
      <3>3. qp'[t] = QpAtAge(Age(curr_id[t]))'
        BY <1>0, <2>4, <3>1, <3>2, ConstAssumption DEF QpAtAge, NextQp, TypeOK, Qps
      <3> QED BY <3>1, <3>2, <3>3
    <2>10. \A u \in Threads : Waiting(u)' =>
             /\ Age(curr_id[u])' \in 1 .. Age(next_to_retire)'
             /\ qp'[u] = QpAtAge(Age(curr_id[u]))'
      <3> SUFFICES ASSUME NEW u \in Threads, Waiting(u)'
                   PROVE  /\ Age(curr_id[u])' \in 1 .. Age(next_to_retire)'
                          /\ qp'[u] = QpAtAge(Age(curr_id[u]))'
        OBVIOUS
      <3>1. CASE u = t BY <2>6, <2>7, <2>9, <3>1
      <3>2. CASE Waiting(u)
        <4>1. Age(curr_id[u]) \in 1 .. Age(next_to_retire)
          BY <3>2 DEF RingInv
        <4> QED BY <2>6, <2>7, <2>8, <3>2, <4>1
      <3> QED BY <2>3, <3>1, <3>2
    <2>11. \A u, v \in Threads :
             (u # v /\ Waiting(u)' /\ Waiting(v)') => curr_id'[u] # curr_id'[v]
      BY <2>3, <2>8, <2>9 DEF RingInv
    <2>12. \A u \in Threads : pc'[u] = "spin" => curr_id'[u] = next_to_retire'
      BY <2>3, <2>4, <2>8 DEF RingInv, Waiting
    <2> QED BY <2>4, <2>10, <2>11, <2>12 DEF RingInv
  <1>4. ASSUME NEW t \in Threads, AllocWait(t) \/ PriorLock(t) PROVE RingInv'
    BY <1>0, <1>4, RingFrame DEF AllocWait, PriorLock, Waiting, ringvars, TypeOK
  <1>5. ASSUME NEW t \in Threads, Drained(t) PROVE RingInv'
    <2>1. /\ \A u \in Threads : Waiting(u)' <=> (Waiting(u) /\ u # t)
          /\ Waiting(t)
          /\ \A u \in Threads : pc'[u] = "spin" => pc[u] = "spin" /\ u # t
      BY <1>0, <1>5 DEF Drained, Waiting, TypeOK
    <2>2. /\ next_to_retire' = NextId(next_to_retire) /\ curr_id[t] = next_to_retire
          /\ UNCHANGED <<reader_idx, current_alloc_idx, id_ctr, qp, curr_id>>
      BY <1>5 DEF Drained, RingInv, ringvars
    <2>3. \A u \in Threads : Waiting(u) =>
            /\ Age(curr_id[u]) \in 1 .. Age(next_to_retire)
            /\ Age(curr_id[u])' = Age(curr_id[u])
            /\ QpAtAge(Age(curr_id[u]))' = QpAtAge(Age(curr_id[u]))
      BY <2>2 DEF RingInv, Age, QpAtAge
    <2>4. Age(next_to_retire)' = Age(next_to_retire) - 1
      BY <1>0, <2>1, <2>2, <2>3, ConstAssumption DEF Age, NextId, TypeOK, Ids
    <2>5. \A u \in Threads : Waiting(u)' =>
            /\ Age(curr_id[u])' \in 1 .. Age(next_to_retire)'
            /\ qp'[u] = QpAtAge(Age(curr_id[u]))'
      <3> SUFFICES ASSUME NEW u \in Threads, Waiting(u)'
                   PROVE  Age(curr_id[u])' \in 1 .. Age(next_to_retire)'
        BY <2>1, <2>2, <2>3 DEF RingInv
      <3>1. Waiting(u) /\ curr_id[u] # next_to_retire
        BY <2>1, <2>2 DEF RingInv
      <3>2. Age(curr_id[u]) # Age(next_to_retire)
        BY <1>0, <3>1, ConstAssumption DEF Age, TypeOK, Ids
      <3>3. Age(next_to_retire) \in Int
        BY <1>0, ConstAssumption DEF Age, TypeOK, Ids
      <3> QED BY <2>3, <2>4, <3>1, <3>2, <3>3
    <2>6. ASSUME NEW u \in Threads, pc'[u] = "spin" PROVE FALSE
      <3>1. pc[u] = "spin" /\ u # t /\ Waiting(u)
        BY <2>1, <2>6 DEF Waiting
      <3> QED BY <2>1, <2>2, <3>1 DEF RingInv
    <2> QED BY <2>1, <2>2, <2>5, <2>6 DEF RingInv
  <1>6. ASSUME NEW t \in Threads, RetireQp(t) PROVE RingInv'
    <2> DEFINE pcs == [pc EXCEPT ![t] = "callbacks"]
    <2>1. /\ pc[t] = "retire" /\ SignalAlloc(pcs)
          /\ pcs \in [Threads -> PCs] /\ pcs[t] = "callbacks"
          /\ \A u \in Threads \ {t} : pcs[u] = pc[u]
      BY <1>0, <1>6 DEF RetireQp, PCs, Syncing, TypeOK
    <2> HIDE DEF pcs
    <2>2. /\ pc'[t] = "callbacks"
          /\ \A u \in Threads \ {t} :
                pc'[u] = pc[u] \/ (pc[u] = "alloc_wait" /\ pc'[u] = "update_qp")
      BY <1>0, <2>1, SignalEffect DEF TypeOK
    <2> QED BY <1>6, <2>1, <2>2, RingFrame DEF RetireQp, Waiting
  <1>7. ASSUME NEW t \in Threads, RunCallback(t) \/ SyncReturn(t) \/ LockFreed(t) PROVE RingInv'
    BY <1>0, <1>7, RingFrame DEF RunCallback, SyncReturn, LockFreed, EndSync, Waiting, ringvars, TypeOK
  <1>8. ASSUME NEW t \in Threads, SpuriousWakeup(t) \/ LockFree(t) PROVE RingInv'
    BY <1>0, <1>8, RingFrame DEF SpuriousWakeup, LockFree, TakeCallbacks, Waiting, ringvars, TypeOK
  <1>9. CASE LockNew
    <2>1. \A u \in Threads : ~Waiting(u)' /\ pc'[u] # "spin"
      BY <1>9, ConstAssumption DEF LockNew, LifeInv, Waiting
    <2> QED BY <1>9, <2>1 DEF LockNew, RingInv
  <1>10. CASE UNCHANGED vars
    BY <1>10, RingFrame DEF vars, Waiting
  <1> QED
    BY <1>1, <1>2, <1>3, <1>4, <1>5, <1>6, <1>7, <1>8, <1>9, <1>10
    DEF Next, SyncStep

----------------------------------------------------------------------------
(* Teardown, and where the objects are.                                    *)

\* The locations that pthread_cond_signal leaves behind, for both callers.
LEMMA SignalSteps ==
    ASSUME TypeOK, NEW t \in Threads, UpdateQp(t) \/ RetireQp(t)
    PROVE  /\ UpdateQp(t) => pc[t] = "update_qp" /\ pc'[t] = "prior"
           /\ RetireQp(t) => pc[t] = "retire" /\ pc'[t] = "callbacks"
           /\ \A u \in Threads \ {t} :
                 pc'[u] = pc[u] \/ (pc[u] = "alloc_wait" /\ pc'[u] = "update_qp")
  <1>1. CASE UpdateQp(t)
    <2> DEFINE pcs == [pc EXCEPT ![t] = "prior"]
    <2>1. /\ pc[t] = "update_qp" /\ SignalAlloc(pcs)
          /\ pcs \in [Threads -> PCs] /\ pcs[t] = "prior"
          /\ \A u \in Threads \ {t} : pcs[u] = pc[u]
      BY <1>1 DEF UpdateQp, PCs, Syncing, TypeOK
    <2> HIDE DEF pcs
    <2> QED BY <1>1, <2>1, SignalEffect DEF TypeOK, RetireQp
  <1>2. CASE RetireQp(t)
    <2> DEFINE pcs == [pc EXCEPT ![t] = "callbacks"]
    <2>1. /\ pc[t] = "retire" /\ SignalAlloc(pcs)
          /\ pcs \in [Threads -> PCs] /\ pcs[t] = "callbacks"
          /\ \A u \in Threads \ {t} : pcs[u] = pc[u]
      BY <1>2 DEF RetireQp, PCs, Syncing, TypeOK
    <2> HIDE DEF pcs
    <2> QED BY <1>2, <2>1, SignalEffect DEF TypeOK, UpdateQp
  <1> QED BY <1>1, <1>2

\* Nobody starts anything on a lock that is being freed.
LEMMA NextLife ==
    ASSUME TypeOK, LifeInv, [Next]_vars
    PROVE  LifeInv'
  <1>0. None \notin Threads /\ pc \in [Threads -> PCs] /\ old \in [Threads -> Objs \cup {None}]
    BY ConstAssumption DEF TypeOK
  <1>1. ASSUME NEW t \in Threads, ReaderStep(t) PROVE LifeInv'
    BY <1>0, <1>1
    DEF LifeInv, Syncing, ReaderStep, ReadLock, MayEnter, ReadAdd, ReadCheck, ReadSub, ReadNest,
        Deref, ReadUnlock
  <1>2. ASSUME NEW t \in Threads, WriterStep(t) PROVE LifeInv'
    BY <1>0, <1>2
    DEF LifeInv, Syncing, WriterStep, WriteLock, MayEnter, Publish, WriteUnlock, Synchronize,
        TakeCallbacks
  <1>3. ASSUME NEW t \in Threads, UpdateQp(t) \/ RetireQp(t) PROVE LifeInv'
    <2>1. UNCHANGED <<alive, dying, old, cb_items>>
      BY <1>3 DEF UpdateQp, RetireQp
    <2> QED BY <1>0, <1>3, <2>1, SignalSteps DEF LifeInv, Syncing
  <1>4. ASSUME NEW t \in Threads, AllocWait(t) \/ PriorLock(t) \/ Drained(t) PROVE LifeInv'
    BY <1>0, <1>4 DEF LifeInv, Syncing, AllocWait, PriorLock, Drained
  <1>5. ASSUME NEW t \in Threads, RunCallback(t) \/ SyncReturn(t) PROVE LifeInv'
    BY <1>0, <1>5 DEF LifeInv, Syncing, RunCallback, SyncReturn, EndSync
  <1>6. ASSUME NEW t \in Threads, SpuriousWakeup(t) PROVE LifeInv'
    BY <1>0, <1>6 DEF LifeInv, Syncing, SpuriousWakeup
  <1>7. ASSUME NEW t \in Threads, LockFree(t) \/ LockFreed(t) PROVE LifeInv'
    BY <1>0, <1>7 DEF LifeInv, Syncing, LockFree, LockFreed, TakeCallbacks, EndSync
  <1>8. CASE LockNew
    BY <1>0, <1>8 DEF LifeInv, LockNew
  <1>9. CASE UNCHANGED vars
    BY <1>9 DEF LifeInv, vars
  <1> QED
    BY <1>1, <1>2, <1>3, <1>4, <1>5, <1>6, <1>7, <1>8, <1>9 DEF Next, SyncStep

\* FreedOnce and HeapInv: an object moves from ptr to the lock's list or its
\* writer, from the list to one batch, and from there off the heap.
LEMMA NextHeap ==
    ASSUME TypeOK, TypeOK', LifeInv, FreedOnce, HeapInv, [Next]_vars
    PROVE  FreedOnce' /\ HeapInv'
  <1>0. /\ None \notin Threads /\ None \notin Objs
        /\ pc \in [Threads -> PCs] /\ old \in [Threads -> Objs \cup {None}]
        /\ cbs \in [Threads -> SUBSET Objs] /\ ptr \in Objs /\ heap \subseteq Objs
        /\ cb_items \subseteq Objs
    BY ConstAssumption DEF TypeOK
  <1>f. ASSUME UNCHANGED <<ptr, heap, cb_items, cbs, old>>,
               \A u \in Threads : pc[u] \in Syncing => pc'[u] \in Syncing \/ cbs[u] = {}
        PROVE  FreedOnce' /\ HeapInv'
    BY <1>f DEF FreedOnce, HeapInv, Pending
  <1>1. ASSUME NEW t \in Threads, ReaderStep(t) PROVE FreedOnce' /\ HeapInv'
    BY <1>0, <1>1, <1>f
    DEF Syncing, ReaderStep, ReadLock, MayEnter, ReadAdd, ReadCheck, ReadSub, ReadNest,
        Deref, ReadUnlock, datavars
  <1>2. ASSUME NEW t \in Threads, WriteLock(t) \/ WriteUnlock(t) PROVE FreedOnce' /\ HeapInv'
    BY <1>0, <1>2, <1>f DEF Syncing, WriteLock, MayEnter, WriteUnlock, datavars
  <1>3. ASSUME NEW t \in Threads, Publish(t) PROVE FreedOnce' /\ HeapInv'
    <2>1. PICK new \in Objs \ heap : ptr' = new /\ heap' = heap \cup {new}
      BY <1>3 DEF Publish
    <2>2. pc' = pc /\ cbs' = cbs /\ old[t] = None
      BY <1>3 DEF Publish
    <2>3. CASE cb_items' = cb_items \cup {ptr} /\ UNCHANGED old
      BY <1>0, <2>1, <2>2, <2>3 DEF FreedOnce, HeapInv, Pending
    <2>4. CASE old' = [old EXCEPT ![t] = ptr] /\ UNCHANGED cb_items
      <3>1. /\ Pending(t)' = Pending(t) \cup {ptr}
            /\ \A u \in Threads \ {t} : Pending(u)' = Pending(u) /\ old'[u] = old[u]
            /\ old'[t] = ptr
        BY <1>0, <2>2, <2>4 DEF Pending
      <3>2. ptr \notin cbs[t]
        BY DEF FreedOnce, Pending
      <3>3. FreedOnce'
        BY <1>0, <2>1, <2>2, <2>4, <3>1, <3>2 DEF FreedOnce
      <3>4. HeapInv'
        BY <1>0, <2>1, <2>2, <2>4, <3>1 DEF HeapInv
      <3> QED BY <3>3, <3>4
    <2> QED BY <1>3, <2>3, <2>4 DEF Publish
  <1>4. ASSUME NEW t \in Threads, Synchronize(t) \/ LockFree(t) PROVE FreedOnce' /\ HeapInv'
    <2>1. /\ pc[t] = "idle" /\ cbs' = [cbs EXCEPT ![t] = cb_items] /\ cb_items' = {}
          /\ UNCHANGED <<ptr, heap, old>> /\ pc' = [pc EXCEPT ![t] = "update_qp"]
      BY <1>4 DEF Synchronize, LockFree, TakeCallbacks, datavars
    <2>2. cbs[t] = {}
      BY <2>1 DEF HeapInv, Syncing
    <2>3. /\ Pending(t)' = Pending(t) \cup cb_items /\ cbs'[t] = cb_items
          /\ \A u \in Threads \ {t} : Pending(u)' = Pending(u) /\ cbs'[u] = cbs[u]
      BY <1>0, <2>1, <2>2 DEF Pending
    <2>4. old[t] \notin cb_items
      BY <1>0 DEF FreedOnce, Pending
    <2>5. FreedOnce'
      BY <1>0, <2>1, <2>3, <2>4 DEF FreedOnce
    <2>6. HeapInv'
      BY <1>0, <2>1, <2>3 DEF HeapInv, Syncing
    <2> QED BY <2>5, <2>6
  <1>5. ASSUME NEW t \in Threads, UpdateQp(t) \/ RetireQp(t) PROVE FreedOnce' /\ HeapInv'
    <2>1. UNCHANGED <<ptr, heap, cb_items, cbs, old>>
      BY <1>5 DEF UpdateQp, RetireQp, datavars
    <2> QED BY <1>5, <2>1, <1>f, SignalSteps DEF Syncing
  <1>6. ASSUME NEW t \in Threads,
               AllocWait(t) \/ PriorLock(t) \/ Drained(t) \/ SpuriousWakeup(t) \/ LockFreed(t)
        PROVE  FreedOnce' /\ HeapInv'
    BY <1>0, <1>6, <1>f
    DEF Syncing, AllocWait, PriorLock, Drained, SpuriousWakeup, LockFreed, EndSync, datavars
  <1>7. ASSUME NEW t \in Threads, RunCallback(t) PROVE FreedOnce' /\ HeapInv'
    <2>1. PICK o \in cbs[t] : cbs' = [cbs EXCEPT ![t] = @ \ {o}] /\ heap' = heap \ {o}
      BY <1>7 DEF RunCallback
    <2>2. UNCHANGED <<pc, ptr, cb_items, old>>
      BY <1>7 DEF RunCallback
    <2>3. /\ Pending(t)' = Pending(t) \ {o} /\ cbs'[t] = cbs[t] \ {o}
          /\ \A u \in Threads \ {t} : Pending(u)' = Pending(u) /\ cbs'[u] = cbs[u]
          /\ o \in Pending(t) /\ o # old[t]
      BY <1>0, <2>1, <2>2 DEF Pending, FreedOnce
    <2>4. FreedOnce'
      BY <1>0, <2>1, <2>2, <2>3 DEF FreedOnce
    <2>5. HeapInv'
      BY <1>0, <2>1, <2>2, <2>3 DEF HeapInv
    <2> QED BY <2>4, <2>5
  <1>8. ASSUME NEW t \in Threads, SyncReturn(t) PROVE FreedOnce' /\ HeapInv'
    <2>1. /\ heap' = heap \ {old[t]} /\ old' = [old EXCEPT ![t] = None] /\ cbs[t] = {}
          /\ UNCHANGED <<ptr, cb_items, cbs>> /\ pc' = [pc EXCEPT ![t] = "idle"]
      BY <1>8 DEF SyncReturn, EndSync
    <2>3. /\ Pending(t)' = {} /\ Pending(t) = {old[t]} \ {None} /\ old'[t] = None
          /\ \A u \in Threads \ {t} : Pending(u)' = Pending(u) /\ old'[u] = old[u]
      BY <1>0, <2>1 DEF Pending
    <2>4. FreedOnce'
      BY <1>0, <2>1, <2>3 DEF FreedOnce
    <2>5. HeapInv'
      BY <1>0, <2>1, <2>3 DEF HeapInv
    <2> QED BY <2>4, <2>5
  <1>9. CASE LockNew
    BY <1>9, <1>f DEF LockNew, LifeInv, datavars
  <1>10. CASE UNCHANGED vars
    BY <1>10, <1>f DEF vars
  <1> QED
    BY <1>1, <1>2, <1>3, <1>4, <1>5, <1>6, <1>7, <1>8, <1>9, <1>10
    DEF Next, WriterStep, SyncStep

----------------------------------------------------------------------------
(* Readers and the qps they sit in.                                        *)

\* A qp that a synchronizer sees drained has no reader.
LEMMA DrainedEmpty ==
    ASSUME TypeOK, CountInv, NEW t \in Threads, Drained(t),
           NEW r \in Threads, pc[r] = "reading"
    PROVE  qp[r] # qp[t]
  <1>1. qp[t] \in Qps /\ Cardinality(Counted(qp[t])) = 0
    BY DEF TypeOK, CountInv, UsersExact, Drained
  <1>2. Counted(qp[t]) = {}
    BY <1>1, ThreadCard, CountedThreads
  <1> QED BY <1>2 DEF Counted

\* Every step keeps the readers in the current qp or in one that is drained.
LEMMA NextReader ==
    ASSUME TypeOK, CountInv, LifeInv, RingInv, ReaderInv, [Next]_vars
    PROVE  ReaderInv'
  <1>0. /\ pc \in [Threads -> PCs] /\ qp \in [Threads -> Qps]
        /\ refs \in [Threads -> SUBSET Objs]
    BY DEF TypeOK
  <1>f. ASSUME UNCHANGED <<reader_idx, refs>>,
               \A u \in Threads : /\ pc[u] = "reading" <=> pc'[u] = "reading"
                                  /\ pc[u] = "reading" => qp'[u] = qp[u]
                                  /\ Waiting(u) => Waiting(u)' /\ qp'[u] = qp[u]
        PROVE  ReaderInv'
    BY <1>f DEF ReaderInv
  <1>1. ASSUME NEW t \in Threads, ReaderStep(t) PROVE ReaderInv'
    BY <1>0, <1>1
    DEF ReaderInv, Waiting, ReaderStep, ReadLock, MayEnter, ReadAdd, ReadCheck, ReadSub,
        ReadNest, Deref, ReadUnlock, ringvars
  <1>2. ASSUME NEW t \in Threads, WriterStep(t) PROVE ReaderInv'
    BY <1>0, <1>2, <1>f
    DEF Waiting, WriterStep, WriteLock, MayEnter, Publish, WriteUnlock, Synchronize,
        TakeCallbacks, ringvars
  <1>3. ASSUME NEW t \in Threads, UpdateQp(t) PROVE ReaderInv'
    <2>1. /\ pc[t] = "update_qp" /\ pc'[t] = "prior"
          /\ \A u \in Threads \ {t} :
                pc'[u] = pc[u] \/ (pc[u] = "alloc_wait" /\ pc'[u] = "update_qp")
      BY <1>3, SignalSteps
    <2>2. /\ qp' = [qp EXCEPT ![t] = reader_idx] /\ refs' = refs
      BY <1>3 DEF UpdateQp, RingInv
    <2>3. ASSUME NEW u \in Threads, pc'[u] = "reading"
          PROVE  \E w \in Threads : Waiting(w)' /\ qp'[w] = qp'[u]
      <3>1. pc[u] = "reading" /\ u # t /\ qp'[u] = qp[u]
        BY <1>0, <2>1, <2>2, <2>3
      <3>2. CASE qp[u] = reader_idx
        BY <1>0, <2>1, <2>2, <3>1, <3>2 DEF Waiting
      <3>3. CASE \E w \in Threads : Waiting(w) /\ qp[w] = qp[u]
        BY <1>0, <2>1, <2>2, <3>1, <3>3 DEF Waiting
      <3> QED BY <3>1, <3>2, <3>3 DEF ReaderInv
    <2> QED BY <1>0, <2>1, <2>2, <2>3 DEF ReaderInv
  <1>4. ASSUME NEW t \in Threads, Drained(t) PROVE ReaderInv'
    BY <1>0, <1>4, DrainedEmpty DEF ReaderInv, Drained, Waiting, ringvars
  <1>5. ASSUME NEW t \in Threads, RetireQp(t) PROVE ReaderInv'
    <2>1. UNCHANGED <<reader_idx, refs, qp>>
      BY <1>5 DEF RetireQp
    <2> QED BY <1>5, <2>1, <1>f, SignalSteps DEF Waiting
  <1>6. ASSUME NEW t \in Threads,
               \/ AllocWait(t) \/ PriorLock(t) \/ RunCallback(t) \/ SyncReturn(t)
               \/ SpuriousWakeup(t) \/ LockFree(t) \/ LockFreed(t)
        PROVE  ReaderInv'
    BY <1>0, <1>6, <1>f
    DEF Waiting, AllocWait, PriorLock, RunCallback, SyncReturn, SpuriousWakeup, LockFree,
        LockFreed, EndSync, TakeCallbacks, ringvars
  <1>7. CASE LockNew
    <2>1. \A u \in Threads : pc[u] = "idle"
      BY <1>7, ConstAssumption DEF LockNew, LifeInv
    <2> QED BY <1>7, <2>1 DEF LockNew, ReaderInv
  <1>8. CASE UNCHANGED vars
    BY <1>8, <1>f DEF vars, Waiting
  <1> QED
    BY <1>1, <1>2, <1>3, <1>4, <1>5, <1>6, <1>7, <1>8 DEF Next, SyncStep

\* A reader of an object that is about to be freed entered before the
\* synchronizer that frees it moved reader_idx.
LEMMA NextHold ==
    ASSUME IndInv, [Next]_vars
    PROVE  HoldInv'
  <1>0. /\ TypeOK /\ CountInv /\ RingInv /\ ReaderInv /\ FreedOnce /\ HoldInv /\ LifeInv
        /\ HeapInv /\ NoUseAfterFree
        /\ pc \in [Threads -> PCs] /\ qp \in [Threads -> Qps]
        /\ curr_id \in [Threads -> Ids]
        /\ refs \in [Threads -> SUBSET Objs] /\ cbs \in [Threads -> SUBSET Objs]
        /\ old \in [Threads -> Objs \cup {None}]
        /\ None \notin Objs
    BY ConstAssumption DEF IndInv, TypeOK
  \* Nothing that HoldInv speaks of changes for the worse.
  <1>f. ASSUME UNCHANGED <<id_ctr, curr_id>>,
               \A r, w \in Threads :
                  refs'[r] \cap Pending(w)' # {} =>
                     /\ refs[r] \cap Pending(w) # {} /\ qp'[r] = qp[r]
                     /\ pc'[w] \notin {"retire", "callbacks"} \/ pc'[w] = pc[w],
               \A u \in Threads : (Waiting(u) <=> Waiting(u)') /\ (Waiting(u) => qp'[u] = qp[u])
        PROVE  HoldInv'
    <2>1. \A u \in Threads : Age(curr_id[u])' = Age(curr_id[u])
      BY <1>f DEF Age
    <2>2. ASSUME NEW r \in Threads, NEW w \in Threads, refs'[r] \cap Pending(w)' # {}
          PROVE  /\ pc'[w] \notin {"retire", "callbacks"}
                 /\ Waiting(w)' => \E v \in Threads :
                       /\ Waiting(v)' /\ qp'[v] = qp'[r]
                       /\ Age(curr_id[v])' >= Age(curr_id[w])'
      <3>1. /\ refs[r] \cap Pending(w) # {} /\ qp'[r] = qp[r]
            /\ pc'[w] \notin {"retire", "callbacks"} \/ pc'[w] = pc[w]
        BY <1>f, <2>2
      <3>2. pc'[w] \notin {"retire", "callbacks"}
        BY <1>0, <3>1 DEF HoldInv
      <3>3. ASSUME Waiting(w)'
            PROVE  \E v \in Threads : /\ Waiting(v)' /\ qp'[v] = qp'[r]
                                      /\ Age(curr_id[v])' >= Age(curr_id[w])'
        <4>1. PICK v \in Threads : /\ Waiting(v) /\ qp[v] = qp[r]
                                   /\ Age(curr_id[v]) >= Age(curr_id[w])
          BY <1>0, <1>f, <3>1, <3>3 DEF HoldInv
        <4>2. Waiting(v)' /\ qp'[v] = qp'[r]
          BY <1>f, <3>1, <4>1
        <4> QED BY <2>1, <4>1, <4>2
      <3> QED BY <3>2, <3>3
    <2> QED BY <2>2 DEF HoldInv
  <1>1. ASSUME NEW t \in Threads, ReadLock(t) \/ ReadAdd(t) \/ ReadCheck(t) \/ ReadSub(t) \/ ReadNest(t)
        PROVE  HoldInv'
    <2>1. /\ UNCHANGED <<id_ctr, curr_id, refs, cbs, old>>
          /\ refs[t] # {} => qp'[t] = qp[t]
      BY <1>0, <1>1
      DEF ReaderInv, ReadLock, MayEnter, ReadAdd, ReadCheck, ReadSub, ReadNest, ringvars
    <2>2. \A u \in Threads : /\ (Waiting(u) <=> Waiting(u)') /\ (Waiting(u) => qp'[u] = qp[u])
                             /\ u # t => qp'[u] = qp[u] /\ pc'[u] = pc[u]
                             /\ pc'[u] \notin {"retire", "callbacks"} \/ pc'[u] = pc[u]
      BY <1>0, <1>1 DEF Waiting, ReadLock, MayEnter, ReadAdd, ReadCheck, ReadSub, ReadNest
    <2>3. \A w : Pending(w)' = Pending(w)
      BY <2>1 DEF Pending
    <2> QED BY <2>1, <2>2, <2>3, <1>f
  <1>2. ASSUME NEW t \in Threads, Deref(t) PROVE HoldInv'
    <2>1. /\ UNCHANGED <<id_ctr, curr_id, cbs, old, pc, qp>>
          /\ refs' = [refs EXCEPT ![t] = @ \cup {ptr}]
      BY <1>2 DEF Deref, ringvars
    <2>2. \A w \in Threads : Pending(w)' = Pending(w) /\ ptr \notin Pending(w)
      BY <1>0, <2>1 DEF Pending, FreedOnce
    <2>3. \A r, w \in Threads : refs'[r] \cap Pending(w)' # {} => refs[r] \cap Pending(w) # {}
      BY <1>0, <2>1, <2>2
    <2> QED BY <2>1, <2>3, <1>f DEF Waiting
  <1>3. ASSUME NEW t \in Threads, ReadUnlock(t) PROVE HoldInv'
    <2>1. UNCHANGED <<id_ctr, curr_id, cbs, old>>
      BY <1>3 DEF ReadUnlock
    <2>2. \A u \in Threads : /\ refs'[u] \subseteq refs[u] /\ (refs'[u] # {} => qp'[u] = qp[u])
                             /\ (Waiting(u) <=> Waiting(u)') /\ (Waiting(u) => qp'[u] = qp[u])
                             /\ pc'[u] \notin {"retire", "callbacks"} \/ pc'[u] = pc[u]
      BY <1>0, <1>3 DEF ReadUnlock, Waiting
    <2>3. \A w : Pending(w)' = Pending(w)
      BY <2>1 DEF Pending
    <2> QED BY <2>1, <2>2, <2>3, <1>f
  <1>4. ASSUME NEW t \in Threads, WriteLock(t) \/ WriteUnlock(t) \/ SpuriousWakeup(t) \/ AllocWait(t) \/ PriorLock(t)
        PROVE  HoldInv'
    <2>1. UNCHANGED <<id_ctr, curr_id, refs, cbs, old, qp>>
      BY <1>4 DEF WriteLock, WriteUnlock, SpuriousWakeup, AllocWait, PriorLock, ringvars
    <2>2. \A u \in Threads : /\ (Waiting(u) <=> Waiting(u)')
                             /\ pc'[u] \notin {"retire", "callbacks"} \/ pc'[u] = pc[u]
      BY <1>0, <1>4 DEF Waiting, WriteLock, MayEnter, WriteUnlock, SpuriousWakeup, AllocWait, PriorLock
    <2>3. \A w : Pending(w)' = Pending(w)
      BY <2>1 DEF Pending
    <2> QED BY <2>1, <2>2, <2>3, <1>f
  <1>5. ASSUME NEW t \in Threads, Publish(t) PROVE HoldInv'
    <2>1. /\ UNCHANGED <<id_ctr, curr_id, refs, cbs, qp, pc>> /\ pc[t] = "writing"
          /\ \A u \in Threads \ {t} : old'[u] = old[u]
      BY <1>0, <1>5 DEF Publish, ringvars
    <2>2. \A u \in Threads \ {t} : Pending(u)' = Pending(u)
      BY <2>1 DEF Pending
    <2>3. \A u \in Threads : Age(curr_id[u])' = Age(curr_id[u])
      BY <2>1 DEF Age
    <2> QED BY <1>0, <2>1, <2>2, <2>3 DEF HoldInv, Waiting
  <1>6. ASSUME NEW t \in Threads, Synchronize(t) \/ LockFree(t) PROVE HoldInv'
    <2>1. /\ UNCHANGED <<id_ctr, curr_id, refs, old, qp>> /\ pc[t] = "idle"
          /\ pc' = [pc EXCEPT ![t] = "update_qp"] /\ cbs' = [cbs EXCEPT ![t] = cb_items]
      BY <1>6 DEF Synchronize, LockFree, TakeCallbacks, ringvars
    <2>2. \A u \in Threads \ {t} : Pending(u)' = Pending(u)
      BY <1>0, <2>1 DEF Pending
    <2>3. \A u \in Threads : Age(curr_id[u])' = Age(curr_id[u])
      BY <2>1 DEF Age
    <2> QED BY <1>0, <2>1, <2>2, <2>3 DEF HoldInv, Waiting
  <1>7. ASSUME NEW t \in Threads, UpdateQp(t) PROVE HoldInv'
    <2>1. /\ pc[t] = "update_qp" /\ pc'[t] = "prior"
          /\ \A u \in Threads \ {t} :
                pc'[u] = pc[u] \/ (pc[u] = "alloc_wait" /\ pc'[u] = "update_qp")
      BY <1>0, <1>7, SignalSteps
    <2>2. /\ UNCHANGED <<refs, cbs, old>>
          /\ \A w : Pending(w)' = Pending(w)
      BY <1>7 DEF UpdateQp, Pending
    <2>3. TypeOK' /\ CountInv' /\ RingInv'
      BY <1>0, NextRing, NextTypeCount DEF TypeCount
    <2>4. /\ qp' = [qp EXCEPT ![t] = reader_idx]
          /\ curr_id' = [curr_id EXCEPT ![t] = id_ctr] /\ id_ctr' = NextId(id_ctr)
      BY <1>0, <1>7 DEF UpdateQp, RingInv
    <2>5. Age(curr_id[t])' = 1
      BY <2>4, <1>0, ConstAssumption DEF Age, NextId, TypeOK, Ids
    <2>6. \A u \in Threads : Waiting(u)' <=> (Waiting(u) \/ u = t)
      BY <2>1 DEF Waiting
    <2>7. Cardinality(WaitSet) \in Nat /\ Cardinality(AllocSet) \in Nat
      BY WaitAlloc, ThreadCard
    <2>8. Age(next_to_retire) \in 0 .. GroupCount - 2
      BY <1>0, <1>7, <2>7, WaitAlloc, ConstAssumption DEF CountInv, TypeOK, UpdateQp
    <2>9. ASSUME NEW u \in Threads, Waiting(u)
          PROVE  /\ Age(curr_id[u])' = Age(curr_id[u]) + 1 /\ qp'[u] = qp[u]
                 /\ Age(curr_id[u]) \in Nat
      <3>1. u # t /\ curr_id'[u] = curr_id[u] /\ qp'[u] = qp[u]
        BY <1>0, <2>1, <2>4, <2>9 DEF Waiting
      <3>2. Age(curr_id[u]) \in 1 .. GroupCount - 2
        BY <1>0, <2>8, <2>9, ConstAssumption DEF RingInv
      <3> QED
        BY <1>0, <2>4, <3>1, <3>2, ConstAssumption DEF Age, NextId, TypeOK, Ids
    <2>10. ASSUME NEW r \in Threads, NEW w \in Threads, refs'[r] \cap Pending(w)' # {}
           PROVE  /\ pc'[w] \notin {"retire", "callbacks"}
                  /\ Waiting(w)' => \E v \in Threads :
                        /\ Waiting(v)' /\ qp'[v] = qp'[r]
                        /\ Age(curr_id[v])' >= Age(curr_id[w])'
      <3>1. /\ refs[r] \cap Pending(w) # {} /\ pc[r] = "reading" /\ r # t
            /\ qp'[r] = qp[r]
        BY <1>0, <2>1, <2>2, <2>4, <2>10 DEF ReaderInv
      <3>2. pc'[w] \notin {"retire", "callbacks"}
        BY <1>0, <2>1, <3>1 DEF HoldInv
      <3>3. CASE w = t
        <4>1. CASE qp[r] = reader_idx
          BY <1>0, <2>4, <2>5, <2>6, <3>1, <3>2, <3>3, <4>1
        <4>2. ASSUME NEW v \in Threads, Waiting(v), qp[v] = qp[r]
              PROVE  Waiting(v)' /\ qp'[v] = qp'[r] /\ Age(curr_id[v])' >= Age(curr_id[w])'
          BY <2>5, <2>6, <2>9, <3>1, <3>3, <4>2
        <4> QED BY <1>0, <3>1, <3>2, <4>1, <4>2 DEF ReaderInv
      <3>4. CASE w # t /\ Waiting(w)'
        <4>1. Waiting(w)
          BY <2>6, <3>4
        <4>2. PICK v \in Threads : /\ Waiting(v) /\ qp[v] = qp[r]
                                   /\ Age(curr_id[v]) >= Age(curr_id[w])
          BY <1>0, <3>1, <4>1 DEF HoldInv
        <4> QED BY <2>6, <2>9, <3>1, <3>2, <4>1, <4>2
      <3> QED BY <3>2, <3>3, <3>4
    <2> QED BY <2>10 DEF HoldInv
  <1>8. ASSUME NEW t \in Threads, Drained(t) PROVE HoldInv'
    <2>1. /\ UNCHANGED <<refs, cbs, old, qp, curr_id, id_ctr>>
          /\ \A w : Pending(w)' = Pending(w)
          /\ \A u \in Threads : Age(curr_id[u])' = Age(curr_id[u])
      BY <1>8 DEF Drained, ringvars, Pending, Age
    <2>2. /\ Waiting(t) /\ pc'[t] = "retire" /\ curr_id[t] = next_to_retire
          /\ \A u \in Threads \ {t} : /\ Waiting(u)' <=> Waiting(u)
                                      /\ pc'[u] = pc[u] \/ (Waiting(u) /\ pc'[u] = "prior")
          /\ ~Waiting(t)'
      BY <1>0, <1>8 DEF Drained, Waiting, RingInv
    <2>3. ASSUME NEW r \in Threads, NEW w \in Threads, refs[r] \cap Pending(w) # {}
          PROVE  /\ pc'[w] \notin {"retire", "callbacks"}
                 /\ Waiting(w)' => \E v \in Threads :
                       /\ Waiting(v)' /\ qp[v] = qp[r]
                       /\ Age(curr_id[v]) >= Age(curr_id[w])
      <3>1. pc[r] = "reading" /\ qp[r] # qp[t]
        BY <1>0, <1>8, <2>3, DrainedEmpty DEF ReaderInv
      <3>2. CASE Waiting(w)
        <4>1. PICK v \in Threads : /\ Waiting(v) /\ qp[v] = qp[r]
                                   /\ Age(curr_id[v]) >= Age(curr_id[w])
          BY <1>0, <2>3, <3>2 DEF HoldInv
        <4>2. v # t
          BY <3>1, <4>1
        <4>3. w # t
          <5>1. /\ Age(curr_id[v]) \in 1 .. Age(next_to_retire)
                /\ curr_id[v] # curr_id[t] /\ Age(next_to_retire) \in Int
            BY <1>0, <2>2, <4>1, <4>2, ConstAssumption DEF RingInv, Age, TypeOK, Ids
          <5>2. Age(curr_id[v]) # Age(next_to_retire)
            BY <1>0, <2>2, <5>1, ConstAssumption DEF Age, TypeOK, Ids
          <5> QED BY <2>2, <4>1, <5>1, <5>2
        <4>4. pc'[w] \notin {"retire", "callbacks"}
          BY <2>2, <3>2, <4>3 DEF Waiting
        <4> QED BY <2>2, <4>1, <4>2, <4>4
      <3>3. CASE ~Waiting(w)
        <4>1. w # t /\ ~Waiting(w)' /\ pc'[w] = pc[w]
          BY <2>2, <3>3
        <4> QED BY <1>0, <2>3, <4>1 DEF HoldInv
      <3> QED BY <3>2, <3>3
    <2> QED BY <2>1, <2>3 DEF HoldInv
  <1>9. ASSUME NEW t \in Threads, RetireQp(t) PROVE HoldInv'
    <2>1. UNCHANGED <<id_ctr, curr_id, refs, cbs, old, qp>>
      BY <1>9 DEF RetireQp
    <2>2. \A w : Pending(w)' = Pending(w)
      BY <2>1 DEF Pending
    <2>3. /\ pc[t] = "retire" /\ pc'[t] = "callbacks"
          /\ \A u \in Threads \ {t} :
                pc'[u] = pc[u] \/ (pc[u] = "alloc_wait" /\ pc'[u] = "update_qp")
      BY <1>0, <1>9, SignalSteps
    <2>4. \A r \in Threads : refs[r] \cap Pending(t) = {}
      BY <1>0, <2>3 DEF HoldInv
    <2> QED BY <2>1, <2>2, <2>3, <2>4, <1>f DEF Waiting
  <1>10. ASSUME NEW t \in Threads, RunCallback(t) \/ SyncReturn(t) \/ LockFreed(t) PROVE HoldInv'
    <2>1. /\ UNCHANGED <<id_ctr, refs>> /\ pc[t] = "callbacks"
          /\ \A u \in Threads \ {t} :
                /\ pc'[u] = pc[u] /\ qp'[u] = qp[u] /\ curr_id'[u] = curr_id[u]
                /\ cbs'[u] = cbs[u] /\ old'[u] = old[u]
          /\ cbs'[t] \subseteq cbs[t] /\ old'[t] \in {old[t], None}
          /\ pc'[t] \in {"callbacks", "idle"}
      BY <1>0, <1>10 DEF RunCallback, SyncReturn, LockFreed, EndSync, ringvars
    <2>2. /\ Pending(t)' \subseteq Pending(t)
          /\ \A u \in Threads \ {t} : Pending(u)' = Pending(u) /\ Age(curr_id[u])' = Age(curr_id[u])
      BY <2>1 DEF Pending, Age
    <2>3. \A r \in Threads : refs[r] \cap Pending(t) = {}
      BY <1>0, <2>1 DEF HoldInv
    <2>4. /\ \A u \in Threads : (Waiting(u) <=> Waiting(u)') /\ (Waiting(u) => u # t)
          /\ refs[t] = {}
      BY <1>0, <2>1 DEF Waiting, ReaderInv
    <2>5. ASSUME NEW r \in Threads, NEW w \in Threads, refs'[r] \cap Pending(w)' # {}
          PROVE  w # t /\ r # t /\ refs[r] \cap Pending(w) # {}
      BY <2>1, <2>2, <2>3, <2>4, <2>5
    <2> QED BY <1>0, <2>1, <2>2, <2>4, <2>5 DEF HoldInv
  <1>11. CASE LockNew
    <2>1. \A u \in Threads : pc[u] = "idle"
      BY <1>11, ConstAssumption DEF LockNew, LifeInv, IndInv
    <2> QED BY <1>0, <1>11, <2>1 DEF LockNew, ReaderInv, HoldInv
  <1>12. CASE UNCHANGED vars
    BY <1>12, <1>f DEF vars, Waiting, Pending
  <1> QED
    BY <1>1, <1>2, <1>3, <1>4, <1>5, <1>6, <1>7, <1>8, <1>9, <1>10, <1>11, <1>12
    DEF Next, ReaderStep, WriterStep, SyncStep

\* What a synchronizer frees has no reader any more.
LEMMA FreeSafe ==
    ASSUME IndInv, NEW t \in Threads, pc[t] = "callbacks",
           NEW o \in Pending(t), NEW r \in Threads
    PROVE  o \notin refs[r] /\ o # ptr /\ o \in heap
  BY DEF IndInv, HoldInv, FreedOnce

\* What one step does to the published pointer, the heap and the references.
LEMMA DataSteps ==
    ASSUME IndInv, [Next]_vars
    PROVE  \/ UNCHANGED <<ptr, heap, refs>>
           \/ \E t \in Threads : Reclaim!Deref(t) \/ Reclaim!Leave(t)
           \/ Reclaim!Publish
           \/ \E o \in heap : Reclaim!Free(o)
  <1>0. TypeOK /\ None \notin Objs /\ old \in [Threads -> Objs \cup {None}] /\ heap \subseteq Objs
    BY ConstAssumption DEF IndInv, TypeOK
  <1>1. ASSUME NEW t \in Threads, Deref(t) PROVE Reclaim!Deref(t)
    BY <1>1 DEF Deref, Reclaim!Deref, datavars
  <1>2. ASSUME NEW t \in Threads, ReadUnlock(t)
        PROVE  Reclaim!Leave(t) \/ UNCHANGED <<ptr, heap, refs>>
    BY <1>2 DEF ReadUnlock, Reclaim!Leave, datavars
  <1>3. ASSUME NEW t \in Threads, Publish(t) PROVE Reclaim!Publish
    BY <1>3 DEF Publish, Reclaim!Publish
  <1>4. ASSUME NEW t \in Threads, RunCallback(t) PROVE \E o \in heap : Reclaim!Free(o)
    <2>1. PICK o \in cbs[t] : heap' = heap \ {o}
      BY <1>4 DEF RunCallback
    <2>2. pc[t] = "callbacks" /\ o \in Pending(t) /\ UNCHANGED <<ptr, refs>>
      BY <1>4, <2>1 DEF RunCallback, Pending
    <2> QED BY <2>1, <2>2, FreeSafe DEF Reclaim!Free
  <1>5. ASSUME NEW t \in Threads, SyncReturn(t)
        PROVE  UNCHANGED <<ptr, heap, refs>> \/ \E o \in heap : Reclaim!Free(o)
    <2>1. heap' = heap \ {old[t]} /\ pc[t] = "callbacks" /\ UNCHANGED <<ptr, refs>>
      BY <1>5 DEF SyncReturn, EndSync
    <2>2. CASE old[t] = None
      BY <1>0, <2>1, <2>2
    <2>3. CASE old[t] # None
      <3>1. old[t] \in Pending(t)
        BY <2>3 DEF Pending
      <3> QED BY <2>1, <3>1, FreeSafe DEF Reclaim!Free
    <2> QED BY <2>2, <2>3
  <1>6. ASSUME NEW t \in Threads,
               \/ ReadLock(t) \/ ReadAdd(t) \/ ReadCheck(t) \/ ReadSub(t) \/ ReadNest(t)
               \/ WriteLock(t) \/ WriteUnlock(t) \/ Synchronize(t) \/ UpdateQp(t)
               \/ AllocWait(t) \/ PriorLock(t) \/ Drained(t) \/ RetireQp(t)
               \/ SpuriousWakeup(t) \/ LockFree(t) \/ LockFreed(t)
        PROVE  UNCHANGED <<ptr, heap, refs>>
    BY <1>6
    DEF ReadLock, ReadAdd, ReadCheck, ReadSub, ReadNest, WriteLock, WriteUnlock, Synchronize,
        UpdateQp, AllocWait, PriorLock, Drained, RetireQp, SpuriousWakeup, LockFree, LockFreed,
        EndSync, TakeCallbacks, datavars
  <1>7. CASE LockNew
    BY <1>7 DEF LockNew, datavars
  <1>8. CASE UNCHANGED vars
    BY <1>8 DEF vars
  <1> QED
    BY <1>1, <1>2, <1>3, <1>4, <1>5, <1>6, <1>7, <1>8 DEF Next, ReaderStep, WriterStep, SyncStep

\* No step frees what a reader holds.
LEMMA NextNoUseAfterFree ==
    ASSUME IndInv, [Next]_vars
    PROVE  NoUseAfterFree'
  <1>0. /\ NoUseAfterFree /\ ptr \in heap /\ refs \in [Threads -> SUBSET Objs]
    BY DEF IndInv, FreedOnce, TypeOK
  <1>1. CASE UNCHANGED <<ptr, heap, refs>>
    BY <1>0, <1>1 DEF NoUseAfterFree
  <1>2. ASSUME NEW t \in Threads, Reclaim!Deref(t) \/ Reclaim!Leave(t) PROVE NoUseAfterFree'
    BY <1>0, <1>2 DEF NoUseAfterFree, Reclaim!Deref, Reclaim!Leave
  <1>3. CASE Reclaim!Publish
    BY <1>0, <1>3 DEF NoUseAfterFree, Reclaim!Publish
  <1>4. ASSUME NEW o \in heap, Reclaim!Free(o) PROVE NoUseAfterFree'
    BY <1>0, <1>4 DEF NoUseAfterFree, Reclaim!Free
  <1> QED BY <1>1, <1>2, <1>3, <1>4, DataSteps

\* The inductive invariant holds of a new lock.
LEMMA InitIndInv == Init => IndInv
  <1> SUFFICES ASSUME Init PROVE IndInv
    OBVIOUS
  <1>1. TypeOK /\ CountInv
    BY InitTypeCount DEF TypeCount
  <1>2. RingInv
    BY DEF Init, RingInv, Waiting
  <1>3. ReaderInv /\ HoldInv /\ NoUseAfterFree
    BY DEF Init, ReaderInv, HoldInv, NoUseAfterFree
  <1>4. \A t \in Threads : Pending(t) = {}
    BY DEF Init, Pending
  <1>5. FreedOnce /\ HeapInv
    BY <1>4 DEF Init, FreedOnce, HeapInv
  <1>6. LifeInv
    BY ConstAssumption DEF Init, LifeInv
  <1> QED BY <1>1, <1>2, <1>3, <1>5, <1>6 DEF IndInv

\* The inductive invariant is kept by every step.
LEMMA NextIndInv == IndInv /\ [Next]_vars => IndInv'
  <1> SUFFICES ASSUME IndInv, [Next]_vars PROVE IndInv'
    OBVIOUS
  <1>1. TypeOK /\ CountInv /\ RingInv /\ ReaderInv /\ FreedOnce /\ LifeInv /\ HeapInv
    BY DEF IndInv
  <1>2. TypeOK' /\ CountInv'
    BY <1>1, NextTypeCount DEF TypeCount
  <1>3. RingInv' /\ LifeInv' /\ FreedOnce' /\ HeapInv' /\ ReaderInv'
    BY <1>1, <1>2, NextRing, NextLife, NextHeap, NextReader DEF TypeCount
  <1>4. HoldInv' /\ NoUseAfterFree'
    BY NextHold, NextNoUseAfterFree
  <1> QED BY <1>2, <1>3, <1>4 DEF IndInv

\* Fewer than GroupCount steps along the ring never come back.
LEMMA QpAges ==
    ASSUME TypeOK, NEW j \in 1 .. GroupCount - 1, NEW k \in 1 .. GroupCount - 1
    PROVE  /\ QpAtAge(j) # current_alloc_idx
           /\ j # k => QpAtAge(j) # QpAtAge(k)
  <1>1. current_alloc_idx \in Nat /\ j \in Nat /\ k \in Nat /\ GroupCount \in Nat
    BY ConstAssumption DEF TypeOK, Qps
  <1> QED BY <1>1 DEF QpAtAge

----------------------------------------------------------------------------
(* The theorems.                                                           *)

\* IndInv is an inductive invariant of the RCU lock, for any number of
\* threads, objects and quiescent points.
THEOREM Inductive == Spec => []IndInv
  <1>1. Init => IndInv
    BY InitIndInv
  <1>2. IndInv /\ [Next]_vars => IndInv'
    BY NextIndInv
  <1> QED BY <1>1, <1>2, PTL DEF Spec

\* The state of the lock and of its users keeps its type; in particular
\* update_qp never allocates the last qp (writers_alloced < group_count).
THEOREM TypeCorrect == Spec => []TypeOK
  <1>1. IndInv => TypeOK
    BY DEF IndInv
  <1> QED BY <1>1, Inductive, PTL

\* ossl_synchronize_rcu gives a real grace period: no reader ever holds a
\* reference to an object that a callback or a writer has freed.
THEOREM ReadersSafe == Spec => []NoUseAfterFree
  <1>1. IndInv => NoUseAfterFree
    BY DEF IndInv
  <1> QED BY <1>1, Inductive, PTL

\* Callbacks are moved, never copied or lost: no object is freed twice.
THEOREM CallbacksOnce == Spec => []FreedOnce
  <1>1. IndInv => FreedOnce
    BY DEF IndInv
  <1> QED BY <1>1, Inductive, PTL

\* The users counter of every qp is exact, so it never underflows.
THEOREM CountersExact == Spec => []UsersExact
  <1>1. IndInv => UsersExact
    BY DEF IndInv, CountInv
  <1> QED BY <1>1, Inductive, PTL

\* Synchronizers never share a qp with each other or with new readers.
THEOREM SeparateQps == Spec => []OwnQp
  <1>1. ASSUME IndInv PROVE OwnQp
    <2>0. /\ TypeOK /\ CountInv /\ RingInv
          /\ qp \in [Threads -> Qps] /\ curr_id \in [Threads -> Ids]
          /\ Cardinality(WaitSet) \in Nat /\ Cardinality(AllocSet) \in Nat
      BY <1>1, WaitAlloc, ThreadCard DEF IndInv, TypeOK
    <2>1. Age(next_to_retire) \in 0 .. GroupCount - 1
      BY <2>0, WaitAlloc, ConstAssumption DEF CountInv, TypeOK
    <2>2. ASSUME NEW t \in Threads, Waiting(t)
          PROVE  /\ Age(curr_id[t]) \in 1 .. GroupCount - 1
                 /\ qp[t] = QpAtAge(Age(curr_id[t]))
      BY <2>0, <2>1, <2>2, ConstAssumption DEF RingInv
    <2>3. ASSUME NEW t \in Threads, Waiting(t) PROVE qp[t] # reader_idx
      BY <2>0, <2>2, <2>3, QpAges DEF RingInv
    <2>4. ASSUME NEW t \in Threads, NEW u \in Threads \ {t}, Waiting(t), Waiting(u)
          PROVE  qp[t] # qp[u] /\ curr_id[t] # curr_id[u]
      <3>1. curr_id[t] # curr_id[u]
        BY <2>0, <2>4 DEF RingInv
      <3>2. Age(curr_id[t]) # Age(curr_id[u])
        BY <2>0, <3>1, ConstAssumption DEF Age, TypeOK, Ids
      <3> QED BY <2>0, <2>2, <2>4, <3>1, <3>2, QpAges
    <2> QED BY <2>3, <2>4 DEF OwnQp
  <1> QED BY <1>1, Inductive, PTL

\* After ossl_rcu_lock_free nothing is left behind: the callbacks have run,
\* the counters are zero and only the published object remains.
THEOREM FreeIsClean == Spec => []CleanTeardown
  <1>1. ASSUME IndInv, ~alive
        PROVE  /\ \A i \in Qps : users[i] = 0
               /\ writers_alloced = 0 /\ next_to_retire = id_ctr
               /\ cb_items = {} /\ \A t \in Threads : Pending(t) = {}
               /\ heap = {ptr}
    <2>0. /\ TypeOK /\ CountInv /\ LifeInv /\ HeapInv /\ FreedOnce
      BY <1>1 DEF IndInv
    <2>1. \A t \in Threads : pc[t] = "idle" /\ old[t] = None
      BY <1>1, <2>0, ConstAssumption DEF LifeInv
    <2>2. \A i : Counted(i) = {}
      BY <2>1 DEF Counted
    <2>3. WaitSet = {} /\ AllocSet = {}
      BY <2>1 DEF WaitSet, AllocSet, Waiting
    <2>4. \A i \in Qps : users[i] = 0
      BY <2>0, <2>2, FS_EmptySet DEF CountInv, UsersExact
    <2>5. writers_alloced = 0 /\ next_to_retire = id_ctr
      <3>1. writers_alloced = 0 /\ Age(next_to_retire) = 0
        BY <2>0, <2>3, FS_EmptySet DEF CountInv
      <3> QED BY <2>0, <3>1, ConstAssumption DEF Age, TypeOK, Ids
    <2>6. cb_items = {}
      BY <1>1, <2>0 DEF LifeInv
    <2>7. \A t \in Threads : Pending(t) = {}
      BY <2>0, <2>1 DEF HeapInv, Pending, Syncing
    <2>8. heap = {ptr}
      BY <2>0, <2>6, <2>7 DEF HeapInv, FreedOnce
    <2> QED BY <2>4, <2>5, <2>6, <2>7, <2>8
  <1>2. IndInv => CleanTeardown
    BY <1>1 DEF CleanTeardown
  <1> QED BY <1>2, Inductive, PTL

\* No wakeup is lost: neither between update_qp, retire_qp and the threads that
\* wait for a qp, although each signal wakes one thread only, nor between the
\* thread that retires and those that wait for their turn, however many they are.
THEOREM WakeupsKept == Spec => []NoLostWakeup
  <1>1. Init => QpAwaited
    BY DEF Init, QpAwaited, Waiters
  <1>2. ASSUME TypeOK, LifeInv, QpAwaited, [Next]_vars PROVE QpAwaited'
    <2>0. pc \in [Threads -> PCs] /\ None \notin Threads /\ GroupCount \in Nat
          /\ writers_alloced \in Nat
      BY <1>2, ConstAssumption DEF TypeOK
    \* A step that wakes no thread, puts none to sleep and frees no qp.
    <2>f. ASSUME writers_alloced' = writers_alloced,
                 \A u \in Threads : /\ pc'[u] = "alloc_wait" => pc[u] = "alloc_wait"
                                    /\ pc[u] = "update_qp" => pc'[u] = "update_qp"
          PROVE  QpAwaited'
      BY <1>2, <2>f DEF QpAwaited, Waiters
    <2>1. ASSUME NEW t \in Threads, UpdateQp(t) \/ RetireQp(t) PROVE QpAwaited'
      <3>1. SignalAlloc([pc EXCEPT ![t] = "prior"]) \/ SignalAlloc([pc EXCEPT ![t] = "callbacks"])
        BY <2>1 DEF UpdateQp, RetireQp
      <3>2. CASE Waiters = {}
        BY <2>0, <3>1, <3>2 DEF SignalAlloc, QpAwaited, Waiters
      <3>3. CASE Waiters # {}
        <4>1. \E u \in Threads : pc'[u] = "update_qp"
          BY <2>0, <3>1, <3>3 DEF SignalAlloc, Waiters
        <4> QED BY <4>1 DEF QpAwaited
      <3> QED BY <3>2, <3>3
    <2>2. ASSUME NEW t \in Threads, AllocWait(t) PROVE QpAwaited'
      BY <2>0, <2>2 DEF AllocWait, QpAwaited, ringvars
    <2>3. ASSUME NEW t \in Threads, Synchronize(t) \/ LockFree(t) \/ SpuriousWakeup(t)
          PROVE QpAwaited'
      BY <2>0, <2>3, <2>f DEF Synchronize, LockFree, TakeCallbacks, SpuriousWakeup, ringvars
    <2>4. ASSUME NEW t \in Threads, ReaderStep(t) PROVE QpAwaited'
      BY <2>0, <2>4, <2>f
      DEF ReaderStep, ReadLock, MayEnter, ReadAdd, ReadCheck, ReadSub, ReadNest, Deref,
          ReadUnlock, ringvars
    <2>5. ASSUME NEW t \in Threads, WriteLock(t) \/ Publish(t) \/ WriteUnlock(t) PROVE QpAwaited'
      BY <2>0, <2>5, <2>f DEF WriteLock, MayEnter, Publish, WriteUnlock, ringvars
    <2>6. ASSUME NEW t \in Threads,
                 PriorLock(t) \/ Drained(t) \/ RunCallback(t) \/ SyncReturn(t) \/ LockFreed(t)
          PROVE QpAwaited'
      BY <2>0, <2>6, <2>f
      DEF PriorLock, Drained, RunCallback, SyncReturn, LockFreed, EndSync, ringvars
    <2>7. CASE LockNew
      <3>1. \A u \in Threads : pc'[u] = "idle"
        BY <1>2, <2>0, <2>7 DEF LockNew, LifeInv
      <3> QED BY <3>1 DEF QpAwaited, Waiters
    <2>8. CASE UNCHANGED vars
      BY <2>8, <2>f DEF vars
    <2> QED
      BY <1>2, <2>1, <2>2, <2>3, <2>4, <2>5, <2>6, <2>7, <2>8 DEF Next, WriterStep, SyncStep
  <1>3. Init => TurnAwaited
    BY DEF Init, TurnAwaited
  <1>4. ASSUME TypeOK, LifeInv, TurnAwaited, [Next]_vars PROVE TurnAwaited'
    <2>0. pc \in [Threads -> PCs] /\ curr_id \in [Threads -> Ids] /\ None \notin Threads
      BY <1>4, ConstAssumption DEF TypeOK
    \* A step that puts nobody to sleep before its turn and calls nobody's turn
    <2>f. ASSUME next_to_retire' = next_to_retire,
                 \A u \in Threads : pc'[u] = "prior_wait" =>
                    pc[u] = "prior_wait" /\ curr_id'[u] = curr_id[u]
          PROVE  TurnAwaited'
      BY <1>4, <2>f DEF TurnAwaited
    <2>1. ASSUME NEW t \in Threads, UpdateQp(t) \/ RetireQp(t) PROVE TurnAwaited'
      <3>1. /\ \/ SignalAlloc([pc EXCEPT ![t] = "prior"])
               \/ SignalAlloc([pc EXCEPT ![t] = "callbacks"])
            /\ next_to_retire' = next_to_retire
            /\ \A u \in Threads \ {t} : curr_id'[u] = curr_id[u]
        BY <2>0, <2>1 DEF UpdateQp, RetireQp
      <3>2. \A u \in Threads : pc'[u] = "prior_wait" => u # t /\ pc[u] = "prior_wait"
        BY <2>0, <3>1 DEF SignalAlloc, Waiters
      <3> QED BY <2>f, <3>1, <3>2
    <2>2. ASSUME NEW t \in Threads, PriorLock(t) PROVE TurnAwaited'
      BY <1>4, <2>0, <2>2 DEF PriorLock, TurnAwaited
    <2>3. ASSUME NEW t \in Threads, Drained(t) PROVE TurnAwaited'
      BY <2>0, <2>3 DEF Drained, TurnAwaited
    <2>4. ASSUME NEW t \in Threads, ReaderStep(t) PROVE TurnAwaited'
      BY <2>0, <2>4, <2>f
      DEF ReaderStep, ReadLock, MayEnter, ReadAdd, ReadCheck, ReadSub, ReadNest, Deref,
          ReadUnlock, ringvars
    <2>5. ASSUME NEW t \in Threads,
                 \/ WriteLock(t) \/ Publish(t) \/ WriteUnlock(t) \/ Synchronize(t) \/ LockFree(t)
                 \/ AllocWait(t) \/ SpuriousWakeup(t)
          PROVE TurnAwaited'
      BY <2>0, <2>5, <2>f
      DEF WriteLock, MayEnter, Publish, WriteUnlock, Synchronize, LockFree, TakeCallbacks,
          AllocWait, SpuriousWakeup, ringvars
    <2>6. ASSUME NEW t \in Threads, RunCallback(t) \/ SyncReturn(t) \/ LockFreed(t)
          PROVE TurnAwaited'
      BY <2>0, <2>6, <2>f DEF RunCallback, SyncReturn, LockFreed, EndSync, ringvars
    <2>7. CASE LockNew
      <3>1. \A u \in Threads : pc'[u] = "idle"
        BY <1>4, <2>0, <2>7 DEF LockNew, LifeInv
      <3> QED BY <3>1 DEF TurnAwaited
    <2>8. CASE UNCHANGED vars
      BY <2>8, <2>f DEF vars
    <2> QED
      BY <1>4, <2>1, <2>2, <2>3, <2>4, <2>5, <2>6, <2>7, <2>8 DEF Next, WriterStep, SyncStep
  <1>5. IndInv => TypeOK /\ LifeInv
    BY DEF IndInv
  <1>6. QpAwaited /\ TurnAwaited => NoLostWakeup
    BY DEF NoLostWakeup
  <1> QED BY <1>1, <1>2, <1>3, <1>4, <1>5, <1>6, Inductive, PTL DEF Spec

\* The RCU lock implements safe reclamation: seen through the published
\* pointer, the heap and the readers' references, every step is one of
\* SafeReclaim's or changes none of them.
THEOREM Refinement == Spec => ImplementsSafeReclaim
  <1>1. Init => Reclaim!Init
    BY DEF Init, Reclaim!Init
  <1>2. IndInv /\ [Next]_vars => [Reclaim!Next]_(Reclaim!vars)
    BY DataSteps DEF Reclaim!Next, Reclaim!vars
  <1> QED BY <1>1, <1>2, Inductive, PTL DEF Spec, ImplementsSafeReclaim, Reclaim!Spec
=============================================================================
