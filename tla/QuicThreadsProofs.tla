------------------------- MODULE QuicThreadsProofs -------------------------
(***************************************************************************)
(* Proofs about QuicThreads, for any numbers of threads of each kind, any  *)
(* streams and any datagrams, with SSL_poll calls of one item.  (With more *)
(* items an aborted wait leaves sections entered: SectionsLeft.)           *)
(***************************************************************************)
EXTENDS QuicThreads, FiniteSetTheorems, TLAPS

\* Every SSL_poll call names one object.
OneItem == Len(Items) = 1

(***************************************************************************)
(* Counting the threads inside a section.                                  *)
(***************************************************************************)
Inside == {t \in Apps : InSection(t)}

\* There are finitely many threads.
LEMMA InsideFinite == IsFiniteSet(Inside) /\ IsFiniteSet(Inside)'
  BY ThreadsAssumption, FS_Subset DEF Inside

\* Who is inside is a matter of where the threads are.
LEMMA InsidePlaces ==
    ASSUME TypeOK, SectionsExact
    PROVE  /\ Inside = {t \in Readers : pc[t] \in {"poll", "leave"}}
                 \cup {t \in Pollers : pc[t] \in {"recheck", "poll", "leave", "abort"}}
           /\ WaitersExact <=> waiters = Cardinality(Inside)
  <1>1. \A p \in Pollers : count[p] > 0 <=> pc[p] \in {"recheck", "poll", "leave", "abort"}
    BY DEF TypeOK, SectionsExact
  <1> QED BY <1>1 DEF Inside, InSection, Apps, WaitersExact

\* A step that takes nobody in or out.
LEMMA NobodyMoves ==
    ASSUME WaitersExact, waiters' = waiters, Inside' = Inside
    PROVE  WaitersExact'
  BY DEF WaitersExact, Inside

\* One thread more is inside.
LEMMA OneEnters ==
    ASSUME WaitersExact, NEW t, t \notin Inside, waiters' = waiters + 1, Inside' = Inside \cup {t}
    PROVE  WaitersExact'
  <1>1. Cardinality(Inside \cup {t}) = Cardinality(Inside) + 1
    BY InsideFinite, FS_AddElement
  <1> QED BY <1>1 DEF WaitersExact, Inside

\* One thread less is inside.
LEMMA OneLeaves ==
    ASSUME WaitersExact, NEW t, t \in Inside, waiters' = waiters - 1, Inside' = Inside \ {t}
    PROVE  WaitersExact'
  <1>1. Cardinality(Inside \ {t}) = Cardinality(Inside) - 1
    BY InsideFinite, FS_RemoveElement
  <1> QED BY <1>1 DEF WaitersExact, Inside

\* Who is inside is counted.
LEMMA InsideCounted ==
    ASSUME WaitersExact, NEW t \in Inside
    PROVE  waiters \in Nat /\ waiters >= 1
  <1>1. waiters = Cardinality(Inside) /\ waiters \in Nat
    BY InsideFinite, FS_CardinalityType DEF WaitersExact, Inside
  <1>2. Inside # {}
    OBVIOUS
  <1>3. Cardinality(Inside) # 0
    BY <1>2, InsideFinite, FS_EmptySet
  <1> QED BY <1>1, <1>3

(***************************************************************************)
(* The threads: the kinds are disjoint, and a step moves one of them.      *)
(***************************************************************************)
\* A thread is of one kind.
LEMMA Kinds ==
    /\ Assist \in Threads /\ Assist \notin Readers /\ Assist \notin Pollers /\ Assist \notin Handlers
    /\ Nobody \notin Threads
    /\ \A t \in Threads : t \in Readers \/ t \in Pollers \/ t \in Handlers \/ t = Assist
    /\ \A t \in Readers : t \in Threads /\ t \in Apps /\ t \notin Pollers /\ t \notin Handlers
    /\ \A t \in Pollers : t \in Threads /\ t \in Apps /\ t \notin Readers /\ t \notin Handlers
    /\ \A t \in Handlers : t \in Threads /\ t \in Apps /\ t \notin Readers /\ t \notin Pollers
  BY ThreadsAssumption DEF Threads, Apps

\* The places in the code at which thread t can be.
Labels(t) ==
    IF t \in Readers THEN ReaderLabels
    ELSE IF t \in Pollers THEN PollerLabels
    ELSE IF t \in Handlers THEN {"idle", "tick", "notify"} ELSE AssistLabels

\* Roles, thread by thread.
LEMMA RolesLabels ==
    ASSUME TypeOK
    PROVE  Roles <=> \A t \in Threads : pc[t] \in Labels(t)
  BY Kinds DEF Roles, Labels

\* A thread that goes to a label of its kind.
LEMMA Moved ==
    ASSUME TypeOK, Roles, NEW t \in Threads, NEW l \in Labels(t), pc' = [pc EXCEPT ![t] = l]
    PROVE  /\ pc' \in [Threads -> PollerLabels \cup AssistLabels]
           /\ pc'[t] = l /\ \A u \in Threads : u # t => pc'[u] = pc[u]
           /\ Roles'
  <1>1. pc \in [Threads -> PollerLabels \cup AssistLabels]
    BY DEF TypeOK
  <1>2. l \in PollerLabels \cup AssistLabels
    BY DEF Labels, ReaderLabels, PollerLabels, AssistLabels
  <1>3. /\ pc' \in [Threads -> PollerLabels \cup AssistLabels]
        /\ pc'[t] = l /\ \A u \in Threads : u # t => pc'[u] = pc[u]
    BY <1>1, <1>2
  <1>4. Roles'
    BY <1>3, Kinds DEF Roles, Labels
  <1> QED BY <1>3, <1>4

\* The labels at which a thread of each kind is inside.
InsideLabels(t) == IF t \in Readers THEN {"poll", "leave"}
                   ELSE IF t \in Pollers THEN {"recheck", "poll", "leave", "abort"} ELSE {}

\* The move of one thread changes who is inside by that thread at most.
LEMMA InsideMoved ==
    ASSUME TypeOK, SectionsExact, TypeOK', SectionsExact', NEW t \in Threads, NEW l,
           pc'[t] = l, \A u \in Threads : u # t => pc'[u] = pc[u]
    PROVE  /\ t \in Inside <=> pc[t] \in InsideLabels(t)
           /\ Inside' = IF l \in InsideLabels(t) THEN Inside \cup {t} ELSE Inside \ {t}
  <1>1. Inside = {u \in Threads : pc[u] \in InsideLabels(u)}
    BY InsidePlaces, Kinds DEF InsideLabels
  <1>2. Inside' = {u \in Threads : pc'[u] \in InsideLabels(u)}
    <2>1. \A p \in Pollers : count'[p] > 0 <=> pc'[p] \in {"recheck", "poll", "leave", "abort"}
      BY DEF TypeOK, SectionsExact
    <2> QED BY <2>1, Kinds DEF Inside, InSection, Apps, InsideLabels
  <1> QED BY <1>1, <1>2

(***************************************************************************)
(* The parts of a step.                                                    *)
(***************************************************************************)
\* What Continue does.
LEMMA ContinueStep ==
    ASSUME NEW t \in Threads, NEW l, Continue(t, l)
    PROVE  pc' = [pc EXCEPT ![t] = l] /\ owner' \in Threads \cup {Nobody}
  BY DEF Continue, Goto

\* A thread that has left its section: nobody sleeps on unless the notifier is
\* signalled, and then somebody is left to clear it.
LEMMA LeaveStep ==
    ASSUME ThreadsInv, NEW t \in Inside, t \in Threads, NEW l, LeaveBlockingSection(t, l)
    PROVE  /\ \E m \in {l, "left"} : pc' = [pc EXCEPT ![t] = m]
           /\ owner' \in Threads \cup {Nobody}
           /\ waiters' = waiters - 1 /\ waiters' \in Nat
           /\ signalled' \in BOOLEAN /\ asleep' \subseteq Threads /\ NotifierWillClear'
  <1>1. waiters \in Nat /\ waiters >= 1
    BY InsideCounted DEF ThreadsInv
  <1>2. TypeOK /\ NotifierWillClear /\ waiters' = waiters - 1
    BY DEF ThreadsInv, LeaveBlockingSection
  <1>3. CASE ~signalled
    <2>1. Continue(t, l) /\ UNCHANGED <<signalled, asleep>>
      BY <1>3 DEF LeaveBlockingSection
    <2> QED BY <1>1, <1>2, <1>3, <2>1, ContinueStep DEF TypeOK, NotifierWillClear
  <1>4. CASE signalled /\ waiters = 1
    <2>1. Continue(t, l) /\ signalled' = FALSE /\ asleep' = {}
      BY <1>4 DEF LeaveBlockingSection
    <2>2. waiters' \in Nat /\ NotifierWillClear'
      BY <1>1, <1>2, <1>4, <2>1 DEF NotifierWillClear
    <2>3. signalled' \in BOOLEAN /\ asleep' \subseteq Threads
      BY <2>1
    <2> QED BY <1>2, <2>1, <2>2, <2>3, ContinueStep
  <1>5. CASE signalled /\ waiters # 1
    <2>1. /\ asleep' = asleep \cup {t} /\ pc' = [pc EXCEPT ![t] = "left"] /\ owner' = Nobody
          /\ UNCHANGED signalled
      BY <1>5 DEF LeaveBlockingSection, Goto
    <2> QED BY <1>1, <1>2, <1>5, <2>1 DEF TypeOK, NotifierWillClear
  <1> QED BY <1>3, <1>4, <1>5

\* What is left to show of a step of a thread in the reactor.
LEMMA ReactorKept ==
    ASSUME ThreadsInv, TypeOK', Roles', SectionsExact', WaitersExact', NotifierWillClear',
           UNCHANGED joinVars
    PROVE  ThreadsInv'
  BY DEF ThreadsInv, JoinsInv, joinVars

\* A step that takes its thread neither in nor out.
LEMMA Within ==
    ASSUME ThreadsInv, TypeOK', Roles', SectionsExact', NotifierWillClear',
           UNCHANGED joinVars, waiters' = waiters, NEW t \in Threads, NEW l,
           pc'[t] = l, \A u \in Threads : u # t => pc'[u] = pc[u],
           l \in InsideLabels(t) <=> pc[t] \in InsideLabels(t)
    PROVE  ThreadsInv'
  <1>1. TypeOK /\ SectionsExact /\ WaitersExact
    BY DEF ThreadsInv
  <1>2. Inside' = Inside
    BY <1>1, InsideMoved
  <1> QED BY <1>1, <1>2, NobodyMoves, ReactorKept

\* ossl_quic_reactor_tick signals the notifier only when somebody is inside.
LEMMA TickStep ==
    ASSUME ThreadsInv, NEW t \in Threads, Tick(t), UNCHANGED <<joinVars, assistVars>>
    PROVE  ThreadsInv'
  <1>i. TypeOK /\ Roles /\ SectionsExact /\ WaitersExact /\ NotifierWillClear
    BY DEF ThreadsInv
  <1>u. /\ UNCHANGED <<running, waiters, arrived, item, hits, count, ok, thread, join_pc, join_asleep,
                       reaped, teardown, dozing>>
        /\ pc[t] = "tick"
    BY DEF Tick, pollv, joinVars, assistVars
  <1>l. AfterTick(t) \in Labels(t) /\ AfterTick(t) \notin InsideLabels(t) /\ AfterTick(t) \in {"idle", "loop", "test"}
    BY Kinds DEF AfterTick, Labels, InsideLabels, ReaderLabels, PollerLabels, AssistLabels
  <1>n. /\ \E l \in {AfterTick(t), "notify"} : pc' = [pc EXCEPT ![t] = l]
        /\ owner' \in Threads \cup {Nobody}
        /\ signalled' \in BOOLEAN /\ asleep' \subseteq Threads /\ NotifierWillClear'
    <2>1. CASE NotifyOtherThreads(t, AfterTick(t))
      <3>1. CASE waiters = 0
        BY <1>i, <1>u, <2>1, <3>1, ContinueStep DEF NotifyOtherThreads, TypeOK, NotifierWillClear
      <3>2. CASE waiters # 0
        <4>1. /\ pc' = [pc EXCEPT ![t] = "notify"] /\ owner' = Nobody
              /\ signalled' = TRUE /\ asleep' = asleep \cup {t}
          BY <2>1, <3>2 DEF NotifyOtherThreads, Goto
        <4>2. waiters' > 0
          BY <1>i, <1>u, <3>2 DEF TypeOK
        <4> QED BY <1>i, <4>1, <4>2 DEF TypeOK, NotifierWillClear
      <3> QED BY <3>1, <3>2
    <2>2. CASE Continue(t, AfterTick(t)) /\ UNCHANGED <<signalled, asleep>>
      BY <1>i, <1>u, <2>2, ContinueStep DEF TypeOK, NotifierWillClear
    <2> QED BY <2>1, <2>2 DEF Tick
  <1>d. net' \subseteq Streams /\ ready' \subseteq Streams /\ terminated' \in BOOLEAN
    BY <1>i DEF Tick, TypeOK
  <1>p. PICK l \in {AfterTick(t), "notify"} : pc' = [pc EXCEPT ![t] = l]
    BY <1>n
  <1>q. l \in Labels(t) /\ l \notin InsideLabels(t) /\ l \in {"idle", "loop", "test", "notify"}
    BY <1>l, Kinds DEF Labels, InsideLabels, ReaderLabels, PollerLabels, AssistLabels
  <1>m. /\ pc' \in [Threads -> PollerLabels \cup AssistLabels]
        /\ pc'[t] = l /\ \A u \in Threads : u # t => pc'[u] = pc[u]
        /\ Roles'
    BY <1>i, <1>p, <1>q, Moved
  <1>1. TypeOK'
    BY <1>i, <1>u, <1>n, <1>d, <1>m DEF TypeOK
  <1>2. SectionsExact'
    BY <1>i, <1>u, <1>m, <1>q, Kinds DEF SectionsExact
  <1> QED BY <1>1, <1>2, <1>m, <1>n, <1>q, <1>u, Within DEF joinVars, InsideLabels

\* A thread whose wait for notifier_cv returns sleeps again or goes on.
LEMMA AwakeStep ==
    ASSUME ThreadsInv, NEW t \in Threads, Awake(t), UNCHANGED <<joinVars, assistVars>>
    PROVE  ThreadsInv'
  <1>i. TypeOK /\ Roles /\ SectionsExact /\ WaitersExact /\ NotifierWillClear
    BY DEF ThreadsInv
  <1>u. /\ UNCHANGED <<running, waiters, signalled, net, ready, terminated, arrived, item, hits, count,
                       ok, thread, join_pc, join_asleep, reaped, teardown, dozing>>
        /\ pc[t] \in {"notify", "left"}
    BY DEF Awake, io, pollv, joinVars, assistVars
  <1>1. CASE signalled
    <2>1. asleep' = asleep \cup {t} /\ UNCHANGED <<owner, pc>>
      BY <1>1 DEF Awake
    <2>2. TypeOK' /\ Roles' /\ SectionsExact'
      BY <1>i, <1>u, <2>1 DEF TypeOK, Roles, SectionsExact
    <2>3. NotifierWillClear'
      BY <1>i, <1>u, <1>1 DEF NotifierWillClear
    <2> QED BY <1>u, <2>1, <2>2, <2>3, Within DEF joinVars
  <1>2. CASE ~signalled
    <2> DEFINE l == IF pc[t] = "notify" THEN AfterTick(t) ELSE AfterLeave(t)
    <2>1. Continue(t, l) /\ UNCHANGED asleep
      BY <1>2 DEF Awake
    <2>2. l \in Labels(t) /\ l \in {"idle", "loop", "test", "tick"}
      BY <1>i, <1>u, Kinds
      DEF AfterTick, AfterLeave, Labels, Roles, ReaderLabels, PollerLabels, AssistLabels
    <2> HIDE DEF l
    <2>3. pc' = [pc EXCEPT ![t] = l] /\ owner' \in Threads \cup {Nobody}
      BY <2>1, ContinueStep
    <2>4. /\ pc' \in [Threads -> PollerLabels \cup AssistLabels]
          /\ pc'[t] = l /\ \A u \in Threads : u # t => pc'[u] = pc[u]
          /\ Roles'
      BY <1>i, <2>2, <2>3, Moved
    <2>5. TypeOK' /\ NotifierWillClear'
      BY <1>i, <1>u, <2>1, <2>3, <2>4 DEF TypeOK, NotifierWillClear
    <2>6. SectionsExact'
      BY <1>i, <1>u, <2>2, <2>4, Kinds DEF SectionsExact
    <2> QED BY <1>u, <2>2, <2>4, <2>5, <2>6, Within DEF joinVars, InsideLabels
  <1> QED BY <1>1, <1>2

\* A new call of SSL_read, SSL_poll or SSL_handle_events starts outside.
LEMMA CallStep ==
    ASSUME ThreadsInv, NEW t \in Apps, Call(t), UNCHANGED <<joinVars, assistVars>>
    PROVE  ThreadsInv'
  <1>i. TypeOK /\ Roles /\ SectionsExact /\ WaitersExact /\ NotifierWillClear
    BY DEF ThreadsInv
  <1>k. t \in Threads /\ t # Assist /\ "tick" \in Labels(t)
    BY Kinds DEF Threads, Apps, Labels, ReaderLabels, PollerLabels, AssistLabels
  <1>u. /\ UNCHANGED <<running, owner, waiters, signalled, asleep, net, ready, terminated, arrived,
                       thread, join_pc, join_asleep, reaped, teardown, dozing>>
        /\ pc[t] = "idle" /\ pc' = [pc EXCEPT ![t] = "tick"] /\ ok' = [ok EXCEPT ![t] = TRUE]
    BY DEF Call, Goto, rtor, io, joinVars, assistVars
  <1>c. /\ item' \in [Pollers -> 1 .. Len(Items)] /\ hits' \in [Pollers -> BOOLEAN]
        /\ count' \in [Pollers -> Nat]
        /\ \A p \in Pollers : count'[p] = IF p = t THEN 0 ELSE count[p]
    <2>1. 1 \in 1 .. Len(Items)
      BY ThreadsAssumption
    <2>2. CASE t \in Pollers
      <3>1. /\ item' = [item EXCEPT ![t] = 1] /\ hits' = [hits EXCEPT ![t] = FALSE]
            /\ count' = [count EXCEPT ![t] = 0]
        BY <2>2 DEF Call
      <3> QED BY <1>i, <2>1, <3>1 DEF TypeOK
    <2>3. CASE t \notin Pollers
      BY <1>i, <2>3 DEF Call, pollv, TypeOK
    <2> QED BY <2>2, <2>3
  <1>m. /\ pc' \in [Threads -> PollerLabels \cup AssistLabels]
        /\ pc'[t] = "tick" /\ \A u \in Threads : u # t => pc'[u] = pc[u]
        /\ Roles'
    BY <1>i, <1>k, <1>u, Moved
  <1>1. TypeOK'
    BY <1>i, <1>u, <1>c, <1>m DEF TypeOK
  <1>2. SectionsExact'
    BY <1>i, <1>u, <1>c, <1>m, Kinds DEF SectionsExact
  <1>3. NotifierWillClear'
    BY <1>i, <1>u DEF NotifierWillClear
  <1> QED BY <1>k, <1>1, <1>2, <1>3, <1>m, <1>u, Within DEF joinVars, InsideLabels

\* The network changes nothing that is counted.
LEMMA ArriveStep ==
    ASSUME ThreadsInv, NEW s \in Streams, Arrive(s), UNCHANGED <<joinVars, assistVars>>
    PROVE  ThreadsInv'
  <1>i. TypeOK /\ Roles /\ SectionsExact /\ WaitersExact /\ NotifierWillClear
    BY DEF ThreadsInv
  <1>u. /\ UNCHANGED <<running, owner, pc, waiters, signalled, asleep, ready, terminated, item, hits,
                       count, ok, thread, join_pc, join_asleep, reaped, teardown, dozing>>
        /\ net' = net \cup {s} /\ arrived' = arrived + 1
    BY DEF Arrive, rtor, pollv, joinVars, assistVars
  <1>1. TypeOK'
    BY <1>i, <1>u DEF TypeOK
  <1>2. Roles' /\ SectionsExact' /\ NotifierWillClear'
    BY <1>i, <1>u DEF Roles, SectionsExact, NotifierWillClear
  <1> QED BY <1>1, <1>2, <1>u, Kinds, Within DEF joinVars

\* A thread that returns from the operating system's poll is still inside.
LEMMA PollStep ==
    ASSUME ThreadsInv, NEW t \in Threads, PollWakes(t) \/ PollEnds(t),
           UNCHANGED <<joinVars, assistVars>>
    PROVE  ThreadsInv'
  <1>i. TypeOK /\ Roles /\ SectionsExact /\ WaitersExact /\ NotifierWillClear
    BY DEF ThreadsInv
  <1>u. /\ UNCHANGED <<running, waiters, signalled, asleep, net, ready, terminated, arrived, item, hits,
                       count, thread, join_pc, join_asleep, reaped, teardown, dozing>>
        /\ pc[t] = "poll" /\ pc' = [pc EXCEPT ![t] = "leave"]
        /\ owner' \in Threads \cup {Nobody}
    BY ContinueStep DEF PollWakes, PollEnds, rtor, io, pollv, joinVars, assistVars
  <1>o. ok' \in [Threads -> BOOLEAN]
    BY <1>i DEF PollWakes, PollEnds, TypeOK
  <1>k. "leave" \in Labels(t) /\ (t \in Readers \/ t \in Pollers)
    BY <1>i, <1>u, Kinds DEF Roles, Labels, ReaderLabels, PollerLabels, AssistLabels
  <1>m. /\ pc' \in [Threads -> PollerLabels \cup AssistLabels]
        /\ pc'[t] = "leave" /\ \A u \in Threads : u # t => pc'[u] = pc[u]
        /\ Roles'
    BY <1>i, <1>k, <1>u, Moved
  <1>1. TypeOK'
    BY <1>i, <1>u, <1>o, <1>m DEF TypeOK
  <1>2. SectionsExact'
    BY <1>i, <1>u, <1>m, Kinds DEF SectionsExact
  <1>3. NotifierWillClear'
    BY <1>i, <1>u DEF NotifierWillClear
  <1> QED BY <1>k, <1>1, <1>2, <1>3, <1>m, <1>u, Within DEF joinVars, InsideLabels

\* A blocking call takes its data, or enters.
LEMMA TestPredStep ==
    ASSUME ThreadsInv, NEW t \in Threads, TestPred(t), UNCHANGED <<joinVars, assistVars>>
    PROVE  ThreadsInv'
  <1>i. TypeOK /\ Roles /\ SectionsExact /\ WaitersExact /\ NotifierWillClear
    BY DEF ThreadsInv
  <1>u. /\ UNCHANGED <<running, signalled, asleep, net, terminated, arrived, item, hits, count, ok,
                       thread, join_pc, join_asleep, reaped, teardown, dozing>>
        /\ pc[t] = "test" /\ t \in Readers
    BY DEF TestPred, pollv, joinVars, assistVars
  <1>k. "idle" \in Labels(t) /\ "poll" \in Labels(t) /\ t \notin Pollers
    BY <1>u, Kinds DEF Labels, ReaderLabels
  <1>1. CASE IsReady(t)
    <2>1. ready' = ready \ {t} /\ pc' = [pc EXCEPT ![t] = "idle"] /\ UNCHANGED waiters
          /\ owner' \in Threads \cup {Nobody}
      BY <1>1, ContinueStep DEF TestPred
    <2>2. /\ pc' \in [Threads -> PollerLabels \cup AssistLabels]
          /\ pc'[t] = "idle" /\ \A u \in Threads : u # t => pc'[u] = pc[u]
          /\ Roles'
      BY <1>i, <1>k, <2>1, Moved
    <2>3. TypeOK'
      BY <1>i, <1>u, <2>1, <2>2 DEF TypeOK
    <2>4. SectionsExact' /\ NotifierWillClear'
      BY <1>i, <1>u, <1>k, <2>1, <2>2, Kinds DEF SectionsExact, NotifierWillClear
    <2> QED BY <1>u, <2>1, <2>2, <2>3, <2>4, Within DEF joinVars, InsideLabels
  <1>2. CASE ~IsReady(t)
    <2>1. waiters' = waiters + 1 /\ pc' = [pc EXCEPT ![t] = "poll"] /\ UNCHANGED ready
          /\ owner' \in Threads \cup {Nobody}
      BY <1>2, ContinueStep DEF TestPred
    <2>2. /\ pc' \in [Threads -> PollerLabels \cup AssistLabels]
          /\ pc'[t] = "poll" /\ \A u \in Threads : u # t => pc'[u] = pc[u]
          /\ Roles'
      BY <1>i, <1>k, <2>1, Moved
    <2>3. TypeOK'
      BY <1>i, <1>u, <2>1, <2>2 DEF TypeOK
    <2>4. SectionsExact'
      BY <1>i, <1>u, <1>k, <2>1, <2>2, Kinds DEF SectionsExact
    <2>5. NotifierWillClear'
      BY <1>i, <1>u, <2>1 DEF NotifierWillClear, TypeOK
    <2>6. t \notin Inside /\ Inside' = Inside \cup {t}
      BY <1>i, <1>u, <2>2, <2>3, <2>4, InsideMoved DEF InsideLabels
    <2>7. WaitersExact'
      BY <1>i, <2>1, <2>6, OneEnters
    <2> QED BY <1>u, <2>2, <2>3, <2>4, <2>5, <2>7, ReactorKept DEF joinVars
  <1> QED BY <1>1, <1>2

\* A blocking call leaves its section also when its poll failed.
LEMMA LeavePredStep ==
    ASSUME ThreadsInv, NEW t \in Threads, LeavePred(t), UNCHANGED <<joinVars, assistVars>>
    PROVE  ThreadsInv'
  <1>i. TypeOK /\ Roles /\ SectionsExact /\ WaitersExact /\ NotifierWillClear
    BY DEF ThreadsInv
  <1>u. /\ UNCHANGED <<running, net, ready, terminated, arrived, item, hits, count, ok,
                       thread, join_pc, join_asleep, reaped, teardown, dozing>>
        /\ pc[t] = "leave" /\ t \in Readers /\ LeaveBlockingSection(t, AfterLeave(t))
    BY DEF LeavePred, io, pollv, joinVars, assistVars
  <1>k. t \in Inside /\ t \notin Pollers
    BY <1>i, <1>u, InsidePlaces, Kinds
  <1>n. /\ \E m \in {AfterLeave(t), "left"} : pc' = [pc EXCEPT ![t] = m]
        /\ owner' \in Threads \cup {Nobody}
        /\ waiters' = waiters - 1 /\ waiters' \in Nat
        /\ signalled' \in BOOLEAN /\ asleep' \subseteq Threads /\ NotifierWillClear'
    BY <1>k, <1>u, LeaveStep
  <1>p. PICK l \in {AfterLeave(t), "left"} : pc' = [pc EXCEPT ![t] = l]
    BY <1>n
  <1>q. l \in Labels(t) /\ l \notin InsideLabels(t)
    BY <1>u DEF AfterLeave, Labels, InsideLabels, ReaderLabels
  <1>m. /\ pc' \in [Threads -> PollerLabels \cup AssistLabels]
        /\ pc'[t] = l /\ \A u \in Threads : u # t => pc'[u] = pc[u]
        /\ Roles'
    BY <1>i, <1>p, <1>q, Moved
  <1>1. TypeOK'
    BY <1>i, <1>u, <1>n, <1>m DEF TypeOK
  <1>2. SectionsExact'
    BY <1>i, <1>u, <1>k, <1>m, Kinds DEF SectionsExact
  <1>3. WaitersExact'
    <2>1. Inside' = Inside \ {t}
      BY <1>i, <1>1, <1>2, <1>m, <1>q, InsideMoved
    <2> QED BY <1>i, <1>k, <1>n, <2>1, OneLeaves
  <1> QED BY <1>1, <1>2, <1>3, <1>m, <1>n, <1>u, ReactorKept DEF joinVars

\* The readout of SSL_poll enters nothing.
LEMMA ReadoutStep ==
    ASSUME OneItem, ThreadsInv, NEW t \in Threads, Readout(t), UNCHANGED <<joinVars, assistVars>>
    PROVE  ThreadsInv'
  <1>i. TypeOK /\ Roles /\ SectionsExact /\ WaitersExact /\ NotifierWillClear
    BY DEF ThreadsInv
  <1>u. /\ UNCHANGED <<running, waiters, signalled, asleep, net, ready, terminated, arrived, count, ok,
                       thread, join_pc, join_asleep, reaped, teardown, dozing>>
        /\ pc[t] = "test" /\ t \in Pollers
    BY DEF Readout, rtor, io, joinVars, assistVars
  <1>o. item[t] = Len(Items) /\ item[t] = 1
    BY <1>i, <1>u DEF TypeOK, OneItem
  <1>d. /\ \E l \in {"idle", "enter"} : Continue(t, l)
        /\ item' = [item EXCEPT ![t] = 1] /\ hits' = [hits EXCEPT ![t] = FALSE]
    BY <1>o DEF Readout
  <1>p. PICK l \in {"idle", "enter"} : Continue(t, l)
    BY <1>d
  <1>c. pc' = [pc EXCEPT ![t] = l] /\ owner' \in Threads \cup {Nobody}
    BY <1>p, ContinueStep
  <1>q. l \in Labels(t) /\ l \notin InsideLabels(t)
    BY <1>u, Kinds DEF Labels, InsideLabels, PollerLabels, ReaderLabels
  <1>m. /\ pc' \in [Threads -> PollerLabels \cup AssistLabels]
        /\ pc'[t] = l /\ \A u \in Threads : u # t => pc'[u] = pc[u]
        /\ Roles'
    BY <1>i, <1>c, <1>q, Moved
  <1>h. item' \in [Pollers -> 1 .. Len(Items)] /\ hits' \in [Pollers -> BOOLEAN]
    BY <1>i, <1>d, <1>o, <1>u DEF TypeOK, OneItem
  <1>1. TypeOK'
    BY <1>i, <1>u, <1>c, <1>h, <1>m DEF TypeOK
  <1>2. SectionsExact'
    BY <1>i, <1>u, <1>m, Kinds DEF SectionsExact
  <1>3. NotifierWillClear'
    BY <1>i, <1>u DEF NotifierWillClear
  <1> QED BY <1>1, <1>2, <1>3, <1>m, <1>q, <1>u, Kinds, Within DEF joinVars, InsideLabels

\* ossl_quic_reactor_wait_ctx_enter counts the first item of a slot.
LEMMA EnterItemStep ==
    ASSUME ThreadsInv, NEW t \in Threads, EnterItem(t), UNCHANGED <<joinVars, assistVars>>
    PROVE  ThreadsInv'
  <1>i. TypeOK /\ Roles /\ SectionsExact /\ WaitersExact /\ NotifierWillClear
    BY DEF ThreadsInv
  <1>k. t \in Pollers /\ pc[t] = "enter" /\ t \notin Readers /\ "recheck" \in Labels(t)
    BY <1>i, Kinds DEF EnterItem, Roles, Labels, ReaderLabels, PollerLabels, AssistLabels
  <1>z. count[t] = 0
    BY <1>i, <1>k DEF SectionsExact
  <1>u. /\ UNCHANGED <<running, signalled, asleep, net, ready, terminated, arrived, item, hits, ok,
                       thread, join_pc, join_asleep, reaped, teardown, dozing>>
        /\ count' = [count EXCEPT ![t] = 1] /\ waiters' = waiters + 1
        /\ pc' = [pc EXCEPT ![t] = "recheck"] /\ owner' \in Threads \cup {Nobody}
    BY <1>z, ContinueStep DEF EnterItem, io, joinVars, assistVars
  <1>m. /\ pc' \in [Threads -> PollerLabels \cup AssistLabels]
        /\ pc'[t] = "recheck" /\ \A u \in Threads : u # t => pc'[u] = pc[u]
        /\ Roles'
    BY <1>i, <1>k, <1>u, Moved
  <1>1. TypeOK'
    <2>0. count \in [Pollers -> Nat] /\ waiters \in Nat
      BY <1>i DEF TypeOK
    <2>1. count' \in [Pollers -> Nat] /\ waiters' \in Nat
      <3>1. count' = [count EXCEPT ![t] = 1] /\ waiters' = waiters + 1
        BY <1>u
      <3>2. count' \in [Pollers -> Nat]
        BY <2>0, <3>1
      <3> QED BY <2>0, <3>1, <3>2
    <2> QED BY <1>i, <1>u, <1>m, <2>1 DEF TypeOK
  <1>2. SectionsExact'
    <2>1. \A p \in Pollers : count'[p] = IF p = t THEN 1 ELSE count[p]
      BY <1>i, <1>u DEF TypeOK
    <2> QED BY <1>i, <1>m, <2>1, Kinds DEF SectionsExact
  <1>3. NotifierWillClear'
    BY <1>i, <1>u DEF NotifierWillClear, TypeOK
  <1>4. t \notin Inside /\ Inside' = Inside \cup {t}
    BY <1>i, <1>k, <1>m, <1>1, <1>2, InsideMoved DEF InsideLabels
  <1>5. WaitersExact'
    BY <1>i, <1>u, <1>4, OneEnters
  <1> QED BY <1>u, <1>m, <1>1, <1>2, <1>3, <1>5, ReactorKept DEF joinVars

\* An item that became ready aborts the wait, from inside.
LEMMA RecheckStep ==
    ASSUME OneItem, ThreadsInv, NEW t \in Threads, RecheckItem(t), UNCHANGED <<joinVars, assistVars>>
    PROVE  ThreadsInv'
  <1>i. TypeOK /\ Roles /\ SectionsExact /\ WaitersExact /\ NotifierWillClear
    BY DEF ThreadsInv
  <1>k. t \in Pollers /\ pc[t] = "recheck" /\ t \notin Readers
    BY <1>i, Kinds DEF RecheckItem, Roles, ReaderLabels, PollerLabels, AssistLabels
  <1>o. item[t] = Len(Items) /\ item[t] = 1
    BY <1>i, <1>k DEF TypeOK, OneItem
  <1>u. UNCHANGED <<running, waiters, signalled, asleep, net, ready, terminated, arrived, hits, count,
                    thread, join_pc, join_asleep, reaped, teardown, dozing>>
    BY DEF RecheckItem, rtor, io, joinVars, assistVars
  <1>d. /\ \E l \in {"abort", "poll"} : Continue(t, l)
        /\ item' = [item EXCEPT ![t] = 1] /\ ok' = [ok EXCEPT ![t] = ~IsReady(Items[item[t]])]
    BY <1>o DEF RecheckItem
  <1>p. PICK l \in {"abort", "poll"} : Continue(t, l)
    BY <1>d
  <1>c. pc' = [pc EXCEPT ![t] = l] /\ owner' \in Threads \cup {Nobody}
    BY <1>p, ContinueStep
  <1>q. l \in Labels(t) /\ l \in InsideLabels(t)
    BY <1>k DEF Labels, InsideLabels, PollerLabels, ReaderLabels
  <1>m. /\ pc' \in [Threads -> PollerLabels \cup AssistLabels]
        /\ pc'[t] = l /\ \A u \in Threads : u # t => pc'[u] = pc[u]
        /\ Roles'
    BY <1>i, <1>c, <1>q, Moved
  <1>h. item' \in [Pollers -> 1 .. Len(Items)] /\ ok' \in [Threads -> BOOLEAN]
    <2>1. (~IsReady(Items[item[t]])) \in BOOLEAN
      OBVIOUS
    <2>2. ok \in [Threads -> BOOLEAN] /\ item \in [Pollers -> 1 .. Len(Items)] /\ 1 \in 1 .. Len(Items)
      BY <1>i, <1>o, ThreadsAssumption DEF TypeOK, OneItem
    <2> QED BY <1>d, <2>1, <2>2
  <1>1. TypeOK'
    BY <1>i, <1>u, <1>c, <1>h, <1>m DEF TypeOK
  <1>2. SectionsExact'
    BY <1>i, <1>k, <1>u, <1>m, Kinds DEF SectionsExact
  <1>3. NotifierWillClear'
    BY <1>i, <1>u DEF NotifierWillClear
  <1> QED BY <1>1, <1>2, <1>3, <1>k, <1>m, <1>q, <1>u, Within DEF joinVars, InsideLabels

\* slot_deactivate leaves the section, after a wait and after an abort.
LEMMA LeaveItemStep ==
    ASSUME ThreadsInv, NEW t \in Threads, LeaveItem(t), UNCHANGED <<joinVars, assistVars>>
    PROVE  ThreadsInv'
  <1>i. TypeOK /\ Roles /\ SectionsExact /\ WaitersExact /\ NotifierWillClear
    BY DEF ThreadsInv
  <1>k. t \in Pollers /\ pc[t] \in {"leave", "abort"} /\ t \notin Readers
    BY Kinds DEF LeaveItem
  <1>z. count[t] = 1 /\ t \in Inside
    BY <1>i, <1>k, InsidePlaces DEF SectionsExact
  <1>u. /\ UNCHANGED <<running, net, ready, terminated, arrived, item, hits, ok,
                       thread, join_pc, join_asleep, reaped, teardown, dozing>>
        /\ count' = [count EXCEPT ![t] = 0] /\ LeaveBlockingSection(t, AfterLeave(t))
    BY <1>z DEF LeaveItem, io, joinVars, assistVars
  <1>n. /\ \E m \in {AfterLeave(t), "left"} : pc' = [pc EXCEPT ![t] = m]
        /\ owner' \in Threads \cup {Nobody}
        /\ waiters' = waiters - 1 /\ waiters' \in Nat
        /\ signalled' \in BOOLEAN /\ asleep' \subseteq Threads /\ NotifierWillClear'
    BY <1>z, <1>u, LeaveStep
  <1>p. PICK l \in {AfterLeave(t), "left"} : pc' = [pc EXCEPT ![t] = l]
    BY <1>n
  <1>q. l \in Labels(t) /\ l \notin InsideLabels(t)
    BY <1>k DEF AfterLeave, Labels, InsideLabels, PollerLabels, ReaderLabels
  <1>m. /\ pc' \in [Threads -> PollerLabels \cup AssistLabels]
        /\ pc'[t] = l /\ \A u \in Threads : u # t => pc'[u] = pc[u]
        /\ Roles'
    BY <1>i, <1>p, <1>q, Moved
  <1>1. TypeOK'
    <2>1. count' \in [Pollers -> Nat]
      BY <1>i, <1>u DEF TypeOK
    <2> QED BY <1>i, <1>u, <1>n, <1>m, <2>1 DEF TypeOK
  <1>2. SectionsExact'
    <2>1. \A p \in Pollers : count'[p] = IF p = t THEN 0 ELSE count[p]
      BY <1>i, <1>u DEF TypeOK
    <2> QED BY <1>i, <1>k, <1>m, <1>q, <2>1, Kinds DEF SectionsExact, InsideLabels
  <1>3. WaitersExact'
    <2>1. Inside' = Inside \ {t}
      BY <1>i, <1>1, <1>2, <1>m, <1>q, InsideMoved
    <2> QED BY <1>i, <1>z, <1>n, <2>1, OneLeaves
  <1> QED BY <1>1, <1>2, <1>3, <1>m, <1>n, <1>u, ReactorKept DEF joinVars

\* assist_thread_main and the end of its thread: the assist thread is never
\* inside a section.
LEMMA AssistMoves ==
    ASSUME ThreadsInv, NEW l \in AssistLabels, pc' = [pc EXCEPT ![Assist] = l],
           owner' \in Threads \cup {Nobody}, JoinsInv', joinVars' = joinVars \/ ThreadFinishes,
           dozing' \in BOOLEAN,
           UNCHANGED <<running, rtor, io, pollv, ok, teardown>>
    PROVE  ThreadsInv'
  <1>i. TypeOK /\ Roles /\ SectionsExact /\ WaitersExact /\ NotifierWillClear
    BY DEF ThreadsInv
  <1>u. UNCHANGED <<running, waiters, signalled, asleep, net, ready, terminated, arrived, item, hits,
                    count, ok, teardown>>
    BY DEF rtor, io, pollv
  <1>k. Assist \in Threads /\ l \in Labels(Assist)
    BY Kinds DEF Labels
  <1>m. /\ pc' \in [Threads -> PollerLabels \cup AssistLabels]
        /\ pc'[Assist] = l /\ \A u \in Threads : u # Assist => pc'[u] = pc[u]
        /\ Roles'
    BY <1>i, <1>k, Moved
  <1>j. /\ thread' \in [finished : BOOLEAN, join_await : BOOLEAN, joined : BOOLEAN]
        /\ join_pc' = join_pc /\ join_asleep' \subseteq Joiners /\ reaped' = reaped
    BY <1>i DEF TypeOK, joinVars, ThreadFinishes
  <1>1. TypeOK'
    BY <1>i, <1>u, <1>j, <1>m DEF TypeOK
  <1>2. SectionsExact' /\ NotifierWillClear'
    BY <1>i, <1>u, <1>m, Kinds DEF SectionsExact, NotifierWillClear
  <1>3. Inside' = Inside
    BY <1>i, <1>k, <1>m, <1>1, <1>2, Kinds, InsideMoved DEF InsideLabels
  <1>4. WaitersExact'
    BY <1>i, <1>u, <1>3, NobodyMoves
  <1> QED BY <1>1, <1>2, <1>4, <1>m DEF ThreadsInv

\* The steps of assist_thread_main.
LEMMA AssistStepInv ==
    ASSUME ThreadsInv, AssistStep \/ AssistTimeout
    PROVE  ThreadsInv'
  <1>i. TypeOK /\ Roles /\ JoinsInv
    BY DEF ThreadsInv
  <1>b. teardown \in BOOLEAN /\ dozing \in BOOLEAN
    BY <1>i DEF TypeOK
  <1>1. CASE AssistLoop
    <2> DEFINE l == IF teardown THEN "exit" ELSE "wait"
    <2>1. l \in AssistLabels /\ Continue(Assist, l) /\ dozing' \in BOOLEAN
      BY <1>1, <1>b DEF AssistLoop, AssistLabels
    <2>2. UNCHANGED <<running, rtor, io, pollv, ok, teardown>> /\ joinVars' = joinVars
      BY <1>1 DEF AssistLoop
    <2>3. JoinsInv'
      BY <1>i, <2>2 DEF JoinsInv, joinVars
    <2> HIDE DEF l
    <2> QED BY <2>1, <2>2, <2>3, Kinds, ContinueStep, AssistMoves
  <1>2. CASE AssistWoken
    <2> DEFINE l == IF teardown THEN "exit" ELSE "tick"
    <2>1. l \in AssistLabels /\ Continue(Assist, l) /\ dozing' \in BOOLEAN
      BY <1>2, <1>b DEF AssistWoken, AssistLabels, assistVars
    <2>2. UNCHANGED <<running, rtor, io, pollv, ok, teardown>> /\ joinVars' = joinVars
      BY <1>2 DEF AssistWoken, assistVars
    <2>3. JoinsInv'
      BY <1>i, <2>2 DEF JoinsInv, joinVars
    <2> HIDE DEF l
    <2> QED BY <2>1, <2>2, <2>3, Kinds, ContinueStep, AssistMoves
  <1>3. CASE AssistEnds
    <2>1. "ended" \in AssistLabels /\ Continue(Assist, "ended") /\ dozing' \in BOOLEAN
      BY <1>3, <1>b DEF AssistEnds, AssistLabels, assistVars
    <2>2. UNCHANGED <<running, rtor, io, pollv, ok, teardown>> /\ ThreadFinishes
      BY <1>3 DEF AssistEnds, assistVars
    <2>3. JoinsInv'
      <3>1. /\ thread'.joined = thread.joined /\ thread'.join_await = thread.join_await
            /\ UNCHANGED <<join_pc, reaped>>
        BY <1>i, <2>2 DEF ThreadFinishes, TypeOK
      <3> QED BY <1>i, <3>1 DEF JoinsInv
    <2> QED BY <2>1, <2>2, <2>3, Kinds, ContinueStep, AssistMoves
  <1>4. CASE AssistTimeout
    <2>1. /\ UNCHANGED <<running, rtor, io, pollv, ok, teardown, pc, owner>> /\ joinVars' = joinVars
          /\ dozing' \in BOOLEAN
      BY <1>4 DEF AssistTimeout, reactorVars
    <2>2. pc' = [pc EXCEPT ![Assist] = pc[Assist]] /\ pc[Assist] \in AssistLabels
      BY <1>i, <2>1, Kinds DEF TypeOK, Roles
    <2>3. JoinsInv' /\ owner' \in Threads \cup {Nobody}
      BY <1>i, <2>1 DEF JoinsInv, joinVars, TypeOK
    <2> QED BY <2>1, <2>2, <2>3, AssistMoves
  <1> QED BY <1>1, <1>2, <1>3, <1>4 DEF AssistStep

\* A step of a joiner leaves the reactor alone.
LEMMA JoinerMoves ==
    ASSUME ThreadsInv, UNCHANGED reactorVars, JoinsInv',
           thread' \in [finished : BOOLEAN, join_await : BOOLEAN, joined : BOOLEAN],
           join_pc' \in [Joiners -> {"outside", "join", "performing", "returned", "failed"}],
           join_asleep' \subseteq Joiners, teardown' \in BOOLEAN, dozing' \in BOOLEAN
    PROVE  ThreadsInv'
  <1>i. TypeOK /\ Roles /\ SectionsExact /\ WaitersExact /\ NotifierWillClear
    BY DEF ThreadsInv
  <1>u. UNCHANGED <<running, owner, pc, waiters, signalled, asleep, net, ready, terminated, arrived,
                    item, hits, count, ok>>
    BY DEF reactorVars, rtor, io, pollv
  <1>r. reaped' \in Nat
    BY DEF JoinsInv
  <1>1. TypeOK'
    BY <1>i, <1>r, <1>u DEF TypeOK
  <1>2. Roles' /\ SectionsExact' /\ NotifierWillClear'
    BY <1>i, <1>u DEF Roles, SectionsExact, NotifierWillClear
  <1>3. WaitersExact'
    BY <1>i, <1>u DEF WaitersExact, InSection
  <1> QED BY <1>1, <1>2, <1>3 DEF ThreadsInv

\* Only joiners sleep on the handle.
LEMMA SignalType ==
    ASSUME CondvarSignal, join_asleep \subseteq Joiners
    PROVE  join_asleep' \subseteq Joiners
  BY DEF CondvarSignal

\* A call of ossl_crypto_thread_native_join changes no flag.
LEMMA StopOrJoinStep ==
    ASSUME ThreadsInv, NEW j \in Joiners, StopOrJoin(j)
    PROVE  ThreadsInv'
  <1>i. TypeOK /\ JoinsInv
    BY DEF ThreadsInv
  <1>1. /\ UNCHANGED reactorVars /\ join_pc' = [join_pc EXCEPT ![j] = "join"]
        /\ UNCHANGED <<thread, join_asleep, reaped>>
    BY DEF StopOrJoin, JoinCall
  <1>2. teardown' \in BOOLEAN /\ dozing' \in BOOLEAN
    BY <1>i DEF StopOrJoin, assistVars, TypeOK
  <1>3. JoinsInv'
    BY <1>i, <1>1 DEF JoinsInv, TypeOK
  <1> QED BY <1>i, <1>1, <1>2, <1>3, JoinerMoves DEF TypeOK

\* ossl_crypto_thread_native_join: JOIN_AWAIT keeps a second joiner from
\* performing the join, and JOINED everybody after it has succeeded.
LEMMA JoiningStep ==
    ASSUME ThreadsInv, NEW j \in Joiners, Joining(j) \/ JoinFails(j),
           UNCHANGED <<reactorVars, assistVars>>
    PROVE  ThreadsInv'
  <1>i. TypeOK /\ JoinsInv
    BY DEF ThreadsInv
  <1>u. UNCHANGED <<reactorVars, teardown, dozing>> /\ teardown \in BOOLEAN /\ dozing \in BOOLEAN
    BY <1>i DEF assistVars, TypeOK
  <1>t. /\ thread \in [finished : BOOLEAN, join_await : BOOLEAN, joined : BOOLEAN]
        /\ join_pc \in [Joiners -> {"outside", "join", "performing", "returned", "failed"}]
        /\ join_asleep \subseteq Joiners
    BY <1>i DEF TypeOK
  <1>1. CASE JoinStep(j) /\ MustWait
    <2>1. UNCHANGED <<thread, join_pc, reaped>> /\ join_asleep' = join_asleep \cup {j}
      BY <1>1 DEF JoinStep, MustWait
    <2>2. JoinsInv'
      BY <1>i, <2>1 DEF JoinsInv
    <2> QED BY <1>t, <1>u, <2>1, <2>2, JoinerMoves
  <1>2. CASE JoinStep(j) /\ ~MustWait /\ thread.joined
    <2>1. JoinPass(j) /\ UNCHANGED reaped
      BY <1>2 DEF JoinStep
    <2>2. /\ thread' = [thread EXCEPT !.joined = TRUE]
          /\ join_pc' = [join_pc EXCEPT ![j] = "returned"]
          /\ join_asleep' \subseteq Joiners
      BY <1>t, <2>1, SignalType DEF JoinPass
    <2>3. JoinsInv'
      BY <1>i, <1>t, <1>2, <2>1, <2>2 DEF JoinsInv
    <2> QED BY <1>t, <1>u, <2>2, <2>3, JoinerMoves
  <1>3. CASE JoinStep(j) /\ ~MustWait /\ ~thread.joined
    <2>1. /\ thread' = [thread EXCEPT !.join_await = TRUE]
          /\ join_pc' = [join_pc EXCEPT ![j] = "performing"]
          /\ UNCHANGED <<join_asleep, reaped>>
      BY <1>3 DEF JoinStep
    <2>2. ~thread.join_await
      BY <1>3 DEF MustWait
    <2>3. JoinsInv'
      BY <1>i, <1>t, <1>3, <2>1, <2>2 DEF JoinsInv
    <2> QED BY <1>t, <1>u, <2>1, <2>3, JoinerMoves
  <1>4. CASE JoinPerformed(j)
    <2>1. JoinPass(j) /\ reaped' = reaped + 1 /\ join_pc[j] = "performing"
      BY <1>4 DEF JoinPerformed
    <2>2. /\ thread' = [thread EXCEPT !.joined = TRUE]
          /\ join_pc' = [join_pc EXCEPT ![j] = "returned"]
          /\ join_asleep' \subseteq Joiners
      BY <1>t, <2>1, SignalType DEF JoinPass
    <2>3. JoinsInv'
      BY <1>i, <1>t, <2>1, <2>2 DEF JoinsInv
    <2> QED BY <1>t, <1>u, <2>2, <2>3, JoinerMoves
  <1>5. CASE JoinFails(j)
    <2>1. /\ thread' = [thread EXCEPT !.join_await = FALSE]
          /\ join_pc' = [join_pc EXCEPT ![j] = "failed"]
          /\ join_asleep' \subseteq Joiners /\ UNCHANGED reaped /\ join_pc[j] = "performing"
      BY <1>t, <1>5, SignalType DEF JoinFails
    <2>2. JoinsInv'
      BY <1>i, <1>t, <2>1 DEF JoinsInv
    <2> QED BY <1>t, <1>u, <2>1, <2>2, JoinerMoves
  <1> QED BY <1>1, <1>2, <1>3, <1>4, <1>5 DEF Joining

(***************************************************************************)
(* The theorems.                                                           *)
(***************************************************************************)
\* The invariant holds at the start.
LEMMA InitInv == Init => ThreadsInv
  <1> SUFFICES ASSUME Init PROVE ThreadsInv
    OBVIOUS
  <1>1. TypeOK
    <2>1. 1 \in 1 .. Len(Items)
      BY ThreadsAssumption
    <2>2. pc \in [Threads -> PollerLabels \cup AssistLabels]
      BY DEF Init, ReactorInit, PollerLabels, ReaderLabels, AssistLabels
    <2> QED BY <2>1, <2>2 DEF Init, ReactorInit, JoinInit, TypeOK
  <1>2. Roles /\ SectionsExact /\ NotifierWillClear /\ JoinsInv
    BY Kinds DEF Init, ReactorInit, JoinInit, Roles, SectionsExact, NotifierWillClear, JoinsInv,
        PollerLabels, ReaderLabels, AssistLabels
  <1>3. Inside = {}
    BY <1>1, <1>2, InsidePlaces, Kinds DEF Init, ReactorInit
  <1>4. WaitersExact
    BY <1>1, <1>2, <1>3, InsidePlaces, FS_EmptySet DEF Init, ReactorInit
  <1> QED BY <1>1, <1>2, <1>4 DEF ThreadsInv

\* Every step keeps it.
LEMMA StepInv == OneItem /\ ThreadsInv /\ [Next]_vars => ThreadsInv'
  <1> SUFFICES ASSUME OneItem, ThreadsInv, [Next]_vars PROVE ThreadsInv'
    OBVIOUS
  <1>1. CASE UNCHANGED vars
    <2>1. UNCHANGED <<reactorVars, thread, join_pc, join_asleep, reaped, teardown, dozing>>
      BY <1>1 DEF vars, joinVars, assistVars
    <2>2. JoinsInv' /\ TypeOK
      BY <2>1 DEF ThreadsInv, JoinsInv
    <2> QED BY <2>1, <2>2, JoinerMoves DEF TypeOK
  <1>2. ASSUME NEW t \in Threads, AppStep(t) PROVE ThreadsInv'
    BY <1>2, TickStep, AwakeStep, PollStep, TestPredStep, LeavePredStep, ReadoutStep, EnterItemStep,
       RecheckStep, LeaveItemStep DEF AppStep, ReactorStep
  <1>3. CASE ReactorEnv /\ UNCHANGED <<joinVars, assistVars>>
    BY <1>3, CallStep, PollStep, ArriveStep DEF ReactorEnv, Threads
  <1>4. CASE AssistStep \/ AssistTimeout
    BY <1>4, AssistStepInv
  <1>5. ASSUME NEW j \in Joiners,
               \/ StopOrJoin(j)
               \/ (Joining(j) \/ JoinFails(j)) /\ UNCHANGED <<reactorVars, assistVars>>
        PROVE  ThreadsInv'
    BY <1>5, StopOrJoinStep, JoiningStep
  <1> QED BY <1>1, <1>2, <1>3, <1>4, <1>5 DEF Next

\* Reactor, assist thread and joiners keep ThreadsInv.
THEOREM Inductive == OneItem /\ Spec => []ThreadsInv
  <1> SUFFICES ASSUME OneItem PROVE Spec => []ThreadsInv
    OBVIOUS
  <1>1. ThreadsInv /\ [Next]_vars => ThreadsInv'
    BY StepInv
  <1> QED BY InitInv, <1>1, PTL DEF Spec

\* All variables keep their types.
THEOREM TypeCorrect == OneItem /\ Spec => []TypeOK
  <1>1. ThreadsInv => TypeOK
    BY DEF ThreadsInv
  <1> QED BY <1>1, Inductive, PTL

\* cur_blocking_waiters is the number of threads inside a section, through
\* blocking calls, SSL_poll, failed polls and aborted waits.
THEOREM WaitersCounted == OneItem /\ Spec => []WaitersExact
  <1>1. ThreadsInv => WaitersExact
    BY DEF ThreadsInv
  <1> QED BY <1>1, Inductive, PTL

\* A signalled notifier is left by somebody who will clear it, and nobody sleeps
\* on a cleared one (rtor_notify_other_threads).
THEOREM NotifierCleared == OneItem /\ Spec => []NotifierWillClear
  <1>1. ThreadsInv => NotifierWillClear
    BY DEF ThreadsInv
  <1> QED BY <1>1, Inductive, PTL

\* The thread is joined with the operating system at most once, whatever the
\* number of joiners and of failed joins (ossl_crypto_thread_native_join).
THEOREM OneJoin == OneItem /\ Spec => []JoinedOnce
  <1>1. ThreadsInv => JoinedOnce
    BY DEF ThreadsInv, JoinsInv, JoinedOnce
  <1> QED BY <1>1, Inductive, PTL
=============================================================================
