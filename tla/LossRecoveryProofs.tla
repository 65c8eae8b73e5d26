------------------------- MODULE LossRecoveryProofs -------------------------
(***************************************************************************)
(* Proofs about LossRecovery and NewReno, for any numbers of packets,      *)
(* frames, losses and probes, any windows and any packet threshold.        *)
(***************************************************************************)
EXTENDS LossRecovery, FiniteSetTheorems, WellFoundedInduction, TLAPS

----------------------------------------------------------------------------
(* Numbers and finite sets.                                                *)

\* Induction over the natural numbers: a property that fails somewhere fails
\* somewhere first.
LEMMA LeastNat ==
    ASSUME NEW T, T \subseteq Nat, T # {}
    PROVE  \E x \in T : \A y \in T : x <= y
<1>1. PICK x \in T : \A y \in T : ~ (<<y, x>> \in OpToRel(<, Nat))
  BY NatLessThanWellFounded, WFMin
<1>2. ASSUME NEW y \in T, y < x
      PROVE  FALSE
  <2>1. <<y, x>> \in Nat \X Nat
    OBVIOUS
  <2>2. <<y, x>> \in OpToRel(<, Nat)
    BY <1>2, <2>1, Zenon DEF OpToRel
  <2> QED
    BY <1>1, <2>2
<1> QED
  BY <1>2

\* A set of numbers up to b that is not empty has a greatest element.
LEMMA MaxOf ==
    ASSUME NEW T, NEW b \in Nat, T \subseteq 0 .. b, T # {}
    PROVE  Max(T) \in T /\ \A t \in T : t <= Max(T)
<1> DEFINE U == {u \in Nat : \A t \in T : t <= u}
<1>1. b \in U /\ U \subseteq Nat
  OBVIOUS
<1> HIDE DEF U
<1>2. PICK u \in U : \A v \in U : u <= v
  BY <1>1, LeastNat
<1>3. u \in Nat /\ \A t \in T : t <= u
  BY DEF U
<1>4. u \in T
  <2> SUFFICES ASSUME u \notin T PROVE FALSE
    OBVIOUS
  <2>1. \A t \in T : t <= u - 1 /\ t \in Nat
    BY <1>3
  <2>2. u - 1 \in Nat
    <3>1. PICK t \in T : TRUE
      OBVIOUS
    <3>2. t \in Nat /\ t <= u /\ t # u
      BY <1>3
    <3> QED
      BY <1>3, <3>2
  <2>3. u - 1 \in U
    BY <2>1, <2>2 DEF U
  <2> QED
    BY <1>2, <1>3, <2>3
<1>5. \E x \in T : \A y \in T : x >= y
  BY <1>3, <1>4
<1> QED
  BY <1>5 DEF Max

\* Two numbers.
LEMMA MaxTwo ==
    ASSUME NEW a \in Nat, NEW b \in Nat
    PROVE  Max({a, b}) \in Nat
<1>1. Max({a, b}) \in {a, b}
  BY MaxOf, {a, b} \subseteq 0 .. a + b
<1> QED
  BY <1>1

\* Adding and removing packets.
LEMMA CountAdd ==
    ASSUME NEW A, NEW B, IsFiniteSet(A), IsFiniteSet(B), A \cap B = {}
    PROVE  /\ IsFiniteSet(A \cup B)
           /\ Cardinality(A \cup B) = Cardinality(A) + Cardinality(B)
<1>1. Cardinality(A) \in Nat /\ Cardinality(B) \in Nat /\ Cardinality(A \cap B) = 0
  BY FS_CardinalityType, FS_EmptySet
<1>2. /\ IsFiniteSet(A \cup B)
      /\ Cardinality(A \cup B) = Cardinality(A) + Cardinality(B) - Cardinality(A \cap B)
  BY FS_Union
<1> QED
  BY <1>1, <1>2

\* What is left when packets leave the history
LEMMA CountRemove ==
    ASSUME NEW A, NEW B, IsFiniteSet(A), B \subseteq A
    PROVE  /\ IsFiniteSet(A \ B) /\ IsFiniteSet(B)
           /\ Cardinality(A \ B) = Cardinality(A) - Cardinality(B)
<1>1. A \cap B = B
  OBVIOUS
<1> QED
  BY <1>1, FS_Difference, FS_Subset

\* As many images as elements.
LEMMA CountImages ==
    ASSUME NEW A, NEW B, IsFiniteSet(A), NEW g, g \in [A -> B],
           \A x, y \in A : g[x] = g[y] => x = y,
           \A b \in B : \E x \in A : g[x] = b
    PROVE  IsFiniteSet(B) /\ Cardinality(B) = Cardinality(A)
<1>1. g \in Bijection(A, B)
  BY DEF Bijection, Injection, Surjection, IsInjective
<1> QED
  BY <1>1, FS_Bijection DEF ExistsBijection

----------------------------------------------------------------------------
(* The congestion controller.                                              *)

\* A controller r after c, with n packets less in flight and the threshold
\* where it was.
Released(c, n, r) ==
    /\ r \in Controller
    /\ r.bytes_in_flight = c.bytes_in_flight - n
    /\ r.slow_start_thresh = c.slow_start_thresh

\* newreno_on_data_acked
LEMMA AckedOne ==
    ASSUME NEW c \in Controller, NEW t, NEW r, r = OnDataAcked(c, t)
    PROVE  Released(c, 1, r)
<1> DEFINE less == [c EXCEPT !.bytes_in_flight = @ - 1]
<1>1. less \in Controller
  BY DEF Controller
<1>2. /\ less.bytes_in_flight = c.bytes_in_flight - 1
      /\ less.slow_start_thresh = c.slow_start_thresh
  BY DEF Controller
<1>3. \/ r = less
      \/ r = [less EXCEPT !.cong_wnd = @ + 1]
      \/ r = [less EXCEPT !.bytes_acked = @ + 1 - less.cong_wnd, !.cong_wnd = @ + 1]
      \/ r = [less EXCEPT !.bytes_acked = @ + 1]
  BY DEF OnDataAcked
<1> HIDE DEF less
<1>4. CASE r = less
  BY <1>1, <1>2, <1>4 DEF Released
<1>5. CASE r = [less EXCEPT !.cong_wnd = @ + 1]
  BY <1>1, <1>2, <1>5 DEF Released, Controller
<1>6. CASE r = [less EXCEPT !.bytes_acked = @ + 1 - less.cong_wnd, !.cong_wnd = @ + 1]
  <2> DEFINE a == less.bytes_acked + 1 - less.cong_wnd
             w == less.cong_wnd + 1
  <2>1. a \in Int /\ w \in Nat
    BY <1>1 DEF Controller
  <2>2. r = [less EXCEPT !.bytes_acked = a, !.cong_wnd = w]
    BY <1>6
  <2> HIDE DEF a, w
  <2> QED
    BY <1>1, <1>2, <2>1, <2>2 DEF Released, Controller
<1>7. CASE r = [less EXCEPT !.bytes_acked = @ + 1]
  BY <1>1, <1>2, <1>7 DEF Released, Controller
<1> QED
  BY <1>3, <1>4, <1>5, <1>6, <1>7

\* The function AckedUpTo exists: it is built one packet at a time.
LEMMA AckedExists ==
    ASSUME NEW c, NEW T, NEW N \in Nat
    PROVE  \E g : g = [n \in 0 .. N |->
                        IF n = 0 THEN c ELSE OnDataAcked(g[n - 1], NthLatest(T, n))]
<1> DEFINE Good(m, g) == g = [n \in 0 .. m |->
                    IF n = 0 THEN c ELSE OnDataAcked(g[n - 1], NthLatest(T, n))]
           Bad == {m \in Nat : ~ \E g : Good(m, g)}
<1> SUFFICES ASSUME Bad # {} PROVE FALSE
  OBVIOUS
<1>1. PICK m \in Bad : \A k \in Bad : m <= k
  <2>1. Bad \subseteq Nat
    OBVIOUS
  <2> HIDE DEF Bad
  <2> QED
    BY <2>1, LeastNat
<1>2. m \in Nat /\ ~ \E g : Good(m, g)
  OBVIOUS
<1>3. Good(0, [n \in 0 .. 0 |-> c])
  OBVIOUS
<1>4. m # 0
  BY <1>2, <1>3
<1>5. m - 1 \in Nat /\ ~ (m <= m - 1)
  BY <1>2, <1>4
<1>6. PICK g : Good(m - 1, g)
  <2>1. m - 1 \notin Bad
    <3> HIDE DEF Bad
    <3> QED
      BY <1>1, <1>5
  <2> QED
    BY <1>5, <2>1
<1> DEFINE h == [n \in 0 .. m |-> IF n = m THEN OnDataAcked(g[m - 1], NthLatest(T, m))
                                  ELSE g[n]]
<1>7. \A n \in 0 .. m - 1 : h[n] = g[n]
  BY <1>2
<1>8. h = [n \in 0 .. m |->
             IF n = 0 THEN c ELSE OnDataAcked(h[n - 1], NthLatest(T, n))]
  <2> SUFFICES ASSUME NEW n \in 0 .. m
               PROVE  h[n] = IF n = 0 THEN c ELSE OnDataAcked(h[n - 1], NthLatest(T, n))
    OBVIOUS
  <2>1. CASE n = m
    BY <1>2, <1>4, <1>7, <2>1
  <2>2. CASE n # m
    <3>1. n \in 0 .. m - 1
      BY <1>2, <2>2
    <3>2. g[n] = IF n = 0 THEN c ELSE OnDataAcked(g[n - 1], NthLatest(T, n))
      BY <1>6, <3>1
    <3>3. n # 0 => n - 1 \in 0 .. m - 1
      BY <3>1
    <3> QED
      BY <1>7, <3>1, <3>2, <3>3
  <2> QED
    BY <2>1, <2>2
<1> QED
  BY <1>2, <1>8

\* So it does what its definition says.
LEMMA AckedSteps ==
    ASSUME NEW c, NEW T, IsFiniteSet(T)
    PROVE  /\ AckedUpTo(c, T)[0] = c
           /\ \A n \in 1 .. Cardinality(T) :
                AckedUpTo(c, T)[n] = OnDataAcked(AckedUpTo(c, T)[n - 1], NthLatest(T, n))
<1> DEFINE g == AckedUpTo(c, T)
<1>1. Cardinality(T) \in Nat
  BY FS_CardinalityType
<1>2. g = [n \in 0 .. Cardinality(T) |->
             IF n = 0 THEN c ELSE OnDataAcked(g[n - 1], NthLatest(T, n))]
  BY <1>1, AckedExists DEF AckedUpTo
<1> HIDE DEF g
<1>3. g[0] = c /\ \A n \in 1 .. Cardinality(T) : g[n] = OnDataAcked(g[n - 1], NthLatest(T, n))
  BY <1>1, <1>2
<1> QED
  BY <1>3 DEF g

\* A batch of acknowledged packets is taken out of flight, whole.
LEMMA AckedBatch ==
    ASSUME NEW c \in Controller, NEW T, IsFiniteSet(T)
    PROVE  Released(c, Cardinality(T), AckedUpTo(c, T)[Cardinality(T)])
<1> DEFINE g == AckedUpTo(c, T)
           N == Cardinality(T)
           Bad == {n \in 0 .. N : ~Released(c, n, g[n])}
<1>1. N \in Nat
  BY FS_CardinalityType
<1>2. g[0] = c /\ \A n \in 1 .. N : g[n] = OnDataAcked(g[n - 1], NthLatest(T, n))
  BY AckedSteps
<1> HIDE DEF g, N
<1>3. Released(c, 0, g[0])
  BY <1>2 DEF Released, Controller
<1>4. ASSUME NEW n \in 1 .. N, Released(c, n - 1, g[n - 1])
      PROVE  Released(c, n, g[n])
  <2>1. g[n - 1] \in Controller
    BY <1>4 DEF Released
  <2>2. Released(g[n - 1], 1, g[n])
    BY <1>2, <2>1, AckedOne
  <2> QED
    BY <1>1, <1>4, <2>2 DEF Released, Controller
<1>5. Bad = {}
  <2> SUFFICES ASSUME Bad # {} PROVE FALSE
    OBVIOUS
  <2>1. PICK m \in Bad : \A k \in Bad : m <= k
    <3>1. Bad \subseteq Nat
      BY <1>1
    <3> HIDE DEF Bad
    <3> QED
      BY <3>1, LeastNat
  <2>2. m \in 0 .. N /\ ~Released(c, m, g[m])
    OBVIOUS
  <2>3. m # 0
    BY <1>3, <2>2
  <2>4. m \in 1 .. N /\ m - 1 \in 0 .. N /\ ~ (m <= m - 1)
    BY <1>1, <2>2, <2>3
  <2>5. m - 1 \notin Bad
    BY <2>1, <2>4
  <2> QED
    BY <1>4, <2>2, <2>4, <2>5
<1>6. Released(c, N, g[N])
  BY <1>1, <1>5
<1> QED
  BY <1>6 DEF g, N

\* The same, of packets whose times tell them apart.
LEMMA AckedCounts ==
    ASSUME NEW c \in Controller, NEW acked, IsFiniteSet(acked),
           \A p, q \in acked : p.time = q.time => p = q
    PROVE  Released(c, Cardinality(InFlight(acked)), AckedInCC(c, acked))
<1> DEFINE P == InFlight(acked)
           T == {p.time : p \in P}
           g == [p \in P |-> p.time]
<1>1. IsFiniteSet(P)
  BY FS_Subset DEF InFlight
<1>2. /\ g \in [P -> T] /\ \A x, y \in P : g[x] = g[y] => x = y
      /\ \A b \in T : \E x \in P : g[x] = b
  BY DEF InFlight
<1> HIDE DEF P, T, g
<1>3. IsFiniteSet(T) /\ Cardinality(T) = Cardinality(P)
  BY <1>1, <1>2, CountImages
<1>4. Released(c, Cardinality(T), AckedUpTo(c, T)[Cardinality(T)])
  BY <1>3, AckedBatch
<1>5. AckedInCC(c, acked) = AckedUpTo(c, T)[Cardinality(T)]
  BY DEF AckedInCC, P, T
<1>6. Released(c, Cardinality(P), AckedInCC(c, acked))
  BY <1>3, <1>4, <1>5
<1> QED
  BY <1>6 DEF P

\* A controller r after c, with n packets less in flight; the threshold was cut
\* only for a packet, of those sent at the times T, that was sent after the
\* recovery period had begun.
Reduced(c, n, T, r) ==
    /\ r \in Controller
    /\ r.bytes_in_flight = c.bytes_in_flight - n
    /\ r.slow_start_thresh # c.slow_start_thresh
        => \E t \in T : t > c.cong_recovery_start_time

\* newreno_on_data_lost and newreno_on_data_lost_finished
LEMMA LostBatch ==
    ASSUME NEW c \in Controller, NEW n \in Int, NEW T, NEW b \in Nat, T \subseteq 0 .. b,
           NEW now \in Nat, NEW r, r = OnDataLost(c, n, T, now)
    PROVE  Reduced(c, n, T, r)
<1> DEFINE less == [c EXCEPT !.bytes_in_flight = @ - n]
           news == {t \in T : t > c.tx_time_of_last_loss}
           m == Max(news)
           told == [less EXCEPT !.bytes_acked = 0, !.tx_time_of_last_loss = m]
<1>1. less \in Controller
  BY DEF Controller
<1>2. /\ less.bytes_in_flight = c.bytes_in_flight - n
      /\ less.slow_start_thresh = c.slow_start_thresh
      /\ less.cong_recovery_start_time = c.cong_recovery_start_time
  BY DEF Controller
<1>3. r = IF news = {} THEN less ELSE Cong(told, m, now)
  BY DEF OnDataLost
<1> HIDE DEF less
<1>4. CASE news = {}
  BY <1>1, <1>2, <1>3, <1>4 DEF Reduced
<1>5. CASE news # {}
  <2>1. news \subseteq 0 .. b /\ news \subseteq T
    OBVIOUS
  <2> HIDE DEF news
  <2>2. m \in news
    BY <1>5, <2>1, MaxOf
  <2> HIDE DEF m
  <2>3. m \in T /\ m \in 0 .. b
    BY <2>1, <2>2
  <2>4. told \in Controller
    <3> DEFINE x == [less EXCEPT !.bytes_acked = 0]
    <3>1. m \in Nat
      BY <2>3
    <3>2. told = [x EXCEPT !.tx_time_of_last_loss = m]
      OBVIOUS
    <3>3. x \in Controller
      BY <1>1 DEF Controller
    <3> HIDE DEF x, told
    <3> QED
      BY <3>1, <3>2, <3>3 DEF Controller
  <2>5. /\ told.bytes_in_flight = c.bytes_in_flight - n
        /\ told.slow_start_thresh = c.slow_start_thresh
        /\ told.cong_recovery_start_time = c.cong_recovery_start_time
    BY <1>1, <1>2 DEF Controller
  <2> HIDE DEF told
  <2>6. CASE InCongRecovery(told, m)
    <3>1. r = told
      BY <1>3, <1>5, <2>6 DEF Cong
    <3> QED
      BY <2>4, <2>5, <3>1 DEF Reduced
  <2>7. CASE ~InCongRecovery(told, m)
    <3> DEFINE h == told.cong_wnd \div 2
               w == Max({h, MinWnd})
    <3>1. r = [told EXCEPT !.cong_recovery_start_time = now, !.slow_start_thresh = h,
                           !.cong_wnd = w]
      BY <1>3, <1>5, <2>7 DEF Cong
    <3>2. h \in Nat
      BY <2>4 DEF Controller
    <3> HIDE DEF h
    <3>3. w \in Nat
      BY <3>2, MaxTwo, NewRenoAssumption
    <3> HIDE DEF w
    <3>4. r \in Controller
      <4> DEFINE x == [told EXCEPT !.cong_recovery_start_time = now]
                 y == [x EXCEPT !.slow_start_thresh = h]
      <4>1. r = [y EXCEPT !.cong_wnd = w]
        BY <3>1
      <4>2. x \in Controller
        BY <2>4 DEF Controller
      <4> HIDE DEF x
      <4>3. y \in Controller
        BY <3>2, <4>2 DEF Controller
      <4> HIDE DEF y
      <4> QED
        BY <3>3, <4>1, <4>3 DEF Controller
    <3>5. r.bytes_in_flight = told.bytes_in_flight
      BY <2>4, <3>1 DEF Controller
    <3>6. m > c.cong_recovery_start_time
      BY <2>3, <2>5, <2>7 DEF InCongRecovery, Controller
    <3> QED
      BY <2>3, <2>5, <3>4, <3>5, <3>6 DEF Reduced
  <2> QED
    BY <2>6, <2>7
<1> QED
  BY <1>4, <1>5

----------------------------------------------------------------------------
(* Packets that leave the history.                                         *)

\* Of packets, those in flight and those that elicit an ACK there.
LEMMA PartsFinite ==
    ASSUME NEW P, IsFiniteSet(P)
    PROVE  /\ IsFiniteSet(InFlight(P)) /\ Cardinality(InFlight(P)) \in Nat
           /\ \A s : /\ IsFiniteSet(Eliciting(InSpace(P, s)))
                     /\ Cardinality(Eliciting(InSpace(P, s))) \in Nat
<1>1. InFlight(P) \subseteq P /\ \A s : Eliciting(InSpace(P, s)) \subseteq P
  BY DEF InFlight, Eliciting, InSpace
<1> QED
  BY <1>1, FS_Subset, FS_CardinalityType

\* The counters of the ACK manager, which is what InFlightExact says of them,
\* and their types.
AckmExact ==
    /\ IsFiniteSet(hist)
    /\ bif = Cardinality(InFlight(hist)) /\ bif \in Nat
    /\ ae_bif \in [Spaces -> Nat]
    /\ \A s \in Spaces : ae_bif[s] = Cardinality(Eliciting(InSpace(hist, s)))

\* Packets that leave are not counted any more, and are counted off once.
LEMMA Uncounted ==
    ASSUME LossInv, NEW gone, gone \subseteq hist, hist' = hist \ gone, Uncount(gone)
    PROVE  AckmExact' /\ bif' = bif - Cardinality(InFlight(gone))
<1>1. IsFiniteSet(hist) /\ IsFiniteSet(gone) /\ IsFiniteSet(hist')
  BY FS_Subset DEF LossInv, TypeOK
<1>2. Cardinality(InFlight(hist')) = Cardinality(InFlight(hist)) - Cardinality(InFlight(gone))
  <2>1. InFlight(hist') = InFlight(hist) \ InFlight(gone)
    BY DEF InFlight
  <2>2. InFlight(gone) \subseteq InFlight(hist)
    BY DEF InFlight
  <2> QED
    BY <1>1, <2>1, <2>2, CountRemove, PartsFinite
<1>3. ASSUME NEW s \in Spaces
      PROVE  Cardinality(Eliciting(InSpace(hist', s)))
               = Cardinality(Eliciting(InSpace(hist, s)))
                   - Cardinality(Eliciting(InSpace(gone, s)))
  <2>1. Eliciting(InSpace(hist', s)) = Eliciting(InSpace(hist, s)) \ Eliciting(InSpace(gone, s))
    BY DEF Eliciting, InSpace
  <2>2. Eliciting(InSpace(gone, s)) \subseteq Eliciting(InSpace(hist, s))
    BY DEF Eliciting, InSpace
  <2> QED
    BY <1>1, <2>1, <2>2, CountRemove, PartsFinite
<1>4. bif' = bif - Cardinality(InFlight(gone)) /\ bif' = Cardinality(InFlight(hist'))
  BY <1>2 DEF Uncount, LossInv, InFlightExact
<1>5. bif' \in Nat
  BY <1>1, <1>4, PartsFinite
<1>6. \A s \in Spaces : ae_bif'[s] = Cardinality(Eliciting(InSpace(hist', s)))
  BY <1>3 DEF Uncount, LossInv, InFlightExact
<1>7. ae_bif' \in [Spaces -> Nat]
  <2>1. \A s \in Spaces : ae_bif'[s] \in Nat
    BY <1>1, <1>6, PartsFinite
  <2>2. ae_bif' = [s \in Spaces |-> ae_bif'[s]]
    BY DEF Uncount
  <2> QED
    BY <2>1, <2>2
<1> QED
  BY <1>1, <1>4, <1>5, <1>6, <1>7 DEF AckmExact

\* The queue, which is what FramesHeld says of it, and its type.
QueueExact == item \in [Items -> Item] /\ FramesHeld

\* The frames of packets that leave are released, or queued again.
LEMMA Settled ==
    ASSUME LossInv, NEW done, NEW lost, done \subseteq hist, lost \subseteq hist,
           hist' = hist \ (done \cup lost), item' = Settle(done, lost)
    PROVE  QueueExact'
<1>1. item \in [Items -> Item] /\ FramesHeld /\ hist \subseteq Packets
  BY DEF LossInv, TypeOK
<1>2. \A p \in hist : p.items \subseteq Items
  BY <1>1 DEF Packets
<1>3. FreeItem \in Item /\ FreeItem.state = "free"
  BY DEF FreeItem, Item, Spaces
<1>4. ASSUME NEW i \in Items
      PROVE  MarkLost(i) \in Item /\ MarkLost(i).state # "tx"
  <2>1. CASE item[i].unreliable
    BY <1>3, <2>1 DEF MarkLost
  <2>2. CASE ~item[i].unreliable
    BY <1>1, <2>2 DEF MarkLost, Item
  <2> QED
    BY <2>1, <2>2
<1>5. ASSUME NEW i \in Items
      PROVE  /\ item'[i] \in Item
             /\ i \in Contents(done \cup lost) => item'[i].state # "tx"
             /\ i \notin Contents(done \cup lost) => item'[i] = item[i]
  <2>1. item'[i] = IF i \in Contents(done) THEN FreeItem
                   ELSE IF i \in Contents(lost) THEN MarkLost(i) ELSE item[i]
    BY DEF Settle
  <2>2. i \in Contents(done \cup lost) <=> i \in Contents(done) \/ i \in Contents(lost)
    BY DEF Contents
  <2> QED
    BY <1>1, <1>3, <1>4, <2>1, <2>2
<1>6. item' \in [Items -> Item]
  <2>1. item' = [i \in Items |-> item'[i]]
    BY DEF Settle
  <2> QED
    BY <1>5, <2>1
<1>7. ASSUME NEW p \in hist', NEW i \in p.items
      PROVE  i \notin Contents(done \cup lost)
  BY <1>1, <1>7 DEF FramesHeld, Contents
<1>8. ASSUME NEW i \in Items, item'[i].state = "tx"
      PROVE  \E p \in hist' : i \in p.items
  <2>1. i \notin Contents(done \cup lost) /\ item[i].state = "tx"
    BY <1>5, <1>8
  <2>2. PICK p \in hist : i \in p.items
    BY <1>1, <2>1 DEF FramesHeld
  <2>3. p \notin done \cup lost
    BY <2>1, <2>2 DEF Contents
  <2> QED
    BY <2>2, <2>3
<1>9. \A p \in hist' : \A i \in p.items : item'[i].state = "tx" /\ item'[i].space = p.space
  <2> SUFFICES ASSUME NEW p \in hist', NEW i \in p.items
               PROVE  item'[i].state = "tx" /\ item'[i].space = p.space
    OBVIOUS
  <2>1. p \in hist /\ i \in Items
    BY <1>2
  <2>2. item'[i] = item[i]
    BY <1>5, <1>7, <2>1
  <2> QED
    BY <1>1, <2>1, <2>2 DEF FramesHeld
<1>10. \A p, q \in hist' : \A i \in p.items : i \in q.items => p = q
  BY <1>1 DEF FramesHeld
<1> QED
  BY <1>6, <1>8, <1>9, <1>10 DEF QueueExact, FramesHeld

\* The threshold of the controller is only cut for packets that leave.
ReducedForNew ==
    cc'.slow_start_thresh # cc.slow_start_thresh =>
        \E p \in hist \ hist' : p.time > cc.cong_recovery_start_time

\* The invariant after packets have left.
LEMMA Left ==
    ASSUME LossInv, hist' \subseteq hist, AckmExact', QueueExact',
           UNCHANGED <<next_pn, clock, provisioned>>,
           cc' \in Controller, used' \in Used,
           cc'.bytes_in_flight = bif' + used'.undone
    PROVE  LossInv'
<1>1. TypeOK'
  BY DEF LossInv, TypeOK, AckmExact, QueueExact
<1>2. PacketsDistinct'
  BY DEF LossInv, PacketsDistinct
<1>3. InFlightExact'
  BY DEF AckmExact, InFlightExact
<1> QED
  BY <1>1, <1>2, <1>3 DEF LossInv, QueueExact

----------------------------------------------------------------------------
(* The steps.                                                              *)

\* What the invariant says of the controller and of packets in the history.
LEMMA Facts ==
    ASSUME LossInv
    PROVE  /\ cc \in Controller /\ used \in Used /\ used.undone \in Nat
           /\ IsFiniteSet(hist) /\ clock \in Nat /\ bif \in Nat
           /\ cc.bytes_in_flight = bif + used.undone
           /\ \A p \in hist : p.time \in 0 .. clock
           /\ \A p, q \in hist : p.time = q.time => p = q
<1>1. used \in Used => used.undone \in Nat
  BY DEF Used
<1>2. \A p \in Packets : p.time \in Nat
  BY DEF Packets
<1> QED
  BY <1>1, <1>2 DEF LossInv, TypeOK, InFlightExact, PacketsDistinct

\* Lost packets and the controller.
LEMMA LostReduces ==
    ASSUME LossInv, NEW lost, lost \subseteq hist
    PROVE  /\ LostInCC(cc, lost) \in Controller
           /\ LostInCC(cc, lost).bytes_in_flight
                = cc.bytes_in_flight - Cardinality(InFlight(lost))
           /\ LostInCC(cc, lost).slow_start_thresh # cc.slow_start_thresh
                => \E p \in lost : p.time > cc.cong_recovery_start_time
<1> DEFINE T == {p.time : p \in InFlight(lost)}
           n == Cardinality(InFlight(lost))
           r == LostInCC(cc, lost)
<1>1. /\ cc \in Controller /\ IsFiniteSet(hist) /\ clock \in Nat
      /\ \A p \in hist : p.time \in 0 .. clock
  BY Facts
<1>2. IsFiniteSet(lost)
  BY <1>1, FS_Subset
<1>3. n \in Int
  BY <1>2, PartsFinite
<1>4. T \subseteq 0 .. clock
  BY <1>1 DEF InFlight
<1>5. \A t \in T : \E p \in lost : p.time = t
  BY DEF InFlight
<1>6. r = OnDataLost(cc, n, T, clock)
  BY DEF LostInCC
<1> HIDE DEF T, n, r
<1>7. Reduced(cc, n, T, r)
  BY <1>1, <1>3, <1>4, <1>6, LostBatch
<1>8. /\ r \in Controller /\ r.bytes_in_flight = cc.bytes_in_flight - n
      /\ r.slow_start_thresh # cc.slow_start_thresh
            => \E p \in lost : p.time > cc.cong_recovery_start_time
  BY <1>5, <1>7 DEF Reduced
<1> QED
  BY <1>8 DEF r, n

\* An ACK: lost packets are reported first, then the acknowledged ones.
LEMMA RxAckStep ==
    ASSUME LossInv, NEW s, NEW A, NEW cut, RxAck(s, A, cut)
    PROVE  LossInv' /\ ReducedForNew
<1> DEFINE largest == Max(A \cup {largest_acked[s]})
           acked == {p \in InSpace(hist, s) : p.pn \in A}
           lost == IF acked = {} THEN {} ELSE NewlyLost(s, acked, largest, cut)
           told == LostInCC(cc, lost)
<1>1. /\ hist' = hist \ (acked \cup lost) /\ Uncount(acked \cup lost)
      /\ item' = Settle(acked, lost) /\ cc' = AckedInCC(told, acked)
      /\ UNCHANGED <<next_pn, clock, provisioned, used>>
  BY DEF RxAck
<1>2. acked \subseteq hist /\ lost \subseteq hist /\ acked \cap lost = {}
  <2>1. acked \subseteq hist
    BY DEF InSpace
  <2>2. NewlyLost(s, acked, largest, cut) \subseteq hist \ acked
    BY DEF NewlyLost, LostAmong, InSpace
  <2> QED
    BY <2>1, <2>2
<1> HIDE DEF acked, lost
<1>3. /\ cc \in Controller /\ used \in Used /\ used.undone \in Nat
      /\ IsFiniteSet(hist) /\ bif \in Nat /\ cc.bytes_in_flight = bif + used.undone
      /\ \A p, q \in hist : p.time = q.time => p = q
  BY Facts
<1>4. IsFiniteSet(acked) /\ IsFiniteSet(lost)
  BY <1>2, <1>3, FS_Subset
<1>5. /\ Cardinality(InFlight(acked)) \in Nat /\ Cardinality(InFlight(lost)) \in Nat
      /\ IsFiniteSet(InFlight(acked)) /\ IsFiniteSet(InFlight(lost))
  BY <1>4, PartsFinite
<1>6. Cardinality(InFlight(acked \cup lost))
        = Cardinality(InFlight(acked)) + Cardinality(InFlight(lost))
  <2>1. /\ InFlight(acked \cup lost) = InFlight(acked) \cup InFlight(lost)
        /\ InFlight(acked) \cap InFlight(lost) = {}
    BY <1>2 DEF InFlight
  <2> QED
    BY <1>5, <2>1, CountAdd
<1>7. /\ told \in Controller
      /\ told.bytes_in_flight = cc.bytes_in_flight - Cardinality(InFlight(lost))
      /\ told.slow_start_thresh # cc.slow_start_thresh
            => \E p \in lost : p.time > cc.cong_recovery_start_time
  BY <1>2, LostReduces
<1> HIDE DEF told
<1>8. Released(told, Cardinality(InFlight(acked)), cc')
  BY <1>1, <1>2, <1>3, <1>4, <1>7, AckedCounts
<1>9. /\ cc' \in Controller /\ cc'.slow_start_thresh = told.slow_start_thresh
      /\ cc'.bytes_in_flight = told.bytes_in_flight - Cardinality(InFlight(acked))
  BY <1>8 DEF Released
<1>10. AckmExact' /\ bif' = bif - Cardinality(InFlight(acked \cup lost))
  BY <1>1, <1>2, Uncounted
<1>11. cc'.bytes_in_flight = bif' + used'.undone
  BY <1>1, <1>3, <1>5, <1>6, <1>7, <1>9, <1>10
<1>12. QueueExact'
  BY <1>1, <1>2, Settled
<1>13. LossInv'
  BY <1>1, <1>3, <1>9, <1>10, <1>11, <1>12, Left
<1>14. ReducedForNew
  BY <1>1, <1>2, <1>7, <1>9 DEF ReducedForNew
<1> QED
  BY <1>13, <1>14

\* The loss timer.
LEMMA LossTimeoutStep ==
    ASSUME LossInv, NEW cut, LossTimeout(cut)
    PROVE  LossInv' /\ ReducedForNew
<1> DEFINE lost == LostAmong(InSpace(hist, LossSpace), largest_acked[LossSpace], cut)
<1>1. /\ hist' = hist \ lost /\ Uncount(lost)
      /\ item' = Settle({}, lost) /\ cc' = LostInCC(cc, lost)
      /\ UNCHANGED <<next_pn, clock, provisioned, used>>
  BY DEF LossTimeout, net
<1>2. lost \subseteq hist
  BY DEF LostAmong, InSpace
<1> HIDE DEF lost
<1>3. /\ cc \in Controller /\ used \in Used /\ used.undone \in Nat
      /\ IsFiniteSet(hist) /\ bif \in Nat /\ cc.bytes_in_flight = bif + used.undone
  BY Facts
<1>4. IsFiniteSet(lost)
  BY <1>2, <1>3, FS_Subset
<1>5. Cardinality(InFlight(lost)) \in Nat
  BY <1>4, PartsFinite
<1>6. /\ cc' \in Controller
      /\ cc'.bytes_in_flight = cc.bytes_in_flight - Cardinality(InFlight(lost))
      /\ cc'.slow_start_thresh # cc.slow_start_thresh
            => \E p \in lost : p.time > cc.cong_recovery_start_time
  BY <1>1, <1>2, LostReduces
<1>7. AckmExact' /\ bif' = bif - Cardinality(InFlight(lost))
  BY <1>1, <1>2, Uncounted
<1>8. cc'.bytes_in_flight = bif' + used'.undone
  BY <1>1, <1>3, <1>5, <1>6, <1>7
<1>9. QueueExact'
  BY <1>1, <1>2, Settled
<1>10. LossInv'
  BY <1>1, <1>3, <1>6, <1>7, <1>8, <1>9, Left
<1>11. ReducedForNew
  BY <1>1, <1>2, <1>6 DEF ReducedForNew
<1> QED
  BY <1>10, <1>11

\* A Retry: the ACK manager takes the packet back, the controller does not.
LEMMA RetryStep ==
    ASSUME LossInv, Retry
    PROVE  LossInv' /\ ReducedForNew
<1> DEFINE lost == {p \in InSpace(hist, INITIAL) : p.pn = 0}
           n == Cardinality(InFlight(lost))
<1>1. /\ hist' = hist \ lost /\ Uncount(lost)
      /\ item' = Settle({}, lost)
      /\ used' = [used EXCEPT !.retry = @ + 1, !.undone = @ + n]
      /\ UNCHANGED <<next_pn, clock, provisioned, cc>>
  BY DEF Retry
<1>2. lost \subseteq hist
  BY DEF InSpace
<1> HIDE DEF lost
<1>3. /\ cc \in Controller /\ used \in Used /\ used.undone \in Nat
      /\ IsFiniteSet(hist) /\ bif \in Nat /\ cc.bytes_in_flight = bif + used.undone
  BY Facts
<1>4. IsFiniteSet(lost)
  BY <1>2, <1>3, FS_Subset
<1>5. n \in Nat
  BY <1>4, PartsFinite
<1>6. AckmExact' /\ bif' = bif - n
  BY <1>1, <1>2, Uncounted
<1> HIDE DEF n
<1>7. used' \in Used /\ used'.undone = used.undone + n
  <2> DEFINE x == [used EXCEPT !.retry = @ + 1]
  <2>1. x \in Used /\ x.undone = used.undone
    BY <1>3 DEF Used
  <2>2. used' = [x EXCEPT !.undone = @ + n]
    BY <1>1
  <2> HIDE DEF x
  <2> QED
    BY <1>5, <2>1, <2>2 DEF Used
<1>8. cc'.bytes_in_flight = bif' + used'.undone
  BY <1>1, <1>3, <1>5, <1>6, <1>7
<1>9. QueueExact'
  BY <1>1, <1>2, Settled
<1>10. LossInv'
  BY <1>1, <1>3, <1>6, <1>7, <1>8, <1>9, Left
<1>11. ReducedForNew
  BY <1>1 DEF ReducedForNew
<1> QED
  BY <1>10, <1>11

\* The end of a packet number space.
LEMMA DiscardStep ==
    ASSUME LossInv, NEW s \in Spaces, Discard(s),
           UNCHANGED <<next_pn, clock, provisioned, used>>
    PROVE  LossInv' /\ ReducedForNew
<1> DEFINE gone == InSpace(hist, s)
           n == Cardinality(InFlight(gone))
<1>1. /\ hist' = hist \ gone /\ Uncount(gone)
      /\ item' = [i \in Items |-> IF item[i].space = s THEN FreeItem
                                  ELSE Settle(gone, {})[i]]
      /\ cc' = [cc EXCEPT !.bytes_in_flight = @ - n]
  BY DEF Discard, InvalidateInCC, OnDataInvalidated
<1>2. gone \subseteq hist /\ \A p \in hist : p \in gone <=> p.space = s
  BY DEF InSpace
<1> HIDE DEF gone
<1>3. /\ cc \in Controller /\ used \in Used /\ used.undone \in Nat
      /\ IsFiniteSet(hist) /\ bif \in Nat /\ cc.bytes_in_flight = bif + used.undone
  BY Facts
<1>4. IsFiniteSet(gone)
  BY <1>2, <1>3, FS_Subset
<1>5. n \in Nat
  BY <1>4, PartsFinite
<1>6. AckmExact' /\ bif' = bif - n
  BY <1>1, <1>2, Uncounted
<1> HIDE DEF n
<1>7. /\ cc' \in Controller /\ cc'.bytes_in_flight = cc.bytes_in_flight - n
      /\ cc'.slow_start_thresh = cc.slow_start_thresh
  BY <1>1, <1>3, <1>5 DEF Controller
<1>8. cc'.bytes_in_flight = bif' + used'.undone
  BY <1>3, <1>5, <1>6, <1>7
<1>9. QueueExact'
  <2>1. item \in [Items -> Item] /\ FramesHeld /\ \A p \in hist : p.items \subseteq Items
    BY DEF LossInv, TypeOK, Packets
  <2>2. FreeItem \in Item /\ FreeItem.state = "free"
    BY DEF FreeItem, Item, Spaces
  <2>3. ASSUME NEW i \in Items
        PROVE  /\ item'[i] \in Item
               /\ item[i].space = s \/ i \in Contents(gone) => item'[i].state = "free"
               /\ item[i].space # s /\ i \notin Contents(gone) => item'[i] = item[i]
    <3>1. item'[i] = IF item[i].space = s THEN FreeItem ELSE Settle(gone, {})[i]
      BY <1>1
    <3>2. Settle(gone, {})[i] = IF i \in Contents(gone) THEN FreeItem ELSE item[i]
      BY DEF Settle, Contents
    <3> QED
      BY <2>1, <2>2, <3>1, <3>2
  <2>4. item' \in [Items -> Item]
    <3>1. item' = [i \in Items |-> item'[i]]
      BY <1>1
    <3> QED
      BY <2>3, <3>1
  <2>5. ASSUME NEW p \in hist', NEW i \in p.items
        PROVE  item'[i].state = "tx" /\ item'[i].space = p.space
    <3>1. p \in hist /\ p.space # s /\ i \in Items
      BY <1>1, <1>2, <2>1
    <3>2. item[i].state = "tx" /\ item[i].space = p.space
      BY <2>1, <3>1 DEF FramesHeld
    <3>3. i \notin Contents(gone)
      BY <1>1, <1>2, <2>1, <3>1 DEF Contents, FramesHeld
    <3> QED
      BY <2>3, <3>1, <3>2, <3>3
  <2>6. \A p, q \in hist' : \A i \in p.items : i \in q.items => p = q
    BY <1>1, <2>1 DEF FramesHeld
  <2>7. ASSUME NEW i \in Items, item'[i].state = "tx"
        PROVE  \E p \in hist' : i \in p.items
    <3>1. item[i].space # s /\ i \notin Contents(gone) /\ item[i].state = "tx"
      BY <2>3, <2>7
    <3>2. PICK p \in hist : i \in p.items
      BY <2>1, <3>1 DEF FramesHeld
    <3>3. p \notin gone
      BY <3>1, <3>2 DEF Contents
    <3> QED
      BY <1>1, <3>2, <3>3
  <2> QED
    BY <2>4, <2>5, <2>6, <2>7 DEF QueueExact, FramesHeld
<1>10. LossInv'
  BY <1>1, <1>3, <1>6, <1>7, <1>8, <1>9, Left
<1>11. ReducedForNew
  BY <1>7 DEF ReducedForNew
<1> QED
  BY <1>10, <1>11

\* A step that leaves packets, frames and the controller alone.
LEMMA Elsewhere ==
    ASSUME LossInv, UNCHANGED <<hist, next_pn, clock, bif, ae_bif, item, cc>>,
           provisioned' \subseteq Spaces, used' \in Used, used'.undone = used.undone
    PROVE  LossInv' /\ ReducedForNew
<1>1. TypeOK'
  BY DEF LossInv, TypeOK
<1>2. PacketsDistinct' /\ FramesHeld' /\ InFlightExact'
  BY DEF LossInv, PacketsDistinct, FramesHeld, InFlightExact
<1>3. ReducedForNew
  BY DEF ReducedForNew
<1> QED
  BY <1>1, <1>2, <1>3 DEF LossInv

\* The events that do: a datagram given up, an ACK lost, probe timeouts, keys,
\* packets received.
LEMMA QuietStep ==
    ASSUME LossInv,
           \/ GiveUp \/ AntiDeadlock \/ UNCHANGED vars
           \/ \E s \in Spaces : LoseAck(s) \/ ProbeTimeout(s) \/ ProvideSecret(s)
                                 \/ RxPacket(s)
    PROVE  LossInv' /\ ReducedForNew
<1>1. used \in Used /\ provisioned \subseteq Spaces
  BY DEF LossInv, TypeOK
<1>2. CASE GiveUp \/ UNCHANGED vars
  <2>1. UNCHANGED <<hist, next_pn, clock, bif, ae_bif, item, cc, provisioned, used>>
    BY <1>2 DEF GiveUp, vars, ackm, net
  <2> QED
    BY <1>1, <2>1, Elsewhere
<1>3. ASSUME NEW s \in Spaces, ProvideSecret(s)
      PROVE  LossInv' /\ ReducedForNew
  <2>1. /\ UNCHANGED <<hist, next_pn, clock, bif, ae_bif, item, cc, used>>
        /\ provisioned' = provisioned \cup {s}
    BY <1>3 DEF ProvideSecret, ackm, net
  <2> QED
    BY <1>1, <2>1, Elsewhere
<1>4. ASSUME NEW s \in Spaces, LoseAck(s)
      PROVE  LossInv' /\ ReducedForNew
  <2>1. /\ UNCHANGED <<hist, next_pn, clock, bif, ae_bif, item, cc, provisioned>>
        /\ used' = [used EXCEPT !.drops = @ + 1]
    BY <1>4 DEF LoseAck, ackm
  <2>2. used' \in Used /\ used'.undone = used.undone
    BY <1>1, <2>1 DEF Used
  <2> QED
    BY <1>1, <2>1, <2>2, Elsewhere
<1>5. ASSUME NEW s \in Spaces, RxPacket(s)
      PROVE  LossInv' /\ ReducedForNew
  <2>1. /\ UNCHANGED <<hist, next_pn, clock, bif, ae_bif, item, cc, provisioned>>
        /\ used' = [used EXCEPT !.rx = @ + 1]
    BY <1>5 DEF RxPacket, ackm
  <2>2. used' \in Used /\ used'.undone = used.undone
    BY <1>1, <2>1 DEF Used
  <2> QED
    BY <1>1, <2>1, <2>2, Elsewhere
<1>6. CASE Fires("pto")
  <2>1. /\ UNCHANGED <<hist, next_pn, clock, bif, ae_bif, item, cc, provisioned>>
        /\ used' = [used EXCEPT !.early = IF owed \cap Live # {} THEN @ + 1 ELSE @]
    BY <1>6 DEF Fires, ackm
  <2>2. used' \in Used /\ used'.undone = used.undone
    <3>1. CASE owed \cap Live # {}
      <4>1. used' = [used EXCEPT !.early = @ + 1]
        BY <2>1, <3>1
      <4> QED
        BY <1>1, <4>1 DEF Used
    <3>2. CASE owed \cap Live = {}
      <4>1. used' = [used EXCEPT !.early = @]
        BY <2>1, <3>2
      <4> QED
        BY <1>1, <4>1 DEF Used
    <3> QED
      BY <3>1, <3>2
  <2> QED
    BY <1>1, <2>1, <2>2, Elsewhere
<1>7. AntiDeadlock \/ (\E s \in Spaces : ProbeTimeout(s)) => Fires("pto")
  BY DEF AntiDeadlock, ProbeTimeout
<1> QED
  BY <1>2, <1>3, <1>4, <1>5, <1>6, <1>7

\* A frame is queued.
LEMMA AddFrameStep ==
    ASSUME LossInv, NEW i \in Items, NEW s \in Spaces, NEW u \in BOOLEAN, AddFrame(i, s, u)
    PROVE  LossInv' /\ ReducedForNew
<1> DEFINE new == [state |-> "new", space |-> s, unreliable |-> u]
<1>1. /\ item[i].state = "free" /\ item' = [item EXCEPT ![i] = new]
      /\ used' = [used EXCEPT !.frames = @ + 1]
      /\ UNCHANGED <<hist, next_pn, clock, bif, ae_bif, cc, provisioned>>
  BY DEF AddFrame, ackm
<1>2. /\ used \in Used /\ item \in [Items -> Item] /\ FramesHeld
      /\ \A p \in hist : p.items \subseteq Items
  BY DEF LossInv, TypeOK, Packets
<1>3. used' \in Used /\ used'.undone = used.undone
  BY <1>1, <1>2 DEF Used
<1>4. new \in Item /\ new.state = "new"
  BY DEF Item
<1> HIDE DEF new
<1>5. /\ item' \in [Items -> Item] /\ item'[i].state = "new"
      /\ \A j \in Items \ {i} : item'[j] = item[j]
  BY <1>1, <1>2, <1>4
<1>6. \A p \in hist : i \notin p.items
  BY <1>1, <1>2 DEF FramesHeld
<1>7. FramesHeld'
  <2>1. \A p \in hist : \A j \in p.items : item'[j] = item[j]
    BY <1>2, <1>5, <1>6
  <2>2. \A j \in Items : item'[j].state = "tx" => item[j].state = "tx"
    BY <1>5
  <2> QED
    BY <1>1, <1>2, <2>1, <2>2 DEF FramesHeld
<1>8. TypeOK'
  BY <1>1, <1>3, <1>5 DEF LossInv, TypeOK
<1>9. PacketsDistinct' /\ InFlightExact'
  BY <1>1, <1>3 DEF LossInv, PacketsDistinct, InFlightExact
<1>10. ReducedForNew
  BY <1>1 DEF ReducedForNew
<1> QED
  BY <1>7, <1>8, <1>9, <1>10 DEF LossInv

----------------------------------------------------------------------------
(* Sending.                                                                *)

\* The place of a space among those committed to.
Place(s) == Cardinality({t \in Committed : t <= s})

\* Committed packets are in spaces with keys, and have places of their own.
LEMMA Places ==
    ASSUME LossInv
    PROVE  /\ Committed \subseteq Spaces /\ IsFiniteSet(Committed)
           /\ \A s \in Committed : Place(s) \in 1 .. Cardinality(Committed)
           /\ \A s, t \in Committed : Place(s) = Place(t) => s = t
<1>1. Committed \subseteq Spaces
  BY DEF Committed, Staged, Live, LossInv, TypeOK
<1>2. \A s \in Spaces : s \in Int
  BY DEF Spaces, INITIAL, HANDSHAKE, APP
<1>3. IsFiniteSet(Committed)
  <2>1. Spaces \subseteq 0 .. 2
    BY DEF Spaces, INITIAL, HANDSHAKE, APP
  <2>2. IsFiniteSet(0 .. 2)
    <3>1. 0 \in Int /\ 2 \in Int
      OBVIOUS
    <3> QED
      BY <3>1, FS_Interval, Zenon
  <2> QED
    BY <1>1, <2>1, <2>2, FS_Subset
<1> DEFINE Upto(s) == {t \in Committed : t <= s}
<1>4. \A s \in Committed : Upto(s) \subseteq Committed /\ s \in Upto(s)
  BY <1>1, <1>2
<1>5. \A s \in Committed : Place(s) = Cardinality(Upto(s))
  BY DEF Place
<1> HIDE DEF Upto
<1>6. ASSUME NEW s \in Committed
      PROVE  Place(s) \in 1 .. Cardinality(Committed)
  <2>1. IsFiniteSet(Upto(s)) /\ Cardinality(Upto(s)) <= Cardinality(Committed)
    BY <1>3, <1>4, FS_Subset
  <2>2. Cardinality(Upto(s)) \in Nat /\ Cardinality(Upto(s)) # 0
    BY <1>4, <2>1, FS_EmptySet, FS_CardinalityType
  <2>3. Cardinality(Committed) \in Nat
    BY <1>3, FS_CardinalityType
  <2> QED
    BY <1>5, <2>1, <2>2, <2>3
<1>7. ASSUME NEW s \in Committed, NEW t \in Committed, Place(s) = Place(t), s < t
      PROVE  FALSE
  <2>1. Upto(s) \subseteq Upto(t) /\ t \in Upto(t) /\ t \notin Upto(s)
    BY <1>1, <1>2, <1>7 DEF Upto
  <2>2. IsFiniteSet(Upto(t))
    BY <1>3, <1>4, FS_Subset
  <2>3. Cardinality(Upto(s)) = Cardinality(Upto(t))
    BY <1>5, <1>7
  <2>4. Upto(s) = Upto(t)
    BY <2>1, <2>2, <2>3, FS_Subset
  <2> QED
    BY <2>1, <2>4
<1>8. \A s, t \in Committed : Place(s) = Place(t) => s = t
  BY <1>1, <1>2, <1>7
<1> QED
  BY <1>1, <1>3, <1>6, <1>8

\* What a new packet is.
LEMMA NewPacketFields ==
    ASSUME LossInv, NEW s \in Committed
    PROVE  /\ NewPacket(s) \in Packets
           /\ NewPacket(s).space = s /\ NewPacket(s).pn = next_pn[s]
           /\ NewPacket(s).time = clock + Place(s)
           /\ NewPacket(s).items \subseteq Queued(s)
<1> DEFINE items == IF Archetype = "ack_only" THEN {} ELSE Queued(s)
           e == items # {} \/ Archetype = "probe"
           f == e \/ s = INITIAL
           a == s \in desired \cup want_ack
           t == clock + Place(s)
<1>1. NewPacket(s) = [space |-> s, pn |-> next_pn[s], time |-> t, eliciting |-> e,
                      inflight |-> f, items |-> items, ack |-> a]
  BY DEF NewPacket, Place
<1>2. s \in Spaces /\ Place(s) \in 1 .. Cardinality(Committed)
  BY Places
<1>3. clock \in Nat /\ next_pn \in [Spaces -> Nat]
  BY DEF LossInv, TypeOK
<1>4. items \subseteq Queued(s) /\ Queued(s) \subseteq Items
  BY DEF Queued
<1>5. e \in BOOLEAN /\ f \in BOOLEAN /\ a \in BOOLEAN
  OBVIOUS
<1>6. t \in Nat \ {0}
  BY <1>2, <1>3
<1> HIDE DEF items, e, f, a, t
<1>7. NewPacket(s) \in Packets
  BY <1>1, <1>2, <1>3, <1>4, <1>5, <1>6 DEF Packets
<1>8. /\ NewPacket(s).space = s /\ NewPacket(s).pn = next_pn[s]
      /\ NewPacket(s).time = t /\ NewPacket(s).items = items
  BY <1>1
<1> QED
  BY <1>4, <1>7, <1>8 DEF t

\* The packets of a datagram.
LEMMA DatagramFields ==
    ASSUME LossInv
    PROVE  /\ Datagram \subseteq Packets /\ IsFiniteSet(Datagram)
           /\ \A p \in Datagram : /\ p.pn = next_pn[p.space]
                                  /\ p.time \in clock + 1 .. clock + Cardinality(Datagram)
                                  /\ p.items \subseteq Queued(p.space)
           /\ \A p, q \in Datagram : p.space = q.space \/ p.time = q.time => p = q
           /\ Datagram \cap hist = {}
<1> DEFINE g == [s \in Committed |-> NewPacket(s)]
<1>1. /\ IsFiniteSet(Committed) /\ clock \in Nat
      /\ \A s \in Committed : Place(s) \in 1 .. Cardinality(Committed)
      /\ \A s, t \in Committed : Place(s) = Place(t) => s = t
  BY Places DEF LossInv, TypeOK
<1>2. \A s \in Committed :
        /\ NewPacket(s) \in Packets
        /\ NewPacket(s).space = s /\ NewPacket(s).pn = next_pn[s]
        /\ NewPacket(s).time = clock + Place(s)
        /\ NewPacket(s).items \subseteq Queued(s)
  BY NewPacketFields
<1>3. \A p \in Datagram : p.space \in Committed /\ p = NewPacket(p.space)
  BY <1>2 DEF Datagram
<1>4. /\ g \in [Committed -> Datagram]
      /\ \A s, t \in Committed : g[s] = g[t] => s = t
      /\ \A p \in Datagram : \E s \in Committed : g[s] = p
  BY <1>2, <1>3 DEF Datagram
<1> HIDE DEF g
<1>5. IsFiniteSet(Datagram) /\ Cardinality(Datagram) = Cardinality(Committed)
  BY <1>1, <1>4, CountImages
<1>6. Cardinality(Committed) \in Nat
  BY <1>1, FS_CardinalityType
<1>7. ASSUME NEW p \in Datagram
      PROVE  /\ p \in Packets /\ p.pn = next_pn[p.space]
             /\ p.time = clock + Place(p.space)
             /\ p.time \in clock + 1 .. clock + Cardinality(Datagram)
             /\ p.items \subseteq Queued(p.space)
  <2>1. p.space \in Committed /\ p = NewPacket(p.space)
    BY <1>3
  <2>2. /\ p \in Packets /\ p.pn = next_pn[p.space]
        /\ p.time = clock + Place(p.space) /\ p.items \subseteq Queued(p.space)
    BY <1>2, <2>1
  <2>3. Place(p.space) \in 1 .. Cardinality(Datagram)
    BY <1>1, <1>5, <2>1
  <2> QED
    BY <1>1, <1>5, <1>6, <2>2, <2>3
<1>8. ASSUME NEW p \in Datagram, NEW q \in Datagram, p.space = q.space \/ p.time = q.time
      PROVE  p = q
  <2>1. /\ p.space \in Committed /\ q.space \in Committed
        /\ p = NewPacket(p.space) /\ q = NewPacket(q.space)
    BY <1>3
  <2>2. p.time = q.time => Place(p.space) = Place(q.space)
    BY <1>1, <1>7, <2>1
  <2>3. p.space = q.space
    BY <1>1, <1>8, <2>1, <2>2
  <2> QED
    BY <2>1, <2>3
<1>9. Datagram \cap hist = {}
  <2>1. \A p \in hist : p \in Packets /\ p.time <= clock
    BY DEF LossInv, TypeOK, PacketsDistinct
  <2>2. \A p \in Datagram : ~ (p.time <= clock)
    BY <1>1, <1>5, <1>6, <1>7
  <2> QED
    BY <2>1, <2>2
<1> QED
  BY <1>5, <1>7, <1>8, <1>9

\* A packet enters the counters once.
LEMMA Counted ==
    ASSUME LossInv, NEW new, IsFiniteSet(new), new \cap hist = {}, hist' = hist \cup new,
           bif' = bif + Cardinality(InFlight(new)),
           ae_bif' = [s \in Spaces |-> ae_bif[s] + Cardinality(InSpace(Eliciting(new), s))]
    PROVE  AckmExact'
<1>1. /\ IsFiniteSet(hist) /\ bif = Cardinality(InFlight(hist))
      /\ \A s \in Spaces : ae_bif[s] = Cardinality(Eliciting(InSpace(hist, s)))
  BY DEF LossInv, TypeOK, InFlightExact
<1>2. IsFiniteSet(hist')
  BY <1>1, FS_Union
<1>3. bif' = Cardinality(InFlight(hist'))
  <2>1. /\ InFlight(hist') = InFlight(hist) \cup InFlight(new)
        /\ InFlight(hist) \cap InFlight(new) = {}
    BY DEF InFlight
  <2>2. IsFiniteSet(InFlight(hist)) /\ IsFiniteSet(InFlight(new))
    BY <1>1, PartsFinite
  <2> QED
    BY <1>1, <2>1, <2>2, CountAdd
<1>4. ASSUME NEW s \in Spaces
      PROVE  ae_bif'[s] = Cardinality(Eliciting(InSpace(hist', s)))
  <2>1. /\ Eliciting(InSpace(hist', s))
             = Eliciting(InSpace(hist, s)) \cup Eliciting(InSpace(new, s))
        /\ Eliciting(InSpace(hist, s)) \cap Eliciting(InSpace(new, s)) = {}
    BY DEF Eliciting, InSpace
  <2>2. InSpace(Eliciting(new), s) = Eliciting(InSpace(new, s))
    BY DEF Eliciting, InSpace
  <2>3. IsFiniteSet(Eliciting(InSpace(hist, s))) /\ IsFiniteSet(Eliciting(InSpace(new, s)))
    BY <1>1, PartsFinite
  <2>4. ae_bif'[s] = Cardinality(Eliciting(InSpace(hist, s)))
                       + Cardinality(Eliciting(InSpace(new, s)))
    BY <1>1, <2>2
  <2> QED
    BY <2>1, <2>3, <2>4, CountAdd
<1>5. bif' \in Nat
  BY <1>2, <1>3, PartsFinite
<1>6. ae_bif' \in [Spaces -> Nat]
  <2>1. \A s \in Spaces : ae_bif'[s] \in Nat
    BY <1>2, <1>4, PartsFinite
  <2>2. ae_bif' = [s \in Spaces |-> ae_bif'[s]]
    OBVIOUS
  <2> QED
    BY <2>1, <2>2
<1> QED
  BY <1>2, <1>3, <1>4, <1>5, <1>6 DEF AckmExact

\* The frames of a datagram come from the queue, each for one of its packets.
LEMMA FramesSent ==
    ASSUME LossInv, hist' = hist \cup Datagram,
           item' = [i \in Items |-> IF i \in Contents(Datagram)
                                    THEN [item[i] EXCEPT !.state = "tx"] ELSE item[i]]
    PROVE  QueueExact'
<1>1. /\ item \in [Items -> Item] /\ FramesHeld
      /\ \A p \in hist : p.items \subseteq Items
  BY DEF LossInv, TypeOK, Packets
<1>2. /\ \A p \in Datagram : p.items \subseteq Queued(p.space)
      /\ \A p, q \in Datagram : p.space = q.space => p = q
  BY DatagramFields
<1>3. \A p \in Datagram : \A i \in p.items :
        i \in Items /\ item[i].state = "new" /\ item[i].space = p.space
  BY <1>2 DEF Queued
<1>4. ASSUME NEW i \in Items, i \in Contents(Datagram)
      PROVE  /\ item'[i] \in Item /\ item'[i].state = "tx"
             /\ item'[i].space = item[i].space
  <2>1. item'[i] = [item[i] EXCEPT !.state = "tx"] /\ item[i] \in Item
    BY <1>1, <1>4
  <2> QED
    BY <2>1 DEF Item
<1>5. \A i \in Items : i \notin Contents(Datagram) => item'[i] = item[i]
  OBVIOUS
<1>6. item' \in [Items -> Item]
  <2>1. item' = [i \in Items |-> item'[i]]
    OBVIOUS
  <2>2. \A i \in Items : item'[i] \in Item
    BY <1>1, <1>4, <1>5
  <2> QED
    BY <2>1, <2>2
<1>7. \A p \in Datagram : \A i \in p.items : i \in Contents(Datagram)
  BY DEF Contents
<1>8. \A p \in hist : \A i \in p.items : i \notin Contents(Datagram)
  <2>1. \A i \in Contents(Datagram) : item[i].state = "new"
    BY <1>3 DEF Contents
  <2> QED
    BY <1>1, <2>1 DEF FramesHeld
<1>9. ASSUME NEW p \in hist', NEW i \in p.items
      PROVE  item'[i].state = "tx" /\ item'[i].space = p.space
  <2>1. CASE p \in hist
    BY <1>1, <1>5, <1>8, <2>1 DEF FramesHeld
  <2>2. CASE p \in Datagram
    BY <1>3, <1>4, <1>7, <2>2
  <2> QED
    BY <2>1, <2>2
<1>10. ASSUME NEW p \in hist', NEW q \in hist', NEW i \in p.items, i \in q.items
       PROVE  p = q
  <2>1. CASE p \in hist /\ q \in hist
    BY <1>1, <1>10, <2>1 DEF FramesHeld
  <2>2. CASE p \in Datagram /\ q \in Datagram
    <3>1. p.space = item[i].space /\ q.space = item[i].space
      BY <1>3, <1>10, <2>2
    <3> QED
      BY <1>2, <2>2, <3>1
  <2>3. CASE (p \in hist /\ q \in Datagram) \/ (p \in Datagram /\ q \in hist)
    BY <1>7, <1>8, <1>10, <2>3
  <2> QED
    BY <2>1, <2>2, <2>3
<1>11. ASSUME NEW i \in Items, item'[i].state = "tx"
       PROVE  \E p \in hist' : i \in p.items
  <2>1. CASE i \in Contents(Datagram)
    BY <2>1 DEF Contents
  <2>2. CASE i \notin Contents(Datagram)
    <3>1. item[i].state = "tx"
      BY <1>5, <1>11, <2>2
    <3> QED
      BY <1>1, <3>1 DEF FramesHeld
  <2> QED
    BY <2>1, <2>2
<1> QED
  BY <1>6, <1>9, <1>10, <1>11 DEF QueueExact, FramesHeld

\* A datagram is sent.
LEMMA GenerateStep ==
    ASSUME LossInv, NEW D, D \subseteq Committed, Generate(Datagram, D)
    PROVE  LossInv' /\ ReducedForNew
<1> DEFINE N == Cardinality(Datagram)
           n == Cardinality(InFlight(Datagram))
           d == Cardinality(D)
<1>1. /\ hist' = hist \cup Datagram
      /\ next_pn' = [s \in Spaces |-> next_pn[s] + Cardinality(InSpace(Datagram, s))]
      /\ bif' = bif + n
      /\ ae_bif' = [s \in Spaces |->
                      ae_bif[s] + Cardinality(InSpace(Eliciting(Datagram), s))]
      /\ cc' = [cc EXCEPT !.bytes_in_flight = @ + n]
      /\ item' = [i \in Items |-> IF i \in Contents(Datagram)
                                  THEN [item[i] EXCEPT !.state = "tx"] ELSE item[i]]
      /\ clock' = clock + N
      /\ used' = [used EXCEPT !.drops = @ + d]
      /\ provisioned' = provisioned
  BY DEF Generate, OnDataSent
<1>2. /\ Datagram \subseteq Packets /\ IsFiniteSet(Datagram) /\ Datagram \cap hist = {}
      /\ \A p \in Datagram : p.pn = next_pn[p.space] /\ p.time \in clock + 1 .. clock + N
      /\ \A p, q \in Datagram : p.space = q.space \/ p.time = q.time => p = q
  BY DatagramFields
<1>3. /\ cc \in Controller /\ used \in Used /\ used.undone \in Nat
      /\ bif \in Nat /\ cc.bytes_in_flight = bif + used.undone
      /\ clock \in Nat /\ next_pn \in [Spaces -> Nat]
      /\ provisioned \subseteq Spaces /\ hist \subseteq Packets
      /\ PacketsDistinct
  BY Facts DEF LossInv, TypeOK
<1>4. d \in Nat
  <2>1. IsFiniteSet(D)
    BY Places, FS_Subset
  <2> QED
    BY <2>1, FS_CardinalityType
<1>5. N \in Nat /\ n \in Nat
  BY <1>2, FS_CardinalityType, PartsFinite
<1>6. AckmExact'
  BY <1>1, <1>2, Counted
<1>7. QueueExact'
  BY <1>1, FramesSent
<1> HIDE DEF n, N, d
<1>8. /\ cc' \in Controller /\ cc'.slow_start_thresh = cc.slow_start_thresh
      /\ cc'.bytes_in_flight = cc.bytes_in_flight + n
  BY <1>1, <1>3, <1>5 DEF Controller
<1>9. used' \in Used /\ used'.undone = used.undone
  BY <1>1, <1>3, <1>4 DEF Used
<1>10. /\ next_pn' \in [Spaces -> Nat]
       /\ \A s \in Spaces : next_pn'[s] >= next_pn[s]
       /\ \A p \in Datagram : next_pn'[p.space] = next_pn[p.space] + 1
  <2>1. ASSUME NEW s \in Spaces
        PROVE  /\ Cardinality(InSpace(Datagram, s)) \in Nat
               /\ next_pn'[s] = next_pn[s] + Cardinality(InSpace(Datagram, s))
    <3>1. InSpace(Datagram, s) \subseteq Datagram
      BY DEF InSpace
    <3>2. IsFiniteSet(InSpace(Datagram, s))
      BY <1>2, <3>1, FS_Subset
    <3> QED
      BY <1>1, <3>2, FS_CardinalityType
  <2>2. \A s \in Spaces : next_pn'[s] \in Nat /\ next_pn'[s] >= next_pn[s]
    BY <1>3, <2>1
  <2>3. next_pn' = [s \in Spaces |-> next_pn'[s]]
    BY <1>1
  <2>4. ASSUME NEW p \in Datagram
        PROVE  next_pn'[p.space] = next_pn[p.space] + 1
    <3>1. p.space \in Spaces
      BY <1>2 DEF Packets
    <3>2. InSpace(Datagram, p.space) = {p}
      BY <1>2 DEF InSpace
    <3>3. Cardinality({p}) = 1
      BY FS_Singleton
    <3> QED
      BY <2>1, <3>1, <3>2, <3>3
  <2> QED
    BY <2>2, <2>3, <2>4
<1>11. TypeOK'
  BY <1>1, <1>2, <1>3, <1>5, <1>6, <1>7, <1>8, <1>9, <1>10
     DEF TypeOK, AckmExact, QueueExact
<1>12. PacketsDistinct'
  <2>1. \A p \in hist : /\ p.space \in Spaces /\ p.time \in Nat /\ p.pn \in Nat
                        /\ p.pn < next_pn[p.space] /\ p.time <= clock
    BY <1>3 DEF PacketsDistinct, Packets
  <2>2. ASSUME NEW p \in hist'
        PROVE  p.pn < next_pn'[p.space] /\ p.time <= clock'
    <3>1. CASE p \in hist
      <4>1. next_pn[p.space] \in Nat /\ next_pn'[p.space] \in Nat
        BY <1>3, <1>10, <2>1, <3>1
      <4> QED
        BY <1>1, <1>3, <1>5, <1>10, <2>1, <3>1, <4>1
    <3>2. CASE p \in Datagram
      <4>1. p.space \in Spaces
        BY <1>2, <3>2 DEF Packets
      <4>2. next_pn[p.space] \in Nat
        BY <1>3, <4>1
      <4> QED
        BY <1>1, <1>2, <1>3, <1>5, <1>10, <3>2, <4>2
    <3> QED
      BY <1>1, <3>1, <3>2
  <2>3. \A p \in hist, q \in Datagram : p.time # q.time
    BY <1>2, <1>3, <1>5, <2>1
  <2>4. \A p, q \in hist' : p.time = q.time => p = q
    BY <1>1, <1>2, <1>3, <2>3 DEF PacketsDistinct
  <2> QED
    BY <2>2, <2>4 DEF PacketsDistinct
<1>13. InFlightExact'
  <2>1. cc'.bytes_in_flight = bif' + used'.undone
    BY <1>1, <1>3, <1>5, <1>8, <1>9
  <2> QED
    BY <1>6, <2>1 DEF InFlightExact, AckmExact
<1>14. ReducedForNew
  BY <1>8 DEF ReducedForNew
<1> QED
  BY <1>7, <1>11, <1>12, <1>13, <1>14 DEF LossInv, QueueExact

----------------------------------------------------------------------------
(* The theorems.                                                           *)

\* The invariant holds before the first packet.
LEMMA InitInv ==
    ASSUME Init
    PROVE  LossInv
<1>1. /\ hist = {} /\ next_pn = [s \in Spaces |-> 0] /\ clock = 0
      /\ provisioned = {INITIAL} /\ bif = 0 /\ ae_bif = [s \in Spaces |-> 0]
      /\ cc = NewRenoInit /\ item = [i \in Items |-> FreeItem]
      /\ used = [drops |-> 0, rx |-> 0, early |-> 0, retry |-> 0, frames |-> 0,
                 undone |-> 0]
  BY DEF Init
<1>2. IsFiniteSet({}) /\ Cardinality({}) = 0
  BY FS_EmptySet
<1>3. cc \in Controller /\ cc.bytes_in_flight = 0
  BY <1>1, NewRenoAssumption DEF NewRenoInit, Controller, Unset
<1>4. used \in Used /\ used.undone = 0
  BY <1>1 DEF Used
<1>5. FreeItem \in Item /\ FreeItem.state = "free"
  BY DEF FreeItem, Item, Spaces
<1>6. TypeOK
  <2>1. hist \subseteq Packets /\ IsFiniteSet(hist) /\ provisioned \subseteq Spaces
    BY <1>1, <1>2 DEF Spaces
  <2>2. next_pn \in [Spaces -> Nat] /\ clock \in Nat /\ bif \in Nat
        /\ ae_bif \in [Spaces -> Nat] /\ item \in [Items -> Item]
    BY <1>1, <1>5
  <2> QED
    BY <1>3, <1>4, <2>1, <2>2 DEF TypeOK
<1>7. PacketsDistinct
  BY <1>1 DEF PacketsDistinct
<1>8. FramesHeld
  BY <1>1, <1>5 DEF FramesHeld
<1>9. InFlightExact
  <2>1. InFlight(hist) = {} /\ \A s \in Spaces : Eliciting(InSpace(hist, s)) = {}
    BY <1>1 DEF InFlight, Eliciting, InSpace
  <2> QED
    BY <1>1, <1>2, <1>3, <1>4, <2>1 DEF InFlightExact
<1> QED
  BY <1>6, <1>7, <1>8, <1>9 DEF LossInv

\* Every step keeps the invariant and cuts the threshold only for new losses.
LEMMA StepInv ==
    ASSUME LossInv, [Next]_vars
    PROVE  LossInv' /\ ReducedForNew
<1>1. CASE Send
  <2>1. PICK D \in SUBSET Committed : Generate(Datagram, D)
    BY <1>1 DEF Send
  <2> QED
    BY <2>1, GenerateStep
<1>2. CASE DiscardInitial \/ Reach
  <2>1. Discard(INITIAL) /\ UNCHANGED <<next_pn, clock, provisioned, used>>
    BY <1>2 DEF DiscardInitial, Reach, RxFirstHandshake, net
  <2>2. INITIAL \in Spaces
    BY DEF Spaces
  <2> QED
    BY <2>1, <2>2, DiscardStep
<1>3. CASE HandshakeConfirmed
  <2>1. Discard(HANDSHAKE) /\ UNCHANGED <<next_pn, clock, provisioned, used>>
    BY <1>3 DEF HandshakeConfirmed, net
  <2>2. HANDSHAKE \in Spaces
    BY DEF Spaces
  <2> QED
    BY <2>1, <2>2, DiscardStep
<1>4. CASE Timeout
  <2>1. CASE \E cut \in Cuts(LossSpace) : LossTimeout(cut)
    BY <2>1, LossTimeoutStep
  <2>2. CASE AntiDeadlock \/ \E s \in Spaces : ProbeTimeout(s)
    BY <2>2, QuietStep
  <2> QED
    BY <1>4, <2>1, <2>2 DEF Timeout
<1>5. CASE Answer
  <2>1. PICK s, cut : RxNewAck(s, cut)
    BY <1>5 DEF Answer
  <2>2. RxAck(s, {pn \in 0 .. next_pn[s] - 1 : <<s, pn>> \in arrived}, cut)
    BY <2>1 DEF RxNewAck
  <2> QED
    BY <2>2, RxAckStep
<1>6. CASE \E p \in hist : \E cut \in Cuts(p.space) : RxOldAck(p.space, p.pn, cut)
  <2>1. PICK p, cut : RxOldAck(p.space, p.pn, cut)
    BY <1>6
  <2>2. RxAck(p.space, {p.pn}, cut)
    BY <2>1 DEF RxOldAck
  <2> QED
    BY <2>2, RxAckStep
<1>7. CASE Retry
  BY <1>7, RetryStep
<1>8. CASE \E i \in Items, s \in Spaces, u \in BOOLEAN : AddFrame(i, s, u)
  BY <1>8, AddFrameStep
<1>9. CASE \/ GiveUp \/ UNCHANGED vars
           \/ \E s \in Spaces : LoseAck(s) \/ ProvideSecret(s) \/ RxPacket(s)
  BY <1>9, QuietStep
<1> QED
  BY <1>1, <1>2, <1>3, <1>4, <1>5, <1>6, <1>7, <1>8, <1>9 DEF Next

\* The strengthened invariant holds: packets are told apart by their numbers
\* and times, frames that count as sent are with one packet of their space, and
\* the counters of the ACK manager and of the controller are those of the
\* history.
THEOREM Inductive == Spec => []LossInv
<1>1. Init => LossInv
  BY InitInv
<1>2. LossInv /\ [Next]_vars => LossInv'
  BY StepInv
<1> QED
  BY <1>1, <1>2, PTL DEF Spec

\* The history, the counters, the queue and the controller keep their types:
\* bytes in flight are never negative.
THEOREM TypeCorrect == Spec => []TypeOK
<1>1. LossInv => TypeOK
  BY DEF LossInv
<1> QED
  BY <1>1, Inductive, PTL

\* A frame of the control frame queue counts as sent exactly while one packet
\* of the history carries it (quic_cfq.c, quic_fifd.c).
THEOREM FramesExact == Spec => []ItemsExact
<1>1. LossInv => ItemsExact
  <2> SUFFICES ASSUME LossInv, NEW i \in Items
               PROVE  Cardinality({p \in hist : i \in p.items})
                        = IF item[i].state = "tx" THEN 1 ELSE 0
    BY DEF ItemsExact
  <2>1. FramesHeld
    BY DEF LossInv
  <2>2. CASE item[i].state = "tx"
    <3>1. PICK p \in hist : i \in p.items
      BY <2>1, <2>2 DEF FramesHeld
    <3>2. {q \in hist : i \in q.items} = {p}
      BY <2>1, <3>1 DEF FramesHeld
    <3>3. Cardinality({p}) = 1
      BY FS_Singleton
    <3> QED
      BY <2>2, <3>2, <3>3
  <2>3. CASE item[i].state # "tx"
    <3>1. {q \in hist : i \in q.items} = {}
      BY <2>1, <2>3 DEF FramesHeld
    <3>2. Cardinality({}) = 0
      BY FS_EmptySet
    <3> QED
      BY <2>3, <3>1, <3>2
  <2> QED
    BY <2>2, <2>3
<1> QED
  BY <1>1, Inductive, PTL

\* bytes_in_flight and ack_eliciting_bytes_in_flight of the ACK manager and
\* bytes_in_flight of the congestion controller are those of the packets in the
\* history, but for what a Retry took back (quic_ackm.c, cc_newreno.c).
THEOREM CountersExact == Spec => []InFlightExact
<1>1. LossInv => InFlightExact
  BY DEF LossInv
<1> QED
  BY <1>1, Inductive, PTL

\* The threshold is cut only when a packet leaves the history that was sent
\* after the recovery period had begun (newreno_cong).
THEOREM OneCutPerWindow == Spec => ReducedOncePerWindow
<1>1. LossInv /\ [Next]_vars =>
        [cc'.slow_start_thresh # cc.slow_start_thresh =>
           \E p \in hist \ hist' : p.time > cc.cong_recovery_start_time]_vars
  BY StepInv DEF ReducedForNew
<1> QED
  BY <1>1, Inductive, PTL DEF Spec, ReducedOncePerWindow
=============================================================================
