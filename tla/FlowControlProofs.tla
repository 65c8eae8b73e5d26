------------------------- MODULE FlowControlProofs -------------------------
(***************************************************************************)
(* Proofs about FlowControl, for any finite set of streams, any windows    *)
(* and any bounds.                                                         *)
(***************************************************************************)
EXTENDS FlowControl, FiniteSetTheorems, TLAPS

(***************************************************************************)
(* The number of bytes of all streams.                                     *)
(***************************************************************************)
Cells(n) == {p \in Streams \X (1 .. Limit) : p[2] <= n[p[1]]}

\* There are finitely many bytes.
LEMMA CellsFinite ==
    ASSUME NEW S \in SUBSET (Streams \X (1 .. Limit))
    PROVE  IsFiniteSet(S) /\ Cardinality(S) \in Nat
  <1>1. IsFiniteSet(1 .. Limit)
    BY FS_Interval, FlowControlAssumption
  <1>2. IsFiniteSet(Streams \X (1 .. Limit))
    BY <1>1, FS_Product, FlowControlAssumption
  <1> QED BY <1>2, FS_Subset, FS_CardinalityType

\* The total is a number of bytes.
LEMMA TotalCells == ASSUME NEW n PROVE Total(n) = Cardinality(Cells(n))
  BY DEF Total, Cells

\* It is a natural number.
LEMMA TotalType == ASSUME NEW n PROVE Total(n) \in Nat
  <1>1. Cells(n) \in SUBSET (Streams \X (1 .. Limit))
    BY DEF Cells
  <1> QED BY <1>1, CellsFinite DEF Total, Cells

\* Without any bytes it is zero.
LEMMA TotalZero == Total([s \in Streams |-> 0]) = 0
  <1>1. {p \in Streams \X (1 .. Limit) : p[2] <= [s \in Streams |-> 0][p[1]]} = {}
    BY FlowControlAssumption
  <1> QED BY <1>1, FS_EmptySet DEF Total

\* More bytes on every stream are more bytes in total.
LEMMA TotalMonotone ==
    ASSUME NEW n \in [Streams -> Nat], NEW m \in [Streams -> Nat],
           \A s \in Streams : n[s] <= m[s]
    PROVE  Total(n) <= Total(m)
  <1>1. Cells(n) \subseteq Cells(m)
    BY FlowControlAssumption DEF Cells
  <1>2. IsFiniteSet(Cells(m))
    BY CellsFinite DEF Cells
  <1> QED BY <1>1, <1>2, FS_Subset DEF Total, Cells

\* The totals of two parts add up: the bytes of the second part, moved behind
\* those of the first on each stream, are the rest of the whole.
LEMMA TotalAdd ==
    ASSUME NEW n \in [Streams -> Nat], NEW m \in [Streams -> Nat],
           \A s \in Streams : n[s] + m[s] <= Limit
    PROVE  Total([s \in Streams |-> n[s] + m[s]]) = Total(n) + Total(m)
  <1> DEFINE sum == [s \in Streams |-> n[s] + m[s]]
             rest == {p \in Streams \X (1 .. Limit) : n[p[1]] < p[2] /\ p[2] <= sum[p[1]]}
             f == [p \in Cells(m) |-> <<p[1], n[p[1]] + p[2]>>]
             g == [q \in rest |-> <<q[1], q[2] - n[q[1]]>>]
  <1>1. Cells(sum) = Cells(n) \cup rest /\ Cells(n) \cap rest = {}
    BY FlowControlAssumption DEF Cells
  <1>2. f \in [Cells(m) -> rest]
    <2> SUFFICES ASSUME NEW p \in Cells(m) PROVE f[p] \in rest
      OBVIOUS
    <2>1. PICK s \in Streams, i \in 1 .. Limit : p = <<s, i>> /\ i <= m[s]
      BY DEF Cells
    <2>2. f[p] = <<s, n[s] + i>> /\ n[s] + i \in 1 .. Limit
      BY <2>1, FlowControlAssumption
    <2> QED BY <2>1, <2>2, FlowControlAssumption
  <1>3. \A q \in rest : g[q] \in Cells(m) /\ f[g[q]] = q
    <2> SUFFICES ASSUME NEW q \in rest PROVE g[q] \in Cells(m) /\ f[g[q]] = q
      OBVIOUS
    <2>1. PICK s \in Streams, i \in 1 .. Limit : q = <<s, i>> /\ n[s] < i /\ i <= n[s] + m[s]
      OBVIOUS
    <2>2. g[q] = <<s, i - n[s]>> /\ i - n[s] \in 1 .. Limit /\ i - n[s] <= m[s]
      BY <2>1, FlowControlAssumption
    <2>3. g[q] \in Cells(m)
      BY <2>2 DEF Cells
    <2>4. f[g[q]] = <<s, n[s] + (i - n[s])>>
      BY <2>2, <2>3
    <2>5. n[s] + (i - n[s]) = i
      BY FlowControlAssumption
    <2> QED BY <2>1, <2>3, <2>4, <2>5
  <1>4. \A p, q \in Cells(m) : f[p] = f[q] => p = q
    <2> SUFFICES ASSUME NEW p \in Cells(m), NEW q \in Cells(m), f[p] = f[q] PROVE p = q
      OBVIOUS
    <2>1. PICK s \in Streams, i \in 1 .. Limit : p = <<s, i>>
      BY DEF Cells
    <2>2. PICK t \in Streams, j \in 1 .. Limit : q = <<t, j>>
      BY DEF Cells
    <2>3. <<s, n[s] + i>> = <<t, n[t] + j>>
      BY <2>1, <2>2
    <2> QED BY <2>1, <2>2, <2>3, FlowControlAssumption
  <1>5. f \in Bijection(Cells(m), rest)
    <2> HIDE DEF f, g, rest
    <2>1. f \in Injection(Cells(m), rest)
      BY <1>2, <1>4 DEF Injection, IsInjective
    <2>2. f \in Surjection(Cells(m), rest)
      BY <1>2, <1>3 DEF Surjection
    <2> QED BY <2>1, <2>2 DEF Bijection
  <1>6. /\ IsFiniteSet(Cells(n)) /\ IsFiniteSet(Cells(m)) /\ IsFiniteSet(rest)
        /\ Cardinality(Cells(n)) \in Nat /\ Cardinality(rest) \in Nat
    BY CellsFinite DEF Cells
  <1>7. Cardinality(rest) = Cardinality(Cells(m))
    BY <1>5, <1>6, FS_Bijection DEF ExistsBijection
  <1> HIDE DEF sum, rest, f, g
  <1>8. Cardinality(Cells(sum)) = Cardinality(Cells(n)) + Cardinality(rest)
    <2>1. Cardinality(Cells(n) \cap rest) = 0
      BY <1>1, FS_EmptySet
    <2>2. Cardinality(Cells(n) \cup rest)
             = Cardinality(Cells(n)) + Cardinality(rest) - Cardinality(Cells(n) \cap rest)
      BY <1>6, FS_Union
    <2> QED BY <1>1, <1>6, <2>1, <2>2
  <1> QED BY <1>7, <1>8, TotalCells DEF sum

\* The total of one stream alone.
LEMMA TotalOne ==
    ASSUME NEW s \in Streams, NEW c \in 0 .. Limit
    PROVE  Total([t \in Streams |-> IF t = s THEN c ELSE 0]) = c
  <1>1. Cells([t \in Streams |-> IF t = s THEN c ELSE 0]) = {s} \X (1 .. c)
    BY FlowControlAssumption DEF Cells
  <1>2. IsFiniteSet({s}) /\ Cardinality({s}) = 1
    BY FS_Singleton
  <1>3. IsFiniteSet(1 .. c) /\ Cardinality(1 .. c) = c
    BY FS_Interval, FlowControlAssumption
  <1>4. Cardinality({s} \X (1 .. c)) = 1 * c
    BY <1>2, <1>3, FS_Product
  <1>5. 1 * c = c
    BY FlowControlAssumption
  <1> QED BY <1>1, <1>4, <1>5, TotalCells

\* One stream grows by d bytes.
LEMMA TotalGrow ==
    ASSUME NEW n \in [Streams -> Nat], NEW s \in Streams, NEW d \in Nat,
           \A t \in Streams : n[t] <= Limit, n[s] + d <= Limit
    PROVE  Total([n EXCEPT ![s] = n[s] + d]) = Total(n) + d
  <1> DEFINE one == [t \in Streams |-> IF t = s THEN d ELSE 0]
  <1>1. [n EXCEPT ![s] = n[s] + d] = [t \in Streams |-> n[t] + one[t]]
    <2>1. \A t \in Streams : n[t] + one[t] = IF t = s THEN n[s] + d ELSE n[t]
      OBVIOUS
    <2> QED BY <2>1
  <1>2. d \in 0 .. Limit
    BY FlowControlAssumption
  <1>3. one \in [Streams -> Nat] /\ \A t \in Streams : n[t] + one[t] <= Limit
    OBVIOUS
  <1>4. Total(one) = d
    BY <1>2, TotalOne
  <1> QED BY <1>1, <1>3, <1>4, TotalAdd

-----------------------------------------------------------------------------
(***************************************************************************)
(* The controllers.                                                        *)
(***************************************************************************)

\* A controller is that of the connection or that of a stream.
LEMMA TargetsSplit ==
    /\ Conn \in Targets /\ Conn \notin Streams
    /\ \A k \in Targets : k = Conn \/ k \in Streams
    /\ \A s \in Streams : s \in Targets /\ s # Conn
  BY FlowControlAssumption DEF Targets

\* A controller with room for n bytes spends them and reports no error.
LEMMA OnRxFits ==
    ASSUME NEW fc \in Controller, NEW n \in Nat, n <= fc.cwm - fc.swm
    PROVE  OnRx(fc, n) = [fc EXCEPT !.swm = @ + n]
  BY DEF OnRx, Controller

\* The window stays between one and its limit.
LEMMA WindowRange ==
    ASSUME NEW fc \in Controller, NEW max \in Nat, fc.win \in 1 .. max,
           NEW min \in Nat, NEW fast \in BOOLEAN
    PROVE  Window(fc, max, min, fast) \in 1 .. max
  <1>1. fc.win \in Nat
    BY DEF Controller
  <1> QED BY <1>1 DEF Window, Larger, Smaller

\* Retiring bytes moves the retired mark, and raises the credit mark only
\* together with the request to announce it.
LEMMA OnRetireEffect ==
    ASSUME NEW fc \in Controller, NEW n \in Nat, NEW max \in Nat, fc.win \in 1 .. max,
           NEW min \in Nat, NEW fast \in BOOLEAN,
           NEW r, r = OnRetire(fc, n, max, min, fast)
    PROVE  /\ r \in Controller /\ r.win \in 1 .. max
           /\ r.swm = fc.swm /\ r.rwm = fc.rwm + n /\ r.hwm = fc.hwm
           /\ r.fin = fc.fin /\ r.error = fc.error
           /\ fc.cwm <= r.cwm
           /\ fc.cwm < r.cwm \/ fc.changed => r.changed
           /\ fc.cwm <= fc.rwm + max => r.cwm <= r.rwm + max
  <1> DEFINE r1 == [fc EXCEPT !.rwm = @ + n]
             w == Window(r1, max, min, fast)
  <1>1. r1 \in Controller /\ r1.win = fc.win
    BY DEF Controller
  <1>2. w \in 1 .. max
    BY <1>1, WindowRange
  <1> HIDE DEF w
  <1>3. CASE ~BumpDesired(r1)
    <2>1. r = r1
      BY <1>3 DEF OnRetire
    <2>2. fc.cwm \in Nat /\ fc.rwm \in Nat
      BY DEF Controller
    <2> QED BY <2>1, <2>2 DEF Controller
  <1>4. CASE BumpDesired(r1)
    <2>1. r = [r1 EXCEPT !.win = w, !.cwm = Larger(@, r1.rwm + w),
                         !.changed = @ \/ r1.rwm + w > r1.cwm]
      BY <1>4 DEF OnRetire, w
    <2>2. /\ fc.cwm \in Nat /\ fc.rwm \in Nat /\ w \in Nat
          /\ r1.rwm + w \in Nat /\ r1.cwm = fc.cwm /\ r1.changed = fc.changed
      BY <1>2 DEF Controller
    <2>3. /\ Larger(fc.cwm, r1.rwm + w) \in Nat
          /\ fc.cwm <= Larger(fc.cwm, r1.rwm + w)
          /\ fc.cwm < Larger(fc.cwm, r1.rwm + w) => r1.rwm + w > fc.cwm
          /\ fc.cwm <= fc.rwm + max => Larger(fc.cwm, r1.rwm + w) <= fc.rwm + n + max
      BY <1>2, <2>2 DEF Larger, Controller
    <2> QED BY <1>1, <1>2, <2>1, <2>2, <2>3 DEF Controller
  <1> QED BY <1>3, <1>4

\* What a stream's controller is after a frame.
Marked(fc, x, y, f) == [[fc EXCEPT !.swm = x] EXCEPT !.hwm = y, !.fin = f]

\* A frame moves the two marks and the final size and nothing else.
LEMMA MarkedFields ==
    ASSUME NEW fc \in Controller, NEW x \in Nat, NEW y \in Nat, NEW f \in BOOLEAN
    PROVE  /\ Marked(fc, x, y, f) \in Controller
           /\ Marked(fc, x, y, f).swm = x /\ Marked(fc, x, y, f).hwm = y
           /\ Marked(fc, x, y, f).fin = f
           /\ Marked(fc, x, y, f).cwm = fc.cwm /\ Marked(fc, x, y, f).rwm = fc.rwm
           /\ Marked(fc, x, y, f).win = fc.win
           /\ Marked(fc, x, y, f).changed = fc.changed
           /\ Marked(fc, x, y, f).error = fc.error
  BY DEF Controller, Marked

\* The controllers r are those of the receiver after new bytes of stream s.
Charged(r, s, new, fin) ==
    /\ r \in [Targets -> Controller]
    /\ \A k \in Targets : /\ r[k].cwm = rx[k].cwm /\ r[k].rwm = rx[k].rwm
                           /\ r[k].win = rx[k].win /\ r[k].changed = rx[k].changed
                           /\ r[k].error = rx[k].error
    /\ \A t \in Streams \ {s} : r[t] = rx[t]
    /\ r[s].swm = rx[s].swm + new /\ r[s].hwm = rx[s].hwm + new
    /\ r[s].fin = (rx[s].fin \/ fin)
    /\ r[Conn].swm = rx[Conn].swm + new

\* A frame of the honest sender, wherever it was cut and however late it is, is
\* charged for the bytes beyond the high-water mark, and to both controllers.
LEMMA FrameCounted ==
    ASSUME FlowInv, NEW s \in Streams, NEW end \in 0 .. tx[s].swm, NEW fin \in BOOLEAN,
           fin => ended[s] # {} /\ end = tx[s].swm,
           NEW r, r = OnRxStreamFrame(s, end, fin)
    PROVE  \E new \in Nat :
             /\ rx[s].swm + new <= tx[s].swm
             /\ Charged(r, s, new, fin)
             /\ rx[s].fin \/ fin => rx[s].swm + new = tx[s].swm
  <1>1. /\ rx[s] \in Controller /\ rx[Conn] \in Controller
        /\ rx \in [Targets -> Controller] /\ tx[s].swm \in Nat /\ tx[s].cwm \in Nat
        /\ tx[Conn].swm \in Nat /\ tx[Conn].cwm \in Nat
        /\ s \in Targets /\ Conn \in Targets /\ s # Conn
    BY TargetsSplit DEF FlowInv, TypeOK
  <1>2. /\ rx[s].swm \in Nat /\ rx[s].hwm = rx[s].swm /\ rx[s].hwm <= tx[s].swm
        /\ rx[s].cwm \in Nat /\ tx[s].swm <= tx[s].cwm /\ tx[s].cwm <= rx[s].cwm
        /\ tx[s].swm <= Limit /\ rx[Conn].swm \in Nat /\ rx[Conn].cwm \in Nat
        /\ rx[s].fin \in BOOLEAN
        /\ rx[s].fin => ended[s] # {} /\ rx[s].hwm = tx[s].swm
    BY <1>1 DEF FlowInv, BytesCountedOnce, CreditAgreed, Controller
  <1>3. /\ ~(rx[s].fin /\ ((fin /\ rx[s].hwm # end) \/ end > rx[s].hwm))
        /\ ~(fin /\ end < rx[s].hwm)
    BY <1>1, <1>2
  <1>4. CASE end > rx[s].hwm
    <2> DEFINE new == end - rx[s].hwm
    <2>1. /\ new \in Nat /\ rx[s].swm + new = end /\ rx[s].hwm + new = end
          /\ new <= rx[s].cwm - rx[s].swm
      BY <1>1, <1>2, <1>4
    <2>2. new <= rx[Conn].cwm - rx[Conn].swm
      <3> DEFINE n == [t \in Streams |-> rx[t].swm]
                 m == [t \in Streams |-> tx[t].swm]
      <3>1. /\ n \in [Streams -> Nat] /\ m \in [Streams -> Nat]
            /\ \A t \in Streams : n[t] <= m[t] /\ m[t] <= Limit
        BY TargetsSplit DEF FlowInv, TypeOK, Controller, BytesCountedOnce
      <3>2. /\ n[s] = rx[s].swm /\ m[s] = tx[s].swm /\ new \in Nat
            /\ n[s] + new <= m[s] /\ n[s] + new <= Limit
            /\ \A t \in Streams : n[t] <= Limit
        BY <1>2, <2>1, <3>1, FlowControlAssumption
      <3>3. rx[Conn].swm = Total(n) /\ tx[Conn].swm = Total(m)
        BY DEF FlowInv, BytesCountedOnce
      <3> HIDE DEF n, m, new
      <3>4. Total([n EXCEPT ![s] = n[s] + new]) = Total(n) + new
        BY <3>1, <3>2, TotalGrow
      <3>5. Total([n EXCEPT ![s] = n[s] + new]) <= Total(m)
        <4>1. [n EXCEPT ![s] = n[s] + new] \in [Streams -> Nat]
          BY <3>1, <3>2
        <4>2. \A t \in Streams : [n EXCEPT ![s] = n[s] + new][t] <= m[t]
          BY <3>1, <3>2
        <4> QED BY <3>1, <4>1, <4>2, TotalMonotone
      <3>6. tx[Conn].swm <= tx[Conn].cwm /\ tx[Conn].cwm <= rx[Conn].cwm
        BY <1>1 DEF FlowInv, CreditAgreed
      <3> QED BY <1>1, <1>2, <3>2, <3>3, <3>4, <3>5, <3>6
    <2>3. OnRx(rx[s], new) = [rx[s] EXCEPT !.swm = rx[s].swm + new]
      BY <1>1, <2>1, OnRxFits
    <2>4. OnRx(rx[Conn], new) = [rx[Conn] EXCEPT !.swm = rx[Conn].swm + new]
      BY <1>1, <2>1, <2>2, OnRxFits
    <2>5. new > 0 /\ ~(rx[s].fin /\ ((fin /\ new # 0) \/ new > 0))
      BY <1>2, <1>3, <1>4, <2>1
    <2> DEFINE f == rx[s].fin \/ fin
               a == Marked(rx[s], rx[s].swm + new, end, f)
               b == [rx[Conn] EXCEPT !.swm = rx[Conn].swm + new]
    <2>6. r = [rx EXCEPT ![s] = a, ![Conn] = b]
      BY <2>3, <2>4, <2>5 DEF OnRxStreamFrame, Marked
    <2>7. /\ a \in Controller /\ a.swm = rx[s].swm + new /\ a.hwm = rx[s].hwm + new
          /\ a.fin = f
          /\ a.cwm = rx[s].cwm /\ a.rwm = rx[s].rwm /\ a.win = rx[s].win
          /\ a.changed = rx[s].changed /\ a.error = rx[s].error
      <3>1. f \in BOOLEAN
        OBVIOUS
      <3>2. end \in Nat /\ rx[s].swm + new \in Nat
        BY <1>1, <1>2, <2>1
      <3> HIDE DEF f, new
      <3> QED BY <1>1, <2>1, <3>1, <3>2, MarkedFields DEF Controller
    <2>8. /\ b \in Controller /\ b.swm = rx[Conn].swm + new
          /\ b.cwm = rx[Conn].cwm /\ b.rwm = rx[Conn].rwm /\ b.win = rx[Conn].win
          /\ b.changed = rx[Conn].changed /\ b.error = rx[Conn].error
      BY <1>1, <1>2, <2>1 DEF Controller
    <2> HIDE DEF new, a, b
    <2>9. Charged(r, s, new, fin)
      BY <1>1, <2>6, <2>7, <2>8, TargetsSplit DEF Charged
    <2>10. rx[s].fin \/ fin => rx[s].swm + new = tx[s].swm
      BY <1>2, <1>3, <1>4, <2>1
    <2> QED BY <1>1, <1>2, <2>1, <2>9, <2>10
  <1>5. CASE ~(end > rx[s].hwm)
    <2> DEFINE f == rx[s].fin \/ fin
               a == Marked(rx[s], rx[s].swm, rx[s].hwm, f)
    <2>1. r = [rx EXCEPT ![s] = a]
      <3>1. ~(end - rx[s].hwm > 0) /\ ~(fin /\ end - rx[s].hwm # 0) /\ ~(fin /\ end - rx[s].hwm < 0)
        BY <1>1, <1>2, <1>3, <1>5
      <3>2. r = [rx EXCEPT ![s] = [rx[s] EXCEPT !.fin = rx[s].fin \/ fin, !.error = rx[s].error]]
        BY <3>1 DEF OnRxStreamFrame
      <3>3. [rx[s] EXCEPT !.fin = f, !.error = rx[s].error] = a
        <4>1. f \in BOOLEAN
          OBVIOUS
        <4> HIDE DEF f
        <4> QED BY <1>1, <4>1 DEF Marked, Controller
      <3> QED BY <3>2, <3>3
    <2>2. /\ a \in Controller /\ a.swm = rx[s].swm + 0 /\ a.hwm = rx[s].hwm + 0
          /\ a.fin = f
          /\ a.cwm = rx[s].cwm /\ a.rwm = rx[s].rwm /\ a.win = rx[s].win
          /\ a.changed = rx[s].changed /\ a.error = rx[s].error
      <3>1. f \in BOOLEAN
        OBVIOUS
      <3> HIDE DEF f
      <3> QED BY <1>1, <1>2, <3>1, MarkedFields DEF Controller
    <2>3. rx[Conn].swm = rx[Conn].swm + 0
      BY <1>2
    <2> HIDE DEF a
    <2>4. Charged(r, s, 0, fin)
      BY <1>1, <2>1, <2>2, <2>3, TargetsSplit DEF Charged
    <2>5. rx[s].fin \/ fin => rx[s].swm + 0 = tx[s].swm
      BY <1>2, <1>3, <1>5
    <2> QED BY <1>2, <2>4, <2>5
  <1> QED BY <1>4, <1>5

-----------------------------------------------------------------------------
(***************************************************************************)
(* The inductive invariant, action by action.                              *)
(***************************************************************************)

\* The marks of both ends are natural numbers.
LEMMA MarksType ==
    ASSUME TypeOK, NEW k \in Targets
    PROVE  /\ tx[k] \in [swm : Nat, cwm : Nat] /\ tx[k].swm \in Nat /\ tx[k].cwm \in Nat
           /\ rx[k] \in Controller /\ rx[k].swm \in Nat /\ rx[k].cwm \in Nat
           /\ rx[k].rwm \in Nat /\ rx[k].hwm \in Nat
  BY DEF TypeOK, Controller

\* Nothing is sent, received or granted at first.
LEMMA InitInv == Init => FlowInv
  <1> SUFFICES ASSUME Init PROVE FlowInv
    OBVIOUS
  <1> USE FlowControlAssumption, TargetsSplit
  <1>1. \A k \in Targets : /\ InitWindow[k] \in Nat /\ MaxWindow[k] \in Nat
                           /\ InitWindow[k] \in 1 .. MaxWindow[k]
    OBVIOUS
  <1>2. \A k \in Targets :
          /\ tx[k].swm = 0 /\ tx[k].cwm = InitWindow[k]
          /\ rx[k].swm = 0 /\ rx[k].cwm = InitWindow[k] /\ rx[k].rwm = 0 /\ rx[k].hwm = 0
          /\ rx[k].fin = FALSE /\ rx[k].error = "none"
    BY DEF Init
  <1>3. TypeOK
    BY <1>1 DEF Init, TypeOK, Controller, Errors, RecvStates
  <1>4. HonestPeer
    BY <1>2 DEF Init, HonestPeer
  <1>5. BytesCountedOnce
    <2>1. /\ [s \in Streams |-> tx[s].swm] = [s \in Streams |-> 0]
          /\ [s \in Streams |-> rx[s].swm] = [s \in Streams |-> 0]
          /\ [s \in Streams |-> rx[s].rwm] = [s \in Streams |-> 0]
      BY <1>2
    <2> QED BY <1>2, <2>1, TotalZero DEF BytesCountedOnce
  <1>6. CreditAgreed /\ GrantNotForgotten
    BY <1>1, <1>2 DEF CreditAgreed, GrantNotForgotten
  <1>7. \A s \in Streams :
          /\ tx[s].swm <= Limit /\ rx[s].rwm <= rx[s].swm
          /\ rx[s].fin => ended[s] # {} /\ rx[s].hwm = tx[s].swm
    <2> SUFFICES ASSUME NEW s \in Streams
                 PROVE  /\ tx[s].swm <= Limit /\ rx[s].rwm <= rx[s].swm
                        /\ ~rx[s].fin
      OBVIOUS
    <2> QED BY <1>2
  <1>8. \A k \in Targets : net[k] = {} /\ flying[k] = {}
    BY DEF Init
  <1>9. \A k \in Targets : rx[k].cwm <= rx[k].rwm + MaxWindow[k]
    BY <1>1, <1>2
  <1> QED BY <1>3, <1>4, <1>5, <1>6, <1>7, <1>8, <1>9 DEF FlowInv

\* Consume cuts nothing off what fits.
LEMMA ConsumeFits ==
    ASSUME NEW fc \in [swm : Nat, cwm : Nat], NEW c \in Nat, c <= fc.cwm - fc.swm
    PROVE  /\ Consume(fc, c) \in [swm : Nat, cwm : Nat]
           /\ Consume(fc, c).swm = fc.swm + c /\ Consume(fc, c).cwm = fc.cwm
  <1>1. Smaller(fc.cwm, fc.swm + c) = fc.swm + c
    BY DEF Smaller
  <1> QED BY <1>1 DEF Consume

\* A packet spends what the plan gave each stream, and the sum of it on the
\* connection.
LEMMA TxPacketInv ==
    ASSUME FlowInv, NEW n \in [Streams -> 0 .. Limit], TxPacket(n)
    PROVE  FlowInv' /\ MarksGrow
  <1> USE FlowControlAssumption, TargetsSplit
  <1> DEFINE old == [s \in Streams |-> tx[s].swm]
  <1>1. \A k \in Targets : /\ tx[k] \in [swm : Nat, cwm : Nat]
                           /\ tx[k].swm \in Nat /\ tx[k].cwm \in Nat
    BY MarksType DEF FlowInv
  <1>2. \A s \in Streams : n[s] \in Nat /\ n[s] <= tx[s].cwm - tx[s].swm
    BY <1>1 DEF TxPacket, Plan, TxCredit
  <1>3. Total(n) \in Nat /\ Total(n) <= tx[Conn].cwm - tx[Conn].swm
    BY <1>1, TotalType DEF TxPacket, Plan, TxCredit
  <1>4. \A s \in Streams : tx'[s] = Consume(tx[s], n[s])
    BY DEF TxPacket
  <1>5. tx'[Conn] = Consume(tx[Conn], Total(n))
    BY DEF TxPacket
  <1>6. /\ \A s \in Streams : tx'[s] \in [swm : Nat, cwm : Nat]
        /\ tx'[Conn] \in [swm : Nat, cwm : Nat]
        /\ \A s \in Streams : tx'[s].swm = tx[s].swm + n[s] /\ tx'[s].cwm = tx[s].cwm
        /\ tx'[Conn].swm = tx[Conn].swm + Total(n) /\ tx'[Conn].cwm = tx[Conn].cwm
    BY <1>1, <1>2, <1>3, <1>4, <1>5, ConsumeFits
  <1>7. tx' \in [Targets -> [swm : Nat, cwm : Nat]]
    BY <1>6 DEF TxPacket
  <1>8. TypeOK' /\ HonestPeer'
    BY <1>7 DEF FlowInv, TypeOK, HonestPeer, TxPacket
  <1>9. BytesCountedOnce'
    <2>1. /\ old \in [Streams -> Nat] /\ n \in [Streams -> Nat]
          /\ \A s \in Streams : old[s] + n[s] <= Limit
      BY <1>1 DEF TxPacket
    <2>2. [s \in Streams |-> tx'[s].swm] = [s \in Streams |-> old[s] + n[s]]
      BY <1>6
    <2>3. tx[Conn].swm = Total(old)
      BY DEF FlowInv, BytesCountedOnce
    <2> HIDE DEF old
    <2>4. tx'[Conn].swm = Total([s \in Streams |-> tx'[s].swm])
      BY <1>6, <2>1, <2>2, <2>3, TotalAdd
    <2>5. \A s \in Streams : rx[s].swm = rx[s].hwm /\ rx[s].hwm <= tx'[s].swm
      BY <1>1, <1>2, <1>6, MarksType DEF FlowInv, BytesCountedOnce
    <2> QED BY <2>4, <2>5 DEF FlowInv, BytesCountedOnce, TxPacket
  <1>10. CreditAgreed' /\ GrantNotForgotten'
    <2>1. \A k \in Targets : tx'[k].swm <= tx'[k].cwm /\ tx'[k].cwm <= rx[k].cwm
      BY <1>1, <1>2, <1>3, <1>6 DEF FlowInv, CreditAgreed
    <2> QED BY <1>6, <2>1 DEF FlowInv, CreditAgreed, GrantNotForgotten, TxPacket
  <1>11. \A s \in Streams :
          /\ tx'[s].swm <= Limit
          /\ rx[s].rwm <= rx[s].swm
          /\ rx[s].fin => ended[s] # {} /\ rx[s].hwm = tx'[s].swm
    <2> SUFFICES ASSUME NEW s \in Streams
                 PROVE  /\ tx'[s].swm <= Limit
                        /\ rx[s].rwm <= rx[s].swm
                        /\ rx[s].fin => ended[s] # {} /\ rx[s].hwm = tx'[s].swm
      OBVIOUS
    <2>1. tx[s].swm + n[s] <= Limit /\ (ended[s] # {} => n[s] = 0)
      BY DEF TxPacket
    <2>2. /\ rx[s].rwm <= rx[s].swm
          /\ rx[s].fin => ended[s] # {} /\ rx[s].hwm = tx[s].swm
      BY DEF FlowInv
    <2> QED BY <1>1, <1>6, <2>1, <2>2
  <1>12. \A k \in Targets : tx'[k].cwm = tx[k].cwm
    BY <1>6
  <1>13. MarksGrow
    <2>1. \A k \in Targets : rx'[k] = rx[k] /\ rx[k].swm <= rx[k].swm /\ rx[k].cwm <= rx[k].cwm
      BY MarksType DEF FlowInv, TxPacket
    <2>2. \A s \in Streams : tx[s].swm <= tx'[s].swm /\ tx[s].cwm <= tx'[s].cwm
      BY <1>1, <1>2, <1>6
    <2>3. tx[Conn].swm <= tx'[Conn].swm /\ tx[Conn].cwm <= tx'[Conn].cwm
      BY <1>1, <1>3, <1>6
    <2> QED BY <2>1, <2>2, <2>3 DEF MarksGrow
  <1> QED BY <1>8, <1>9, <1>10, <1>11, <1>12, <1>13 DEF FlowInv, TxPacket

\* A frame of the honest sender leaves the receiver without an error, with every
\* new byte counted on the stream and on the connection.
LEMMA FrameInv ==
    ASSUME FlowInv, NEW s \in Streams, NEW end \in 0 .. tx[s].swm, NEW fin \in BOOLEAN,
           fin => ended[s] # {} /\ end = tx[s].swm,
           rx' = OnRxStreamFrame(s, end, fin), term' = (rx'[s].error # "none"),
           recv' \in [Streams -> RecvStates],
           UNCHANGED <<tx, ended, stop, want, net, flying>>
    PROVE  FlowInv' /\ MarksGrow
  <1> USE TargetsSplit
  <1>1. PICK new \in Nat : /\ rx[s].swm + new <= tx[s].swm
                           /\ Charged(rx', s, new, fin)
                           /\ rx[s].fin \/ fin => rx[s].swm + new = tx[s].swm
    BY FrameCounted
  <1>2. /\ \A k \in Targets : /\ rx'[k].cwm = rx[k].cwm /\ rx'[k].rwm = rx[k].rwm
                              /\ rx'[k].win = rx[k].win /\ rx'[k].changed = rx[k].changed
                              /\ rx'[k].error = rx[k].error
        /\ \A t \in Streams \ {s} : rx'[t] = rx[t]
        /\ rx'[s].swm = rx[s].swm + new /\ rx'[s].hwm = rx[s].hwm + new
        /\ rx'[s].fin = (rx[s].fin \/ fin)
        /\ rx'[Conn].swm = rx[Conn].swm + new
        /\ rx' \in [Targets -> Controller]
    BY <1>1 DEF Charged
  <1>3. \A k \in Targets : /\ rx[k].error = "none" /\ rx[k].win \in 1 .. MaxWindow[k]
                           /\ rx[k].swm \in Nat /\ rx[k].rwm \in Nat /\ rx[k].hwm \in Nat
                           /\ rx[k].cwm \in Nat /\ tx[k].swm \in Nat /\ tx[k].cwm \in Nat
    BY MarksType DEF FlowInv, HonestPeer, TypeOK
  <1>4. HonestPeer'
    BY <1>2, <1>3 DEF HonestPeer
  <1>5. TypeOK'
    BY <1>2, <1>3, <1>4 DEF FlowInv, TypeOK, HonestPeer
  <1>6. BytesCountedOnce'
    <2> DEFINE n == [t \in Streams |-> rx[t].swm]
    <2>1. \A t \in Streams : /\ rx[t].swm = rx[t].hwm /\ rx[t].hwm <= tx[t].swm
                             /\ tx[t].swm <= Limit
      BY DEF FlowInv, BytesCountedOnce
    <2>2. /\ n \in [Streams -> Nat] /\ \A t \in Streams : n[t] <= Limit
          /\ n[s] + new <= Limit
      BY <1>1, <1>3, <2>1, FlowControlAssumption
    <2>3. [t \in Streams |-> rx'[t].swm] = [n EXCEPT ![s] = n[s] + new]
      BY <1>2
    <2>4. [t \in Streams |-> rx'[t].rwm] = [t \in Streams |-> rx[t].rwm]
      BY <1>2
    <2>5. \A t \in Streams : rx'[t].swm = rx'[t].hwm /\ rx'[t].hwm <= tx[t].swm
      BY <1>1, <1>2, <1>3, <2>1
    <2>6. rx[Conn].swm = Total(n)
      BY DEF FlowInv, BytesCountedOnce
    <2> HIDE DEF n
    <2>7. rx'[Conn].swm = Total([t \in Streams |-> rx'[t].swm])
      BY <1>2, <2>2, <2>3, <2>6, TotalGrow
    <2>8. rx'[Conn].rwm = Total([t \in Streams |-> rx'[t].rwm])
      BY <1>2, <2>4 DEF FlowInv, BytesCountedOnce
    <2> QED BY <2>5, <2>7, <2>8 DEF FlowInv, BytesCountedOnce
  <1>7. CreditAgreed' /\ GrantNotForgotten'
    BY <1>2 DEF FlowInv, CreditAgreed, GrantNotForgotten
  <1>8. \A t \in Streams :
          /\ tx[t].swm <= Limit
          /\ rx'[t].rwm <= rx'[t].swm
          /\ rx'[t].fin => ended[t] # {} /\ rx'[t].hwm = tx[t].swm
    <2>1. \A t \in Streams :
            /\ tx[t].swm <= Limit /\ rx[t].rwm <= rx[t].swm /\ rx[t].swm = rx[t].hwm
            /\ rx[t].fin => ended[t] # {} /\ rx[t].hwm = tx[t].swm
      BY DEF FlowInv, BytesCountedOnce
    <2>2. rx'[s].rwm <= rx'[s].swm
      BY <1>2, <1>3, <2>1
    <2>3. rx'[s].fin => ended[s] # {} /\ rx'[s].hwm = tx[s].swm
      BY <1>1, <1>2, <2>1
    <2> QED BY <1>2, <2>1, <2>2, <2>3
  <1>9. MarksGrow
    BY <1>2, <1>3 DEF MarksGrow
  <1> QED BY <1>2, <1>4, <1>5, <1>6, <1>7, <1>8, <1>9 DEF FlowInv

\* Data and FIN, or RESET_STREAM, of any stream.
LEMMA DeliverInv ==
    ASSUME FlowInv, NEW s \in Streams, DeliverStream(s) \/ DeliverReset(s)
    PROVE  FlowInv' /\ MarksGrow
  <1>0. recv \in [Streams -> RecvStates] /\ ended[s] \in SUBSET {"fin", "reset"}
        /\ tx[s].swm \in 0 .. tx[s].swm
    BY TargetsSplit, MarksType DEF FlowInv, TypeOK
  <1>1. CASE DeliverStream(s)
    <2>1. PICK end \in 0 .. tx[s].swm, fin \in BOOLEAN :
            /\ fin => "fin" \in ended[s] /\ end = tx[s].swm
            /\ RxStream(s, end, fin)
      BY <1>1 DEF DeliverStream
    <2>2. recv' \in [Streams -> RecvStates]
      BY <1>0, <2>1 DEF RxStream, RecvStates
    <2> QED BY <2>1, <2>2, FrameInv DEF RxStream
  <1>2. CASE DeliverReset(s)
    <2>1. "reset" \in ended[s] /\ RxReset(s, tx[s].swm)
      BY <1>2 DEF DeliverReset
    <2>2. recv' \in [Streams -> RecvStates]
      BY <1>0, <2>1 DEF RxReset, RecvStates
    <2> QED BY <1>0, <2>1, <2>2, FrameInv DEF RxReset
  <1> QED BY <1>1, <1>2

\* The application reads: both retired marks move, and a higher credit mark is
\* to be announced.
LEMMA ReadInv ==
    ASSUME FlowInv, NEW s \in Streams, NEW n \in 1 .. Limit,
           NEW fast \in BOOLEAN, NEW connFast \in BOOLEAN, Read(s, n, fast, connFast)
    PROVE  FlowInv' /\ MarksGrow
  <1> USE TargetsSplit
  <1> DEFINE fc == OnRetire(rx[s], n, MaxWindow[s], 0, fast)
             cc == OnRetire(rx[Conn], n, MaxWindow[Conn], fc.win, connFast)
  <1>1. \A k \in Targets : /\ rx[k].error = "none" /\ rx[k].win \in 1 .. MaxWindow[k]
                           /\ rx[k] \in Controller /\ MaxWindow[k] \in Nat
                           /\ rx[k].swm \in Nat /\ rx[k].rwm \in Nat /\ rx[k].hwm \in Nat
                           /\ rx[k].cwm \in Nat /\ tx[k].swm \in Nat /\ tx[k].cwm \in Nat
    BY MarksType, FlowControlAssumption DEF FlowInv, HonestPeer, TypeOK
  <1>2. n \in Nat /\ rx[s].rwm + n <= rx[s].swm
    BY FlowControlAssumption DEF Read
  <1>3. rx' = [rx EXCEPT ![s] = fc, ![Conn] = cc]
    BY DEF Read
  <1>fc. fc = OnRetire(rx[s], n, MaxWindow[s], 0, fast)
    OBVIOUS
  <1>cc. cc = OnRetire(rx[Conn], n, MaxWindow[Conn], fc.win, connFast)
    OBVIOUS
  <1> HIDE DEF fc, cc
  <1>4. /\ fc \in Controller /\ fc.win \in 1 .. MaxWindow[s]
        /\ fc.swm = rx[s].swm /\ fc.rwm = rx[s].rwm + n /\ fc.hwm = rx[s].hwm
        /\ fc.fin = rx[s].fin /\ fc.error = rx[s].error
        /\ rx[s].cwm <= fc.cwm
        /\ rx[s].cwm <= rx[s].rwm + MaxWindow[s] => fc.cwm <= fc.rwm + MaxWindow[s]
    <2>1. /\ rx[s] \in Controller /\ MaxWindow[s] \in Nat /\ rx[s].win \in 1 .. MaxWindow[s]
          /\ n \in Nat /\ 0 \in Nat
      BY <1>1, <1>2
    <2> QED BY <1>fc, <2>1, OnRetireEffect DEF Controller
  <1>5. /\ cc \in Controller /\ cc.win \in 1 .. MaxWindow[Conn]
        /\ cc.swm = rx[Conn].swm /\ cc.rwm = rx[Conn].rwm + n
        /\ cc.error = rx[Conn].error
        /\ rx[Conn].cwm <= cc.cwm
        /\ rx[Conn].cwm < cc.cwm \/ rx[Conn].changed => cc.changed
        /\ rx[Conn].cwm <= rx[Conn].rwm + MaxWindow[Conn]
             => cc.cwm <= cc.rwm + MaxWindow[Conn]
    <2>1. /\ rx[Conn] \in Controller /\ MaxWindow[Conn] \in Nat
          /\ rx[Conn].win \in 1 .. MaxWindow[Conn] /\ n \in Nat
      BY <1>1, <1>2
    <2>2. fc.win \in Nat
      BY <1>1, <1>4
    <2> QED BY <1>cc, <2>1, <2>2, OnRetireEffect DEF Controller
  <1>6. /\ rx'[s] = fc /\ rx'[Conn] = cc
        /\ \A t \in Streams \ {s} : rx'[t] = rx[t]
        /\ rx' \in [Targets -> Controller]
    BY <1>3, <1>4, <1>5 DEF FlowInv, TypeOK
  <1>7. HonestPeer'
    BY <1>1, <1>4, <1>5, <1>6 DEF FlowInv, HonestPeer, Read
  <1>8. TypeOK'
    BY <1>1, <1>4, <1>5, <1>6 DEF FlowInv, TypeOK, Read
  <1>9. BytesCountedOnce'
    <2> DEFINE m == [t \in Streams |-> rx[t].rwm]
    <2>1. \A t \in Streams : /\ rx[t].swm = rx[t].hwm /\ rx[t].hwm <= tx[t].swm
                             /\ tx[t].swm <= Limit /\ rx[t].rwm <= rx[t].swm
      BY DEF FlowInv, BytesCountedOnce
    <2>2. /\ m \in [Streams -> Nat] /\ \A t \in Streams : m[t] <= Limit
          /\ m[s] + n <= Limit
      BY <1>1, <1>2, <2>1, FlowControlAssumption
    <2>3. [t \in Streams |-> rx'[t].rwm] = [m EXCEPT ![s] = m[s] + n]
      BY <1>4, <1>6
    <2>4. [t \in Streams |-> rx'[t].swm] = [t \in Streams |-> rx[t].swm]
      BY <1>4, <1>6
    <2>5. \A t \in Streams : rx'[t].swm = rx'[t].hwm /\ rx'[t].hwm <= tx[t].swm
      BY <1>4, <1>6, <2>1
    <2>6. rx[Conn].rwm = Total(m)
      BY DEF FlowInv, BytesCountedOnce
    <2> HIDE DEF m
    <2>7. rx'[Conn].rwm = Total([t \in Streams |-> rx'[t].rwm])
      BY <1>2, <1>5, <1>6, <2>2, <2>3, <2>6, TotalGrow
    <2>8. rx'[Conn].swm = Total([t \in Streams |-> rx'[t].swm])
      BY <1>5, <1>6, <2>4 DEF FlowInv, BytesCountedOnce
    <2> QED BY <2>5, <2>7, <2>8 DEF FlowInv, BytesCountedOnce, Read
  <1>10. \A k \in Targets : rx[k].cwm <= rx'[k].cwm /\ rx'[k].cwm \in Nat
    BY <1>1, <1>4, <1>5, <1>6 DEF Controller
  <1>11. CreditAgreed'
    <2>1. \A k \in Targets : tx[k].swm <= tx[k].cwm /\ tx[k].cwm <= rx'[k].cwm
      BY <1>1, <1>10 DEF FlowInv, CreditAgreed
    <2> QED BY <2>1 DEF CreditAgreed, Read
  <1>12. GrantNotForgotten'
    <2>1. CASE rx[Conn].cwm < cc.cwm
      BY <1>5, <1>6, <2>1 DEF GrantNotForgotten
    <2>2. CASE rx[Conn].cwm = cc.cwm
      BY <1>5, <1>6, <2>2 DEF FlowInv, GrantNotForgotten, Read
    <2> QED BY <1>1, <1>5, <2>1, <2>2 DEF Controller
  <1>13. \A t \in Streams :
          /\ tx[t].swm <= Limit
          /\ rx'[t].rwm <= rx'[t].swm
          /\ rx'[t].fin => ended[t] # {} /\ rx'[t].hwm = tx[t].swm
    BY <1>2, <1>4, <1>6 DEF FlowInv
  <1>14. \A k \in Targets : \A v \in net[k] \cup flying[k] : v <= rx'[k].cwm
    <2> SUFFICES ASSUME NEW k \in Targets, NEW v \in net[k] \cup flying[k]
                 PROVE  v <= rx'[k].cwm
      OBVIOUS
    <2>1. v \in Nat /\ v <= rx[k].cwm
      BY DEF FlowInv, TypeOK
    <2> QED BY <1>1, <1>10, <2>1
  <1>15. \A k \in Targets : rx'[k].cwm <= rx'[k].rwm + MaxWindow[k]
    BY <1>4, <1>5, <1>6 DEF FlowInv
  <1>16. MarksGrow
    BY <1>1, <1>4, <1>5, <1>6, <1>10 DEF MarksGrow, Read
  <1> QED BY <1>7, <1>8, <1>9, <1>11, <1>12, <1>13, <1>14, <1>15, <1>16 DEF FlowInv, Read

\* The ends of streams, and requests to generate a MAX frame again, touch no
\* mark.
LEMMA MarksUntouchedInv ==
    ASSUME FlowInv, NEW s \in Streams,
           \/ \E how \in Closings[s] \ {"stop"} : TxEnd(s, how)
           \/ StopSending(s) \/ ChunkLost(s)
    PROVE  FlowInv' /\ MarksGrow
  <1> USE MarksType DEF MarksGrow
  <1>1. CASE \E how \in Closings[s] \ {"stop"} : TxEnd(s, how)
    <2>1. PICK how \in Closings[s] \ {"stop"} : TxEnd(s, how)
      BY <1>1
    <2>2. how \in {"fin", "reset"}
      BY FlowControlAssumption
    <2>3. ended' = [ended EXCEPT ![s] = @ \cup {how}]
      BY <2>1 DEF TxEnd
    <2>4. ended' \in [Streams -> SUBSET {"fin", "reset"}]
      BY <2>2, <2>3 DEF FlowInv, TypeOK
    <2>5. \A t \in Streams : ended[t] # {} => ended'[t] # {}
      BY <2>3 DEF FlowInv, TypeOK
    <2> QED BY <2>1, <2>4, <2>5
            DEF FlowInv, TypeOK, HonestPeer, BytesCountedOnce, CreditAgreed,
                GrantNotForgotten, TxEnd
  <1>2. CASE StopSending(s)
    BY <1>2 DEF FlowInv, TypeOK, HonestPeer, BytesCountedOnce, CreditAgreed,
                GrantNotForgotten, StopSending
  <1>3. CASE ChunkLost(s)
    <2>1. want' = [want EXCEPT ![s] = TRUE]
      BY <1>3 DEF ChunkLost, Regen
    <2>2. want' \in [Targets -> BOOLEAN] /\ want'[Conn] = want[Conn]
      BY <2>1, TargetsSplit DEF FlowInv, TypeOK
    <2>3. MarksGrow
      BY <1>3, MarksType DEF FlowInv, MarksGrow, ChunkLost
    <2>4. FlowInv'
      BY <1>3, <2>2 DEF FlowInv, TypeOK, HonestPeer, BytesCountedOnce, CreditAgreed,
                        GrantNotForgotten, ChunkLost
    <2> QED BY <2>3, <2>4
  <1> QED BY <1>1, <1>2, <1>3

\* A MAX frame carries the latest credit mark.
LEMMA TxMaxInv ==
    ASSUME FlowInv, NEW k \in Targets, TxMax(k)
    PROVE  FlowInv' /\ MarksGrow
  <1> USE TargetsSplit
  <1>1. \A j \in Targets : /\ rx[j] \in Controller /\ rx[j].cwm \in Nat
                           /\ tx[j].swm \in Nat /\ tx[j].cwm \in Nat
    BY MarksType DEF FlowInv
  <1>2. /\ net' = [net EXCEPT ![k] = @ \cup {rx[k].cwm}]
        /\ flying' = [flying EXCEPT ![k] = @ \cup {rx[k].cwm}]
        /\ want' = [want EXCEPT ![k] = FALSE]
        /\ rx' = [rx EXCEPT ![k].changed = FALSE]
        /\ UNCHANGED <<tx, ended, recv, stop, term>>
    BY DEF TxMax
  <1>3. /\ rx' \in [Targets -> Controller]
        /\ \A j \in Targets :
             /\ rx'[j].swm = rx[j].swm /\ rx'[j].cwm = rx[j].cwm /\ rx'[j].rwm = rx[j].rwm
             /\ rx'[j].hwm = rx[j].hwm /\ rx'[j].win = rx[j].win /\ rx'[j].fin = rx[j].fin
             /\ rx'[j].error = rx[j].error
             /\ j # k => rx'[j].changed = rx[j].changed
    BY <1>1, <1>2 DEF FlowInv, TypeOK, Controller
  <1>4. /\ net' \in [Targets -> SUBSET Nat] /\ flying' \in [Targets -> SUBSET Nat]
        /\ want' \in [Targets -> BOOLEAN]
    BY <1>1, <1>2 DEF FlowInv, TypeOK
  <1>5. TypeOK' /\ HonestPeer'
    BY <1>2, <1>3, <1>4 DEF FlowInv, TypeOK, HonestPeer
  <1>6. BytesCountedOnce'
    <2>1. /\ [t \in Streams |-> rx'[t].swm] = [t \in Streams |-> rx[t].swm]
          /\ [t \in Streams |-> rx'[t].rwm] = [t \in Streams |-> rx[t].rwm]
      BY <1>3
    <2> QED BY <1>2, <1>3, <2>1 DEF FlowInv, BytesCountedOnce
  <1>7. CreditAgreed'
    BY <1>2, <1>3 DEF FlowInv, CreditAgreed
  <1>8. GrantNotForgotten'
    <2>1. CASE k = Conn
      <3>1. rx'[Conn].cwm \in flying'[Conn]
        BY <1>2, <1>3, <2>1 DEF FlowInv, TypeOK
      <3> QED BY <3>1 DEF GrantNotForgotten
    <2>2. CASE k # Conn
      <3>1. /\ flying'[Conn] = flying[Conn] /\ want'[Conn] = want[Conn]
            /\ rx'[Conn].changed = rx[Conn].changed
        BY <1>2, <1>3, <2>2 DEF FlowInv, TypeOK
      <3> QED BY <1>2, <1>3, <3>1 DEF FlowInv, GrantNotForgotten
    <2> QED BY <2>1, <2>2
  <1>9. \A s \in Streams :
          /\ tx[s].swm <= Limit
          /\ rx'[s].rwm <= rx'[s].swm
          /\ rx'[s].fin => ended[s] # {} /\ rx'[s].hwm = tx[s].swm
    BY <1>3 DEF FlowInv
  <1>10. \A j \in Targets :
          /\ \A v \in net'[j] \cup flying'[j] : v <= rx'[j].cwm
          /\ \A v \in flying'[j] \ net'[j] : v <= tx[j].cwm
    <2> SUFFICES ASSUME NEW j \in Targets
                 PROVE  /\ \A v \in net'[j] \cup flying'[j] : v <= rx'[j].cwm
                        /\ \A v \in flying'[j] \ net'[j] : v <= tx[j].cwm
      OBVIOUS
    <2>1. /\ net'[j] \subseteq net[j] \cup {rx[j].cwm}
          /\ flying'[j] \subseteq flying[j] \cup {rx[j].cwm}
          /\ flying'[j] \ net'[j] \subseteq flying[j] \ net[j]
      BY <1>2 DEF FlowInv, TypeOK
    <2>2. rx[j].cwm <= rx[j].cwm
      BY <1>1
    <2> QED BY <1>3, <2>1, <2>2 DEF FlowInv
  <1>11. MarksGrow
    BY <1>1, <1>2, <1>3, MarksType DEF MarksGrow, FlowInv
  <1> QED BY <1>2, <1>3, <1>5, <1>6, <1>7, <1>8, <1>9, <1>10, <1>11 DEF FlowInv

\* A MAX frame arrives: the sender's credit is at most what was granted, and at
\* least what the frame says.
LEMMA RxMaxInv ==
    ASSUME FlowInv, NEW k \in Targets, NEW v \in net[k], RxMax(k, v)
    PROVE  FlowInv' /\ MarksGrow
  <1> USE TargetsSplit
  <1>1. \A j \in Targets : /\ rx[j] \in Controller /\ rx[j].cwm \in Nat
                           /\ tx[j] \in [swm : Nat, cwm : Nat]
                           /\ tx[j].swm \in Nat /\ tx[j].cwm \in Nat
                           /\ tx[j].swm <= tx[j].cwm /\ tx[j].cwm <= rx[j].cwm
                           /\ net[j] \in SUBSET Nat /\ flying[j] \in SUBSET Nat
    BY MarksType DEF FlowInv, CreditAgreed, TypeOK
  <1>2. v \in Nat /\ v <= rx[k].cwm
    BY DEF FlowInv, TypeOK
  <1>3. /\ tx' = [tx EXCEPT ![k] = BumpCwm(tx[k], v)]
        /\ net' = [net EXCEPT ![k] = net[k] \ {v}]
        /\ UNCHANGED <<ended, rx, recv, stop, want, flying, term>>
    BY DEF RxMax
  <1>4. /\ BumpCwm(tx[k], v) \in [swm : Nat, cwm : Nat]
        /\ BumpCwm(tx[k], v).swm = tx[k].swm
        /\ BumpCwm(tx[k], v).cwm = Larger(tx[k].cwm, v)
        /\ Larger(tx[k].cwm, v) \in Nat
        /\ tx[k].cwm <= Larger(tx[k].cwm, v) /\ v <= Larger(tx[k].cwm, v)
        /\ Larger(tx[k].cwm, v) <= rx[k].cwm
    BY <1>1, <1>2 DEF BumpCwm, Larger
  <1>5. /\ tx' \in [Targets -> [swm : Nat, cwm : Nat]]
        /\ \A j \in Targets : /\ tx'[j].swm = tx[j].swm
                              /\ tx'[j].cwm \in Nat
                              /\ tx[j].cwm <= tx'[j].cwm /\ tx'[j].cwm <= rx[j].cwm
        /\ v <= tx'[k].cwm
    BY <1>1, <1>3, <1>4 DEF FlowInv, TypeOK
  <1>6. TypeOK' /\ HonestPeer'
    <2>1. net' \in [Targets -> SUBSET Nat]
      BY <1>3 DEF FlowInv, TypeOK
    <2> QED BY <1>3, <1>5, <2>1 DEF FlowInv, TypeOK, HonestPeer
  <1>7. BytesCountedOnce'
    <2>1. [t \in Streams |-> tx'[t].swm] = [t \in Streams |-> tx[t].swm]
      BY <1>5
    <2> QED BY <1>3, <1>5, <2>1 DEF FlowInv, BytesCountedOnce
  <1>8. CreditAgreed'
    <2>1. \A j \in Targets : tx'[j].swm <= tx'[j].cwm /\ tx'[j].cwm <= rx[j].cwm
      BY <1>1, <1>5
    <2> QED BY <1>3, <2>1 DEF CreditAgreed
  <1>9. GrantNotForgotten'
    <2>1. tx'[Conn].cwm < rx[Conn].cwm => tx[Conn].cwm < rx[Conn].cwm
      BY <1>1, <1>5
    <2> QED BY <1>3, <2>1 DEF FlowInv, GrantNotForgotten
  <1>10. \A j \in Targets :
          /\ \A w \in net'[j] \cup flying[j] : w <= rx[j].cwm
          /\ \A w \in flying[j] \ net'[j] : w <= tx'[j].cwm
    <2> SUFFICES ASSUME NEW j \in Targets
                 PROVE  /\ \A w \in net'[j] \cup flying[j] : w <= rx[j].cwm
                        /\ \A w \in flying[j] \ net'[j] : w <= tx'[j].cwm
      OBVIOUS
    <2>1. /\ net'[j] \subseteq net[j]
          /\ \A w \in flying[j] \ net'[j] : w \in flying[j] \ net[j] \/ (j = k /\ w = v)
      BY <1>3 DEF FlowInv, TypeOK
    <2>2. \A w \in flying[j] \ net[j] : w \in Nat /\ w <= tx[j].cwm
      BY <1>1 DEF FlowInv
    <2>3. \A w \in flying[j] \ net[j] : w <= tx'[j].cwm
      BY <1>1, <1>5, <2>2
    <2> QED BY <1>5, <2>1, <2>3 DEF FlowInv
  <1>11. \A s \in Streams :
          /\ tx'[s].swm <= Limit
          /\ rx[s].rwm <= rx[s].swm
          /\ rx[s].fin => ended[s] # {} /\ rx[s].hwm = tx'[s].swm
    BY <1>5 DEF FlowInv
  <1>12. MarksGrow
    BY <1>1, <1>3, <1>5, MarksType DEF MarksGrow, FlowInv
  <1> QED BY <1>3, <1>6, <1>7, <1>8, <1>9, <1>10, <1>11, <1>12 DEF FlowInv

\* The packet of a MAX frame is acknowledged, which it can be only when it has
\* arrived, or declared lost, when a new one is asked for.
LEMMA ResolveInv ==
    ASSUME FlowInv, NEW k \in Targets, Resolve(k)
    PROVE  FlowInv' /\ MarksGrow
  <1> USE TargetsSplit
  <1>1. \A j \in Targets : /\ rx[j].cwm \in Nat /\ tx[j].cwm \in Nat
                           /\ tx[j].cwm <= rx[j].cwm
    BY MarksType DEF FlowInv, CreditAgreed
  <1>2. PICK v \in flying[k] :
          MaxAcked(k, v) \/ \E chunk, late \in BOOLEAN : MaxLost(k, v, chunk, late)
    BY DEF Resolve
  <1>3. CASE MaxAcked(k, v)
    <2>1. /\ v \notin net[k] /\ flying' = [flying EXCEPT ![k] = flying[k] \ {v}]
          /\ UNCHANGED <<tx, ended, rx, recv, stop, want, net, term>>
      BY <1>3 DEF MaxAcked
    <2>2. flying' \in [Targets -> SUBSET Nat]
      BY <2>1 DEF FlowInv, TypeOK
    <2>3. TypeOK' /\ HonestPeer' /\ BytesCountedOnce' /\ CreditAgreed'
      BY <2>1, <2>2 DEF FlowInv, TypeOK, HonestPeer, BytesCountedOnce, CreditAgreed
    <2>4. GrantNotForgotten'
      <3>1. CASE k = Conn /\ v = rx[Conn].cwm
        <4>1. rx[Conn].cwm <= tx[Conn].cwm
          BY <2>1, <3>1 DEF FlowInv
        <4> QED BY <1>1, <2>1, <4>1 DEF GrantNotForgotten
      <3>2. CASE ~(k = Conn /\ v = rx[Conn].cwm)
        <4>1. rx[Conn].cwm \in flying[Conn] => rx[Conn].cwm \in flying'[Conn]
          BY <2>1, <3>2 DEF FlowInv, TypeOK
        <4> QED BY <2>1, <4>1 DEF FlowInv, GrantNotForgotten
      <3> QED BY <3>1, <3>2
    <2>5. \A j \in Targets : flying'[j] \subseteq flying[j]
      BY <2>1 DEF FlowInv, TypeOK
    <2>6. MarksGrow
      BY <1>1, <2>1, MarksType DEF MarksGrow, FlowInv
    <2> QED BY <2>1, <2>3, <2>4, <2>5, <2>6 DEF FlowInv
  <1>4. ASSUME NEW chunk \in BOOLEAN, NEW late \in BOOLEAN, MaxLost(k, v, chunk, late)
        PROVE  FlowInv' /\ MarksGrow
    <2>1. /\ flying' = [flying EXCEPT ![k] = flying[k] \ {v}]
          /\ net' = IF late THEN net ELSE [net EXCEPT ![k] = net[k] \ {v}]
          /\ want' = Regen(k, chunk)
          /\ UNCHANGED <<tx, ended, rx, recv, stop, term>>
      BY <1>4 DEF MaxLost
    <2>2. /\ flying' \in [Targets -> SUBSET Nat] /\ net' \in [Targets -> SUBSET Nat]
          /\ want' \in [Targets -> BOOLEAN]
          /\ want[Conn] \/ k = Conn => want'[Conn]
      BY <2>1 DEF FlowInv, TypeOK, Regen
    <2>3. TypeOK' /\ HonestPeer' /\ BytesCountedOnce' /\ CreditAgreed'
      BY <2>1, <2>2 DEF FlowInv, TypeOK, HonestPeer, BytesCountedOnce, CreditAgreed
    <2>4. GrantNotForgotten'
      <3>1. CASE k = Conn
        BY <2>2, <3>1 DEF GrantNotForgotten
      <3>2. CASE k # Conn
        <4>1. flying'[Conn] = flying[Conn]
          BY <2>1, <3>2 DEF FlowInv, TypeOK
        <4> QED BY <2>1, <2>2, <4>1 DEF FlowInv, GrantNotForgotten
      <3> QED BY <3>1, <3>2
    <2>5. \A j \in Targets : /\ flying'[j] \subseteq flying[j] /\ net'[j] \subseteq net[j]
                             /\ flying'[j] \ net'[j] \subseteq flying[j] \ net[j]
      BY <2>1 DEF FlowInv, TypeOK
    <2>6. MarksGrow
      BY <1>1, <2>1, MarksType DEF MarksGrow, FlowInv
    <2> QED BY <2>1, <2>3, <2>4, <2>5, <2>6 DEF FlowInv
  <1> QED BY <1>2, <1>3, <1>4

\* Every step keeps the inductive invariant.
LEMMA NextInv == FlowInv /\ [Next]_vars => FlowInv' /\ [MarksGrow]_vars
  <1> SUFFICES ASSUME FlowInv, [Next]_vars PROVE FlowInv' /\ [MarksGrow]_vars
    OBVIOUS
  <1>1. CASE TxSome
    BY <1>1, TxPacketInv DEF TxSome
  <1>2. ASSUME NEW s \in Streams,
               \/ \E how \in Closings[s] \ {"stop"} : TxEnd(s, how)
               \/ StopSending(s) \/ ChunkLost(s)
        PROVE  FlowInv' /\ MarksGrow
    BY <1>2, MarksUntouchedInv
  <1>3. ASSUME NEW s \in Streams, DeliverStream(s) \/ DeliverReset(s) PROVE FlowInv' /\ MarksGrow
    BY <1>3, DeliverInv
  <1>4. ASSUME NEW s \in Streams, ReadSome(s) PROVE FlowInv' /\ MarksGrow
    BY <1>4, ReadInv DEF ReadSome
  <1>5. ASSUME NEW k \in Targets, TxMax(k) PROVE FlowInv' /\ MarksGrow
    BY <1>5, TxMaxInv
  <1>6. ASSUME NEW k \in Targets, NEW v \in net[k], RxMax(k, v) PROVE FlowInv' /\ MarksGrow
    BY <1>6, RxMaxInv
  <1>7. ASSUME NEW k \in Targets, Resolve(k) PROVE FlowInv' /\ MarksGrow
    BY <1>7, ResolveInv
  <1>8. CASE UNCHANGED vars
    BY <1>8 DEF vars, FlowInv, TypeOK, HonestPeer, BytesCountedOnce, CreditAgreed,
                GrantNotForgotten
  <1> QED BY <1>1, <1>2, <1>3, <1>4, <1>5, <1>6, <1>7, <1>8 DEF Next

\* The inductive invariant holds in every reachable state, and no mark ever
\* decreases.
THEOREM Inductive == Spec => []FlowInv
  BY InitInv, NextInv, PTL DEF Spec

\* Type correctness, with windows between one and their limit.
THEOREM TypeCorrect == Spec => []TypeOK
  <1>1. FlowInv => TypeOK
    BY DEF FlowInv
  <1> QED BY <1>1, Inductive, PTL

\* ossl_quic_rxfc_on_rx_stream_frame accuses no sender that obeys
\* ossl_quic_txfc_get_credit, for any number of streams and any windows.
THEOREM SenderNotAccused == Spec => []HonestPeer
  <1>1. FlowInv => HonestPeer
    BY DEF FlowInv
  <1> QED BY <1>1, Inductive, PTL

\* The connection's controllers hold the sums of the streams' controllers.
THEOREM SumsExact == Spec => []BytesCountedOnce
  <1>1. FlowInv => BytesCountedOnce
    BY DEF FlowInv
  <1> QED BY <1>1, Inductive, PTL

\* The sender's credit is at most the receiver's, and its spending at most its
\* credit.
THEOREM CreditSafe == Spec => []CreditAgreed
  <1>1. FlowInv => CreditAgreed
    BY DEF FlowInv
  <1> QED BY <1>1, Inductive, PTL

\* No loss of MAX_DATA makes the receiver forget to announce a grant.
THEOREM GrantKept == Spec => []GrantNotForgotten
  <1>1. FlowInv => GrantNotForgotten
    BY DEF FlowInv
  <1> QED BY <1>1, Inductive, PTL

\* What is received and not read fits the largest window, on each stream and,
\* because the sums are exact, on the connection.
THEOREM MemoryBounded == Spec => []BacklogBounded
  <1>1. FlowInv => BacklogBounded
    <2> SUFFICES ASSUME FlowInv PROVE BacklogBounded
      OBVIOUS
    <2>1. \A k \in Targets : /\ rx[k].swm \in Nat /\ rx[k].rwm \in Nat /\ rx[k].cwm \in Nat
                             /\ tx[k].swm \in Nat /\ tx[k].cwm \in Nat
                             /\ MaxWindow[k] \in Nat
                             /\ rx[k].cwm <= rx[k].rwm + MaxWindow[k]
                             /\ tx[k].swm <= tx[k].cwm /\ tx[k].cwm <= rx[k].cwm
      BY MarksType, FlowControlAssumption DEF FlowInv, CreditAgreed
    <2>2. \A s \in Streams : rx[s].rwm <= rx[s].swm /\ rx[s].swm <= tx[s].swm
      BY DEF FlowInv, BytesCountedOnce
    <2> DEFINE m == [s \in Streams |-> rx[s].rwm]
               n == [s \in Streams |-> rx[s].swm]
               o == [s \in Streams |-> tx[s].swm]
    <2>3. /\ m \in [Streams -> Nat] /\ n \in [Streams -> Nat] /\ o \in [Streams -> Nat]
          /\ \A s \in Streams : m[s] <= n[s] /\ n[s] <= o[s]
      BY <2>1, <2>2, TargetsSplit
    <2>4. rx[Conn].rwm = Total(m) /\ rx[Conn].swm = Total(n) /\ tx[Conn].swm = Total(o)
      BY DEF FlowInv, BytesCountedOnce
    <2> HIDE DEF m, n, o
    <2>5. rx[Conn].rwm <= rx[Conn].swm /\ rx[Conn].swm <= tx[Conn].swm
      BY <2>3, <2>4, TotalMonotone
    <2>6. \A k \in Targets : rx[k].rwm <= rx[k].swm /\ rx[k].swm <= tx[k].swm
      BY <2>2, <2>5, TargetsSplit
    <2> QED BY <2>1, <2>6 DEF BacklogBounded
  <1> QED BY <1>1, Inductive, PTL

\* No step takes credit back or forgets spending: "This value increases
\* monotonically".
THEOREM NoMarkDecreases == Spec => MarksMonotone
  BY Inductive, NextInv, PTL DEF Spec, MarksMonotone
=============================================================================
