------------------------ MODULE StreamDeliveryProofs ------------------------
(***************************************************************************)
(* Proofs about the sending part of a QUIC stream, for a ring buffer and a *)
(* stream of any size, any number of packets in flight and any order of    *)
(* loss, delay and acknowledgement.                                        *)
(***************************************************************************)
EXTENDS StreamDelivery, FiniteSetTheorems, SequenceTheorems,
        WellFoundedInduction, TLAPS

----------------------------------------------------------------------------
(* Facts about numbers.                                                    *)

\* A non-empty set of natural numbers has a least element: what the CHOOSEs of
\* FirstStart, FirstEnd and Cull rest on.
LEMMA LeastNat ==
    ASSUME NEW T, T \subseteq Nat, T # {}
    PROVE  \E x \in T : \A y \in T : x <= y
<1>1. PICK x \in T : \A y \in T : ~ (<<y, x>> \in OpToRel(<, Nat))
  BY NatLessThanWellFounded, WFMin
<1>2. ASSUME NEW y \in T, y < x
      PROVE  FALSE
  <2>1. <<y, x>> \in Nat \X Nat
    OBVIOUS
  <2>2. <<y, x>> \in OpToRel(<, Nat)
    BY <1>2, <2>1, Zenon DEF OpToRel
  <2> QED
    BY <1>1, <2>2
<1> QED
  BY <1>2

\* From a member of a bounded set of natural numbers on, there is a last one
\* before the first gap.
LEMMA RunEnds ==
    ASSUME NEW S, NEW bound \in Nat, S \subseteq 0 .. bound - 1, NEW a \in S
    PROVE  \E i \in S : a <= i /\ (a .. i) \subseteq S /\ i + 1 \notin S
<1> DEFINE T == {k \in Nat : a <= k /\ k \notin S}
<1>1. bound \in T
  OBVIOUS
<1>2. PICK k \in T : \A y \in T : k <= y
  <2> HIDE DEF T
  <2>1. T \subseteq Nat
    BY DEF T
  <2> QED
    BY <1>1, <2>1, LeastNat
<1>3. k \in Nat /\ a <= k /\ k \notin S /\ a \in Nat /\ a # k
  OBVIOUS
<1>4. \A j \in a .. k - 1 : j \in S
  BY <1>2, <1>3
<1>5. k - 1 \in S /\ a <= k - 1 /\ (a .. k - 1) \subseteq S /\ (k - 1) + 1 \notin S
  BY <1>3, <1>4
<1> QED
  BY <1>5

\* Two offsets less than a ring apart have different places in the ring.
LEMMA RingPlaces ==
    ASSUME NEW N \in Nat \ {0}, NEW a \in Nat, NEW b \in Nat,
           a < b, b - a < N
    PROVE  a % N # b % N
<1> SUFFICES ASSUME a % N = b % N PROVE FALSE
  OBVIOUS
<1> DEFINE q == a \div N  r == b \div N  d == r - q
<1>1. q \in Int /\ r \in Int /\ a = N * q + (a % N) /\ b = N * r + (b % N)
  OBVIOUS
<1>2. a % N \in Nat
  OBVIOUS
<1> HIDE DEF q, r
<1>3. b - a = N * d /\ d \in Int
  BY <1>1, <1>2
<1> HIDE DEF d
<1>4. CASE d <= 0
  <2>1. N * d <= 0
    BY <1>3, <1>4
  <2> QED
    BY <1>3, <2>1
<1>5. CASE d >= 1
  <2>1. N * d >= N
    BY <1>3, <1>5
  <2> QED
    BY <1>3, <2>1
<1> QED
  BY <1>3, <1>4, <1>5

\* Every offset has a place in the ring.
LEMMA RingPlace ==
    ASSUME NEW N \in Nat \ {0}, NEW a \in Nat
    PROVE  a % N \in 0 .. N - 1
OBVIOUS

\* A sum that wraps around the width of an integer once.
LEMMA WrapOnce ==
    ASSUME NEW N \in Nat \ {0}, NEW x \in 0 .. N - 1
    PROVE  (x + N) % N = x /\ x % N = x
<1>1. x % N = x
  OBVIOUS
<1> DEFINE y == x + N  q == y \div N  r == y % N  d == q - 1
<1>2. q \in Int /\ r \in 0 .. N - 1 /\ y = N * q + r
  OBVIOUS
<1> HIDE DEF q, r
<1>3. x - r = N * d /\ d \in Int
  BY <1>2
<1> HIDE DEF d
<1>4. CASE d <= -1
  <2>1. N * d <= -N
    BY <1>3, <1>4
  <2> QED
    BY <1>2, <1>3, <2>1
<1>5. CASE d >= 1
  <2>1. N * d >= N
    BY <1>3, <1>5
  <2> QED
    BY <1>2, <1>3, <2>1
<1>6. CASE d = 0
  <2>1. x = r
    BY <1>2, <1>3, <1>6
  <2> QED
    BY <1>1, <2>1 DEF r
<1> QED
  BY <1>3, <1>4, <1>5, <1>6

----------------------------------------------------------------------------
(* The bytes of a chunk.                                                   *)

\* Wherever start + len - 1 does not wrap, a chunk marks exactly its bytes.
LEMMA ChunkBytesExact ==
    ASSUME NEW c \in Chunks, c.start + c.len \in 1 .. Limit
    PROVE  ChunkBytes(c) = c.start .. c.start + c.len - 1
<1> DEFINE x == c.start + c.len - 1
<1>1. c.start \in Nat /\ c.len \in Nat /\ Width \in Nat \ {0} /\ x \in 0 .. Width - 1
  BY SendStreamAssumption DEF Chunks
<1>2. c.start + c.len + Width - 1 = x + Width
  BY <1>1
<1> HIDE DEF x
<1>3. (x + Width) % Width = x
  BY <1>1, WrapOnce
<1> QED
  BY <1>2, <1>3 DEF ChunkBytes, ChunkEnd, x

\* The FIN of an empty stream wraps: it marks every integer.
LEMMA ChunkBytesWrap ==
    ASSUME NEW c \in Chunks, c.start + c.len = 0
    PROVE  ChunkBytes(c) = Uint
<1>1. c.start = 0 /\ c.len = 0 /\ Width \in Nat \ {0}
  BY SendStreamAssumption DEF Chunks
<1>2. 0 + 0 + Width - 1 = Width - 1 /\ Width - 1 \in 0 .. Width - 1
  BY <1>1
<1>3. (Width - 1) % Width = Width - 1
  BY <1>1, <1>2, WrapOnce
<1> QED
  BY <1>1, <1>2, <1>3 DEF ChunkBytes, ChunkEnd, Uint

\* What a chunk in flight covers.
LEMMA FlightBytes ==
    ASSUME SendTypeOK, ChunksWithin, NEW c \in flight
    PROVE  /\ c \in Chunks
           /\ head > 0 => /\ ChunkBytes(c) = c.start .. c.start + c.len - 1
                          /\ ChunkBytes(c) \subseteq 0 .. head - 1
           /\ head = 0 => ChunkBytes(c) = Uint /\ "have" \in final
<1>1. c \in Chunks /\ head \in 0 .. Limit /\ c.start \in Nat /\ c.len \in Nat
  BY SendStreamAssumption DEF SendTypeOK, Chunks
<1>2. c.start + c.len <= head /\ (c.len = 0 => c.start = head /\ "have" \in final)
  BY DEF ChunksWithin
<1>3. CASE head > 0
  <2>1. c.start + c.len \in 1 .. Limit
    BY <1>1, <1>2, <1>3, SendStreamAssumption
  <2>2. ChunkBytes(c) = c.start .. c.start + c.len - 1
    BY <1>1, <2>1, ChunkBytesExact
  <2> QED
    BY <1>1, <1>2, <1>3, <2>2
<1>4. CASE head = 0
  <2>1. c.start + c.len = 0 /\ c.len = 0
    BY <1>1, <1>2, <1>4
  <2> QED
    BY <1>1, <1>2, <1>4, <2>1, ChunkBytesWrap
<1> QED
  BY <1>1, <1>3, <1>4, SendStreamAssumption

----------------------------------------------------------------------------
(* Write and Fin.                                                          *)

\* A write goes to free places of the ring, and every byte it marks is new.
LEMMA WriteStep ==
    ASSUME SendInv, NEW n \in 1 .. Limit, Write(n)
    PROVE  SendInv'
<1> DEFINE W == head .. head + n - 1
<1>1. /\ SendTypeOK /\ ChunksWithin /\ EmptyStream /\ Placed /\ BufferIntact
      /\ head \in 0 .. Limit /\ ctail \in 0 .. Limit /\ Limit \in Nat
      /\ Alloc \in Nat \ {0} /\ Limit < Width /\ Width \in Nat
  BY SendStreamAssumption DEF SendInv, SendTypeOK
<1>2. /\ sendState = "send" /\ "have" \notin final
      /\ n <= Alloc - (head - ctail) /\ head + n <= Limit
      /\ head' = head + n /\ new' = new \cup W
      /\ UNCHANGED <<sendState, ctail, acked, final, flight>>
  BY DEF Write, Room
<1>3. new \cup acked \subseteq 0 .. head - 1
  BY <1>1, <1>2 DEF SendTypeOK, EmptyStream
<1>4. \A c \in flight : /\ c.start \in Nat /\ c.len \in Nat \ {0}
                        /\ c.start + c.len <= head
                        /\ ChunkBytes(c) = c.start .. c.start + c.len - 1
  <2> TAKE c \in flight
  <2>1. c \in Chunks /\ c.start \in Nat /\ c.len \in Nat
    BY <1>1 DEF SendTypeOK, Chunks
  <2>2. c.start + c.len <= head /\ c.len # 0
    BY <1>1, <1>2 DEF ChunksWithin
  <2>3. c.start + c.len \in 1 .. Limit
    BY <1>1, <2>1, <2>2
  <2> QED
    BY <2>1, <2>2, <2>3, ChunkBytesExact
<1>5. \A o \in W : o \in Nat /\ o % Alloc \in 0 .. Alloc - 1 /\ o \in 0 .. Limit
  BY <1>1, <1>2, RingPlace
<1>6. ring \in [0 .. Alloc - 1 -> 0 .. Limit]
  BY <1>1 DEF SendTypeOK
<1>7. /\ ring' \in [0 .. Alloc - 1 -> 0 .. Limit]
      /\ \A o \in W : ring'[o % Alloc] = o
      /\ \A i \in 0 .. Alloc - 1 : (\A o \in W : o % Alloc # i) => ring'[i] = ring[i]
  <2>1. ring' = [i \in DOMAIN ring |->
                   IF \E o \in W : o % Alloc = i
                   THEN CHOOSE o \in W : o % Alloc = i
                   ELSE ring[i]]
    BY DEF Write
  <2>2. DOMAIN ring = 0 .. Alloc - 1
    BY <1>6
  <2> HIDE DEF W
  <2>3. \A i \in 0 .. Alloc - 1 :
           /\ (\E o \in W : o % Alloc = i) => ring'[i] \in W /\ ring'[i] % Alloc = i
           /\ ~ (\E o \in W : o % Alloc = i) => ring'[i] = ring[i]
    BY <2>1, <2>2
  <2>4. \A i \in 0 .. Alloc - 1 : ring'[i] \in 0 .. Limit
    BY <1>5, <1>6, <2>3
  <2>5. ring' \in [0 .. Alloc - 1 -> 0 .. Limit]
    BY <2>1, <2>2, <2>4
  <2>6. ASSUME NEW o \in W
        PROVE  ring'[o % Alloc] = o
    <3> DEFINE w == ring'[o % Alloc]
    <3>1. w \in W /\ w % Alloc = o % Alloc
      BY <1>5, <2>3
    <3> HIDE DEF w
    <3>2. w \in Nat /\ o \in Nat /\ w - o < Alloc /\ o - w < Alloc
      <4>1. ctail <= head
        BY <1>1 DEF BufferIntact
      <4>2. n <= Alloc
        BY <1>1, <1>2, <4>1
      <4> QED  BY <1>1, <3>1, <4>2 DEF W
    <3>3. ~ (w < o) /\ ~ (o < w)
      BY <1>1, <3>1, <3>2, RingPlaces
    <3> QED
      BY <3>2, <3>3 DEF w
  <2> QED
    BY <2>3, <2>5, <2>6
<1>8. SendTypeOK'
  <2>1. new' \subseteq Uint /\ (new' \cup acked') \subseteq 0 .. head' - 1
    BY <1>1, <1>2, <1>3 DEF Uint
  <2> QED
    BY <1>1, <1>2, <1>7, <2>1 DEF SendTypeOK
<1>9. ChunksWithin'
  BY <1>1, <1>2, <1>4 DEF ChunksWithin
<1>10. EmptyStream'
  BY <1>1, <1>2 DEF EmptyStream
<1>11. Placed'
  <2> SUFFICES ASSUME NEW i \in 0 .. head' - 1
               PROVE  /\ ~ (i \in new' /\ i \in acked')
                      /\ \A c \in flight' : i \in ChunkBytes(c) =>
                             /\ i \notin new' /\ i \notin acked'
                             /\ \A d \in flight' : i \in ChunkBytes(d) => d = c
                      /\ \/ i \in new' \/ i \in acked'
                         \/ \E c \in flight' : i \in ChunkBytes(c)
    BY DEF Placed
  <2>1. CASE i < head
    <3>1. i \in 0 .. head - 1 /\ i \notin W
      BY <1>1, <1>2, <2>1
    <3> QED
      BY <1>1, <1>2, <3>1 DEF Placed
  <2>2. CASE i >= head
    <3>1. i \in W /\ i \notin acked /\ \A c \in flight : i \notin ChunkBytes(c)
      BY <1>1, <1>2, <1>3, <1>4, <2>2
    <3> QED
      BY <1>2, <3>1
  <2> QED
    BY <1>1, <1>2, <2>1, <2>2
<1>12. BufferIntact'
  <2>1. ctail <= head /\ head - ctail <= Alloc /\ \A i \in 0 .. ctail - 1 : i \in acked
    BY <1>1 DEF BufferIntact
  <2>2. ASSUME NEW i \in ctail .. head - 1
        PROVE  ring'[i % Alloc] = i
    <3>1. i \in Nat /\ i % Alloc \in 0 .. Alloc - 1
      BY <1>1, RingPlace
    <3>2. \A o \in W : o \in Nat /\ i < o /\ o - i < Alloc
      BY <1>1, <1>2
    <3>3. \A o \in W : o % Alloc # i % Alloc
      <4> HIDE DEF W
      <4> QED  BY <1>1, <3>1, <3>2, RingPlaces
    <3>4. ring[i % Alloc] = i
      BY <1>1 DEF BufferIntact
    <3> QED
      BY <1>7, <3>1, <3>3, <3>4
  <2>3. \A i \in ctail .. head' - 1 : i \in ctail .. head - 1 \/ i \in W
    BY <1>1, <1>2
  <2>4. \A i \in ctail' .. head' - 1 : ring'[i % Alloc] = i
    BY <1>2, <1>7, <2>2, <2>3
  <2>5. ctail' <= head' /\ head' - ctail' <= Alloc
    BY <1>1, <1>2, <2>1
  <2>6. \A i \in 0 .. ctail' - 1 : i \in acked'
    BY <1>2, <2>1
  <2> QED
    BY <2>4, <2>5, <2>6 DEF BufferIntact
<1> QED
  BY <1>8, <1>9, <1>10, <1>11, <1>12 DEF SendInv

\* The end of the stream only adds to what is known of the final size.
LEMMA FinStep ==
    ASSUME SendInv, Fin
    PROVE  SendInv'
<1>1. /\ SendTypeOK /\ ChunksWithin /\ EmptyStream /\ Placed /\ BufferIntact
      /\ final' = final \cup {"have"}
      /\ UNCHANGED <<sendState, head, ctail, ring, new, acked, flight>>
  BY DEF SendInv, Fin
<1>2. SendTypeOK'
  BY <1>1 DEF SendTypeOK
<1>3. ChunksWithin'
  BY <1>1 DEF ChunksWithin
<1>4. EmptyStream'
  BY <1>1 DEF EmptyStream
<1>5. Placed'
  BY <1>1 DEF Placed
<1>6. BufferIntact'
  BY <1>1 DEF BufferIntact
<1> QED
  BY <1>2, <1>3, <1>4, <1>5, <1>6 DEF SendInv

----------------------------------------------------------------------------
(* Commit: the chunk offered to the packetiser, and the one it sends.      *)

\* The first range of new_set lies within the stream and in new_set.
LEMMA FirstRange ==
    ASSUME SendInv, new # {}, head > 0
    PROVE  /\ FirstStart \in 0 .. head - 1
           /\ FirstLen \in 1 .. Limit
           /\ FirstStart + FirstLen <= head
           /\ FirstStart .. FirstStart + FirstLen - 1 \subseteq new
<1>1. /\ head \in 1 .. Limit /\ Limit \in Nat /\ Width \in Nat /\ Limit < Width
      /\ new \subseteq 0 .. head - 1
  BY SendStreamAssumption DEF SendInv, SendTypeOK
<1>2. FirstStart \in new
  <2>1. new \subseteq Nat
    BY <1>1
  <2>2. \E i \in new : \A j \in new : i <= j
    BY <2>1, LeastNat
  <2> QED
    BY <2>2 DEF FirstStart
<1> DEFINE s == FirstStart  e == FirstEnd
<1>3. e \in new /\ (s .. e) \subseteq new /\ e + 1 \notin new /\ s <= e
  <2> HIDE DEF s
  <2>1. \E i \in new : (s .. i) \subseteq new /\ i + 1 \notin new
    <3>1. s \in new /\ head \in Nat
      BY <1>1, <1>2 DEF s
    <3>2. \E i \in new : s <= i /\ (s .. i) \subseteq new /\ i + 1 \notin new
      BY <1>1, <3>1, RunEnds
    <3> QED  BY <3>2
  <2>2. e = CHOOSE i \in new : (s .. i) \subseteq new /\ i + 1 \notin new
    BY DEF FirstEnd, s
  <2>3. e \in new /\ (s .. e) \subseteq new /\ e + 1 \notin new
    <3> HIDE DEF e
    <3> QED  BY <2>1, <2>2
  <2>4. s <= e
    <3>1. \E i \in new : \A j \in new : i <= j
      <4>1. new \subseteq Nat
        BY <1>1
      <4> QED  BY <4>1, LeastNat
    <3>2. \A j \in new : s <= j
      BY <3>1 DEF s, FirstStart
    <3> QED
      BY <2>3, <3>2
  <2> QED
    BY <2>3, <2>4
<1>4. s \in 0 .. head - 1 /\ e \in 0 .. head - 1
  BY <1>1, <1>2, <1>3
<1> DEFINE len == e - s + 1
<1>5. len \in 1 .. Limit /\ len <= head - s /\ len \in 0 .. Width - 1
  BY <1>1, <1>3, <1>4
<1>6. FirstLen = len
  <2>1. len % Width = len
    <3> HIDE DEF len
    <3> QED  BY <1>1, <1>5, WrapOnce
  <2> QED
    BY <1>5, <2>1 DEF FirstLen
<1>7. s + len - 1 = e
  BY <1>4
<1> QED
  BY <1>1, <1>3, <1>4, <1>5, <1>6, <1>7

\* The chunk that goes into a packet is part of new_set, or an empty FIN at the
\* end of the stream.
LEMMA CommitChunk ==
    ASSUME SendInv, NEW c, Commit(c)
    PROVE  /\ c \in Chunks
           /\ c.start + c.len <= head
           /\ c.len = 0 => c.start = head /\ "have" \in final
           /\ head > 0 => /\ ChunkBytes(c) = c.start .. c.start + c.len - 1
                          /\ ChunkBytes(c) \subseteq new
           /\ head = 0 => ChunkBytes(c) = Uint
           /\ c.fin => "have" \in final /\ c.start + c.len = head
<1>1. PICK o \in Offered, n \in 0 .. Limit :
        /\ n <= o.len
        /\ n > 0 \/ (o.len = 0 /\ o.fin)
        /\ c = Cut(o, n)
  BY DEF Commit
<1>2. /\ head \in 0 .. Limit /\ Limit \in Nat /\ Width \in Nat /\ Limit < Width
      /\ EmptyStream
  BY SendStreamAssumption DEF SendInv, SendTypeOK
<1>3. /\ o \in Chunks /\ o.start + o.len <= head
      /\ o.len = 0 /\ o.fin => o.start = head /\ "have" \in final
      /\ head > 0 => o.start .. o.start + o.len - 1 \subseteq new
      /\ o.fin => "have" \in final /\ o.start + o.len = head
  <2>1. CASE new # {} /\ head > 0
    <3>1. o = [start |-> FirstStart, len |-> FirstLen,
               fin |-> "have" \in final /\ FirstStart + FirstLen = head]
      BY <2>1 DEF Offered
    <3>2. /\ FirstStart \in 0 .. head - 1
          /\ FirstLen \in 1 .. Limit
          /\ FirstStart + FirstLen <= head
          /\ FirstStart .. FirstStart + FirstLen - 1 \subseteq new
      BY <2>1, FirstRange
    <3>3. ("have" \in final /\ FirstStart + FirstLen = head) \in BOOLEAN
      OBVIOUS
    <3>4. /\ o.start = FirstStart /\ o.len = FirstLen
          /\ o.fin => "have" \in final /\ FirstStart + FirstLen = head
      BY <3>1
    <3>5. o \in Chunks
      BY <1>2, <3>1, <3>2, <3>3 DEF Chunks
    <3> QED
      BY <1>2, <3>2, <3>4, <3>5
  <2>2. CASE new # {} /\ head = 0
    <3>1. o = [start |-> FirstStart, len |-> FirstLen,
               fin |-> "have" \in final /\ FirstStart + FirstLen = head]
      BY <2>2 DEF Offered
    <3>2. new = Uint /\ "have" \in final
      BY <1>2, <2>2 DEF EmptyStream
    <3>3. FirstStart = 0
      <4>1. 0 \in Uint /\ \A j \in Uint : 0 <= j /\ j \in Int
        BY <1>2 DEF Uint
      <4>2. FirstStart \in Uint /\ \A j \in Uint : FirstStart <= j
        BY <3>2, <4>1 DEF FirstStart
      <4> QED  BY <4>1, <4>2
    <3>4. FirstLen = 0
      <4>1. FirstEnd = CHOOSE i \in Uint : (0 .. i) \subseteq Uint /\ i + 1 \notin Uint
        BY <3>2, <3>3 DEF FirstEnd
      <4>2. Width - 1 \in Uint /\ (0 .. Width - 1) \subseteq Uint /\ (Width - 1) + 1 \notin Uint
        BY <1>2 DEF Uint
      <4>3. FirstEnd \in Uint /\ FirstEnd + 1 \notin Uint
        BY <4>1, <4>2
      <4>4. FirstEnd = Width - 1
        BY <1>2, <4>3 DEF Uint
      <4>5. FirstEnd - FirstStart + 1 = Width
        BY <1>2, <3>3, <4>4
      <4>6. (0 + Width) % Width = 0 /\ 0 + Width = Width
        <5>1. 0 \in 0 .. Width - 1 /\ Width \in Nat \ {0}
          BY <1>2
        <5> QED  BY <5>1, WrapOnce
      <4>7. Width % Width = 0
        BY <4>6
      <4> QED
        BY <2>2, <3>3, <4>5, <4>7 DEF FirstLen
    <3> QED
      BY <1>2, <2>2, <3>1, <3>2, <3>3, <3>4 DEF Chunks
  <2>3. CASE new = {}
    <3>1. o = [start |-> head, len |-> 0, fin |-> TRUE] /\ "have" \in final
      BY <2>3 DEF Offered
    <3> QED
      BY <1>2, <3>1 DEF Chunks
  <2> QED
    BY <1>2, <2>1, <2>2, <2>3
<1>4. c = [start |-> o.start, len |-> n, fin |-> o.fin /\ n = o.len]
  BY <1>1, <1>3 DEF Cut, Chunks
<1>5. c \in Chunks /\ c.start = o.start /\ c.len = n /\ o.start \in Nat /\ o.len \in Nat
  <2>1. (o.fin /\ n = o.len) \in BOOLEAN
    OBVIOUS
  <2> QED
    BY <1>2, <1>3, <1>4, <2>1 DEF Chunks
<1>6. c.start + c.len <= head /\ (c.len = 0 => c.start = head /\ "have" \in final)
  BY <1>1, <1>2, <1>3, <1>5
<1>7. c.fin => "have" \in final /\ c.start + c.len = head
  BY <1>3, <1>4, <1>5
<1>8. CASE head > 0
  <2>1. c.start + c.len \in 1 .. Limit
    BY <1>1, <1>2, <1>5, <1>6, <1>8
  <2>2. ChunkBytes(c) = c.start .. c.start + c.len - 1
    BY <1>5, <2>1, ChunkBytesExact
  <2>3. c.start .. c.start + c.len - 1 \subseteq o.start .. o.start + o.len - 1
    BY <1>1, <1>5
  <2> QED
    BY <1>3, <1>5, <1>6, <1>8, <1>7, <2>2, <2>3
<1>9. CASE head = 0
  <2>1. c.start + c.len = 0
    BY <1>1, <1>5, <1>6, <1>9
  <2> QED
    BY <1>5, <1>6, <1>9, <1>7, <2>1, ChunkBytesWrap
<1> QED
  BY <1>2, <1>8, <1>9

\* Bytes that go into a packet leave new_set for that packet alone.
LEMMA CommitStep ==
    ASSUME SendInv, NEW c, Commit(c)
    PROVE  SendInv'
<1>1. /\ SendTypeOK /\ ChunksWithin /\ EmptyStream /\ Placed /\ BufferIntact
      /\ head \in 0 .. Limit
  BY DEF SendInv, SendTypeOK
<1>2. /\ sendState # "data_recvd"
      /\ new' = new \ ChunkBytes(c)
      /\ final' = IF c.fin THEN final \cup {"sent"} ELSE final
      /\ flight' = flight \cup {c}
      /\ sendState' \in {"data_sent", sendState}
      /\ UNCHANGED <<head, ctail, ring, acked>>
  BY DEF Commit, MarkTransmitted
<1>3. /\ c \in Chunks
      /\ c.start + c.len <= head
      /\ c.len = 0 => c.start = head /\ "have" \in final
      /\ head > 0 => ChunkBytes(c) \subseteq new
      /\ head = 0 => ChunkBytes(c) = Uint
  BY CommitChunk
<1>4. "have" \in final' <=> "have" \in final
  BY <1>2
<1>5. SendTypeOK'
  BY <1>1, <1>2, <1>3 DEF SendTypeOK
<1>6. ChunksWithin'
  BY <1>1, <1>2, <1>3, <1>4 DEF ChunksWithin
<1>7. EmptyStream'
  BY <1>1, <1>2, <1>3, <1>4 DEF EmptyStream
<1>8. Placed'
  <2> SUFFICES ASSUME NEW i \in 0 .. head - 1
               PROVE  /\ ~ (i \in new' /\ i \in acked')
                      /\ \A a \in flight' : i \in ChunkBytes(a) =>
                             /\ i \notin new' /\ i \notin acked'
                             /\ \A d \in flight' : i \in ChunkBytes(d) => d = a
                      /\ \/ i \in new' \/ i \in acked'
                         \/ \E a \in flight' : i \in ChunkBytes(a)
    BY <1>2 DEF Placed
  <2>1. i \in ChunkBytes(c) => i \in new
    BY <1>1, <1>3
  <2> QED
    BY <1>1, <1>2, <2>1 DEF Placed
<1>9. BufferIntact'
  BY <1>1, <1>2 DEF BufferIntact
<1> QED
  BY <1>5, <1>6, <1>7, <1>8, <1>9 DEF SendInv

----------------------------------------------------------------------------
(* Acked and Lost.                                                         *)

\* The tail of the buffer advances to the first byte not acknowledged, and
\* never passes the head.
LEMMA CullBounds ==
    ASSUME NEW set \in SUBSET Uint, SendInv,
           head > 0 => set \subseteq 0 .. head - 1,
           head = 0 => set \in {{}, Uint},
           acked \subseteq set
    PROVE  /\ Cull(set) \in ctail .. head
           /\ \A i \in 0 .. Cull(set) - 1 : i \in set
<1>1. /\ head \in 0 .. Limit /\ ctail \in 0 .. Limit /\ Limit \in Nat
      /\ Width \in Nat /\ MaxOffset \in Nat /\ MaxOffset < Width /\ Limit <= MaxOffset
      /\ ctail <= head
  BY SendStreamAssumption DEF SendInv, SendTypeOK, BufferIntact
<1>2. \A i \in 0 .. ctail - 1 : i \in set
  BY DEF SendInv, BufferIntact
<1>3. CASE 0 \notin set
  <2>1. Cull(set) = ctail
    BY <1>3 DEF Cull
  <2> QED
    BY <1>1, <1>2, <2>1
<1>4. CASE 0 \in set
  <2> DEFINE end == CHOOSE i \in set : (0 .. i) \subseteq set /\ i + 1 \notin set
  <2>1. \E i \in set : (0 .. i) \subseteq set /\ i + 1 \notin set
    <3>1. set \subseteq 0 .. Width - 1
      BY DEF Uint
    <3>2. \E i \in set : 0 <= i /\ (0 .. i) \subseteq set /\ i + 1 \notin set
      BY <1>1, <1>4, <3>1, RunEnds
    <3> QED
      BY <3>2
  <2>2. end \in set /\ (0 .. end) \subseteq set /\ end + 1 \notin set
    BY <2>1
  <2>3. Cull(set) = IF end >= MaxOffset THEN ctail ELSE end + 1
    BY <1>4 DEF Cull
  <2> HIDE DEF end
  <2>4. CASE head = 0
    <3>1. set = Uint
      BY <1>4, <2>4
    <3>2. end \in Nat /\ end >= MaxOffset
      BY <1>1, <2>2, <3>1 DEF Uint
    <3> QED
      BY <1>1, <1>2, <2>3, <3>2
  <2>5. CASE head > 0
    <3>1. end \in 0 .. head - 1
      BY <2>2, <2>5
    <3>2. Cull(set) = end + 1
      BY <1>1, <2>3, <3>1
    <3>3. ctail <= end + 1
      <4> SUFFICES ASSUME end + 1 < ctail PROVE FALSE
        BY <1>1, <3>1
      <4>1. end + 1 \in 0 .. ctail - 1
        BY <1>1, <3>1
      <4> QED
        BY <1>2, <2>2, <4>1
    <3> QED
      BY <1>1, <2>2, <3>1, <3>2, <3>3
  <2> QED
    BY <1>1, <2>4, <2>5
<1> QED
  BY <1>3, <1>4

\* An acknowledgement moves the bytes of its chunk to acked_set and frees of
\* the buffer only what is there.
LEMMA AckedStep ==
    ASSUME SendInv, NEW c, Acked(c)
    PROVE  SendInv'
<1>1. /\ SendTypeOK /\ ChunksWithin /\ EmptyStream /\ Placed /\ BufferIntact
      /\ head \in 0 .. Limit /\ ctail \in 0 .. Limit /\ Limit \in Nat
      /\ Alloc \in Nat
  BY SendStreamAssumption DEF SendInv, SendTypeOK
<1>2. /\ c \in flight /\ flight' = flight \ {c}
      /\ UNCHANGED <<head, ring, new>>
  BY DEF Acked
<1>3. CASE sendState = "data_recvd"
  <2>1. UNCHANGED <<sendState, ctail, acked, final>>
    BY <1>3 DEF Acked
  <2>2. SendTypeOK'
    BY <1>1, <1>2, <2>1 DEF SendTypeOK
  <2>3. ChunksWithin'
    BY <1>1, <1>2, <2>1 DEF ChunksWithin
  <2>4. EmptyStream'
    BY <1>1, <1>2, <2>1 DEF EmptyStream
  <2>5. Placed'
    BY <1>3, <2>1 DEF Placed
  <2>6. BufferIntact'
    BY <1>1, <1>2, <2>1 DEF BufferIntact
  <2> QED
    BY <2>2, <2>3, <2>4, <2>5, <2>6 DEF SendInv
<1>4. CASE sendState # "data_recvd"
  <2>1. /\ acked' = acked \cup ChunkBytes(c)
        /\ ctail' = Cull(acked')
        /\ final' = IF c.fin THEN final \cup {"acked"} ELSE final
        /\ sendState' \in {"data_recvd", sendState}
    BY <1>4 DEF Acked
  <2>2. /\ head > 0 => ChunkBytes(c) \subseteq 0 .. head - 1
        /\ head = 0 => ChunkBytes(c) = Uint /\ "have" \in final
    BY <1>1, <1>2, FlightBytes
  <2>3. /\ acked' \subseteq Uint
        /\ head > 0 => acked' \subseteq 0 .. head - 1
        /\ head = 0 => acked' \in {{}, Uint}
    <3>1. 0 .. head - 1 \subseteq Uint
      BY <1>1, SendStreamAssumption DEF Uint
    <3> QED
      BY <1>1, <2>1, <2>2, <3>1 DEF SendTypeOK, EmptyStream
  <2>4. /\ ctail' \in ctail .. head
        /\ \A i \in 0 .. ctail' - 1 : i \in acked'
    <3> DEFINE set == acked'
    <3>1. set \in SUBSET Uint /\ acked \subseteq set
      BY <2>1, <2>3
    <3>2. /\ head > 0 => set \subseteq 0 .. head - 1
          /\ head = 0 => set \in {{}, Uint}
      BY <2>3
    <3>3. ctail' = Cull(set)
      BY <2>1
    <3> HIDE DEF set
    <3>4. Cull(set) \in ctail .. head /\ \A i \in 0 .. Cull(set) - 1 : i \in set
      BY <3>1, <3>2, CullBounds
    <3> QED
      BY <3>3, <3>4 DEF set
  <2>5. "have" \in final' <=> "have" \in final
    BY <2>1
  <2>6. SendTypeOK'
    BY <1>1, <1>2, <2>1, <2>3, <2>4 DEF SendTypeOK
  <2>7. ChunksWithin'
    BY <1>1, <1>2, <2>5 DEF ChunksWithin
  <2>8. EmptyStream'
    BY <1>1, <1>2, <2>2, <2>3, <2>5 DEF EmptyStream
  <2>9. Placed'
    BY <1>1, <1>2, <1>4, <2>1 DEF Placed
  <2>10. BufferIntact'
    <3>1. ctail' <= head' /\ head' - ctail' <= Alloc
      <4>1. head - ctail <= Alloc
        BY <1>1 DEF BufferIntact
      <4>2. ctail' \in ctail .. head /\ head' = head
        BY <1>2, <2>4
      <4>3. /\ ctail' \in Int /\ ctail <= ctail' /\ ctail' <= head
            /\ head \in Int /\ ctail \in Int /\ Alloc \in Int
        BY <1>1, <4>2
      <4>4. head - ctail' <= Alloc
        <5>1. \A a, b, c1, d \in Int : a - b <= d /\ b <= c1 => a - c1 <= d
          OBVIOUS
        <5> QED  BY <4>1, <4>3, <5>1
      <4> QED  BY <4>2, <4>3, <4>4
    <3>2. \A i \in ctail' .. head' - 1 : i \in ctail .. head - 1
      BY <1>1, <1>2, <2>4
    <3>3. \A i \in ctail' .. head' - 1 : ring'[i % Alloc] = i
      BY <1>1, <1>2, <3>2 DEF BufferIntact
    <3> QED
      BY <2>4, <3>1, <3>3 DEF BufferIntact
  <2> QED
    BY <2>6, <2>7, <2>8, <2>9, <2>10 DEF SendInv
<1> QED
  BY <1>3, <1>4

\* A loss moves the bytes of its chunk back to new_set.
LEMMA LostStep ==
    ASSUME SendInv, NEW c, Lost(c)
    PROVE  SendInv'
<1>1. /\ SendTypeOK /\ ChunksWithin /\ EmptyStream /\ Placed /\ BufferIntact
      /\ head \in 0 .. Limit
  BY DEF SendInv, SendTypeOK
<1>2. /\ c \in flight /\ flight' = flight \ {c}
      /\ UNCHANGED <<sendState, head, ctail, ring, acked>>
      /\ sendState = "data_recvd" => UNCHANGED <<new, final>>
      /\ sendState # "data_recvd" =>
             /\ new' = new \cup ChunkBytes(c)
             /\ final' \in {final, final \ {"sent"}}
  BY DEF Lost, LostFin
<1>3. /\ head > 0 => ChunkBytes(c) \subseteq 0 .. head - 1
      /\ head = 0 => ChunkBytes(c) = Uint /\ "have" \in final
  BY <1>1, <1>2, FlightBytes
<1>4. "have" \in final' <=> "have" \in final
  BY <1>2
<1>5. SendTypeOK'
  <2>1. 0 .. head - 1 \subseteq Uint
    BY <1>1, SendStreamAssumption DEF Uint
  <2>2. new' \subseteq Uint /\ (head > 0 => new' \cup acked' \subseteq 0 .. head - 1)
    BY <1>1, <1>2, <1>3, <2>1 DEF SendTypeOK
  <2>3. final' \subseteq {"have", "sent", "acked"} /\ flight' \subseteq Chunks
    BY <1>1, <1>2 DEF SendTypeOK
  <2> QED
    BY <1>1, <1>2, <2>2, <2>3 DEF SendTypeOK
<1>6. ChunksWithin'
  BY <1>1, <1>2, <1>4 DEF ChunksWithin
<1>7. EmptyStream'
  BY <1>1, <1>2, <1>3, <1>4 DEF EmptyStream
<1>8. Placed'
  BY <1>1, <1>2 DEF Placed
<1>9. BufferIntact'
  BY <1>1, <1>2 DEF BufferIntact
<1> QED
  BY <1>5, <1>6, <1>7, <1>8, <1>9 DEF SendInv

----------------------------------------------------------------------------
(* The list of frames.                                                     *)

\* A walk along a list stops, at the first frame that is not to be passed.
LEMMA WalkStops ==
    ASSUME NEW S, NEW l \in Seq(S), NEW T \in SUBSET (1 .. Len(l))
    PROVE  /\ Walk(l, T) \in 0 .. Len(l)
           /\ (1 .. Walk(l, T)) \subseteq T
           /\ Walk(l, T) + 1 \notin T
<1> DEFINE n == Len(l)  U == {m \in Nat : m >= 1 /\ m \notin T}
<1>1. n \in Nat
  OBVIOUS
<1>2. n + 1 \in U /\ U \subseteq Nat
  BY <1>1
<1>3. PICK m \in U : \A y \in U : m <= y
  <2> HIDE DEF U
  <2> QED  BY <1>2, LeastNat
<1>4. m \in Nat /\ m >= 1 /\ m \notin T /\ m <= n + 1
  BY <1>2, <1>3
<1>5. \A j \in 1 .. m - 1 : j \in T
  BY <1>3, <1>4
<1>6. m - 1 \in 0 .. Len(l) /\ (1 .. m - 1) \subseteq T /\ (m - 1) + 1 \notin T
  BY <1>1, <1>4, <1>5
<1>7. \E k \in 0 .. Len(l) : (1 .. k) \subseteq T /\ k + 1 \notin T
  BY <1>6
<1> QED
  BY <1>7 DEF Walk

\* The lists that the proofs are about: sorted by start and strictly by end.
Sorted(l) ==
    /\ l \in Seq(FrameSet)
    /\ \A i, j \in 1 .. Len(l) :
           i < j => l[i].start <= l[j].start /\ End(l[i]) < End(l[j])

\* The fields of a frame are natural numbers.
LEMMA FrameFields ==
    ASSUME NEW f \in FrameSet
    PROVE  f.start \in Nat /\ Len(f.data) \in Nat /\ End(f) \in Nat
           /\ End(f) = f.start + Len(f.data) /\ f.fin \in BOOLEAN
BY SendStreamAssumption DEF FrameSet, End

\* The neighbours that ossl_sframe_list_insert finds: the frames up to Before
\* start below f, those up to Through are covered by it, the others lie beyond.
LEMMA Neighbours ==
    ASSUME NEW l, Sorted(l), NEW f \in FrameSet
    PROVE  /\ Before(l, f) \in 0 .. Len(l)
           /\ Through(l, f) \in Before(l, f) .. Len(l)
           /\ \A j \in 1 .. Len(l) :
                  /\ j <= Before(l, f) <=> l[j].start < f.start
                  /\ Before(l, f) < j /\ j <= Through(l, f) => End(l[j]) <= End(f)
                  /\ j > Through(l, f) => End(l[j]) > End(f)
<1>1. l \in Seq(FrameSet) /\ Len(l) \in Nat /\ DOMAIN l = 1 .. Len(l)
  BY DEF Sorted
<1>2. \A j \in 1 .. Len(l) : l[j].start \in Nat /\ End(l[j]) \in Nat
  <2> TAKE j \in 1 .. Len(l)
  <2>1. l[j] \in FrameSet
    BY <1>1
  <2> QED  BY <2>1, FrameFields
<1>3. f.start \in Nat /\ End(f) \in Nat
  BY FrameFields
<1> DEFINE T == {i \in DOMAIN l : l[i].start < f.start}
           p == Before(l, f)
           U == {i \in DOMAIN l : i <= p \/ End(l[i]) <= End(f)}
           q == Through(l, f)
<1>4. p \in 0 .. Len(l) /\ (1 .. p) \subseteq T /\ p + 1 \notin T
  <2>1. p = Walk(l, T)
    BY DEF Before
  <2>2. T \in SUBSET (1 .. Len(l))
    BY <1>1
  <2> HIDE DEF T
  <2> QED  BY <1>1, <2>1, <2>2, WalkStops
<1>5. q \in 0 .. Len(l) /\ (1 .. q) \subseteq U /\ q + 1 \notin U
  <2>1. q = Walk(l, U)
    BY DEF Through
  <2>2. U \in SUBSET (1 .. Len(l))
    BY <1>1
  <2> HIDE DEF U
  <2> QED  BY <1>1, <2>1, <2>2, WalkStops
<1> HIDE DEF p, q
<1>6. p <= q
  BY <1>1, <1>4, <1>5
<1>7. ASSUME NEW j \in 1 .. Len(l)
      PROVE  /\ j <= p <=> l[j].start < f.start
             /\ p < j /\ j <= q => End(l[j]) <= End(f)
             /\ j > q => End(l[j]) > End(f)
  <2>1. j <= p => l[j].start < f.start
    BY <1>1, <1>4
  <2>2. j > p => l[j].start >= f.start
    <3> SUFFICES ASSUME j > p PROVE l[j].start >= f.start
      OBVIOUS
    <3>1. p + 1 \in 1 .. Len(l) /\ l[p + 1].start >= f.start
      BY <1>1, <1>2, <1>3, <1>4
    <3>2. l[p + 1].start <= l[j].start
      <4>1. CASE j = p + 1
        BY <1>2, <3>1, <4>1
      <4>2. CASE p + 1 < j
        BY <3>1, <4>2 DEF Sorted
      <4> QED  BY <1>1, <1>4, <4>1, <4>2
    <3> QED  BY <1>2, <1>3, <3>1, <3>2
  <2>3. p < j /\ j <= q => End(l[j]) <= End(f)
    BY <1>1, <1>4, <1>5
  <2>4. j > q => End(l[j]) > End(f)
    <3> SUFFICES ASSUME j > q PROVE End(l[j]) > End(f)
      OBVIOUS
    <3>1. q + 1 \in 1 .. Len(l) /\ End(l[q + 1]) > End(f)
      BY <1>1, <1>2, <1>3, <1>5
    <3>2. End(l[q + 1]) <= End(l[j])
      <4>1. CASE j = q + 1
        BY <1>2, <3>1, <4>1
      <4>2. CASE q + 1 < j
        BY <1>2, <3>1, <4>2 DEF Sorted
      <4> QED  BY <1>1, <1>5, <4>1, <4>2
    <3> QED  BY <1>2, <1>3, <3>1, <3>2
  <2> QED
    BY <1>2, <1>3, <1>4, <2>1, <2>2, <2>3, <2>4
<1> QED
  BY <1>4, <1>5, <1>6, <1>7 DEF p, q

\* A list without its frames from p + 1 to q.
CutOut(l, p, q) == SubSeq(l, 1, p) \o SubSeq(l, q + 1, Len(l))

\* The same with f in their place.
Spliced(l, p, q, f) == SubSeq(l, 1, p) \o <<f>> \o SubSeq(l, q + 1, Len(l))

\* Where the frames of such a list come from.
LEMMA Cutting ==
    ASSUME NEW l \in Seq(FrameSet), NEW p \in 0 .. Len(l), NEW q \in p .. Len(l),
           NEW r, r = CutOut(l, p, q)
    PROVE  /\ r \in Seq(FrameSet) /\ Len(r) = p + (Len(l) - q)
           /\ \A k \in 1 .. Len(r) : r[k] = l[IF k <= p THEN k ELSE k - p + q]
<1> DEFINE a == SubSeq(l, 1, p)  b == SubSeq(l, q + 1, Len(l))  n == Len(l)
<1>1. n \in Nat /\ p \in Nat /\ q \in Nat /\ p <= q /\ q <= n
  OBVIOUS
<1>2. a \in Seq(FrameSet) /\ Len(a) = p /\ \A k \in 1 .. p : a[k] = l[k]
  BY <1>1
<1>3. b \in Seq(FrameSet) /\ Len(b) = n - q /\ \A k \in 1 .. n - q : b[k] = l[k + q]
  BY <1>1
<1>4. r = a \o b
  BY DEF CutOut
<1> HIDE DEF a, b, n
<1>5. /\ r \in Seq(FrameSet) /\ Len(r) = Len(a) + Len(b)
      /\ \A k \in 1 .. Len(a) + Len(b) : r[k] = IF k <= Len(a) THEN a[k] ELSE b[k - Len(a)]
  BY ONLY <1>2, <1>3, <1>4, ConcatProperties
<1>6. Len(r) = p + (n - q) /\ Len(r) \in Nat
  BY ONLY <1>1, <1>2, <1>3, <1>5
<1>7. \A k \in 1 .. Len(r) : r[k] = l[IF k <= p THEN k ELSE k - p + q]
  <2>1. \A k \in 1 .. Len(r) : r[k] = IF k <= p THEN a[k] ELSE b[k - p]
    BY ONLY <1>2, <1>3, <1>5
  <2>2. \A k \in 1 .. Len(r) : k <= p => a[k] = l[k]
    BY ONLY <1>1, <1>2, <1>6
  <2>3. \A k \in 1 .. Len(r) : k > p => k - p \in 1 .. n - q
    BY ONLY <1>1, <1>6
  <2>4. \A k \in 1 .. Len(r) : k > p => b[k - p] = l[k - p + q]
    BY ONLY <1>3, <2>3
  <2> TAKE k \in 1 .. Len(r)
  <2>5. CASE k <= p
    BY <2>1, <2>2, <2>5
  <2>6. CASE ~ (k <= p)
    <3>1. k > p
      BY <1>1, <1>6, <2>6
    <3> QED  BY <2>1, <2>4, <2>6, <3>1
  <2> QED  BY <2>5, <2>6
<1> QED
  BY ONLY <1>5, <1>6, <1>7 DEF n

\* The same with the new frame.
IsSpliced(r, l, p, q, f) ==
    /\ r \in Seq(FrameSet) /\ Len(r) = p + 1 + (Len(l) - q)
    /\ r[p + 1] = f
    /\ \A k \in 1 .. Len(r) :
           k # p + 1 => r[k] = l[IF k <= p THEN k ELSE k - p - 1 + q]

\* The frames of a list with the new frame in place.
LEMMA Splicing ==
    ASSUME NEW l \in Seq(FrameSet), NEW p \in 0 .. Len(l), NEW q \in p .. Len(l),
           NEW f \in FrameSet,
           NEW r, r = Spliced(l, p, q, f)
    PROVE  IsSpliced(r, l, p, q, f)
<1> DEFINE a == SubSeq(l, 1, p)  b == SubSeq(l, q + 1, Len(l))  n == Len(l)
           m == a \o <<f>>
<1>1. n \in Nat /\ p \in Nat /\ q \in Nat /\ p <= q /\ q <= n
  OBVIOUS
<1>2. a \in Seq(FrameSet) /\ Len(a) = p /\ \A k \in 1 .. p : a[k] = l[k]
  BY <1>1
<1>3. b \in Seq(FrameSet) /\ Len(b) = n - q /\ \A k \in 1 .. n - q : b[k] = l[k + q]
  BY <1>1
<1>4. r = m \o b
  BY DEF Spliced
<1> HIDE DEF a, b, n
<1>5. m \in Seq(FrameSet) /\ Len(m) = p + 1 /\ m[p + 1] = f /\ \A k \in 1 .. p : m[k] = a[k]
  <2>1. f \in FrameSet
    OBVIOUS
  <2> QED  BY ONLY <1>1, <1>2, <2>1
<1> HIDE DEF m
<1>6. /\ r \in Seq(FrameSet) /\ Len(r) = Len(m) + Len(b)
      /\ \A k \in 1 .. Len(m) + Len(b) : r[k] = IF k <= Len(m) THEN m[k] ELSE b[k - Len(m)]
  BY ONLY <1>3, <1>4, <1>5, ConcatProperties
<1>7. Len(r) = p + 1 + (n - q) /\ Len(r) \in Nat /\ p + 1 \in 1 .. Len(r)
  BY ONLY <1>1, <1>3, <1>5, <1>6
<1>8. \A k \in 1 .. Len(r) :
         k # p + 1 => r[k] = l[IF k <= p THEN k ELSE k - p - 1 + q]
  <2>1. \A k \in 1 .. Len(r) : r[k] = IF k <= p + 1 THEN m[k] ELSE b[k - (p + 1)]
    BY ONLY <1>3, <1>5, <1>6
  <2>2. \A k \in 1 .. Len(r) : k <= p => m[k] = l[k]
    BY ONLY <1>1, <1>2, <1>5, <1>7
  <2>3. \A k \in 1 .. Len(r) : k > p + 1 => k - (p + 1) \in 1 .. n - q
    BY ONLY <1>1, <1>7
  <2>4. \A k \in 1 .. Len(r) : k > p + 1 => b[k - (p + 1)] = l[k - (p + 1) + q]
    BY ONLY <1>3, <2>3
  <2>5. \A k \in 1 .. Len(r) : k - (p + 1) + q = k - p - 1 + q
    BY ONLY <1>1, <1>7
  <2> QED  BY ONLY <1>1, <1>7, <2>1, <2>2, <2>4, <2>5
<1>9. r[p + 1] = f
  BY ONLY <1>1, <1>5, <1>6, <1>7
<1> QED
  BY ONLY <1>6, <1>7, <1>8, <1>9 DEF IsSpliced, n

\* Bytes i of list l, as Received counts them.
InList(l, i) == \E k \in 1 .. Len(l) : l[k].start <= i /\ i < End(l[k])

\* What ossl_sframe_list_insert does to a sorted list: the list stays sorted,
\* its frames are old ones or the new one, no byte is lost from it, the bytes
\* of the new frame that were not read are in it, and its end is as far as it
\* was or as the new frame's.
LEMMA InsertKeeps ==
    ASSUME NEW l, Sorted(l), NEW f \in FrameSet, offset \in Nat,
           \A k \in 1 .. Len(l) : End(l[k]) > offset,
           NEW r, r = InsertFrame(l, f)
    PROVE  /\ Sorted(r)
           /\ \A k \in 1 .. Len(r) :
                  /\ End(r[k]) > offset
                  /\ r[k] = f \/ \E j \in 1 .. Len(l) : r[k] = l[j]
           /\ \A i \in Nat : InList(l, i) => InList(r, i)
           /\ \A i \in Nat : offset <= i /\ f.start <= i /\ i < End(f) => InList(r, i)
           /\ r = <<>> => l = <<>> /\ End(f) <= offset
           /\ Len(r) > 0 => /\ End(r[Len(r)]) >= End(f) \/ End(f) <= offset
                            /\ Len(l) > 0 => End(r[Len(r)]) >= End(l[Len(l)])
<1> DEFINE p == Before(l, f)  q == Through(l, f)  n == Len(l)
<1>1. l \in Seq(FrameSet) /\ n \in Nat
  BY DEF Sorted
<1>2. \A j \in 1 .. n : l[j] \in FrameSet /\ l[j].start \in Nat /\ End(l[j]) \in Nat
  <2> TAKE j \in 1 .. n
  <2>1. l[j] \in FrameSet
    BY <1>1
  <2> QED  BY <2>1, FrameFields
<1>3. f.start \in Nat /\ End(f) \in Nat
  BY FrameFields
<1>4. /\ p \in 0 .. n /\ q \in p .. n
      /\ \A j \in 1 .. n : /\ j <= p <=> l[j].start < f.start
                           /\ p < j /\ j <= q => End(l[j]) <= End(f)
                           /\ j > q => End(l[j]) > End(f)
  BY Neighbours
<1>5. \A i, j \in 1 .. n : i < j => l[i].start <= l[j].start /\ End(l[i]) < End(l[j])
  BY DEF Sorted
<1> DEFINE covered == p > 0 /\ End(l[p]) >= End(f)
           noGap == p > 0 /\ q < n /\ l[q + 1].start <= End(l[p])
<1>6. r = IF offset >= End(f) \/ covered THEN l
          ELSE IF noGap THEN SubSeq(l, 1, p) \o SubSeq(l, q + 1, n)
          ELSE SubSeq(l, 1, p) \o <<f>> \o SubSeq(l, q + 1, n)
  BY DEF InsertFrame
<1> HIDE DEF p, q, n
<1>7. CASE offset >= End(f) \/ covered
  <2>1. r = l
    BY <1>6, <1>7
  <2>2. covered => \A i \in Nat : f.start <= i /\ i < End(f) => InList(l, i)
    BY <1>1, <1>2, <1>3, <1>4 DEF InList, n
  <2>3. \A i \in Nat : offset <= i /\ f.start <= i /\ i < End(f) => InList(r, i)
    BY <1>3, <1>7, <2>1, <2>2
  <2>4. covered => n > 0 /\ End(l[n]) >= End(f)
    BY <1>1, <1>2, <1>3, <1>4, <1>5
  <2>5. r = <<>> => l = <<>> /\ End(f) <= offset
    <3>1. l = <<>> => n = 0
      BY DEF n
    <3> QED  BY <1>3, <1>7, <2>1, <2>4, <3>1
  <2>6. \A k \in 1 .. Len(r) : End(r[k]) > offset /\ \E j \in 1 .. Len(l) : r[k] = l[j]
    BY <2>1
  <2>7. Len(r) > 0 => /\ End(r[Len(r)]) >= End(f) \/ End(f) <= offset
                      /\ Len(l) > 0 => End(r[Len(r)]) >= End(l[Len(l)])
    BY <1>1, <1>2, <1>3, <1>7, <2>1, <2>4 DEF n
  <2> QED
    BY <2>1, <2>3, <2>5, <2>6, <2>7
<1>8. CASE ~ (offset >= End(f) \/ covered) /\ noGap
  <2>1. r = SubSeq(l, 1, p) \o SubSeq(l, q + 1, n)
    BY <1>6, <1>8
  <2> DEFINE at(k) == IF k <= p THEN k ELSE k - p + q
  <2>2. /\ r \in Seq(FrameSet) /\ Len(r) = p + (n - q)
        /\ \A k \in 1 .. Len(r) : r[k] = l[at(k)]
    <3>1. /\ l \in Seq(FrameSet) /\ p \in 0 .. Len(l) /\ q \in p .. Len(l)
          /\ r = CutOut(l, p, q)
      BY <1>1, <1>4, <2>1 DEF n, CutOut
    <3>2. r \in Seq(FrameSet) /\ Len(r) = p + (Len(l) - q)
      BY ONLY <3>1, Cutting
    <3>3. \A k \in 1 .. Len(r) : r[k] = l[IF k <= p THEN k ELSE k - p + q]
      BY ONLY <3>1, Cutting
    <3> QED  BY ONLY <3>2, <3>3 DEF n, at
  <2>3. /\ Len(r) \in Nat /\ Len(r) > 0
        /\ \A k \in 1 .. Len(r) : at(k) \in 1 .. n
        /\ \A i, j \in 1 .. Len(r) : i < j => at(i) < at(j)
        /\ at(Len(r)) = n
    BY <1>1, <1>4, <1>8, <2>2
  <2>4. \A j \in 1 .. n : j <= p \/ j > q => \E k \in 1 .. Len(r) : at(k) = j
    <3> TAKE j \in 1 .. n
    <3>1. CASE j <= p
      <4>1. j \in 1 .. Len(r) /\ at(j) = j
        BY <1>1, <1>4, <2>2, <3>1
      <4> QED  BY <4>1
    <3>2. CASE j > q
      <4>1. j - q + p \in 1 .. Len(r) /\ at(j - q + p) = j
        BY <1>1, <1>4, <2>2, <3>2
      <4> QED  BY <4>1
    <3> QED  BY <3>1, <3>2
  <2> HIDE DEF at
  <2>5. Sorted(r)
    BY <1>5, <2>2, <2>3 DEF Sorted
  <2>6. \A k \in 1 .. Len(r) : End(r[k]) > offset /\ \E j \in 1 .. Len(l) : r[k] = l[j]
    BY <2>2, <2>3 DEF n
  <2>7. \A j \in 1 .. n, i \in Nat :
           (j <= p \/ j > q) /\ l[j].start <= i /\ i < End(l[j]) => InList(r, i)
    BY <2>2, <2>4 DEF InList
  <2>8. \A i \in Nat : f.start <= i /\ i < End(f) => InList(r, i)
    <3> TAKE i \in Nat
    <3> HAVE f.start <= i /\ i < End(f)
    <3>1. p \in 1 .. n /\ q + 1 \in 1 .. n /\ q + 1 > q /\ p <= p
      BY <1>1, <1>4, <1>8
    <3>2. l[p].start < f.start /\ End(l[q + 1]) > End(f) /\ l[q + 1].start <= End(l[p])
      BY <1>4, <1>8, <3>1
    <3>3. CASE i < End(l[p])
      BY <1>2, <1>3, <2>7, <3>1, <3>2, <3>3
    <3>4. CASE i >= End(l[p])
      <4>1. l[q + 1].start <= i /\ i < End(l[q + 1])
        BY <1>2, <1>3, <3>1, <3>2, <3>4
      <4> QED  BY <2>7, <3>1, <4>1
    <3> QED  BY <1>2, <3>1, <3>3, <3>4
  <2>9. \A i \in Nat : InList(l, i) => InList(r, i)
    <3> TAKE i \in Nat
    <3> HAVE InList(l, i)
    <3>1. PICK j \in 1 .. n : l[j].start <= i /\ i < End(l[j])
      BY DEF InList, n
    <3>2. CASE j <= p \/ j > q
      BY <2>7, <3>1, <3>2
    <3>3. CASE p < j /\ j <= q
      <4>1. f.start <= i /\ i < End(f)
        BY <1>2, <1>3, <1>4, <3>1, <3>3
      <4> QED  BY <2>8, <4>1
    <3> QED  BY <1>1, <1>4, <3>2, <3>3
  <2>10. r # <<>>
    BY <2>3
  <2>11. End(r[Len(r)]) >= End(f) /\ End(r[Len(r)]) >= End(l[Len(l)])
    <3>1. r[Len(r)] = l[n] /\ n \in 1 .. n /\ n > q
      BY <1>1, <1>4, <1>8, <2>2, <2>3
    <3> QED  BY <1>2, <1>3, <1>4, <3>1 DEF n
  <2> QED
    BY <2>5, <2>6, <2>8, <2>9, <2>10, <2>11
<1>9. CASE ~ (offset >= End(f) \/ covered) /\ ~noGap
  <2>1. r = SubSeq(l, 1, p) \o <<f>> \o SubSeq(l, q + 1, n)
    BY <1>6, <1>9
  <2> DEFINE at == [k \in 1 .. Len(r) |-> IF k <= p THEN k ELSE k - p - 1 + q]
  <2>2. /\ r \in Seq(FrameSet) /\ Len(r) = p + 1 + (n - q) /\ r[p + 1] = f
        /\ \A k \in 1 .. Len(r) : k # p + 1 => r[k] = l[at[k]]
    <3>1. /\ l \in Seq(FrameSet) /\ p \in 0 .. Len(l) /\ q \in p .. Len(l)
          /\ f \in FrameSet
          /\ r = Spliced(l, p, q, f)
      BY <1>1, <1>4, <2>1 DEF n, Spliced
    <3>2. IsSpliced(r, l, p, q, f)
      BY ONLY <3>1, Splicing
    <3> QED  BY ONLY <3>2 DEF IsSpliced, n, at
  <2>3. /\ Len(r) \in Nat /\ p + 1 \in 1 .. Len(r)
        /\ \A k \in 1 .. Len(r) : k # p + 1 => at[k] \in 1 .. n
        /\ \A k \in 1 .. Len(r) : k <= p => at[k] <= p
        /\ \A k \in 1 .. Len(r) : k > p + 1 => at[k] > q
        /\ \A i, j \in 1 .. Len(r) : i < j /\ i # p + 1 /\ j # p + 1 => at[i] < at[j]
        /\ q < n => at[Len(r)] = n
    BY <1>1, <1>4, <2>2
  <2>4. \A j \in 1 .. n : j <= p \/ j > q => \E k \in 1 .. Len(r) : k # p + 1 /\ at[k] = j
    <3> TAKE j \in 1 .. n
    <3>1. CASE j <= p
      <4>1. j \in 1 .. Len(r) /\ at[j] = j /\ j # p + 1
        BY <1>1, <1>4, <2>2, <3>1
      <4> QED  BY <4>1
    <3>2. CASE j > q
      <4>1. j - q + p + 1 \in 1 .. Len(r) /\ at[j - q + p + 1] = j /\ j - q + p + 1 # p + 1
        BY <1>1, <1>4, <2>2, <3>2
      <4> QED  BY <4>1
    <3> QED  BY <3>1, <3>2
  <2> HIDE DEF at
  <2>5. Sorted(r)
    <3> SUFFICES ASSUME NEW i \in 1 .. Len(r), NEW j \in 1 .. Len(r), i < j
                 PROVE  r[i].start <= r[j].start /\ End(r[i]) < End(r[j])
      BY <2>2 DEF Sorted
    <3>1. CASE i # p + 1 /\ j # p + 1
      <4>1. r[i] = l[at[i]] /\ r[j] = l[at[j]]
        BY <2>2, <3>1
      <4>2. at[i] \in 1 .. n /\ at[j] \in 1 .. n /\ at[i] < at[j]
        BY <2>3, <3>1
      <4> QED  BY <1>5, <4>1, <4>2
    <3>2. CASE j = p + 1
      <4>1. i <= p /\ r[i] = l[at[i]] /\ at[i] \in 1 .. n /\ at[i] <= p
        <5>1. i <= p /\ i # p + 1
          BY <1>1, <1>4, <2>3, <3>2
        <5>2. r[i] = l[at[i]]
          BY <2>2, <5>1
        <5> QED  BY <2>3, <5>1, <5>2
      <4>2. l[at[i]].start < f.start
        BY <1>4, <4>1
      <4>3. p \in 1 .. n /\ End(l[p]) < End(f)
        BY <1>1, <1>2, <1>3, <1>4, <1>9, <4>1
      <4>4. End(l[at[i]]) <= End(l[p])
        <5>1. CASE at[i] = p
          BY <1>2, <4>3, <5>1
        <5>2. CASE at[i] < p
          BY <1>2, <1>5, <4>1, <4>3, <5>2
        <5> QED  BY <1>1, <1>4, <4>1, <5>1, <5>2
      <4> QED  BY <1>2, <1>3, <2>2, <3>2, <4>1, <4>2, <4>3, <4>4
    <3>3. CASE i = p + 1
      <4>1. j > p + 1 /\ r[j] = l[at[j]] /\ at[j] \in 1 .. n /\ at[j] > q /\ ~ (at[j] <= p)
        <5>1. j > p + 1 /\ j # p + 1
          BY <1>1, <1>4, <2>3, <3>3
        <5>2. r[j] = l[at[j]]
          BY <2>2, <5>1
        <5>3. at[j] \in 1 .. n /\ at[j] > q
          BY <2>3, <5>1
        <5> QED  BY <1>1, <1>4, <5>1, <5>2, <5>3
      <4>2. l[at[j]].start >= f.start /\ End(l[at[j]]) > End(f)
        BY <1>2, <1>3, <1>4, <4>1
      <4> QED  BY <2>2, <3>3, <4>1, <4>2
    <3> QED  BY <3>1, <3>2, <3>3
  <2>6. \A k \in 1 .. Len(r) :
           /\ End(r[k]) > offset
           /\ r[k] = f \/ \E j \in 1 .. Len(l) : r[k] = l[j]
    <3> TAKE k \in 1 .. Len(r)
    <3>1. CASE k = p + 1
      BY <1>3, <1>9, <2>2, <3>1
    <3>2. CASE k # p + 1
      <4>1. r[k] = l[at[k]] /\ at[k] \in 1 .. Len(l)
        BY <2>2, <2>3, <3>2 DEF n
      <4> QED  BY <4>1
    <3> QED  BY <3>1, <3>2
  <2>7. \A j \in 1 .. n, i \in Nat :
           (j <= p \/ j > q) /\ l[j].start <= i /\ i < End(l[j]) => InList(r, i)
    BY <2>2, <2>4 DEF InList
  <2>8. \A i \in Nat : f.start <= i /\ i < End(f) => InList(r, i)
    BY <2>2, <2>3 DEF InList
  <2>9. \A i \in Nat : InList(l, i) => InList(r, i)
    <3> TAKE i \in Nat
    <3> HAVE InList(l, i)
    <3>1. PICK j \in 1 .. n : l[j].start <= i /\ i < End(l[j])
      BY DEF InList, n
    <3>2. CASE j <= p \/ j > q
      BY <2>7, <3>1, <3>2
    <3>3. CASE p < j /\ j <= q
      <4>1. f.start <= i /\ i < End(f)
        BY <1>2, <1>3, <1>4, <3>1, <3>3
      <4> QED  BY <2>8, <4>1
    <3> QED  BY <1>1, <1>4, <3>2, <3>3
  <2>10. r # <<>>
    BY <2>3
  <2>11. End(r[Len(r)]) >= End(f) /\ (n > 0 => End(r[Len(r)]) >= End(l[n]))
    <3>1. CASE q < n
      <4>1. r[Len(r)] = l[n] /\ n \in 1 .. n /\ n > q
        BY <1>1, <1>4, <2>2, <2>3, <3>1
      <4> QED  BY <1>2, <1>3, <1>4, <4>1
    <3>2. CASE q = n
      <4>1. r[Len(r)] = f
        BY <1>1, <1>4, <2>2, <3>2
      <4>2. n > 0 => End(f) >= End(l[n])
        <5> SUFFICES ASSUME n > 0 PROVE End(f) >= End(l[n])
          OBVIOUS
        <5>1. n \in 1 .. n /\ n <= q /\ End(l[n]) \in Nat
          BY <1>1, <1>2, <1>4, <3>2
        <5>2. CASE p < n
          BY <1>3, <1>4, <5>1, <5>2
        <5>3. CASE p = n
          <6>1. ~ (End(l[n]) >= End(f))
            BY <1>9, <5>1, <5>3
          <6> QED  BY <1>3, <5>1, <6>1
        <5> QED  BY <1>1, <1>4, <5>2, <5>3
      <4> QED  BY <1>3, <4>1, <4>2
    <3> QED  BY <1>1, <1>4, <3>1, <3>2
  <2> QED
    BY <2>5, <2>6, <2>8, <2>9, <2>10, <2>11 DEF n
<1> QED
  BY <1>7, <1>8, <1>9

\* A frame of list l is out of reach of the one before it; o is the offset read.
GapIn(l, o) ==
    \E k \in DOMAIN l : l[k].start > (IF k = 1 THEN o ELSE End(l[k - 1]))

\* Numbers of a sorted list.
LEMMA SortedFields ==
    ASSUME NEW l, Sorted(l)
    PROVE  /\ l \in Seq(FrameSet) /\ Len(l) \in Nat /\ DOMAIN l = 1 .. Len(l)
           /\ \A j \in 1 .. Len(l) : l[j].start \in Nat /\ End(l[j]) \in Nat
           /\ \A i, j \in 1 .. Len(l) : i < j => End(l[i]) < End(l[j])
           /\ \A i, j \in 1 .. Len(l) : i < j => l[i].start <= l[j].start
<1>1. l \in Seq(FrameSet) /\ Len(l) \in Nat /\ DOMAIN l = 1 .. Len(l)
  BY DEF Sorted
<1>2. \A j \in 1 .. Len(l) : l[j].start \in Nat /\ End(l[j]) \in Nat
  <2> TAKE j \in 1 .. Len(l)
  <2>1. l[j] \in FrameSet
    BY <1>1
  <2> QED  BY <2>1, FrameFields
<1> QED
  BY <1>1, <1>2 DEF Sorted

\* Without a gap every byte up to the end of the list is there.
LEMMA NoGapComplete ==
    ASSUME NEW l, Sorted(l), NEW o \in Nat, ~GapIn(l, o), Len(l) > 0,
           NEW i \in Nat, o <= i, i < End(l[Len(l)])
    PROVE  InList(l, i)
<1>1. /\ Len(l) \in Nat /\ DOMAIN l = 1 .. Len(l)
      /\ \A j \in 1 .. Len(l) : l[j].start \in Nat /\ End(l[j]) \in Nat
  BY SortedFields
<1> DEFINE T == {k \in 1 .. Len(l) : i < End(l[k])}
<1>2. T # {} /\ T \subseteq Nat
  BY <1>1
<1>3. PICK k \in T : \A y \in T : k <= y
  <2> HIDE DEF T
  <2> QED  BY <1>2, LeastNat
<1>4. k \in 1 .. Len(l) /\ i < End(l[k])
  BY <1>3
<1>5. l[k].start <= (IF k = 1 THEN o ELSE End(l[k - 1]))
  <2>1. k # 1 => k - 1 \in 1 .. Len(l)
    BY <1>1, <1>4
  <2>2. ~ (l[k].start > (IF k = 1 THEN o ELSE End(l[k - 1])))
    BY <1>1, <1>4 DEF GapIn
  <2> QED
    BY <1>1, <1>4, <2>1, <2>2
<1>6. k # 1 => End(l[k - 1]) <= i
  <2> SUFFICES ASSUME k # 1 PROVE End(l[k - 1]) <= i
    OBVIOUS
  <2>1. k - 1 \in 1 .. Len(l) /\ ~ (k <= k - 1)
    BY <1>1, <1>4
  <2>2. k - 1 \notin T
    BY <1>3, <2>1
  <2> QED
    BY <1>1, <2>1, <2>2
<1>7. l[k].start <= i
  BY <1>1, <1>4, <1>5, <1>6
<1> QED
  BY <1>4, <1>7 DEF InList

\* At a gap a byte is missing.
LEMMA GapMisses ==
    ASSUME NEW l, Sorted(l), NEW o \in Nat, GapIn(l, o),
           \A k \in 1 .. Len(l) : End(l[k]) > o
    PROVE  /\ Len(l) > 0
           /\ \E i \in Nat : o <= i /\ i < End(l[Len(l)]) /\ ~InList(l, i)
<1>1. /\ Len(l) \in Nat /\ DOMAIN l = 1 .. Len(l)
      /\ \A j \in 1 .. Len(l) : l[j].start \in Nat /\ End(l[j]) \in Nat
      /\ \A i, j \in 1 .. Len(l) : i < j => End(l[i]) < End(l[j])
      /\ \A i, j \in 1 .. Len(l) : i < j => l[i].start <= l[j].start
  BY SortedFields
<1>2. PICK k \in 1 .. Len(l) : l[k].start > (IF k = 1 THEN o ELSE End(l[k - 1]))
  BY <1>1 DEF GapIn
<1> DEFINE i == IF k = 1 THEN o ELSE End(l[k - 1])
<1>3. k # 1 => k - 1 \in 1 .. Len(l)
  BY <1>1
<1>4. i \in Nat /\ o <= i /\ i < l[k].start
  BY <1>1, <1>2, <1>3
<1>5. \A j \in 1 .. Len(l) : j < k => End(l[j]) <= i
  <2> SUFFICES ASSUME NEW j \in 1 .. Len(l), j < k PROVE End(l[j]) <= i
    OBVIOUS
  <2>1. k # 1 /\ i = End(l[k - 1]) /\ (j = k - 1 \/ j < k - 1)
    BY <1>1
  <2> QED
    BY <1>1, <1>3, <2>1
<1>6. \A j \in 1 .. Len(l) : j >= k => i < l[j].start
  <2> SUFFICES ASSUME NEW j \in 1 .. Len(l), j >= k PROVE i < l[j].start
    OBVIOUS
  <2>1. l[k].start <= l[j].start
    BY <1>1
  <2> QED
    BY <1>1, <1>4, <2>1
<1> HIDE DEF i
<1>7. ~InList(l, i)
  BY <1>1, <1>4, <1>5, <1>6 DEF InList
<1>8. i < End(l[Len(l)])
  <2>1. Len(l) \in 1 .. Len(l) /\ Len(l) >= k
    BY <1>1, <1>2
  <2>2. l[Len(l)].start <= End(l[Len(l)])
    <3>1. l[Len(l)] \in FrameSet
      BY <2>1 DEF Sorted
    <3> QED  BY <3>1, FrameFields
  <2>3. i < l[Len(l)].start
    BY <1>6, <2>1
  <2> QED
    BY <1>1, <1>4, <2>1, <2>2, <2>3
<1> QED
  BY <1>1, <1>4, <1>7, <1>8

\* ossl_quic_rstream_available reports the FIN exactly when there is no gap.
LEMMA FinWithoutGap ==
    ASSUME NEW l, Sorted(l), NEW fin \in BOOLEAN, offset \in Nat
    PROVE  AvailableFin(l, fin) <=> fin /\ ~GapIn(l, offset)
<1>1. /\ Len(l) \in Nat /\ DOMAIN l = 1 .. Len(l)
      /\ \A j \in 1 .. Len(l) : l[j].start \in Nat /\ End(l[j]) \in Nat
  BY SortedFields
<1>2. \A k \in 1 .. Len(l) : k # 1 => k - 1 \in 1 .. Len(l)
  BY <1>1
<1>3. Len(l) \in Contiguous(l) <=>
         \A i \in 1 .. Len(l) : l[i].start <= (IF i = 1 THEN offset ELSE End(l[i - 1]))
  BY <1>1 DEF Contiguous
<1>4. \A i \in 1 .. Len(l) :
         l[i].start <= (IF i = 1 THEN offset ELSE End(l[i - 1]))
           <=> ~ (l[i].start > (IF i = 1 THEN offset ELSE End(l[i - 1])))
  BY <1>1, <1>2
<1> QED
  BY <1>1, <1>3, <1>4 DEF AvailableFin, GapIn

\* What can be read ends at the offset or at the end of a frame that is reached
\* without a gap.
LEMMA ReadableEnd ==
    ASSUME NEW l, Sorted(l), offset \in Nat
    PROVE  \E K \in 0 .. Len(l) :
              /\ \A i \in 1 .. K : l[i].start <= (IF i = 1 THEN offset ELSE End(l[i - 1]))
              /\ Readable(l) = IF K = 0 THEN offset ELSE End(l[K])
<1>1. Len(l) \in Nat
  BY SortedFields
<1> DEFINE C == Contiguous(l)  T == {m \in Nat : m <= Len(l) /\ Len(l) - m \in C}
<1>2. C \subseteq 0 .. Len(l) /\ 0 \in C
  BY <1>1 DEF Contiguous
<1>3. Len(l) \in T /\ T \subseteq Nat
  <2> HIDE DEF C
  <2> QED  BY <1>1, <1>2
<1>4. PICK m \in T : \A y \in T : m <= y
  <2> HIDE DEF T
  <2> QED  BY <1>3, LeastNat
<1>5. Len(l) - m \in C /\ \A j \in C : j <= Len(l) - m
  <2> HIDE DEF C
  <2>1. m \in Nat /\ Len(l) - m \in C
    BY <1>4
  <2>2. \A j \in C : j \in 0 .. Len(l) /\ Len(l) - j \in T
    BY <1>1, <1>2
  <2>3. \A j \in C : m <= Len(l) - j
    BY <1>4, <2>2
  <2> QED
    BY <1>1, <1>2, <2>1, <2>2, <2>3
<1> DEFINE K == CHOOSE k \in C : \A j \in C : j <= k
<1>6. K \in C
  <2> HIDE DEF C
  <2> QED  BY <1>5
<1>7. Readable(l) = IF K = 0 THEN offset ELSE End(l[K])
  BY DEF Readable
<1> HIDE DEF K
<1>8. K \in 0 .. Len(l) /\ \A i \in 1 .. K : l[i].start <= (IF i = 1 THEN offset ELSE End(l[i - 1]))
  BY <1>6 DEF Contiguous
<1> QED
  BY <1>7, <1>8

\* A list without its first d frames, and where its frames come from.
Dropped(l, d) == SubSeq(l, d + 1, Len(l))

\* Dropping frames from the front shifts the others.
LEMMA Dropping ==
    ASSUME NEW l \in Seq(FrameSet), NEW d \in 0 .. Len(l),
           NEW r, r = Dropped(l, d)
    PROVE  /\ r \in Seq(FrameSet) /\ Len(r) = Len(l) - d
           /\ \A k \in 1 .. Len(r) : r[k] = l[k + d]
<1>1. Len(l) \in Nat
  OBVIOUS
<1> QED
  BY <1>1 DEF Dropped

\* Every frame of r is one of l.
DrawnFrom(r, l) == \A k \in 1 .. Len(r) : \E j \in 1 .. Len(l) : r[k] = l[j]

\* What ossl_sframe_list_drop_frames does to a sorted list when n bytes are
\* read: the list stays sorted, only bytes that were read leave it, gaps stay
\* gaps, and it is empty only when everything in it was read.
LEMMA ReadKeeps ==
    ASSUME NEW l, Sorted(l), offset \in Nat, NEW n \in Nat,
           \A k \in 1 .. Len(l) : End(l[k]) > offset,
           offset + n <= Readable(l),
           NEW d, d = Walk(l, {i \in DOMAIN l : End(l[i]) <= offset + n}),
           NEW r, r = Dropped(l, d)
    PROVE  /\ Sorted(r) /\ Len(r) <= Len(l)
           /\ \A k \in 1 .. Len(r) : End(r[k]) > offset + n
           /\ DrawnFrom(r, l)
           /\ \A i \in Nat : InList(l, i) => InList(r, i) \/ i < offset + n
           /\ GapIn(l, offset) <=> GapIn(r, offset + n)
           /\ Len(l) = 0 => n = 0
           /\ Len(l) > 0 => offset + n <= End(l[Len(l)])
           /\ Len(l) > 0 /\ Len(r) = 0 => offset + n = End(l[Len(l)])
           /\ Len(r) > 0 => r[Len(r)] = l[Len(l)]
<1>1. /\ l \in Seq(FrameSet) /\ Len(l) \in Nat /\ DOMAIN l = 1 .. Len(l)
      /\ \A j \in 1 .. Len(l) : l[j].start \in Nat /\ End(l[j]) \in Nat
      /\ \A i, j \in 1 .. Len(l) : i < j => End(l[i]) < End(l[j])
      /\ \A i, j \in 1 .. Len(l) : i < j => l[i].start <= l[j].start
  BY SortedFields
<1> DEFINE T == {i \in DOMAIN l : End(l[i]) <= offset + n}
<1>2. d \in 0 .. Len(l) /\ (1 .. d) \subseteq T /\ d + 1 \notin T
  <2>1. T \in SUBSET (1 .. Len(l))
    BY <1>1
  <2>2. d = Walk(l, T)
    OBVIOUS
  <2> HIDE DEF T
  <2> QED  BY <1>1, <2>1, <2>2, WalkStops
<1>3. \A j \in 1 .. Len(l) : /\ j <= d => End(l[j]) <= offset + n
                             /\ j > d => End(l[j]) > offset + n
  <2> TAKE j \in 1 .. Len(l)
  <2>1. j <= d => End(l[j]) <= offset + n
    BY <1>1, <1>2
  <2>2. ASSUME j > d PROVE End(l[j]) > offset + n
    <3>1. d + 1 \in 1 .. Len(l) /\ End(l[d + 1]) > offset + n
      BY <1>1, <1>2, <2>2
    <3>2. j = d + 1 \/ End(l[d + 1]) < End(l[j])
      BY <1>1, <1>2, <2>2, <3>1
    <3> QED
      BY <1>1, <3>1, <3>2
  <2> QED  BY <2>1, <2>2
<1>4. /\ r \in Seq(FrameSet) /\ Len(r) = Len(l) - d
      /\ \A k \in 1 .. Len(r) : r[k] = l[k + d]
  <2>1. l \in Seq(FrameSet) /\ d \in 0 .. Len(l) /\ r = Dropped(l, d)
    BY <1>1, <1>2
  <2>2. r \in Seq(FrameSet) /\ Len(r) = Len(l) - d
    BY ONLY <2>1, Dropping
  <2>3. \A k \in 1 .. Len(r) : r[k] = l[k + d]
    BY ONLY <2>1, Dropping
  <2> QED  BY ONLY <2>2, <2>3
<1>5. /\ Len(r) \in Nat /\ DOMAIN r = 1 .. Len(r) /\ d \in Nat
      /\ \A k \in 1 .. Len(r) : k + d \in 1 .. Len(l) /\ k + d > d
      /\ \A j \in 1 .. Len(l) : j > d => j - d \in 1 .. Len(r) /\ r[j - d] = l[j]
  <2>1. \A j \in 1 .. Len(l) : j > d => j - d \in 1 .. Len(r) /\ j - d + d = j
    BY <1>1, <1>2, <1>4
  <2>2. \A j \in 1 .. Len(l) : j > d => r[j - d] = l[j]
    BY ONLY <1>4, <2>1
  <2>3. Len(r) \in Nat /\ DOMAIN r = 1 .. Len(r) /\ d \in Nat
    BY ONLY <1>1, <1>2, <1>4
  <2>4. \A k \in 1 .. Len(r) : k + d \in 1 .. Len(l) /\ k + d > d
    BY ONLY <1>1, <1>4, <2>3
  <2> QED
    BY ONLY <2>1, <2>2, <2>3, <2>4
<1>6. PICK K \in 0 .. Len(l) :
         /\ \A i \in 1 .. K : l[i].start <= (IF i = 1 THEN offset ELSE End(l[i - 1]))
         /\ Readable(l) = IF K = 0 THEN offset ELSE End(l[K])
  BY ReadableEnd
<1>7. offset + n <= (IF K = 0 THEN offset ELSE End(l[K]))
  BY <1>6
<1>8. Sorted(r)
  <2> SUFFICES ASSUME NEW i \in 1 .. Len(r), NEW j \in 1 .. Len(r), i < j
               PROVE  r[i].start <= r[j].start /\ End(r[i]) < End(r[j])
    BY <1>4 DEF Sorted
  <2>1. i + d \in 1 .. Len(l) /\ j + d \in 1 .. Len(l) /\ i + d < j + d
    BY <1>4, <1>5
  <2>2. r[i] = l[i + d] /\ r[j] = l[j + d]
    BY <1>4
  <2> QED
    BY <1>1, <2>1, <2>2
<1>9. (\A k \in 1 .. Len(r) : End(r[k]) > offset + n) /\ DrawnFrom(r, l)
  BY <1>3, <1>4, <1>5 DEF DrawnFrom
<1>10. \A i \in Nat : InList(l, i) => InList(r, i) \/ i < offset + n
  <2> TAKE i \in Nat
  <2> HAVE InList(l, i)
  <2>1. PICK j \in 1 .. Len(l) : l[j].start <= i /\ i < End(l[j])
    BY DEF InList
  <2>2. CASE j <= d
    BY <1>1, <1>3, <2>1, <2>2
  <2>3. CASE j > d
    BY <1>5, <2>1, <2>3 DEF InList
  <2> QED
    BY <1>5, <2>2, <2>3
<1>11. GapIn(l, offset) => GapIn(r, offset + n)
  <2> HAVE GapIn(l, offset)
  <2>1. PICK k \in 1 .. Len(l) : l[k].start > (IF k = 1 THEN offset ELSE End(l[k - 1]))
    BY <1>1 DEF GapIn
  <2>2. k # 1 => k - 1 \in 1 .. Len(l)
    BY <1>1, <2>1
  <2>3. K < k
    <3> SUFFICES ASSUME K >= k PROVE FALSE
      BY <1>1, <1>6, <2>1
    <3>1. k \in 1 .. K
      BY <1>1, <1>6, <2>1
    <3>2. l[k].start <= (IF k = 1 THEN offset ELSE End(l[k - 1]))
      BY <1>6, <3>1
    <3>3. (IF k = 1 THEN offset ELSE End(l[k - 1])) \in Nat /\ l[k].start \in Nat
      BY <1>1, <2>1, <2>2
    <3> QED
      BY ONLY <2>1, <3>2, <3>3
  <2>4. l[k].start > offset + n
    <3>1. CASE K = 0
      <4>1. n = 0
        BY <1>7, <3>1
      <4>2. k # 1 => End(l[k - 1]) > offset
        BY <2>2
      <4> QED
        BY <1>1, <2>1, <2>2, <4>1, <4>2
    <3>2. CASE K > 0
      <4>1. k # 1 /\ K \in 1 .. Len(l) /\ (K = k - 1 \/ K < k - 1)
        BY <1>1, <1>6, <2>1, <2>3, <3>2
      <4>2. End(l[K]) <= End(l[k - 1])
        BY <1>1, <2>2, <4>1
      <4>3. offset + n <= End(l[K]) /\ l[k].start > End(l[k - 1])
        BY <1>7, <2>1, <3>2, <4>1
      <4> QED
        BY <1>1, <2>1, <2>2, <4>1, <4>2, <4>3
    <3> QED
      BY <1>6, <3>1, <3>2
  <2>5. k > d
    <3>1. l[k] \in FrameSet
      BY <1>1, <2>1
    <3>2. l[k].start <= End(l[k])
      BY <3>1, FrameFields
    <3>3. ~ (k <= d)
      BY <1>1, <1>3, <2>1, <2>4, <3>2
    <3> QED
      BY <1>2, <2>1, <3>3
  <2>6. k - d \in 1 .. Len(r) /\ r[k - d] = l[k]
    BY <1>5, <2>1, <2>5
  <2>7. k - d # 1 => k - 1 > d /\ k - 1 \in 1 .. Len(l) /\ (k - 1) - d = (k - d) - 1
    BY <1>1, <1>5, <2>1, <2>2, <2>5
  <2>8. k - d # 1 => r[(k - d) - 1] = l[k - 1] /\ k # 1
    BY <1>5, <2>1, <2>5, <2>7
  <2>9. r[k - d].start > (IF k - d = 1 THEN offset + n ELSE End(r[(k - d) - 1]))
    BY <2>1, <2>4, <2>6, <2>8
  <2> QED
    BY <1>5, <2>6, <2>9 DEF GapIn
<1>12. GapIn(r, offset + n) => GapIn(l, offset)
  <2> HAVE GapIn(r, offset + n)
  <2>1. PICK k \in 1 .. Len(r) : r[k].start > (IF k = 1 THEN offset + n ELSE End(r[k - 1]))
    BY <1>5 DEF GapIn
  <2>2. k + d \in 1 .. Len(l) /\ r[k] = l[k + d]
    BY <1>4, <1>5, <2>1
  <2>3. CASE k # 1
    <3>1. k - 1 \in 1 .. Len(r) /\ (k - 1) + d = (k + d) - 1 /\ k + d # 1
      BY <1>5, <2>1, <2>3
    <3>2. r[k - 1] = l[(k + d) - 1]
      BY <1>4, <3>1
    <3> QED
      BY <1>1, <2>1, <2>2, <2>3, <3>1, <3>2 DEF GapIn
  <2>4. CASE k = 1 /\ d = 0
    <3>1. l[1].start > offset
      BY <1>1, <2>1, <2>2, <2>4
    <3> QED
      BY <1>1, <2>2, <2>4, <3>1 DEF GapIn
  <2>5. CASE k = 1 /\ d # 0
    <3>1. d \in 1 .. Len(l) /\ k + d # 1 /\ (k + d) - 1 = d
      BY <1>1, <1>2, <2>5
    <3>2. End(l[d]) <= offset + n
      BY <1>3, <1>5, <3>1
    <3>3. l[k + d].start > End(l[d])
      BY <1>1, <2>1, <2>2, <2>5, <3>1, <3>2
    <3> QED
      BY <1>1, <2>2, <3>1, <3>3 DEF GapIn
  <2> QED
    BY <2>3, <2>4, <2>5
<1>13. (Len(l) = 0 => n = 0) /\ (Len(l) > 0 => offset + n <= End(l[Len(l)]))
  <2>1. CASE K = 0
    <3>1. n = 0
      BY <1>7, <2>1
    <3>2. Len(l) > 0 => End(l[Len(l)]) > offset
      BY <1>1
    <3> QED
      BY <1>1, <3>1, <3>2
  <2>2. CASE K > 0
    <3>1. K \in 1 .. Len(l) /\ Len(l) \in 1 .. Len(l)
      BY <1>1, <1>6, <2>2
    <3>2. K = Len(l) \/ End(l[K]) < End(l[Len(l)])
      <4>1. K = Len(l) \/ K < Len(l)
        <5>1. \A a \in Nat : \A b \in 1 .. a : b = a \/ b < a
          OBVIOUS
        <5> QED  BY ONLY <1>1, <3>1, <5>1
      <4> QED  BY ONLY <1>1, <3>1, <4>1
    <3>3. offset + n <= End(l[K])
      BY <1>7, <2>2
    <3>4. End(l[K]) \in Nat /\ End(l[Len(l)]) \in Nat /\ offset + n \in Nat
      BY <1>1, <3>1
    <3>5. offset + n <= End(l[Len(l)])
      BY ONLY <3>2, <3>3, <3>4
    <3> QED
      BY <1>1, <3>1, <3>5
  <2> QED
    BY <1>6, <2>1, <2>2
<1>14. Len(l) > 0 /\ Len(r) = 0 => offset + n = End(l[Len(l)])
  <2> HAVE Len(l) > 0 /\ Len(r) = 0
  <2>1. d = Len(l) /\ Len(l) \in 1 .. Len(l)
    BY <1>1, <1>2, <1>4
  <2>2. offset + n = End(l[Len(l)])
    <3>1. End(l[Len(l)]) <= offset + n /\ offset + n <= End(l[Len(l)])
      <4>1. Len(l) <= d /\ Len(l) > 0
        <5>1. \A a \in Nat : a \in 1 .. a => a <= a /\ a > 0
          OBVIOUS
        <5> QED  BY ONLY <1>1, <2>1, <5>1
      <4> QED  BY <1>3, <1>13, <2>1, <4>1
    <3>2. End(l[Len(l)]) \in Nat /\ offset + n \in Nat
      BY <1>1, <2>1
    <3> QED  BY ONLY <3>1, <3>2
  <2> QED  BY <2>2
<1>15. Len(r) > 0 => r[Len(r)] = l[Len(l)]
  <2> HAVE Len(r) > 0
  <2>1. Len(r) \in 1 .. Len(r) /\ Len(r) + d = Len(l)
    BY <1>1, <1>4, <1>5
  <2> QED
    BY <1>4, <2>1
<1>16. Len(r) <= Len(l)
  BY <1>1, <1>2, <1>4
<1> QED
  BY <1>8, <1>9, <1>10, <1>11, <1>12, <1>13, <1>14, <1>15, <1>16

\* Every byte that can be read is the one that was written there.
LEMMA ByteRead ==
    ASSUME Sorted(frames), offset \in Nat, FramesIntact,
           NEW i \in Nat, offset <= i, i < Readable(frames)
    PROVE  ByteAt(i) = i
<1> DEFINE l == frames
<1>1. /\ l \in Seq(FrameSet) /\ Len(l) \in Nat /\ DOMAIN l = 1 .. Len(l)
      /\ \A j \in 1 .. Len(l) : l[j].start \in Nat /\ End(l[j]) \in Nat
  BY SortedFields
<1>2. PICK K \in 0 .. Len(l) :
         /\ \A m \in 1 .. K : l[m].start <= (IF m = 1 THEN offset ELSE End(l[m - 1]))
         /\ Readable(l) = IF K = 0 THEN offset ELSE End(l[K])
  BY ReadableEnd
<1>3. K \in 1 .. Len(l) /\ i < End(l[K])
  <2>1. K # 0
    BY <1>2
  <2> QED
    BY <1>1, <1>2, <2>1
<1> DEFINE Holds(k) == i < End(l[k]) /\ \A j \in 1 .. k - 1 : End(l[j]) <= i
<1>4. \E k \in DOMAIN l : Holds(k)
  <2> DEFINE T == {k \in 1 .. Len(l) : i < End(l[k])}
  <2>1. K \in T /\ T \subseteq Nat
    BY <1>3
  <2>2. PICK k \in T : \A y \in T : k <= y
    <3> HIDE DEF T
    <3> QED  BY <2>1, LeastNat
  <2>3. k \in 1 .. Len(l) /\ i < End(l[k])
    BY <2>2
  <2>4. \A j \in 1 .. k - 1 : End(l[j]) <= i
    <3> TAKE j \in 1 .. k - 1
    <3>1. j \in 1 .. Len(l) /\ ~ (k <= j)
      BY <1>1, <2>3
    <3>2. j \notin T
      BY <2>2, <3>1
    <3> QED
      BY <1>1, <3>1, <3>2
  <2> QED
    BY <1>1, <2>3, <2>4
<1> DEFINE k == CHOOSE m \in DOMAIN l : Holds(m)
<1>5. k \in DOMAIN l /\ Holds(k)
  <2> HIDE DEF Holds
  <2> QED  BY <1>4
<1>6. ByteAt(i) = l[k].data[i - l[k].start + 1]
  BY DEF ByteAt
<1> HIDE DEF k
<1>7. k \in 1 .. K
  <2> SUFFICES ASSUME k > K PROVE FALSE
    BY <1>1, <1>3, <1>5
  <2>1. K \in 1 .. k - 1
    BY <1>1, <1>3, <1>5
  <2> QED
    BY <1>1, <1>3, <1>5, <2>1
<1>8. l[k].start <= i
  <2>1. l[k].start <= (IF k = 1 THEN offset ELSE End(l[k - 1]))
    BY <1>2, <1>7
  <2>2. k # 1 => k - 1 \in 1 .. k - 1 /\ k - 1 \in 1 .. Len(l)
    BY <1>1, <1>3, <1>7
  <2> QED
    BY <1>1, <1>5, <2>1, <2>2
<1>9. l[k] \in FrameSet /\ DOMAIN l[k].data = 1 .. Len(l[k].data)
  <2>1. l[k] \in FrameSet
    BY <1>1, <1>5
  <2> HIDE DEF l
  <2> QED  BY ONLY <2>1 DEF FrameSet
<1>10. l[k].start \in Nat /\ End(l[k]) = l[k].start + Len(l[k].data) /\ Len(l[k].data) \in Nat
  BY <1>9, FrameFields
<1>11. i - l[k].start + 1 \in DOMAIN l[k].data
  BY <1>5, <1>8, <1>9, <1>10
<1>12. \A m \in DOMAIN l[k].data : l[k].data[m] = l[k].start + m - 1
  BY <1>5 DEF FramesIntact
<1>13. l[k].data[i - l[k].start + 1] = l[k].start + (i - l[k].start + 1) - 1
  BY <1>11, <1>12
<1> QED
  BY <1>6, <1>10, <1>13

----------------------------------------------------------------------------
(* The stream as a whole.                                                  *)

\* The list of the stream in the terms of the lemmas above.
LEMMA ListOfStream ==
    ASSUME DeliveryInv
    PROVE  /\ Sorted(frames) /\ offset \in Nat /\ head \in Nat /\ offset <= head
           /\ Len(frames) \in Nat /\ DOMAIN frames = 1 .. Len(frames)
           /\ \A k \in 1 .. Len(frames) : End(frames[k]) > offset
           /\ \A k \in 1 .. Len(frames) : End(frames[k]) <= head
           /\ Gap <=> GapIn(frames, offset)
           /\ \A i \in Nat : Received(i) <=> i < offset \/ InList(frames, i)
<1>1. head \in Nat /\ offset \in Nat /\ offset <= head
  BY SendStreamAssumption DEF DeliveryInv, SendInv, SendTypeOK, ReadIntact
<1>2. frames \in Seq(FrameSet) /\ Len(frames) \in Nat /\ DOMAIN frames = 1 .. Len(frames)
  BY DEF DeliveryInv, FramesIntact
<1>3. Sorted(frames) /\ \A k \in 1 .. Len(frames) : End(frames[k]) > offset
  BY <1>2 DEF DeliveryInv, ListSorted, Sorted
<1>4. \A k \in 1 .. Len(frames) : End(frames[k]) <= head
  BY <1>2 DEF DeliveryInv, FramesIntact
<1> QED
  BY <1>1, <1>2, <1>3, <1>4 DEF Gap, GapIn, Received, InList

\* In DATA_RECVD and DATA_READ the FIN and all bytes are there.
LEMMA DataRecvdComplete ==
    ASSUME DeliveryInv, recvState \in {"data_recvd", "data_read"}
    PROVE  listFin /\ \A i \in 0 .. head - 1 : Received(i)
<1>1. listFin /\ ~Gap
  BY DEF DeliveryInv, GapKnown
<1>2. IF frames = <<>> THEN offset = head ELSE End(frames[Len(frames)]) = head
  BY <1>1 DEF DeliveryInv, FinKept
<1>3. /\ Sorted(frames) /\ offset \in Nat /\ head \in Nat /\ Len(frames) \in Nat
      /\ Gap <=> GapIn(frames, offset)
      /\ \A i \in Nat : Received(i) <=> i < offset \/ InList(frames, i)
  BY ListOfStream
<1>4. ASSUME NEW i \in 0 .. head - 1
      PROVE  i < offset \/ InList(frames, i)
  <2>1. CASE frames = <<>>
    BY <1>2, <1>3, <2>1
  <2>2. CASE frames # <<>>
    <3>1. Len(frames) > 0 /\ End(frames[Len(frames)]) = head
      <4>1. frames \in Seq(FrameSet)
        BY <1>3 DEF Sorted
      <4> QED  BY <1>2, <2>2, <4>1
    <3>2. i \in Nat /\ i < End(frames[Len(frames)])
      BY <1>3, <3>1
    <3>3. offset <= i => InList(frames, i)
      BY <1>1, <1>3, <3>1, <3>2, NoGapComplete
    <3> QED
      BY <1>3, <3>3
  <2> QED
    BY <2>1, <2>2
<1>5. \A i \in 0 .. head - 1 : i \in Nat
  BY <1>3
<1> QED
  BY <1>1, <1>3, <1>4, <1>5

\* Steps of the sender leave the receiver as it is.
LEMMA ReceiverKept ==
    ASSUME DeliveryInv, UNCHANGED rvars, head' \in Nat, head <= head',
           "have" \in final => head' = head /\ "have" \in final'
    PROVE  /\ ListSorted' /\ FramesIntact' /\ ReadIntact' /\ FinKept' /\ GapKnown'
           /\ \A i : Received(i)' <=> Received(i)
<1>1. /\ recvState' = recvState /\ frames' = frames /\ offset' = offset
      /\ listFin' = listFin /\ got' = got /\ eof' = eof
  BY DEF rvars
<1>2. /\ head \in Nat /\ offset \in Nat /\ offset <= head
      /\ DOMAIN frames = 1 .. Len(frames)
      /\ \A k \in 1 .. Len(frames) : End(frames[k]) <= head
  BY ListOfStream
<1>3. \A k \in 1 .. Len(frames) : End(frames[k]) \in Nat
  BY ListOfStream, SortedFields
<1>4. ListSorted'
  BY <1>1 DEF DeliveryInv, ListSorted, End
<1>5. FramesIntact'
  <2>1. \A k \in 1 .. Len(frames) : End(frames[k]) <= head'
    BY <1>2, <1>3
  <2> QED
    BY <1>1, <1>2, <2>1 DEF DeliveryInv, FramesIntact, End
<1>6. ReadIntact'
  BY <1>1, <1>2 DEF DeliveryInv, ReadIntact
<1>7. FinKept'
  BY <1>1 DEF DeliveryInv, FinKept, End
<1>8. GapKnown'
  BY <1>1 DEF DeliveryInv, GapKnown, Gap, End
<1>9. \A i : Received(i)' <=> Received(i)
  BY <1>1 DEF Received, End
<1> QED
  BY <1>4, <1>5, <1>6, <1>7, <1>8, <1>9

\* The application writes or ends the stream.
LEMMA AppStep ==
    ASSUME DeliveryInv, AppWrite \/ AppFin
    PROVE  DeliveryInv'
<1>1. UNCHANGED <<rvars, net>> /\ UNCHANGED <<sendState, acked, flight>>
  BY DEF AppWrite, AppFin, Write, Fin
<1>2. SendInv /\ head \in Nat /\ Limit \in Nat
  BY SendStreamAssumption DEF DeliveryInv, SendInv, SendTypeOK
<1>3. SendInv'
  BY <1>2, WriteStep, FinStep DEF AppWrite, AppFin
<1>4. /\ head' \in Nat /\ head <= head'
      /\ "have" \notin final /\ sendState = "send"
      /\ final' \in {final, final \cup {"have"}}
  <2>1. CASE AppWrite
    BY <1>2, <2>1 DEF AppWrite, Write
  <2>2. CASE AppFin
    BY <1>2, <2>2 DEF AppFin, Fin
  <2> QED  BY <2>1, <2>2
<1>5. /\ ListSorted' /\ FramesIntact' /\ ReadIntact' /\ FinKept' /\ GapKnown'
      /\ \A i : Received(i)' <=> Received(i)
  BY <1>1, <1>4, ReceiverKept
<1>6. PacketsIntact'
  <2> SUFFICES ASSUME NEW p \in net
               PROVE  \E c \in Chunks, late \in BOOLEAN :
                          /\ p = Written(c, late)
                          /\ c.start + c.len <= head'
                          /\ c.fin => "have" \in final' /\ c.start + c.len = head'
    BY <1>1 DEF PacketsIntact, Written
  <2>1. PICK c \in Chunks, late \in BOOLEAN :
           /\ p = Written(c, late)
           /\ c.start + c.len <= head
           /\ c.fin => "have" \in final /\ c.start + c.len = head
    BY DEF DeliveryInv, PacketsIntact
  <2>2. c.start \in Nat /\ c.len \in Nat
    BY <1>2, <2>1 DEF Chunks
  <2>3. c.start + c.len <= head' /\ ~c.fin
    BY <1>2, <1>4, <2>1, <2>2
  <2> QED
    BY <2>1, <2>3
<1>7. listFin' = listFin
  BY <1>1 DEF rvars
<1>8. AcksTruthful'
  <2>1. \A c \in flight : (\E p \in net : p.chunk = c /\ ~p.late) \/ Arrived(c)
    BY DEF DeliveryInv, AcksTruthful
  <2>2. \A c : Arrived(c) => Arrived(c)'
    BY <1>5, <1>7 DEF Arrived
  <2>3. "acked" \in final' => listFin'
    BY <1>4, <1>7 DEF DeliveryInv, AcksTruthful
  <2>4. sendState' = "send"
    BY <1>1, <1>4
  <2> QED
    BY <1>1, <2>1, <2>2, <2>3, <2>4 DEF AcksTruthful
<1>9. ForgottenIsReceived'
  <2>1. acked \subseteq 0 .. head - 1
    BY <1>2, <1>4 DEF SendInv, SendTypeOK, EmptyStream
  <2>2. \A i \in acked : i < head
    BY <1>2, <2>1
  <2>3. \A i \in acked' : Received(i)'
    BY <1>1, <1>5, <2>2 DEF DeliveryInv, ForgottenIsReceived
  <2> QED
    BY <1>1, <1>4, <2>3 DEF ForgottenIsReceived
<1> QED
  BY <1>3, <1>5, <1>6, <1>8, <1>9 DEF DeliveryInv

\* A packet goes out with the bytes of its chunk: the ring buffer still holds
\* them, because none was acknowledged.
LEMMA SendStep ==
    ASSUME DeliveryInv, NEW c, Send(c)
    PROVE  DeliveryInv'
<1>1. Commit(c) /\ net' = net \cup {Packet(c, FALSE)} /\ UNCHANGED rvars
  BY DEF Send
<1>2. SendInv /\ head \in Nat /\ ctail \in Nat /\ Alloc \in Nat \ {0}
  BY SendStreamAssumption DEF DeliveryInv, SendInv, SendTypeOK
<1>3. SendInv'
  BY <1>1, <1>2, CommitStep
<1>4. /\ c \in Chunks /\ c.start \in Nat /\ c.len \in Nat
      /\ c.start + c.len <= head
      /\ c.fin => "have" \in final /\ c.start + c.len = head
      /\ c.start .. c.start + c.len - 1 \subseteq new
  <2>1. /\ c \in Chunks /\ c.start + c.len <= head
        /\ c.fin => "have" \in final /\ c.start + c.len = head
        /\ head > 0 => /\ ChunkBytes(c) = c.start .. c.start + c.len - 1
                       /\ ChunkBytes(c) \subseteq new
    BY <1>1, <1>2, CommitChunk
  <2>2. c.start \in Nat /\ c.len \in Nat
    BY <2>1, SendStreamAssumption DEF Chunks
  <2> QED
    BY <1>2, <2>1, <2>2
<1>5. /\ sendState # "data_recvd" /\ flight' = flight \cup {c}
      /\ final' \in {final, final \cup {"sent"}}
      /\ UNCHANGED <<head, ctail, ring, acked>>
      /\ sendState' = sendState \/ (sendState' = "data_sent" /\ "have" \in final)
  <2>1. sendState' = IF "have" \in final /\ new' = {} /\ "sent" \in final'
                     THEN "data_sent" ELSE sendState
    BY <1>1 DEF Commit
  <2>2. sendState' = sendState \/ (sendState' = "data_sent" /\ "have" \in final)
    BY <2>1, Zenon
  <2> QED
    BY <1>1, <2>2 DEF Commit
<1>6. Packet(c, FALSE) = Written(c, FALSE)
  <2>1. ASSUME NEW k \in 1 .. c.len
        PROVE  ring[(c.start + k - 1) % Alloc] = c.start + k - 1
    <3> DEFINE i == c.start + k - 1
    <3>1. i \in new /\ i \in 0 .. head - 1
      BY <1>2, <1>4
    <3> HIDE DEF i
    <3>2. i \notin acked
      BY <1>2, <1>5, <3>1 DEF SendInv, Placed
    <3>3. i \in ctail .. head - 1
      <4>1. ~ (i \in 0 .. ctail - 1)
        BY <1>2, <3>2 DEF SendInv, BufferIntact
      <4> QED  BY <1>2, <3>1, <4>1
    <3>4. ring[i % Alloc] = i
      BY <1>2, <3>3 DEF SendInv, BufferIntact
    <3> QED
      BY <3>4 DEF i
  <2>2. Data(c) = [k \in 1 .. c.len |-> c.start + k - 1]
    BY <2>1 DEF Data
  <2> QED
    BY <2>2 DEF Packet, Written
<1>7. "have" \in final => "have" \in final' /\ head' = head
  BY <1>5
<1>8. /\ ListSorted' /\ FramesIntact' /\ ReadIntact' /\ FinKept' /\ GapKnown'
      /\ \A i : Received(i)' <=> Received(i)
  <2>1. head' \in Nat /\ head <= head'
    BY <1>2, <1>5
  <2> QED  BY <1>1, <1>7, <2>1, ReceiverKept
<1>9. PacketsIntact'
  <2> SUFFICES ASSUME NEW p \in net'
               PROVE  \E d \in Chunks, late \in BOOLEAN :
                          /\ p = Written(d, late)
                          /\ d.start + d.len <= head'
                          /\ d.fin => "have" \in final' /\ d.start + d.len = head'
    BY DEF PacketsIntact, Written
  <2>1. CASE p \in net
    <3>1. PICK d \in Chunks, late \in BOOLEAN :
             /\ p = Written(d, late)
             /\ d.start + d.len <= head
             /\ d.fin => "have" \in final /\ d.start + d.len = head
      BY <2>1 DEF DeliveryInv, PacketsIntact
    <3> QED
      BY <1>5, <1>7, <3>1
  <2>2. CASE p = Packet(c, FALSE)
    BY <1>4, <1>5, <1>6, <1>7, <2>2
  <2> QED
    BY <1>1, <2>1, <2>2
<1>10. listFin' = listFin
  BY <1>1 DEF rvars
<1>11. AcksTruthful'
  <2>1. \A d \in flight : (\E p \in net : p.chunk = d /\ ~p.late) \/ Arrived(d)
    BY DEF DeliveryInv, AcksTruthful
  <2>2. \A d : Arrived(d) => Arrived(d)'
    BY <1>8, <1>10 DEF Arrived
  <2>3. Packet(c, FALSE).chunk = c /\ ~Packet(c, FALSE).late /\ Packet(c, FALSE) \in net'
    BY <1>1 DEF Packet
  <2>4. "acked" \in final' => listFin'
    BY <1>5, <1>10 DEF DeliveryInv, AcksTruthful
  <2>5. sendState' # "send" => "have" \in final'
    BY <1>5, <1>7 DEF DeliveryInv, AcksTruthful
  <2>6. \A d \in flight' : (\E p \in net' : p.chunk = d /\ ~p.late) \/ Arrived(d)'
    BY <1>1, <1>5, <2>1, <2>2, <2>3
  <2> QED
    BY <2>4, <2>5, <2>6 DEF AcksTruthful
<1>12. ForgottenIsReceived'
  <2>1. sendState' # "data_recvd"
    BY <1>5
  <2> QED
    BY <1>5, <1>8, <2>1 DEF DeliveryInv, ForgottenIsReceived
<1> QED
  BY <1>3, <1>8, <1>9, <1>11, <1>12 DEF DeliveryInv

\* What is acknowledged has arrived, and so has what the sender frees.
LEMMA AckStep ==
    ASSUME DeliveryInv, NEW c, Ack(c)
    PROVE  DeliveryInv'
<1>1. Acked(c) /\ UNCHANGED <<rvars, net>> /\ \A p \in net : p.chunk = c => p.late
  BY DEF Ack
<1>2. SendInv /\ head \in Nat /\ SendTypeOK /\ ChunksWithin
  BY SendStreamAssumption DEF DeliveryInv, SendInv, SendTypeOK
<1>3. SendInv'
  BY <1>1, <1>2, AckedStep
<1>4. c \in flight /\ flight' = flight \ {c} /\ UNCHANGED <<head, ring, new>>
  BY <1>1 DEF Acked
<1>5. Arrived(c)
  BY <1>1, <1>4 DEF DeliveryInv, AcksTruthful
<1>6. final' \in {final, final \cup {"acked"}} /\ ("acked" \in final' => "acked" \in final \/ c.fin)
  BY <1>1 DEF Acked
<1>7. /\ ListSorted' /\ FramesIntact' /\ ReadIntact' /\ FinKept' /\ GapKnown'
      /\ \A i : Received(i)' <=> Received(i)
  <2>1. head' \in Nat /\ head <= head' /\ ("have" \in final => head' = head /\ "have" \in final')
    BY <1>2, <1>4, <1>6
  <2> QED  BY <1>1, <2>1, ReceiverKept
<1>8. PacketsIntact'
  <2>1. "have" \in final => "have" \in final'
    BY <1>6
  <2> QED
    BY <1>1, <1>4, <2>1 DEF DeliveryInv, PacketsIntact, Written
<1>9. listFin' = listFin
  BY <1>1 DEF rvars
<1>10. "acked" \in final' => listFin'
  BY <1>5, <1>6, <1>9 DEF DeliveryInv, AcksTruthful, Arrived
<1>11. AcksTruthful'
  <2>1. \A d \in flight : (\E p \in net : p.chunk = d /\ ~p.late) \/ Arrived(d)
    BY DEF DeliveryInv, AcksTruthful
  <2>2. \A d : Arrived(d) => Arrived(d)'
    BY <1>7, <1>9 DEF Arrived
  <2>3. sendState' # "send" => "have" \in final'
    <3>1. sendState' # "send" => sendState # "send"
      BY <1>1 DEF Acked
    <3> QED  BY <1>6, <3>1 DEF DeliveryInv, AcksTruthful
  <2>4. \A d \in flight' : (\E p \in net' : p.chunk = d /\ ~p.late) \/ Arrived(d)'
    BY <1>1, <1>4, <2>1, <2>2
  <2> QED
    BY <1>10, <2>3, <2>4 DEF AcksTruthful
<1>12. ForgottenIsReceived'
  <2>1. CASE sendState = "data_recvd"
    <3>1. sendState' = sendState /\ acked' = acked
      BY <1>1, <2>1 DEF Acked
    <3> QED
      BY <1>4, <1>7, <1>9, <3>1 DEF DeliveryInv, ForgottenIsReceived
  <2>2. CASE sendState # "data_recvd"
    <3>1. /\ acked' = acked \cup ChunkBytes(c)
          /\ sendState' = "data_recvd" =>
                 sendState = "data_sent" /\ TotallyAcked(acked', final')
      BY <1>1, <2>2 DEF Acked
    <3>2. \A i \in acked' : i < head => Received(i)
      <4> SUFFICES ASSUME NEW i \in acked', i < head PROVE Received(i)
        OBVIOUS
      <4>1. CASE i \in acked
        BY <4>1 DEF DeliveryInv, ForgottenIsReceived
      <4>2. CASE i \in ChunkBytes(c)
        <5>1. head > 0 => ChunkBytes(c) = c.start .. c.start + c.len - 1
          BY <1>2, <1>4, FlightBytes
        <5>2. head # 0
          <6>1. i \in Nat
            BY <1>3, SendStreamAssumption DEF SendInv, SendTypeOK, Uint
          <6> QED  BY <6>1
        <5> QED
          <6>1. head > 0
            BY <1>2, <5>2
          <6>2. i \in c.start .. c.start + c.len - 1
            BY <4>2, <5>1, <6>1, Zenon
          <6> QED  BY <1>5, <6>2 DEF Arrived
      <4> QED  BY <3>1, <4>1, <4>2
    <3>3. sendState' = "data_recvd" => listFin' /\ \A i \in 0 .. head - 1 : Received(i)
      <4> HAVE sendState' = "data_recvd"
      <4>1. "have" \in final' /\ TotallyAcked(acked', final')
        BY <1>6, <3>1 DEF DeliveryInv, AcksTruthful
      <4>2. head = 0 \/ acked' = 0 .. head - 1
        BY <4>1 DEF TotallyAcked
      <4>3. listFin'
        BY <1>10, <4>1 DEF TotallyAcked
      <4>4. \A i \in 0 .. head - 1 : i \in acked' /\ i < head
        BY <1>2, <4>2
      <4> QED
        BY <3>2, <4>3, <4>4
    <3> QED
      BY <1>4, <1>7, <3>2, <3>3 DEF ForgottenIsReceived
  <2> QED
    BY <2>1, <2>2
<1> QED
  BY <1>3, <1>7, <1>8, <1>11, <1>12 DEF DeliveryInv

\* A loss, real or mistaken, takes nothing from what has arrived.
LEMMA LoseStep ==
    ASSUME DeliveryInv, NEW c, Lose(c)
    PROVE  DeliveryInv'
<1> DEFINE mine == {p \in net : p.chunk = c /\ ~p.late}
<1>1. /\ Lost(c) /\ UNCHANGED rvars
      /\ \/ net' = net \ mine
         \/ net' = (net \ mine) \cup {[p EXCEPT !.late = TRUE] : p \in mine}
  BY DEF Lose
<1>2. SendInv /\ head \in Nat
  BY SendStreamAssumption DEF DeliveryInv, SendInv, SendTypeOK
<1>3. SendInv'
  BY <1>1, <1>2, LostStep
<1>4. /\ c \in flight /\ flight' = flight \ {c}
      /\ UNCHANGED <<sendState, head, ctail, ring, acked>>
      /\ final' \in {final, final \ {"sent"}}
  BY <1>1 DEF Lost, LostFin
<1>5. /\ ListSorted' /\ FramesIntact' /\ ReadIntact' /\ FinKept' /\ GapKnown'
      /\ \A i : Received(i)' <=> Received(i)
  <2>1. head' \in Nat /\ head <= head' /\ ("have" \in final => head' = head /\ "have" \in final')
    BY <1>2, <1>4
  <2> QED  BY <1>1, <2>1, ReceiverKept
<1>6. PacketsIntact'
  <2> SUFFICES ASSUME NEW p \in net'
               PROVE  \E d \in Chunks, late \in BOOLEAN :
                          /\ p = Written(d, late)
                          /\ d.start + d.len <= head
                          /\ d.fin => "have" \in final /\ d.start + d.len = head
    <3>1. head' = head /\ ("have" \in final' <=> "have" \in final)
      BY <1>4
    <3> QED  BY <3>1 DEF PacketsIntact, Written
  <2>1. CASE p \in net
    BY <2>1 DEF DeliveryInv, PacketsIntact
  <2>2. CASE p \in {[o EXCEPT !.late = TRUE] : o \in mine}
    <3>1. PICK o \in net : p = [o EXCEPT !.late = TRUE]
      BY <2>2
    <3>2. PICK d \in Chunks, late \in BOOLEAN :
             /\ o = Written(d, late)
             /\ d.start + d.len <= head
             /\ d.fin => "have" \in final /\ d.start + d.len = head
      BY <3>1 DEF DeliveryInv, PacketsIntact
    <3>3. p = Written(d, TRUE)
      BY <3>1, <3>2 DEF Written
    <3> QED
      BY <3>2, <3>3
  <2> QED
    BY <1>1, <2>1, <2>2
<1>7. listFin' = listFin
  BY <1>1 DEF rvars
<1>8. AcksTruthful'
  <2>1. \A d \in flight : (\E p \in net : p.chunk = d /\ ~p.late) \/ Arrived(d)
    BY DEF DeliveryInv, AcksTruthful
  <2>2. \A d : Arrived(d) => Arrived(d)'
    BY <1>5, <1>7 DEF Arrived
  <2>3. \A d \in flight', p \in net : p.chunk = d => p \in net'
    BY <1>1, <1>4
  <2>4. \A d \in flight' : (\E p \in net' : p.chunk = d /\ ~p.late) \/ Arrived(d)'
    BY <1>4, <2>1, <2>2, <2>3
  <2>5. ("acked" \in final' => listFin') /\ (sendState' # "send" => "have" \in final')
    BY <1>4, <1>7 DEF DeliveryInv, AcksTruthful
  <2> QED
    BY <2>4, <2>5 DEF AcksTruthful
<1>9. ForgottenIsReceived'
  BY <1>4, <1>5, <1>7 DEF DeliveryInv, ForgottenIsReceived
<1> QED
  BY <1>3, <1>5, <1>6, <1>8, <1>9 DEF DeliveryInv

\* The frame that a packet with the bytes of chunk c brings.
LEMMA FrameOfChunk ==
    ASSUME NEW c \in Chunks, c.start + c.len <= head, head \in 0 .. Limit,
           NEW f, f = [start |-> c.start,
                       data |-> [k \in 1 .. c.len |-> c.start + k - 1],
                       fin |-> c.fin]
    PROVE  /\ f \in FrameSet /\ f.start = c.start /\ f.fin = c.fin
           /\ End(f) = c.start + c.len
           /\ \A i \in DOMAIN f.data : f.data[i] = f.start + i - 1
<1> DEFINE d == [k \in 1 .. c.len |-> c.start + k - 1]
<1>1. c.start \in 0 .. Limit /\ c.len \in 0 .. Limit /\ c.fin \in BOOLEAN /\ Limit \in Nat
  BY SendStreamAssumption DEF Chunks
<1>2. \A k \in 1 .. c.len : c.start + k - 1 \in 0 .. Limit
  BY <1>1
<1>3. d \in Seq(0 .. Limit) /\ Len(d) = c.len /\ DOMAIN d = 1 .. c.len
  BY <1>1, <1>2
<1>4. \A k \in 1 .. c.len : d[k] = c.start + k - 1
  OBVIOUS
<1>5. f = [start |-> c.start, data |-> d, fin |-> c.fin]
  OBVIOUS
<1> HIDE DEF d
<1>6. f.start = c.start /\ f.data = d /\ f.fin = c.fin
  BY ONLY <1>5
<1>7. f \in FrameSet
  BY ONLY <1>1, <1>3, <1>5 DEF FrameSet
<1> QED
  BY ONLY <1>3, <1>4, <1>6, <1>7 DEF End

\* A packet that arrives only adds to the list, and its bytes are then there.
LEMMA ReceiveStep ==
    ASSUME DeliveryInv, NEW p \in net, Receive(p)
    PROVE  DeliveryInv'
<1> DEFINE f == [start |-> p.chunk.start, data |-> p.data, fin |-> p.chunk.fin]
<1>1. net' = net \ {p} /\ RecvFrame(f) /\ UNCHANGED svars
  BY DEF Receive
<1>2. /\ sendState' = sendState /\ head' = head /\ ctail' = ctail /\ ring' = ring
      /\ new' = new /\ acked' = acked /\ final' = final /\ flight' = flight
  BY <1>1 DEF svars
<1>3. SendInv /\ head \in 0 .. Limit
  BY DEF DeliveryInv, SendInv, SendTypeOK
<1>4. SendInv'
  BY <1>2, <1>3 DEF SendInv, SendTypeOK, ChunksWithin, EmptyStream, Placed, BufferIntact
<1>5. PICK c \in Chunks, late \in BOOLEAN :
         /\ p = Written(c, late)
         /\ c.start + c.len <= head
         /\ c.fin => "have" \in final /\ c.start + c.len = head
  BY DEF DeliveryInv, PacketsIntact
<1>6. p.chunk = c /\ p.data = [k \in 1 .. c.len |-> c.start + k - 1]
  BY <1>5 DEF Written
<1>7. f = [start |-> c.start, data |-> [k \in 1 .. c.len |-> c.start + k - 1], fin |-> c.fin]
  BY <1>6
<1> HIDE DEF f
<1>8. /\ f \in FrameSet /\ f.start = c.start /\ f.fin = c.fin
      /\ End(f) = c.start + c.len
      /\ \A i \in DOMAIN f.data : f.data[i] = f.start + i - 1
  BY <1>3, <1>5, <1>7, FrameOfChunk
<1>9. c.start \in Nat /\ c.len \in Nat /\ c.fin \in BOOLEAN
  BY <1>5, SendStreamAssumption DEF Chunks
<1>10. PacketsIntact'
  BY <1>1, <1>2 DEF DeliveryInv, PacketsIntact, Written
\* What follows from the list: who waits for a packet has it, or it arrived.
<1>11. ASSUME \A i \in Nat : Received(i) => Received(i)',
              \A i \in Nat : c.start <= i /\ i < c.start + c.len => Received(i)',
              listFin \/ c.fin => listFin'
       PROVE  AcksTruthful' /\ ForgottenIsReceived'
  <2>1. \A d \in flight : (\E o \in net : o.chunk = d /\ ~o.late) \/ Arrived(d)
    BY DEF DeliveryInv, AcksTruthful
  <2>2. \A i \in c.start .. c.start + c.len - 1 : i \in Nat /\ c.start <= i /\ i < c.start + c.len
    BY <1>9
  <2>3. Arrived(c)'
    BY <1>11, <2>2 DEF Arrived
  <2>4. \A d \in flight : Arrived(d) => Arrived(d)'
    <3> SUFFICES ASSUME NEW d \in flight, Arrived(d) PROVE Arrived(d)'
      OBVIOUS
    <3>1. d.start \in Nat /\ d.len \in Nat
      BY <1>3, SendStreamAssumption DEF SendInv, SendTypeOK, Chunks
    <3>2. \A i \in d.start .. d.start + d.len - 1 : i \in Nat
      BY <3>1
    <3> QED
      BY <1>11, <3>2 DEF Arrived
  <2>5. \A d \in flight' : (\E o \in net' : o.chunk = d /\ ~o.late) \/ Arrived(d)'
    <3> SUFFICES ASSUME NEW d \in flight
                 PROVE  (\E o \in net' : o.chunk = d /\ ~o.late) \/ Arrived(d)'
      BY <1>2
    <3>1. CASE d = c
      BY <2>3, <3>1
    <3>2. CASE d # c
      <4>1. \A o \in net : o.chunk = d => o \in net'
        BY <1>1, <1>6, <3>2
      <4> QED  BY <2>1, <2>4, <4>1
    <3> QED  BY <3>1, <3>2
  <2>6. AcksTruthful'
    BY <1>2, <1>11, <2>5 DEF DeliveryInv, AcksTruthful
  <2>7. ForgottenIsReceived'
    <3>1. \A i \in acked : i \in Nat
      BY <1>3, SendStreamAssumption DEF SendInv, SendTypeOK, Uint
    <3>2. \A i \in 0 .. head - 1 : i \in Nat
      BY <1>3
    <3> QED
      BY <1>2, <1>11, <3>1, <3>2 DEF DeliveryInv, ForgottenIsReceived
  <2> QED
    BY <2>6, <2>7
<1>12. CASE recvState \notin {"recv", "size_known"}
  <2>1. UNCHANGED rvars
    BY <1>1, <1>12 DEF RecvFrame
  <2>2. head' \in Nat /\ head <= head' /\ ("have" \in final => head' = head /\ "have" \in final')
    BY <1>2, <1>3, SendStreamAssumption
  <2>3. /\ ListSorted' /\ FramesIntact' /\ ReadIntact' /\ FinKept' /\ GapKnown'
        /\ \A i : Received(i)' <=> Received(i)
    BY <2>1, <2>2, ReceiverKept
  <2>4. listFin /\ \A i \in 0 .. head - 1 : Received(i)
    <3>1. recvState \in {"data_recvd", "data_read"}
      BY <1>12 DEF DeliveryInv, GapKnown
    <3> QED  BY <3>1, DataRecvdComplete
  <2>5. \A i \in Nat : c.start <= i /\ i < c.start + c.len => i \in 0 .. head - 1
    BY <1>3, <1>5, <1>9, SendStreamAssumption
  <2>6. listFin'
    BY <2>1, <2>4 DEF rvars
  <2>7. AcksTruthful' /\ ForgottenIsReceived'
    <3>1. \A i \in Nat : c.start <= i /\ i < c.start + c.len => Received(i)'
      BY <2>3, <2>4, <2>5
    <3> QED  BY <1>11, <2>3, <2>6, <3>1
  <2> QED
    BY <1>4, <1>10, <2>3, <2>7 DEF DeliveryInv
<1>13. CASE recvState \in {"recv", "size_known"}
  <2>1. /\ frames' = InsertFrame(frames, f)
        /\ listFin' = (listFin \/ f.fin)
        /\ recvState' = LET known == IF f.fin THEN "size_known" ELSE recvState
                        IN  IF known = "size_known" /\ AvailableFin(frames', listFin')
                            THEN "data_recvd" ELSE known
        /\ offset' = offset /\ got' = got /\ eof' = eof
    BY <1>1, <1>13 DEF RecvFrame
  <2>2. /\ Sorted(frames) /\ offset \in Nat /\ head \in Nat /\ offset <= head
        /\ Len(frames) \in Nat /\ DOMAIN frames = 1 .. Len(frames)
        /\ \A k \in 1 .. Len(frames) : End(frames[k]) > offset
        /\ \A k \in 1 .. Len(frames) : End(frames[k]) <= head
        /\ \A i \in Nat : Received(i) <=> i < offset \/ InList(frames, i)
    BY ListOfStream
  <2> DEFINE r == frames'
  <2>3. r = InsertFrame(frames, f)
    BY <2>1
  <2>4. /\ Sorted(r)
        /\ \A k \in 1 .. Len(r) :
               /\ End(r[k]) > offset
               /\ r[k] = f \/ \E j \in 1 .. Len(frames) : r[k] = frames[j]
    <3> HIDE DEF r
    <3> QED  BY <1>8, <2>2, <2>3, InsertKeeps
  <2>5. /\ \A i \in Nat : InList(frames, i) => InList(r, i)
        /\ \A i \in Nat : offset <= i /\ f.start <= i /\ i < End(f) => InList(r, i)
    <3> HIDE DEF r
    <3> QED  BY <1>8, <2>2, <2>3, InsertKeeps
  <2>6. r = <<>> => frames = <<>> /\ End(f) <= offset
    <3> HIDE DEF r
    <3> QED  BY <1>8, <2>2, <2>3, InsertKeeps
  <2>7. Len(r) > 0 => /\ End(r[Len(r)]) >= End(f) \/ End(f) <= offset
                      /\ Len(frames) > 0 => End(r[Len(r)]) >= End(frames[Len(frames)])
    <3> HIDE DEF r
    <3> QED  BY <1>8, <2>2, <2>3, InsertKeeps
  <2>8. /\ r \in Seq(FrameSet) /\ Len(r) \in Nat /\ DOMAIN r = 1 .. Len(r)
        /\ \A j \in 1 .. Len(r) : r[j].start \in Nat /\ End(r[j]) \in Nat
    <3> HIDE DEF r
    <3> QED  BY <2>4, SortedFields
  <2>9. \A k \in 1 .. Len(r) :
           /\ End(r[k]) <= head
           /\ \A i \in DOMAIN r[k].data : r[k].data[i] = r[k].start + i - 1
    <3> HIDE DEF r
    <3>1. \A j \in 1 .. Len(frames) : \A i \in DOMAIN frames[j].data :
             frames[j].data[i] = frames[j].start + i - 1
      BY <2>2 DEF DeliveryInv, FramesIntact
    <3> TAKE k \in 1 .. Len(r)
    <3>2. CASE r[k] = f
      BY <1>5, <1>8, <3>2
    <3>3. CASE \E j \in 1 .. Len(frames) : r[k] = frames[j]
      BY <2>2, <3>1, <3>3
    <3> QED
      BY <2>4, <3>2, <3>3
  <2>10. ListSorted'
    BY <2>1, <2>4, <2>8 DEF ListSorted, Sorted, End
  <2>11. FramesIntact'
    BY <1>2, <2>8, <2>9 DEF FramesIntact, End
  <2>12. ReadIntact'
    BY <1>2, <2>1 DEF DeliveryInv, ReadIntact
  <2>13. listFin \in BOOLEAN /\ listFin' \in BOOLEAN
    BY <1>8, <1>9, <2>1 DEF DeliveryInv, GapKnown
  <2>14. listFin' => "have" \in final /\ (IF r = <<>> THEN offset = head
                                          ELSE End(r[Len(r)]) = head)
    <3> HIDE DEF r
    <3> HAVE listFin'
    <3>1. "have" \in final
      BY <1>5, <1>8, <2>1 DEF DeliveryInv, FinKept
    <3>2. End(f) \in Nat /\ (c.fin => End(f) = head)
      BY <1>5, <1>8, <1>9
    <3>3. listFin => IF frames = <<>> THEN offset = head ELSE End(frames[Len(frames)]) = head
      BY DEF DeliveryInv, FinKept
    <3>4. CASE r = <<>>
      <4>1. frames = <<>> /\ End(f) <= offset
        BY <2>6, <3>4
      <4>2. offset = head
        <5>1. CASE listFin
          BY <3>3, <4>1, <5>1
        <5>2. CASE c.fin
          <6>1. head <= offset
            BY <3>2, <4>1, <5>2
          <6> QED  BY ONLY <2>2, <6>1
        <5> QED
          BY <1>8, <2>1, <5>1, <5>2
      <4> QED  BY <3>1, <3>4, <4>2
    <3>5. CASE r # <<>>
      <4>1. Len(r) > 0 /\ Len(r) \in 1 .. Len(r)
        BY <2>8, <3>5
      <4>2. End(r[Len(r)]) \in Nat /\ End(r[Len(r)]) <= head /\ End(r[Len(r)]) > offset
        BY <2>4, <2>8, <2>9, <4>1
      <4>3. CASE c.fin
        <5>1. End(f) = head /\ (End(r[Len(r)]) >= End(f) \/ End(f) <= offset)
          BY <2>7, <3>2, <4>1, <4>3
        <5>2. End(r[Len(r)]) = head
          BY ONLY <2>2, <4>2, <5>1
        <5> QED  BY <3>1, <3>5, <5>2
      <4>4. CASE listFin
        <5>1. frames # <<>>
          BY <2>2, <3>3, <4>2, <4>4
        <5>2. Len(frames) > 0
          BY <2>2, <5>1 DEF Sorted
        <5>3. End(r[Len(r)]) >= head
          BY <2>7, <3>3, <4>1, <4>4, <5>1, <5>2
        <5>4. End(r[Len(r)]) = head
          BY ONLY <2>2, <4>2, <5>3
        <5> QED  BY <3>1, <3>5, <5>4
      <4> QED
        BY <1>8, <2>1, <4>3, <4>4
    <3> QED
      BY <3>4, <3>5
  <2>15. FinKept'
    BY <1>2, <2>1, <2>14 DEF FinKept, End
  <2>16. Gap' <=> GapIn(r, offset)
    BY <2>1 DEF Gap, GapIn, End
  <2>17. AvailableFin(r, listFin') <=> listFin' /\ ~GapIn(r, offset)
    <3> DEFINE fin == listFin'
    <3>1. fin \in BOOLEAN
      BY <2>13
    <3> HIDE DEF r, fin
    <3>2. AvailableFin(r, fin) <=> fin /\ ~GapIn(r, offset)
      BY <2>2, <2>4, <3>1, FinWithoutGap
    <3> QED  BY <3>2 DEF fin
  <2>18. GapKnown'
    <3>1. listFin <=> recvState # "recv"
      BY DEF DeliveryInv, GapKnown
    <3>2. eof = FALSE
      BY <1>13 DEF DeliveryInv, GapKnown
    <3>3. listFin' <=> recvState' # "recv"
      BY <1>8, <1>9, <1>13, <2>1, <2>13, <3>1
    <3>4. listFin' /\ GapIn(r, offset) => recvState' = "size_known"
      <4> HIDE DEF r
      <4> HAVE listFin' /\ GapIn(r, offset)
      <4>1. ~AvailableFin(frames', listFin')
        BY <2>17 DEF r
      <4> QED  BY <1>8, <1>9, <1>13, <2>1, <3>1, <4>1
    <3>5. listFin' /\ ~GapIn(r, offset) => recvState' = "data_recvd"
      <4> HIDE DEF r
      <4> HAVE listFin' /\ ~GapIn(r, offset)
      <4>1. AvailableFin(frames', listFin')
        BY <2>17 DEF r
      <4> QED  BY <1>8, <1>9, <1>13, <2>1, <3>1, <4>1
    <3>6. ~listFin' => recvState' = "recv"
      BY <3>3
    <3> HIDE DEF r
    <3>7. /\ recvState' \in {"recv", "size_known", "data_recvd"}
          /\ recvState' = "size_known" => Gap'
          /\ recvState' = "data_recvd" => ~Gap'
      BY <2>16, <3>3, <3>4, <3>5, <3>6
    <3>8. eof' = FALSE
      BY <2>1, <3>2
    <3> QED
      BY <2>13, <3>3, <3>7, <3>8 DEF GapKnown
  <2>19. \A i \in Nat : Received(i)' <=> i < offset \/ InList(r, i)
    BY <2>1, <2>8 DEF Received, InList, End
  <2>20. AcksTruthful' /\ ForgottenIsReceived'
    <3> HIDE DEF r
    <3>1. \A i \in Nat : Received(i) => Received(i)'
      BY <2>2, <2>5, <2>19
    <3>2. \A i \in Nat : c.start <= i /\ i < c.start + c.len => Received(i)'
      BY <1>8, <2>2, <2>5, <2>19
    <3>3. listFin \/ c.fin => listFin'
      BY <1>8, <2>1
    <3> QED  BY <1>11, <3>1, <3>2, <3>3
  <2> QED
    BY <1>4, <1>10, <2>10, <2>11, <2>12, <2>15, <2>18, <2>20 DEF DeliveryInv
<1> QED
  BY <1>12, <1>13

\* The application reads: what it gets are the bytes that were written next,
\* and it meets the FIN only when it has read all of them.
LEMMA ReadStep ==
    ASSUME DeliveryInv, NEW n \in 0 .. Limit, Read(n), UNCHANGED <<svars, net>>
    PROVE  /\ DeliveryInv'
           /\ Stream!Read(n)
<1> DEFINE T == {i \in DOMAIN frames : End(frames[i]) <= offset + n}
           d == Walk(frames, T)
           r == SubSeq(frames, d + 1, Len(frames))
           fin == listFin /\ r = <<>>
<1>1. /\ recvState # "data_read"
      /\ offset + n <= Readable(frames)
      /\ got' = got \o [i \in 1 .. n |-> ByteAt(offset + i - 1)]
      /\ offset' = offset + n
      /\ frames' = r
      /\ eof' = (eof \/ fin)
      /\ recvState' = IF fin /\ recvState = "data_recvd" THEN "data_read" ELSE recvState
      /\ listFin' = listFin
  BY DEF Read
<1>2. /\ sendState' = sendState /\ head' = head /\ ctail' = ctail /\ ring' = ring
      /\ new' = new /\ acked' = acked /\ final' = final /\ flight' = flight /\ net' = net
  BY DEF svars
<1>3. /\ Sorted(frames) /\ offset \in Nat /\ head \in Nat /\ offset <= head
      /\ Len(frames) \in Nat /\ DOMAIN frames = 1 .. Len(frames)
      /\ \A k \in 1 .. Len(frames) : End(frames[k]) > offset
      /\ \A k \in 1 .. Len(frames) : End(frames[k]) <= head
      /\ Gap <=> GapIn(frames, offset)
      /\ \A i \in Nat : Received(i) <=> i < offset \/ InList(frames, i)
  BY ListOfStream
<1>4. n \in Nat /\ frames \in Seq(FrameSet)
  BY <1>3, SendStreamAssumption DEF Sorted
<1>5. r = Dropped(frames, d) /\ d = Walk(frames, {i \in DOMAIN frames : End(frames[i]) <= offset + n})
  BY DEF Dropped
<1> HIDE DEF T, d, r, fin
<1>6. Sorted(r) /\ Len(r) <= Len(frames)
  BY <1>1, <1>3, <1>4, <1>5, ReadKeeps
<1>7. /\ \A k \in 1 .. Len(r) : End(r[k]) > offset + n
      /\ \A k \in 1 .. Len(r) : \E j \in 1 .. Len(frames) : r[k] = frames[j]
  <2>1. \A k \in 1 .. Len(r) : End(r[k]) > offset + n
    BY <1>1, <1>3, <1>4, <1>5, ReadKeeps
  <2>2. DrawnFrom(r, frames)
    BY <1>1, <1>3, <1>4, <1>5, ReadKeeps
  <2> QED  BY <2>1, <2>2 DEF DrawnFrom
<1>8. \A i \in Nat : InList(frames, i) => InList(r, i) \/ i < offset + n
  BY <1>1, <1>3, <1>4, <1>5, ReadKeeps
<1>9. GapIn(frames, offset) <=> GapIn(r, offset + n)
  BY <1>1, <1>3, <1>4, <1>5, ReadKeeps
<1>10. /\ Len(frames) = 0 => n = 0
       /\ Len(frames) > 0 => offset + n <= End(frames[Len(frames)])
       /\ Len(frames) > 0 /\ Len(r) = 0 => offset + n = End(frames[Len(frames)])
       /\ Len(r) > 0 => r[Len(r)] = frames[Len(frames)]
  BY <1>1, <1>3, <1>4, <1>5, ReadKeeps
<1>11. /\ r \in Seq(FrameSet) /\ Len(r) \in Nat /\ DOMAIN r = 1 .. Len(r)
       /\ r = <<>> <=> Len(r) = 0
       /\ frames = <<>> <=> Len(frames) = 0
  <2>1. r \in Seq(FrameSet) /\ Len(r) \in Nat /\ DOMAIN r = 1 .. Len(r)
    BY <1>6, SortedFields
  <2> QED  BY <1>4, <2>1
<1>12. offset + n <= head
  <2>1. CASE Len(frames) = 0
    BY <1>3, <1>4, <1>10, <2>1
  <2>2. CASE Len(frames) > 0
    <3>1. offset + n <= End(frames[Len(frames)]) /\ End(frames[Len(frames)]) <= head
      BY <1>3, <1>10, <2>2
    <3>2. End(frames[Len(frames)]) \in Nat
      BY <1>3, <2>2, SortedFields
    <3> QED  BY ONLY <1>3, <1>4, <3>1, <3>2
  <2> QED
    BY <1>3, <2>1, <2>2
<1>13. fin => "have" \in final /\ offset + n = head
  <2> HAVE fin
  <2>1. listFin /\ Len(r) = 0
    BY <1>11 DEF fin
  <2>2. "have" \in final /\ (IF frames = <<>> THEN offset = head
                             ELSE End(frames[Len(frames)]) = head)
    BY <2>1 DEF DeliveryInv, FinKept
  <2>3. CASE Len(frames) = 0
    BY <1>3, <1>10, <1>11, <2>2, <2>3
  <2>4. CASE Len(frames) > 0
    BY <1>3, <1>10, <1>11, <2>1, <2>2, <2>4
  <2> QED
    BY <1>3, <2>3, <2>4
<1>14. fin => recvState = "data_recvd"
  <2> HAVE fin
  <2>1. listFin /\ r = <<>> /\ DOMAIN r = {}
    BY <1>11 DEF fin
  <2>2. ~GapIn(r, offset + n)
    BY <2>1 DEF GapIn
  <2>3. ~Gap
    BY <1>3, <1>9, <2>2
  <2> QED
    BY <1>1, <2>1, <2>3 DEF DeliveryInv, GapKnown
<1>15. \A i \in 1 .. n : ByteAt(offset + i - 1) = offset + i - 1
  <2> TAKE i \in 1 .. n
  <2> DEFINE b == offset + i - 1
  <2>1. b \in Nat /\ offset <= b /\ b < offset + n
    BY <1>3, <1>4
  <2>2. Readable(frames) \in Nat
    <3>1. PICK K \in 0 .. Len(frames) :
             /\ \A m \in 1 .. K : frames[m].start <= (IF m = 1 THEN offset ELSE End(frames[m - 1]))
             /\ Readable(frames) = IF K = 0 THEN offset ELSE End(frames[K])
      BY <1>3, ReadableEnd
    <3>2. K # 0 => K \in 1 .. Len(frames)
      BY <1>3, <3>1
    <3>3. \A j \in 1 .. Len(frames) : End(frames[j]) \in Nat
      BY <1>3, SortedFields
    <3> QED  BY <1>3, <3>1, <3>2, <3>3
  <2> HIDE DEF b
  <2>3. b < Readable(frames)
    BY <1>1, <1>3, <1>4, <2>1, <2>2
  <2>4. FramesIntact
    BY DEF DeliveryInv
  <2>5. ByteAt(b) = b
    BY <1>3, <2>1, <2>3, <2>4, ByteRead
  <2> QED
    BY <2>5 DEF b
<1>16. got \in Seq(Nat) /\ Len(got) = offset /\ \A i \in 1 .. offset : got[i] = i - 1
  BY DEF DeliveryInv, ReadIntact
<1> DEFINE more == [i \in 1 .. n |-> offset + i - 1]
<1>17. got' = got \o more
  BY <1>1, <1>15
<1>18. more \in Seq(Nat) /\ Len(more) = n /\ \A i \in 1 .. n : more[i] = offset + i - 1
  BY <1>3, <1>4
<1> HIDE DEF more
<1>19. /\ got' \in Seq(Nat) /\ Len(got') = offset + n
       /\ \A i \in 1 .. offset + n : got'[i] = i - 1
  <2>1. /\ got \o more \in Seq(Nat) /\ Len(got \o more) = Len(got) + Len(more)
        /\ \A i \in 1 .. Len(got) + Len(more) :
               (got \o more)[i] = IF i <= Len(got) THEN got[i] ELSE more[i - Len(got)]
    BY ONLY <1>16, <1>18, ConcatProperties
  <2>2. \A i \in 1 .. offset + n : i > offset => i - offset \in 1 .. n /\ offset + (i - offset) - 1 = i - 1
    BY ONLY <1>3, <1>4
  <2>3. \A i \in 1 .. offset + n : i > offset => more[i - offset] = i - 1
    BY ONLY <1>18, <2>2
  <2>4. \A i \in 1 .. offset + n : i <= offset => got[i] = i - 1
    BY ONLY <1>3, <1>4, <1>16
  <2>5. \A i \in 1 .. offset + n : got'[i] = IF i <= offset THEN got[i] ELSE more[i - offset]
    BY ONLY <1>16, <1>17, <1>18, <2>1
  <2>6. \A i \in 1 .. offset + n : got'[i] = i - 1
    BY ONLY <1>3, <1>4, <2>3, <2>4, <2>5
  <2>7. got' \in Seq(Nat) /\ Len(got') = offset + n
    BY ONLY <1>16, <1>17, <1>18, <2>1
  <2> QED  BY ONLY <2>6, <2>7
<1>20. ~eof /\ eof \in BOOLEAN /\ listFin \in BOOLEAN
  BY <1>1 DEF DeliveryInv, GapKnown
<1>21. SendInv' /\ PacketsIntact'
  BY <1>2 DEF DeliveryInv, SendInv, SendTypeOK, ChunksWithin, EmptyStream, Placed,
              BufferIntact, PacketsIntact, Written
<1>22. ListSorted'
  BY <1>1, <1>6, <1>7, <1>11 DEF ListSorted, Sorted, End
<1>23. FramesIntact'
  <2>1. \A k \in 1 .. Len(r) :
           /\ End(r[k]) <= head
           /\ \A i \in DOMAIN r[k].data : r[k].data[i] = r[k].start + i - 1
    <3>1. \A j \in 1 .. Len(frames) : \A i \in DOMAIN frames[j].data :
             frames[j].data[i] = frames[j].start + i - 1
      BY <1>3 DEF DeliveryInv, FramesIntact
    <3> QED
      BY <1>3, <1>7, <3>1
  <2> QED
    BY <1>1, <1>2, <1>11, <2>1 DEF FramesIntact, End
<1>24. ReadIntact'
  <2>1. offset + n \in 0 .. head
    BY <1>3, <1>4, <1>12
  <2> QED  BY <1>1, <1>2, <1>19, <2>1 DEF ReadIntact
<1>25. FinKept'
  <2> SUFFICES ASSUME listFin
               PROVE  "have" \in final /\ (IF r = <<>> THEN offset + n = head
                                           ELSE End(r[Len(r)]) = head)
    BY <1>1, <1>2 DEF FinKept, End
  <2>1. CASE r = <<>>
    BY <1>13, <2>1 DEF fin
  <2>2. CASE r # <<>>
    <3>1. Len(r) > 0 /\ frames # <<>>
      BY <1>3, <1>6, <1>11, <2>2
    <3>2. "have" \in final /\ End(frames[Len(frames)]) = head
      BY <3>1 DEF DeliveryInv, FinKept
    <3> QED  BY <1>10, <2>2, <3>1, <3>2
  <2> QED  BY <2>1, <2>2
<1>26. Gap' <=> Gap
  <2>1. Gap' <=> GapIn(r, offset + n)
    BY <1>1 DEF Gap, GapIn, End
  <2> QED  BY <1>3, <1>9, <2>1
<1>27. eof' = fin /\ fin \in BOOLEAN
  BY <1>1, <1>20 DEF fin
<1>28. GapKnown'
  <2>1. GapKnown
    BY DEF DeliveryInv
  <2>2. CASE fin
    <3>1. recvState' = "data_read" /\ eof' = TRUE /\ listFin
      BY <1>1, <1>14, <1>27, <2>2 DEF fin
    <3> QED
      BY <1>1, <1>14, <1>26, <2>1, <2>2, <3>1 DEF GapKnown
  <2>3. CASE ~fin
    <3>1. recvState' = recvState /\ eof' = FALSE
      BY <1>1, <1>27, <2>3
    <3> QED
      BY <1>1, <1>20, <1>26, <2>1, <3>1 DEF GapKnown
  <2> QED  BY <1>27, <2>2, <2>3
<1>29. \A i \in Nat : Received(i) => Received(i)'
  <2>1. \A i \in Nat : Received(i)' <=> i < offset + n \/ InList(r, i)
    BY <1>1, <1>11 DEF Received, InList, End
  <2>2. \A i \in Nat : i < offset => i < offset + n
    BY <1>3, <1>4
  <2> QED
    BY <1>3, <1>8, <2>1, <2>2
<1>30. AcksTruthful'
  <2>1. \A a \in flight : Arrived(a) => Arrived(a)'
    <3> SUFFICES ASSUME NEW a \in flight, Arrived(a) PROVE Arrived(a)'
      OBVIOUS
    <3>1. a.start \in Nat /\ a.len \in Nat
      BY SendStreamAssumption DEF DeliveryInv, SendInv, SendTypeOK, Chunks
    <3>2. \A i \in a.start .. a.start + a.len - 1 : i \in Nat
      BY <3>1
    <3> QED
      BY <1>1, <1>29, <3>2 DEF Arrived
  <2>2. \A a \in flight : (\E p \in net : p.chunk = a /\ ~p.late) \/ Arrived(a)
    BY DEF DeliveryInv, AcksTruthful
  <2> QED
    BY <1>1, <1>2, <2>1, <2>2 DEF DeliveryInv, AcksTruthful
<1>31. ForgottenIsReceived'
  <2>1. \A i \in acked : i \in Nat
    BY SendStreamAssumption DEF DeliveryInv, SendInv, SendTypeOK, Uint
  <2>2. \A i \in 0 .. head - 1 : i \in Nat
    BY <1>3
  <2> QED
    BY <1>1, <1>2, <1>29, <2>1, <2>2 DEF DeliveryInv, ForgottenIsReceived
<1>32. Stream!Read(n)
  <2>1. got' = got \o [i \in 1 .. n |-> Len(got) + i - 1]
    BY <1>16, <1>17 DEF more
  <2>2. eof' \in {FALSE, "have" \in final /\ Len(got) + n = head}
    <3>1. CASE fin
      BY <1>13, <1>16, <1>27, <3>1
    <3>2. CASE ~fin
      BY <1>27, <3>2
    <3> QED  BY <1>27, <3>1, <3>2
  <2>3. Len(got) + n <= head
    BY <1>12, <1>16
  <2> QED
    BY <1>2, <1>20, <2>1, <2>2, <2>3 DEF Stream!Read
<1> QED
  BY <1>21, <1>22, <1>23, <1>24, <1>25, <1>28, <1>30, <1>31, <1>32 DEF DeliveryInv

----------------------------------------------------------------------------
(* The theorems.                                                           *)

\* One step of the stream.
LEMMA Step ==
    ASSUME DeliveryInv, [Next]_vars
    PROVE  DeliveryInv'
<1>1. CASE AppWrite \/ AppFin
  BY <1>1, AppStep
<1>2. CASE AppRead
  BY <1>2, ReadStep DEF AppRead
<1>3. CASE \E c \in Chunks : Send(c)
  BY <1>3, SendStep
<1>4. CASE \E p \in net : Receive(p)
  BY <1>4, ReceiveStep
<1>5. CASE \E c \in flight : Ack(c) \/ Lose(c)
  BY <1>5, AckStep, LoseStep
<1>6. CASE UNCHANGED vars
  <2>1. UNCHANGED <<sendState, head, ctail, ring, new, acked, final, flight, net>>
    BY <1>6 DEF vars, svars
  <2>2. UNCHANGED <<recvState, frames, offset, listFin, got, eof>>
    BY <1>6 DEF vars, rvars
  <2>3. SendInv' /\ PacketsIntact'
    BY <2>1 DEF DeliveryInv, SendInv, SendTypeOK, ChunksWithin, EmptyStream, Placed,
                BufferIntact, PacketsIntact, Written
  <2>4. /\ ListSorted' /\ FramesIntact' /\ ReadIntact' /\ FinKept' /\ GapKnown'
        /\ \A i : Received(i)' <=> Received(i)
    <3>1. head \in Nat
      BY ListOfStream
    <3>2. head' \in Nat /\ head <= head' /\ ("have" \in final => head' = head /\ "have" \in final')
      BY <2>1, <3>1
    <3>3. UNCHANGED rvars
      BY <1>6 DEF vars
    <3> QED  BY <3>2, <3>3, ReceiverKept
  <2>5. AcksTruthful' /\ ForgottenIsReceived'
    BY <2>1, <2>2, <2>4 DEF DeliveryInv, AcksTruthful, Arrived, ForgottenIsReceived
  <2> QED
    BY <2>3, <2>4, <2>5 DEF DeliveryInv
<1> QED
  BY <1>1, <1>2, <1>3, <1>4, <1>5, <1>6 DEF Next

\* At the start nothing was written, sent or received.
LEMMA Start ==
    ASSUME Init
    PROVE  DeliveryInv
<1>1. /\ sendState = "send" /\ head = 0 /\ ctail = 0
      /\ ring = [i \in 0 .. Alloc - 1 |-> 0]
      /\ new = {} /\ acked = {} /\ final = {} /\ flight = {} /\ net = {}
      /\ recvState = "recv" /\ frames = <<>> /\ offset = 0
      /\ listFin = FALSE /\ got = <<>> /\ eof = FALSE
  BY DEF Init, SendInit, RecvInit
<1>2. SendTypeOK
  BY <1>1, SendStreamAssumption DEF SendTypeOK
<1>3. ChunksWithin /\ EmptyStream /\ Placed
  BY <1>1 DEF ChunksWithin, EmptyStream, Placed
<1>4. BufferIntact
  BY <1>1, SendStreamAssumption DEF BufferIntact
<1>5. PacketsIntact /\ ListSorted /\ FramesIntact
  BY <1>1 DEF PacketsIntact, ListSorted, FramesIntact
<1>6. ReadIntact /\ FinKept /\ GapKnown
  <2>1. ReadIntact
    BY <1>1 DEF ReadIntact
  <2>2. FinKept
    BY <1>1 DEF FinKept
  <2>3. GapKnown
    BY <1>1 DEF GapKnown
  <2> QED  BY <2>1, <2>2, <2>3
<1>7. AcksTruthful /\ ForgottenIsReceived
  BY <1>1 DEF AcksTruthful, ForgottenIsReceived
<1> QED
  BY <1>2, <1>3, <1>4, <1>5, <1>6, <1>7 DEF DeliveryInv, SendInv

\* The inductive invariant of the stream, for every size of buffer and stream.
THEOREM Inductive == Spec => []DeliveryInv
<1>1. Init => DeliveryInv
  BY Start
<1>2. DeliveryInv /\ [Next]_vars => DeliveryInv'
  BY Step
<1> QED
  BY <1>1, <1>2, PTL DEF Spec

\* Every byte written is to be sent, in one packet, or acknowledged, in exactly
\* one of the three places: quic_sstream.c's "No logical byte is ever in both
\* new_set and acked_set", and none is forgotten or sent twice at once.
THEOREM Partitioned == Spec => []BytesPartitioned
<1>1. DeliveryInv => BytesPartitioned
  <2> SUFFICES ASSUME DeliveryInv, sendState # "data_recvd", NEW i \in 0 .. head - 1
               PROVE  LET carriers == {c \in flight : i \in ChunkBytes(c)}
                      IN  \/ i \in new /\ i \notin acked /\ carriers = {}
                          \/ i \notin new /\ i \in acked /\ carriers = {}
                          \/ i \notin new /\ i \notin acked /\ Cardinality(carriers) = 1
    BY DEF BytesPartitioned
  <2> DEFINE carriers == {c \in flight : i \in ChunkBytes(c)}
  <2>1. /\ ~ (i \in new /\ i \in acked)
        /\ \A c \in flight : i \in ChunkBytes(c) =>
               /\ i \notin new /\ i \notin acked
               /\ \A d \in flight : i \in ChunkBytes(d) => d = c
        /\ i \in new \/ i \in acked \/ \E c \in flight : i \in ChunkBytes(c)
    BY DEF DeliveryInv, SendInv, Placed
  <2>2. CASE i \in new \/ i \in acked
    BY <2>1, <2>2
  <2>3. CASE i \notin new /\ i \notin acked
    <3>1. PICK c \in flight : i \in ChunkBytes(c)
      BY <2>1, <2>3
    <3>2. carriers = {c}
      BY <2>1, <3>1
    <3>3. Cardinality(carriers) = 1
      BY <3>2, FS_Singleton
    <3> QED  BY <2>3, <3>3
  <2> QED
    BY <2>2, <2>3
<1> QED
  BY <1>1, Inductive, PTL

\* The ring buffer of quic_sstream.c never overwrites a byte that may have to be
\* sent again, and frees only what was acknowledged.
THEOREM RingIntact == Spec => []BufferIntact
<1>1. DeliveryInv => BufferIntact
  BY DEF DeliveryInv, SendInv
<1> QED
  BY <1>1, Inductive, PTL

\* The reassembly list of quic_sf_list.c stays sorted, without a frame inside
\* another, whatever frames arrive in whatever order.
THEOREM ListStaysSorted == Spec => []ListSorted
<1>1. DeliveryInv => ListSorted
  BY DEF DeliveryInv
<1> QED
  BY <1>1, Inductive, PTL

\* The sender forgets only what the receiver has.
THEOREM ForgetsReceived == Spec => []ForgottenIsReceived
<1>1. DeliveryInv => ForgottenIsReceived
  BY DEF DeliveryInv
<1> QED
  BY <1>1, Inductive, PTL

\* The receive states of depack_do_frame_stream and quic_read_actual are exact.
THEOREM StatesExact == Spec => []RecvStatesExact
<1>1. ASSUME DeliveryInv PROVE RecvStatesExact
  <2>1. GapKnown
    BY <1>1 DEF DeliveryInv
  <2>2. recvState \in {"data_recvd", "data_read"} =>
           listFin /\ \A i \in 0 .. head - 1 : Received(i)
    BY <1>1, DataRecvdComplete
  <2>3. ASSUME listFin, recvState \notin {"data_recvd", "data_read"}
        PROVE  \E i \in 0 .. head - 1 : ~Received(i)
    <3>1. Gap
      BY <2>1, <2>3 DEF GapKnown
    <3>2. /\ Sorted(frames) /\ offset \in Nat /\ head \in Nat
          /\ \A k \in 1 .. Len(frames) : End(frames[k]) > offset
          /\ GapIn(frames, offset)
          /\ \A i \in Nat : Received(i) <=> i < offset \/ InList(frames, i)
      BY <1>1, <3>1, ListOfStream
    <3>3. Len(frames) > 0
      BY <3>2, GapMisses
    <3>4. PICK i \in Nat : offset <= i /\ i < End(frames[Len(frames)]) /\ ~InList(frames, i)
      BY <3>2, GapMisses
    <3>5. End(frames[Len(frames)]) = head
      <4>1. frames # <<>>
        BY <3>2, <3>3 DEF Sorted
      <4> QED  BY <1>1, <2>3, <4>1 DEF DeliveryInv, FinKept
    <3>6. i \in 0 .. head - 1 /\ ~ (i < offset)
      BY <3>2, <3>4, <3>5
    <3> QED
      BY <3>2, <3>4, <3>6
  <2> QED
    BY <2>1, <2>2, <2>3 DEF RecvStatesExact, GapKnown
<1> QED
  BY <1>1, Inductive, PTL

\* The assertion of ossl_sframe_list_insert never fails.
THEOREM AssertionHolds == Spec => []FinalSizeConsistent
<1>1. ASSUME DeliveryInv PROVE FinalSizeConsistent
  <2> DEFINE currEnd == IF frames = <<>> THEN offset ELSE End(frames[Len(frames)])
  <2>1. /\ offset \in Nat /\ head \in Nat /\ offset <= head /\ Sorted(frames)
        /\ \A k \in 1 .. Len(frames) : End(frames[k]) <= head
    BY <1>1, ListOfStream
  <2>2. currEnd <= head /\ currEnd \in Nat /\ (listFin => currEnd = head)
    <3>1. frames # <<>> => Len(frames) \in 1 .. Len(frames)
      BY <2>1 DEF Sorted
    <3>2. frames # <<>> => End(frames[Len(frames)]) \in Nat
      BY <2>1, <3>1, SortedFields
    <3> QED
      BY <1>1, <2>1, <3>1, <3>2 DEF DeliveryInv, FinKept
  <2> HIDE DEF currEnd
  <2>3. ASSUME NEW p \in net
        PROVE  LET end == p.chunk.start + Len(p.data)
               IN  (p.chunk.fin => currEnd <= end) /\ (listFin => currEnd >= end)
    <3>1. PICK c \in Chunks, late \in BOOLEAN :
             /\ p = Written(c, late)
             /\ c.start + c.len <= head
             /\ c.fin => "have" \in final /\ c.start + c.len = head
      BY <1>1 DEF DeliveryInv, PacketsIntact
    <3>2. c.start \in Nat /\ c.len \in Nat
      BY <3>1, SendStreamAssumption DEF Chunks
    <3>3. p.chunk = c /\ p.data = [k \in 1 .. c.len |-> c.start + k - 1]
      BY <3>1 DEF Written
    <3>4. Len(p.data) = c.len
      BY <3>2, <3>3
    <3>5. (c.fin => currEnd <= c.start + c.len) /\ (listFin => currEnd >= c.start + c.len)
      BY <2>1, <2>2, <3>1, <3>2
    <3> QED
      BY <3>3, <3>4, <3>5
  <2> QED
    BY <2>3 DEF FinalSizeConsistent, currEnd
<1> QED
  BY <1>1, Inductive, PTL

\* The stream implements its promise: in-order, exactly-once delivery of the
\* bytes written, and an end of file only when all of them were read.
THEOREM Implements == Spec => ImplementsByteStream
<1>1. ASSUME Init PROVE Stream!Init
  BY <1>1 DEF Init, SendInit, RecvInit, Stream!Init
<1>2. ASSUME DeliveryInv, [Next]_vars
      PROVE  [Stream!Next]_(Stream!vars)
  <2>1. CASE AppWrite
    <3>1. PICK n \in 1 .. Limit : Write(n) /\ UNCHANGED <<rvars, net>>
      BY <2>1 DEF AppWrite
    <3>2. Stream!Write(n)
      BY <3>1 DEF Write, rvars, Stream!Write
    <3> QED  BY <3>2 DEF Stream!Next
  <2>2. CASE AppFin
    <3>1. Stream!Close
      BY <2>2 DEF AppFin, Fin, rvars, Stream!Close
    <3> QED  BY <3>1 DEF Stream!Next
  <2>3. CASE AppRead
    <3>1. PICK n \in 0 .. Limit : Read(n) /\ UNCHANGED <<svars, net>>
      BY <2>3 DEF AppRead
    <3>2. Stream!Read(n)
      BY <1>2, <3>1, ReadStep
    <3> QED  BY <3>2 DEF Stream!Next
  <2>4. CASE \E c \in Chunks : Send(c)
    <3>1. UNCHANGED <<head, got, eof>> /\ ("have" \in final' <=> "have" \in final)
      BY <2>4 DEF Send, Commit, rvars
    <3> QED  BY <3>1 DEF Stream!vars
  <2>5. CASE \E p \in net : Receive(p)
    <3>1. UNCHANGED <<head, final, got, eof>>
      BY <2>5 DEF Receive, RecvFrame, svars, rvars
    <3> QED  BY <3>1 DEF Stream!vars
  <2>6. CASE \E c \in flight : Ack(c) \/ Lose(c)
    <3>1. UNCHANGED <<head, got, eof>>
      BY <2>6 DEF Ack, Lose, Acked, Lost, rvars
    <3>2. "have" \in final' <=> "have" \in final
      BY <2>6 DEF Ack, Lose, Acked, Lost, LostFin
    <3> QED  BY <3>1, <3>2 DEF Stream!vars
  <2>7. CASE UNCHANGED vars
    BY <2>7 DEF vars, svars, rvars, Stream!vars
  <2> QED
    BY <1>2, <2>1, <2>2, <2>3, <2>4, <2>5, <2>6, <2>7 DEF Next
<1> QED
  BY <1>1, <1>2, Inductive, PTL DEF Spec, ImplementsByteStream, Stream!Spec
=============================================================================
