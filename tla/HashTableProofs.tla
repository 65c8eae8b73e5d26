-------------------------- MODULE HashTableProofs --------------------------
(***************************************************************************)
(* Proofs about HashTable, for any readers and writers, keys and hashes,   *)
(* addresses, sizes of neighborhoods and of tables, with and without       *)
(* lockless_reads.                                                         *)
(***************************************************************************)
EXTENDS HashTable, FiniteSetTheorems, WellFoundedInduction, TLAPS

----------------------------------------------------------------------------
(* Tables.                                                                 *)

\* A non-empty set of numbers has a least one: what the CHOOSE of a slot rests on.
LEMMA LeastNat ==
    ASSUME NEW T, T \subseteq Nat, T # {}
    PROVE  \E x \in T : \A y \in T : x <= y
<1>1. PICK x \in T : \A y \in T : ~ (<<y, x>> \in OpToRel(<, Nat))
  BY NatLessThanWellFounded, WFMin
<1>2. ASSUME NEW y \in T, y < x
      PROVE  FALSE
  <2>1. <<y, x>> \in Nat \X Nat
    OBVIOUS
  <2>2. <<y, x>> \in OpToRel(<, Nat)
    BY <1>2, <2>1, Zenon DEF OpToRel
  <2> QED
    BY <1>1, <2>2
<1> QED
  BY <1>2

\* Division by the length of a neighborhood, or by their number
LEMMA Division ==
    ASSUME NEW n \in Nat \ {0}, NEW q \in Nat, NEW r \in Nat, r < n
    PROVE  (q * n + r) \div n = q /\ (q * n + r) % n = r
<1> DEFINE a == q * n + r
           p == a \div n
           m == a % n
<1>1. a \in Nat /\ p \in Int /\ m \in 0 .. n - 1
  OBVIOUS
<1>2. a = p * n + m
  OBVIOUS
<1> QED
  OBVIOUS

\* Growing splits a neighborhood: hashes that meet in the table of twice the
\* size met before.
LEMMA HalfMod ==
    ASSUME NEW n \in Nat \ {0}, NEW h \in Nat
    PROVE  h % n = (h % (2 * n)) % n
<1> DEFINE q == h \div (2 * n)
           r == h % (2 * n)
<1>1. q \in Nat /\ r \in Nat /\ r < 2 * n /\ h = q * (2 * n) + r
  <2> DEFINE m == 2 * n
  <2>1. m \in Nat \ {0}
    OBVIOUS
  <2> HIDE DEF m
  <2>2. h \div m \in Int /\ h % m \in 0 .. m - 1
    BY <2>1
  <2>3. h = (h \div m) * m + (h % m)
    BY <2>1
  <2>4. h \div m >= 0
    BY <2>1, <2>2, <2>3
  <2> QED
    BY <2>1, <2>2, <2>3, <2>4 DEF m
<1> HIDE DEF q, r
<1>2. CASE r < n
  <2>1. 2 * q \in Nat /\ h = (2 * q) * n + r
    BY <1>1
  <2>2. h % n = r
    BY <1>1, <1>2, <2>1, Division
  <2>3. r % n = r
    BY <1>1, <1>2
  <2> QED
    BY <2>2, <2>3 DEF r
<1>3. CASE r >= n
  <2>1. r - n \in Nat /\ r - n < n /\ 2 * q + 1 \in Nat /\ h = (2 * q + 1) * n + (r - n)
    BY <1>1, <1>3
  <2>2. h % n = r - n
    BY <2>1, Division
  <2>3. r = 1 * n + (r - n)
    BY <1>1
  <2>4. r % n = r - n
    BY <2>1, <2>3, Division
  <2> QED
    BY <2>2, <2>4 DEF r
<1> QED
  BY <1>1, <1>2, <1>3

\* A table has whole neighborhoods of entries, and is never NoTable.
LEMMA TableFacts ==
    ASSUME NEW t, IsTable(t)
    PROVE  /\ t \in Seq(Entries) /\ Len(t) \in Nat \ {0} /\ DOMAIN t = 1 .. Len(t)
           /\ Neighborhoods(t) \in Nat \ {0} /\ Len(t) = Neighborhoods(t) * NeighLen
           /\ \A s \in DOMAIN t : /\ t[s] \in Entries /\ t[s].hash \in Nat
                                  /\ t[s].value \in Vals \cup {None}
           /\ t # NoTable
<1>1. /\ t \in Seq(Entries) /\ Neighborhoods(t) \in Nat \ {0}
      /\ Len(t) = Neighborhoods(t) * NeighLen /\ NeighLen \in Nat \ {0}
  BY HashTableAssumption DEF IsTable
<1>2. Len(t) \in Nat \ {0}
  BY <1>1
<1>3. DOMAIN t = 1 .. Len(t) /\ \A s \in DOMAIN t : t[s] \in Entries
  BY <1>1
<1>4. t # NoTable
  BY <1>2 DEF NoTable
<1>5. \A e \in Entries : e.hash \in Nat /\ e.value \in Vals \cup {None}
  BY DEF Entries
<1> QED
  BY <1>1, <1>2, <1>3, <1>4, <1>5

\* A function on that many slots is a table: the result of
\* alloc_new_neighborhood_list and of growing.
LEMMA MakeTable ==
    ASSUME NEW n \in Nat \ {0}, NEW t, t \in [1 .. n * NeighLen -> Entries]
    PROVE  IsTable(t) /\ Neighborhoods(t) = n /\ t \in Seq(Entries)
<1>1. NeighLen \in Nat \ {0} /\ n * NeighLen \in Nat
  BY HashTableAssumption
<1>2. t \in Seq(Entries) /\ Len(t) = n * NeighLen
  BY <1>1
<1>3. (n * NeighLen + 0) \div NeighLen = n
  BY <1>1, Division
<1>4. n * NeighLen + 0 = n * NeighLen
  BY <1>1
<1> QED
  BY <1>2, <1>3, <1>4 DEF IsTable, Neighborhoods

\* Storing into an entry keeps a table a table.
LEMMA StoreTable ==
    ASSUME NEW t, IsTable(t), NEW s \in DOMAIN t, NEW e \in Entries
    PROVE  /\ IsTable([t EXCEPT ![s] = e]) /\ [t EXCEPT ![s] = e] \in Seq(Entries)
           /\ Len([t EXCEPT ![s] = e]) = Len(t)
           /\ DOMAIN [t EXCEPT ![s] = e] = DOMAIN t
           /\ Neighborhoods([t EXCEPT ![s] = e]) = Neighborhoods(t)
           /\ [t EXCEPT ![s] = e][s] = e
           /\ \A z \in DOMAIN t \ {s} : [t EXCEPT ![s] = e][z] = t[z]
<1>1. /\ t \in Seq(Entries) /\ DOMAIN t = 1 .. Len(t) /\ Len(t) \in Nat
      /\ \A z \in DOMAIN t : t[z] \in Entries
  BY TableFacts
<1> DEFINE u == [t EXCEPT ![s] = e]
<1>2. u \in [1 .. Len(t) -> Entries]
  BY <1>1
<1>3. u \in Seq(Entries) /\ Len(u) = Len(t)
  BY <1>1, <1>2
<1>4. Neighborhoods(u) = Neighborhoods(t)
  BY <1>3 DEF Neighborhoods
<1>5. IsTable(u)
  BY <1>3, <1>4 DEF IsTable
<1>6. DOMAIN u = DOMAIN t /\ u[s] = e /\ \A z \in DOMAIN t \ {s} : u[z] = t[z]
  BY <1>1
<1> HIDE DEF u
<1>7. /\ IsTable(u) /\ u \in Seq(Entries) /\ Len(u) = Len(t) /\ DOMAIN u = DOMAIN t
      /\ Neighborhoods(u) = Neighborhoods(t) /\ u[s] = e
      /\ \A z \in DOMAIN t \ {s} : u[z] = t[z]
  BY <1>3, <1>4, <1>5, <1>6
<1> QED
  BY <1>7 DEF u

\* An empty table.
LEMMA EmptyTable ==
    ASSUME NEW n \in Nat \ {0}
    PROVE  /\ IsTable(NewList(n)) /\ NewList(n) \in Seq(Entries)
           /\ Moved(NewList(n)) = {} /\ Values(NewList(n)) = {}
<1>1. Empty \in Entries /\ Empty.value = None
  BY DEF Empty, Entries
<1>2. NewList(n) \in [1 .. n * NeighLen -> Entries]
  BY <1>1 DEF NewList
<1>3. \A s \in DOMAIN NewList(n) : NewList(n)[s].value = None
  BY <1>1 DEF NewList
<1>4. Moved(NewList(n)) = {} /\ Values(NewList(n)) = {}
  BY <1>3 DEF Moved, Values
<1> QED
  BY <1>2, <1>4, MakeTable

\* Probe and Home of a table, for either configuration.
ProbeOf(ll, t, hash) ==
    [i \in 1 .. (IF ll THEN Len(t) ELSE NeighLen) |->
        (((hash % Neighborhoods(t)) * NeighLen + i - 1) % Len(t)) + 1]

HomeOf(ll, t, s, hash) ==
    \E i \in DOMAIN ProbeOf(ll, t, hash) :
        /\ ProbeOf(ll, t, hash)[i] = s
        /\ ll => \A h \in 1 .. i - 1 : t[ProbeOf(ll, t, hash)[h]].value # None

\* Probe, with the mode of the table as a parameter
LEMMA ProbeIs ==
    ASSUME NEW t, NEW hash
    PROVE  Probe(t, hash) = ProbeOf(lockless_reads, t, hash)
BY DEF Probe, ProbeOf

\* The loops of a lookup visit slots of the table; under the read lock, the
\* consecutive ones of a single neighborhood.
LEMMA ProbeFacts ==
    ASSUME NEW ll \in BOOLEAN, NEW t, IsTable(t), NEW hash \in Nat
    PROVE  /\ DOMAIN ProbeOf(ll, t, hash) = 1 .. (IF ll THEN Len(t) ELSE NeighLen)
           /\ Len(ProbeOf(ll, t, hash)) = IF ll THEN Len(t) ELSE NeighLen
           /\ (IF ll THEN Len(t) ELSE NeighLen) \in Nat \ {0}
           /\ \A i \in DOMAIN ProbeOf(ll, t, hash) : ProbeOf(ll, t, hash)[i] \in DOMAIN t
           /\ ~ll => \A i \in 1 .. NeighLen :
                ProbeOf(ll, t, hash)[i] = (hash % Neighborhoods(t)) * NeighLen + i
<1> DEFINE N == Neighborhoods(t)
           L == IF ll THEN Len(t) ELSE NeighLen
           P == ProbeOf(ll, t, hash)
           first == (hash % N) * NeighLen
<1>1. /\ NeighLen \in Nat \ {0} /\ N \in Nat \ {0} /\ Len(t) \in Nat \ {0}
      /\ Len(t) = N * NeighLen /\ DOMAIN t = 1 .. Len(t)
  BY TableFacts, HashTableAssumption
<1>2. P = [i \in 1 .. L |-> ((first + i - 1) % Len(t)) + 1]
  BY DEF ProbeOf
<1>3. L \in Nat \ {0}
  BY <1>1
<1>4. DOMAIN P = 1 .. L /\ Len(P) = L
  BY <1>2, <1>3
<1>5. hash % N \in 0 .. N - 1
  BY <1>1
<1>6. first \in Nat /\ first + NeighLen <= Len(t)
  <2>1. (hash % N) * NeighLen + NeighLen = ((hash % N) + 1) * NeighLen
    BY <1>1, <1>5
  <2>2. ((hash % N) + 1) * NeighLen <= N * NeighLen
    BY <1>1, <1>5
  <2> QED
    BY <1>1, <1>5, <2>1, <2>2
<1> HIDE DEF first, L, N
<1>7. \A i \in 1 .. L : P[i] = ((first + i - 1) % Len(t)) + 1 /\ first + i - 1 \in Nat
  BY <1>2, <1>3, <1>6
<1> HIDE DEF P
<1>8. \A i \in 1 .. L : P[i] \in DOMAIN t
  <2>1. \A a \in Nat : (a % Len(t)) + 1 \in 1 .. Len(t)
    BY <1>1
  <2> QED
    BY <1>1, <1>7, <2>1
<1>9. ~ll => \A i \in 1 .. NeighLen : P[i] = first + i
  <2> SUFFICES ASSUME ~ll, NEW i \in 1 .. NeighLen PROVE P[i] = first + i
    OBVIOUS
  <2>1. first + i - 1 \in Nat /\ first + i - 1 < Len(t)
    BY <1>1, <1>6
  <2>2. (first + i - 1) % Len(t) = first + i - 1
    BY <1>1, <2>1
  <2>3. L = NeighLen
    BY DEF L
  <2> QED
    BY <1>1, <1>6, <1>7, <2>2, <2>3
<1> QED
  BY <1>3, <1>4, <1>8, <1>9 DEF L, P, N, first

----------------------------------------------------------------------------
(* Growing.                                                                *)

\* Every entry of t is in the neighborhood that its hash selects.
InPlace(t) ==
    \A s \in Moved(t) : \E i \in 1 .. NeighLen :
        s = (t[s].hash % Neighborhoods(t)) * NeighLen + i

\* The entries that go to the place of s or before it, in the neighborhood of s
Before(t, n, s) == {u \in Moved(t) : u <= s /\ t[u].hash % n = t[s].hash % n}

\* The place that grow_hashtable gives an entry counts those placed before it.
LEMMA PlaceIs ==
    ASSUME NEW t, NEW n, NEW s
    PROVE  Place(t, n, s) = (t[s].hash % n) * NeighLen + Cardinality(Before(t, n, s))
BY DEF Place, Before

\* There is room: what meets in a new neighborhood was in one old one.
LEMMA BeforeFits ==
    ASSUME NEW t, IsTable(t), InPlace(t), NEW n, n = 2 * Neighborhoods(t), NEW s \in Moved(t)
    PROVE  /\ IsFiniteSet(Before(t, n, s)) /\ Cardinality(Before(t, n, s)) \in 1 .. NeighLen
           /\ t[s].hash % n \in 0 .. n - 1
<1> DEFINE N == Neighborhoods(t)
           a == (t[s].hash % N) * NeighLen
           K == Before(t, n, s)
<1>1. NeighLen \in Nat \ {0} /\ N \in Nat \ {0} /\ n \in Nat \ {0} /\ DOMAIN t = 1 .. Len(t)
  BY TableFacts, HashTableAssumption
<1>2. \A u \in Moved(t) : u \in DOMAIN t /\ t[u].hash \in Nat
  BY TableFacts DEF Moved
<1>3. t[s].hash % N \in Nat /\ a \in Nat
  BY <1>1, <1>2
<1>4. K \in SUBSET ((a + 1) .. (a + NeighLen))
  <2> SUFFICES ASSUME NEW u \in K PROVE u \in (a + 1) .. (a + NeighLen)
    OBVIOUS
  <2>1. u \in Moved(t) /\ t[u].hash % n = t[s].hash % n
    BY DEF Before
  <2>2. t[u].hash % N = (t[u].hash % n) % N /\ t[s].hash % N = (t[s].hash % n) % N
    BY <1>1, <1>2, <2>1, HalfMod
  <2>3. t[u].hash % N = t[s].hash % N
    BY <2>1, <2>2
  <2>4. PICK i \in 1 .. NeighLen : u = (t[u].hash % N) * NeighLen + i
    BY <2>1 DEF InPlace
  <2>5. u = a + i
    BY <2>3, <2>4
  <2> HIDE DEF a
  <2> QED
    BY <1>1, <1>3, <2>5
<1> HIDE DEF a
<1>5. a + 1 \in Int /\ a + NeighLen \in Int /\ a + 1 <= a + NeighLen
  BY <1>1, <1>3
<1>6. /\ IsFiniteSet((a + 1) .. (a + NeighLen))
      /\ Cardinality((a + 1) .. (a + NeighLen)) = NeighLen
  <2>1. Cardinality((a + 1) .. (a + NeighLen)) = IF a + 1 > a + NeighLen THEN 0 ELSE (a + NeighLen) - (a + 1) + 1
    BY <1>5, FS_Interval
  <2>2. (a + NeighLen) - (a + 1) + 1 = NeighLen /\ ~(a + 1 > a + NeighLen)
    BY <1>1, <1>3
  <2> QED
    BY <1>5, <2>1, <2>2, FS_Interval
<1>7. IsFiniteSet(K) /\ Cardinality(K) <= NeighLen
  BY <1>4, <1>6, FS_Subset
<1>8. s \in K
  BY <1>1, <1>2 DEF Before
<1>9. Cardinality(K) \in Nat /\ Cardinality(K) # 0
  BY <1>7, <1>8, FS_CardinalityType, FS_EmptySet
<1>10. t[s].hash % n \in 0 .. n - 1
  BY <1>1, <1>2
<1> QED
  BY <1>1, <1>7, <1>9, <1>10

\* Rows of different neighborhoods do not meet.
LEMMA RowsApart ==
    ASSUME NEW a \in Nat, NEW b \in Nat, NEW i \in 1 .. NeighLen, NEW j \in 1 .. NeighLen,
           a * NeighLen + i = b * NeighLen + j
    PROVE  a = b /\ i = j
<1>1. NeighLen \in Nat \ {0}
  BY HashTableAssumption
<1>2. i - 1 \in Nat /\ i - 1 < NeighLen /\ j - 1 \in Nat /\ j - 1 < NeighLen
  BY <1>1
<1>3. a * NeighLen \in Nat /\ b * NeighLen \in Nat
  BY <1>1
<1>4. a * NeighLen + (i - 1) = b * NeighLen + (j - 1)
  BY <1>1, <1>2, <1>3
<1>5. (a * NeighLen + (i - 1)) \div NeighLen = a
  BY <1>1, <1>2, Division
<1>6. (b * NeighLen + (j - 1)) \div NeighLen = b
  BY <1>1, <1>2, Division
<1>7. a = b
  BY <1>4, <1>5, <1>6
<1> QED
  BY <1>1, <1>3, <1>7

\* Each entry has a place of its own, inside the new table.
LEMMA PlaceFacts ==
    ASSUME NEW t, IsTable(t), InPlace(t), NEW n, n = 2 * Neighborhoods(t)
    PROVE  /\ \A s \in Moved(t) : Place(t, n, s) \in 1 .. n * NeighLen
           /\ \A s \in Moved(t) : \E i \in 1 .. NeighLen :
                Place(t, n, s) = (t[s].hash % n) * NeighLen + i
           /\ \A s, z \in Moved(t) : Place(t, n, s) = Place(t, n, z) => s = z
<1>1. NeighLen \in Nat \ {0} /\ n \in Nat \ {0} /\ DOMAIN t = 1 .. Len(t) /\ Len(t) \in Nat
  BY TableFacts, HashTableAssumption
<1>2. ASSUME NEW s \in Moved(t)
      PROVE  /\ Place(t, n, s) \in 1 .. n * NeighLen
             /\ \E i \in 1 .. NeighLen : Place(t, n, s) = (t[s].hash % n) * NeighLen + i
  <2> DEFINE c == Cardinality(Before(t, n, s))
             a == t[s].hash % n
  <2>1. c \in 1 .. NeighLen /\ a \in 0 .. n - 1 /\ Place(t, n, s) = a * NeighLen + c
    BY BeforeFits, PlaceIs
  <2> HIDE DEF c, a
  <2>2. a * NeighLen \in Nat /\ (a + 1) * NeighLen <= n * NeighLen
    BY <1>1, <2>1
  <2>3. (a + 1) * NeighLen = a * NeighLen + NeighLen
    BY <1>1, <2>1
  <2>4. n * NeighLen \in Nat
    BY <1>1
  <2>5. a * NeighLen + c \in 1 .. n * NeighLen
    BY <1>1, <2>1, <2>2, <2>3, <2>4
  <2> QED
    BY <2>1, <2>5 DEF a
<1>3. ASSUME NEW s \in Moved(t), NEW z \in Moved(t), Place(t, n, s) = Place(t, n, z), s < z
      PROVE  FALSE
  <2> DEFINE c == Cardinality(Before(t, n, s))
             d == Cardinality(Before(t, n, z))
             a == t[s].hash % n
             b == t[z].hash % n
  <2>1. c \in 1 .. NeighLen /\ a \in 0 .. n - 1 /\ Place(t, n, s) = a * NeighLen + c
    BY BeforeFits, PlaceIs
  <2>2. d \in 1 .. NeighLen /\ b \in 0 .. n - 1 /\ Place(t, n, z) = b * NeighLen + d
    BY BeforeFits, PlaceIs
  <2> HIDE DEF c, d, a, b
  <2>3. a \in Nat /\ b \in Nat /\ a * NeighLen + c = b * NeighLen + d
    BY <1>1, <1>3, <2>1, <2>2
  <2>4. a = b /\ c = d
    BY <2>1, <2>2, <2>3, RowsApart
  <2>5. \A u \in Moved(t) : u \in Nat
    BY <1>1 DEF Moved
  <2>6. Before(t, n, s) \in SUBSET Before(t, n, z) /\ z \in Before(t, n, z) /\ z \notin Before(t, n, s)
    BY <1>3, <2>4, <2>5 DEF Before, a, b
  <2>7. IsFiniteSet(Before(t, n, z))
    BY BeforeFits
  <2> QED
    BY <2>4, <2>6, <2>7, FS_Subset DEF c, d
<1>4. \A s \in Moved(t) : s \in Nat
  BY <1>1 DEF Moved
<1>5. \A s, z \in Moved(t) : Place(t, n, s) = Place(t, n, z) => s = z
  <2> SUFFICES ASSUME NEW s \in Moved(t), NEW z \in Moved(t), Place(t, n, s) = Place(t, n, z)
               PROVE  s = z
    OBVIOUS
  <2>1. s < z \/ z < s \/ s = z
    BY <1>4
  <2> QED
    BY <1>3, <2>1
<1> QED
  BY <1>2, <1>5

\* Growing keeps the entries and puts each where its hash belongs.
LEMMA RehashFacts ==
    ASSUME NEW t, IsTable(t), InPlace(t), NEW n, n = 2 * Neighborhoods(t)
    PROVE  /\ IsTable(Rehash(t, n)) /\ Rehash(t, n) \in Seq(Entries)
           /\ \A s \in Moved(t) : /\ Place(t, n, s) \in Moved(Rehash(t, n))
                                  /\ Rehash(t, n)[Place(t, n, s)] = t[s]
           /\ \A z \in Moved(Rehash(t, n)) :
                \E s \in Moved(t) : z = Place(t, n, s) /\ Rehash(t, n)[z] = t[s]
           /\ InPlace(Rehash(t, n)) /\ Values(Rehash(t, n)) = Values(t)
<1> DEFINE R == Rehash(t, n)
<1>1. NeighLen \in Nat \ {0} /\ n \in Nat \ {0}
  BY TableFacts, HashTableAssumption
<1>2. Empty \in Entries /\ Empty.value = None
  BY DEF Empty, Entries
<1>3. \A s \in Moved(t) : s \in DOMAIN t /\ t[s] \in Entries /\ t[s].value # None
  BY TableFacts DEF Moved
<1>4. \A s \in Moved(t) : R[Place(t, n, s)] = t[s]
  <2> SUFFICES ASSUME NEW s \in Moved(t) PROVE R[Place(t, n, s)] = t[s]
    OBVIOUS
  <2>1. Place(t, n, s) \in 1 .. n * NeighLen
    BY PlaceFacts
  <2> DEFINE z == Place(t, n, s)
             u == CHOOSE u \in Moved(t) : Place(t, n, u) = z
  <2>2. R[z] = t[u]
    BY <2>1 DEF Rehash
  <2>3. u \in Moved(t) /\ Place(t, n, u) = z
    OBVIOUS
  <2>4. u = s
    BY <2>3, PlaceFacts
  <2> QED
    BY <2>2, <2>4
<1>5. DOMAIN R = 1 .. n * NeighLen
  BY DEF Rehash
<1>6. \A z \in DOMAIN R : \/ R[z] = Empty
                          \/ \E s \in Moved(t) : z = Place(t, n, s)
  BY DEF Rehash
<1>7. \A z \in DOMAIN R : R[z] \in Entries
  BY <1>2, <1>3, <1>4, <1>6
<1>8. R \in [1 .. n * NeighLen -> Entries]
  <2>1. R = [z \in 1 .. n * NeighLen |-> R[z]]
    BY DEF Rehash
  <2> QED
    BY <1>5, <1>7, <2>1
<1> HIDE DEF R
<1>9. IsTable(R) /\ Neighborhoods(R) = n /\ R \in Seq(Entries)
  BY <1>1, <1>8, MakeTable
<1>10. \A s \in Moved(t) : Place(t, n, s) \in Moved(R)
  BY <1>3, <1>4, <1>5, PlaceFacts DEF Moved
<1>11. \A z \in Moved(R) : \E s \in Moved(t) : z = Place(t, n, s) /\ R[z] = t[s]
  BY <1>2, <1>4, <1>6 DEF Moved
<1>12. InPlace(R)
  <2> SUFFICES ASSUME NEW z \in Moved(R)
               PROVE  \E i \in 1 .. NeighLen : z = (R[z].hash % n) * NeighLen + i
    BY <1>9 DEF InPlace
  <2>1. PICK s \in Moved(t) : z = Place(t, n, s) /\ R[z] = t[s]
    BY <1>11
  <2>2. \E i \in 1 .. NeighLen : Place(t, n, s) = (t[s].hash % n) * NeighLen + i
    BY PlaceFacts
  <2> QED
    BY <2>1, <2>2
<1>13. Values(R) = Values(t)
  <2>1. \A x : x \in Values(R) <=> \E z \in Moved(R) : R[z].value = x
    BY DEF Values, Moved
  <2>2. \A x : x \in Values(t) <=> \E z \in Moved(t) : t[z].value = x
    BY DEF Values, Moved
  <2>3. \A x \in Values(R) : x \in Values(t)
    BY <1>11, <2>1, <2>2
  <2>4. \A x \in Values(t) : x \in Values(R)
    BY <1>4, <1>10, <2>1, <2>2
  <2> QED
    BY <2>3, <2>4
<1> QED
  BY <1>4, <1>9, <1>10, <1>11, <1>12, <1>13 DEF R

----------------------------------------------------------------------------
(* Entries and values of a table.                                          *)

\* A value of the table is that of one of its entries.
LEMMA InValues ==
    ASSUME NEW t, NEW x
    PROVE  x \in Values(t) <=> \E s \in Moved(t) : t[s].value = x
BY DEF Values, Moved

\* The values of a table are finitely many.
LEMMA ValuesFacts ==
    ASSUME NEW t, IsTable(t)
    PROVE  Values(t) \subseteq Vals /\ IsFiniteSet(Values(t)) /\ Cardinality(Values(t)) \in Nat
<1>1. DOMAIN t = 1 .. Len(t) /\ Len(t) \in Nat /\ \A s \in DOMAIN t : t[s].value \in Vals \cup {None}
  BY TableFacts
<1>2. IsFiniteSet(DOMAIN t)
  BY <1>1, FS_Interval
<1> DEFINE T == {t[s].value : s \in DOMAIN t}
           f == [s \in DOMAIN t |-> t[s].value]
<1>3. f \in Surjection(DOMAIN t, T)
  BY DEF Surjection
<1> HIDE DEF f, T
<1>5. IsFiniteSet(T)
  BY <1>2, <1>3, FS_Surjection
<1>6. Values(t) \in SUBSET T
  BY DEF Values, T
<1>7. IsFiniteSet(Values(t))
  BY <1>5, <1>6, FS_Subset
<1>8. Values(t) \subseteq Vals
  BY <1>1 DEF Values
<1> QED
  BY <1>7, <1>8, FS_CardinalityType

\* Storing a value into an entry.
LEMMA StoreValue ==
    ASSUME NEW t, IsTable(t), NEW s \in DOMAIN t, NEW u, NEW v, DOMAIN u = DOMAIN t,
           u[s].value = v, \A z \in DOMAIN t \ {s} : u[z] = t[z]
    PROVE  /\ v # None => Moved(u) = Moved(t) \cup {s}
           /\ v = None => Moved(u) = Moved(t) \ {s}
           /\ Values(u) \subseteq Values(t) \cup {v}
           /\ v # None => v \in Values(u)
           /\ (\A y, z \in Moved(t) : t[y].value = t[z].value => y = z) =>
                Values(u) = (Values(t) \ {t[s].value}) \cup ({v} \ {None})
<1>1. v # None => Moved(u) = Moved(t) \cup {s}
  BY DEF Moved
<1>2. v = None => Moved(u) = Moved(t) \ {s}
  BY DEF Moved
<1>3. Values(u) \subseteq Values(t) \cup {v}
  BY DEF Values
<1>4. v # None => v \in Values(u)
  BY DEF Values
<1>5. ASSUME \A y, z \in Moved(t) : t[y].value = t[z].value => y = z
      PROVE  Values(u) = (Values(t) \ {t[s].value}) \cup ({v} \ {None})
  <2>1. ASSUME NEW x \in Values(u) PROVE x \in (Values(t) \ {t[s].value}) \cup ({v} \ {None})
    <3>1. PICK z \in DOMAIN u : u[z].value = x /\ x # None
      BY <2>1 DEF Values
    <3>2. CASE z = s
      BY <3>1, <3>2
    <3>3. CASE z # s
      <4>1. z \in Moved(t) /\ t[z].value = x
        BY <3>1, <3>3 DEF Moved
      <4>2. x # t[s].value
        BY <1>5, <3>1, <3>3, <4>1 DEF Moved
      <4> QED
        BY <4>1, <4>2, InValues
    <3> QED
      BY <3>2, <3>3
  <2>2. ASSUME NEW x \in Values(t), x # t[s].value PROVE x \in Values(u)
    BY <2>2 DEF Values
  <2> QED
    BY <1>4, <2>1, <2>2
<1> QED
  BY <1>1, <1>2, <1>3, <1>4, <1>5

\* A store into one slot replaces one value, as no value has two slots.
LEMMA StoreUnique ==
    ASSUME NEW t, IsTable(t), NEW s \in DOMAIN t, NEW u, NEW v, DOMAIN u = DOMAIN t,
           u[s].value = v, \A z \in DOMAIN t \ {s} : u[z] = t[z],
           \A y, z \in Moved(t) : t[y].value = t[z].value => y = z
    PROVE  Values(u) = (Values(t) \ {t[s].value}) \cup ({v} \ {None})
BY StoreValue

\* Storing a hash.
LEMMA StoreHash ==
    ASSUME NEW t, NEW s \in DOMAIN t, NEW u, DOMAIN u = DOMAIN t,
           u[s].value = t[s].value, \A z \in DOMAIN t \ {s} : u[z] = t[z]
    PROVE  /\ Moved(u) = Moved(t) /\ Values(u) = Values(t)
           /\ \A z \in DOMAIN t : u[z].value = t[z].value
<1>1. \A z \in DOMAIN t : u[z].value = t[z].value
  OBVIOUS
<1> QED
  BY <1>1 DEF Moved, Values

\* What is home stays home while the table has its size and, with lockless
\* reads, no entry is emptied.
LEMMA HomeKept ==
    ASSUME NEW ll \in BOOLEAN, NEW t, NEW u, IsTable(t), Len(u) = Len(t), NEW s, NEW hash \in Nat,
           ll => \A z \in DOMAIN t : t[z].value # None => u[z].value # None,
           HomeOf(ll, t, s, hash)
    PROVE  HomeOf(ll, u, s, hash)
<1>1. Neighborhoods(u) = Neighborhoods(t)
  BY DEF Neighborhoods
<1>2. ProbeOf(ll, u, hash) = ProbeOf(ll, t, hash)
  BY <1>1 DEF ProbeOf
<1>3. PICK i \in DOMAIN ProbeOf(ll, t, hash) :
        /\ ProbeOf(ll, t, hash)[i] = s
        /\ ll => \A h \in 1 .. i - 1 : t[ProbeOf(ll, t, hash)[h]].value # None
  BY DEF HomeOf
<1>4. i \in Nat /\ \A h \in 1 .. i - 1 : h \in DOMAIN ProbeOf(ll, t, hash)
  BY <1>3, ProbeFacts
<1>5. \A h \in 1 .. i - 1 : ProbeOf(ll, t, hash)[h] \in DOMAIN t
  BY <1>4, ProbeFacts
<1>6. ll => \A h \in 1 .. i - 1 : u[ProbeOf(ll, t, hash)[h]].value # None
  BY <1>3, <1>5
<1> QED
  BY <1>2, <1>3, <1>6 DEF HomeOf

\* Under the read lock an entry belongs anywhere in its neighborhood.
LEMMA HomeIn ==
    ASSUME NEW t, IsTable(t), NEW s, NEW hash \in Nat
    PROVE  HomeOf(FALSE, t, s, hash) <=>
             \E i \in 1 .. NeighLen : s = (hash % Neighborhoods(t)) * NeighLen + i
<1>1. DOMAIN ProbeOf(FALSE, t, hash) = 1 .. NeighLen
  BY ProbeFacts
<1>2. \A i \in 1 .. NeighLen :
        ProbeOf(FALSE, t, hash)[i] = (hash % Neighborhoods(t)) * NeighLen + i
  BY ProbeFacts
<1> QED
  BY <1>1, <1>2 DEF HomeOf

\* Home, with the mode of the table as a parameter
LEMMA HomeIs ==
    ASSUME NEW t, NEW s, NEW hash
    PROVE  Home(t, s, hash) <=> HomeOf(lockless_reads, t, s, hash)
BY ProbeIs DEF Home, HomeOf

----------------------------------------------------------------------------
(* Owners.  What a state says of the heap, for any heap.                   *)

FreedOf(T, c) ==
    CASE c.fn = "free_oldmd" -> Values(T[c.arg])
      [] c.fn = "free_old_neigh_table" -> {}
      [] OTHER -> {c.arg}

RetiredOf(C, W) == C \cup UNION {W[w].cbs \cup W[w].cb : w \in Writers}

CurrentOf(T, m) == IF m = None THEN {} ELSE Values(T[m])

\* Each allocated value has one owner.
OwnedVals(cur, ret, T, W, V) ==
    /\ \A v \in Vals :
        V[v] # None <=> \/ v \in cur
                        \/ \E c \in ret : v \in FreedOf(T, c)
                        \/ \E w \in Writers : W[w].new = v
    /\ \A v \in cur : /\ \A c \in ret : v \notin FreedOf(T, c)
                      /\ \A w \in Writers : W[w].new # v
    /\ \A c \in ret : \A v \in FreedOf(T, c) : \A w \in Writers : W[w].new # v
    /\ \A c, d \in ret : FreedOf(T, c) \cap FreedOf(T, d) # {} => c = d

\* Each allocated table has one owner.
OwnedTables(ret, T, m) ==
    /\ \A x \in Tables : T[x] # NoTable <=> x = m \/ \E c \in ret : x \in FreedTables(c)
    /\ \A c \in ret : m \notin FreedTables(c)
    /\ \A c, d \in ret : FreedTables(c) \cap FreedTables(d) # {} => c = d

\* The current table holds each value once.
HeldOnce(T, m) ==
    m # None => /\ T[m] # NoTable
                /\ \A s, z \in Moved(T[m]) : T[m][s].value = T[m][z].value => s = z

\* Ownership looks only at what callbacks free and insertions hold.
LEMMA OwnedSame ==
    ASSUME NEW cur, NEW ret, NEW T, NEW U, NEW W, NEW X, NEW V,
           OwnedVals(cur, ret, T, W, V), \A c \in ret : FreedOf(U, c) = FreedOf(T, c),
           \A w \in Writers : X[w].new = W[w].new
    PROVE  OwnedVals(cur, ret, U, X, V)
BY DEF OwnedVals

\* FreedVals, over any tables
LEMMA FreedIs ==
    ASSUME NEW c
    PROVE  FreedVals(c) = FreedOf(table, c) /\ FreedVals(c)' = FreedOf(table', c)
BY DEF FreedVals, FreedOf

\* Retired, over any callbacks
LEMMA RetiredIs ==
    Retired = RetiredOf(cbs, wr) /\ Retired' = RetiredOf(cbs', wr')
BY DEF Retired, RetiredOf

\* A retired thing is queued, taken by a synchronization or about to be queued.
LEMMA InRetired ==
    ASSUME NEW C, NEW W, NEW c
    PROVE  c \in RetiredOf(C, W) <=>
             c \in C \/ \E w \in Writers : c \in W[w].cbs \/ c \in W[w].cb
BY DEF RetiredOf

\* A step that moves no callback retires nothing.
LEMMA RetiredSame ==
    ASSUME cbs' = cbs, \A u \in Writers : wr'[u].cbs = wr[u].cbs /\ wr'[u].cb = wr[u].cb
    PROVE  Retired' = Retired
<1>1. \A c : c \in Retired <=> c \in cbs \/ \E u \in Writers : c \in wr[u].cbs \/ c \in wr[u].cb
  BY RetiredIs, InRetired
<1>2. \A c : c \in Retired' <=> c \in cbs' \/ \E u \in Writers : c \in wr'[u].cbs \/ c \in wr'[u].cb
  BY RetiredIs, InRetired
<1>3. \A c : c \in Retired' <=> c \in Retired
  BY <1>1, <1>2
<1> QED
  BY <1>3

\* Current, over any tables
LEMMA CurrentIs ==
    Current = CurrentOf(table, md) /\ Current' = CurrentOf(table', md')
BY DEF Current, CurrentOf

\* OwnersInv in the parts that steps change one at a time
LEMMA OwnersIs ==
    OwnersInv <=> /\ HeldOnce(table, md)
                  /\ OwnedVals(Current, Retired, table, wr, val)
                  /\ OwnedTables(Retired, table, md) /\ count = Cardinality(Current)
BY FreedIs DEF OwnersInv, HeldOnce, OwnedVals, OwnedTables

\* The same of the next state
LEMMA OwnersNext ==
    OwnersInv' <=> /\ HeldOnce(table', md')
                   /\ OwnedVals(Current', Retired', table', wr', val')
                   /\ OwnedTables(Retired', table', md') /\ count' = Cardinality(Current')
BY FreedIs DEF OwnersInv, HeldOnce, OwnedVals, OwnedTables

\* Callbacks have their arguments.
LEMMA CallbackTypes ==
    ASSUME NEW c \in Callbacks, NEW T
    PROVE  \/ c.fn = "free_oldmd" /\ c.arg \in Tables /\ FreedTables(c) = {c.arg} /\ FreedOf(T, c) = Values(T[c.arg])
           \/ c.fn = "free_old_neigh_table" /\ c.arg \in Tables /\ FreedTables(c) = {c.arg} /\ FreedOf(T, c) = {}
           \/ c.arg \in Vals /\ FreedTables(c) = {} /\ FreedOf(T, c) = {c.arg}
BY DEF Callbacks, FreedTables, FreedOf

\* What is retired are callbacks of the four kinds.
LEMMA RetiredTypes ==
    ASSUME TypeOK PROVE Retired \subseteq Callbacks
<1>1. cbs \subseteq Callbacks /\ \A w \in Writers : wr[w].cbs \subseteq Callbacks /\ wr[w].cb \subseteq Callbacks
  BY DEF TypeOK, Writer
<1> QED
  BY <1>1 DEF Retired

\* Callbacks free values and tables.
LEMMA FreedAre ==
    ASSUME TypeOK, OwnersInv, NEW c \in Retired
    PROVE  FreedOf(table, c) \subseteq Vals /\ FreedTables(c) \subseteq Tables
<1>1. c \in Callbacks
  BY RetiredTypes
<1>2. c.fn = "free_oldmd" => IsTable(table[c.arg])
  <2> SUFFICES ASSUME c.fn = "free_oldmd" PROVE IsTable(table[c.arg])
    OBVIOUS
  <2>1. c.arg \in Tables /\ c.arg \in FreedTables(c)
    BY <1>1 DEF Callbacks, FreedTables
  <2>2. table[c.arg] # NoTable
    BY <2>1, OwnersIs DEF OwnedTables
  <2> QED
    BY <2>1, <2>2 DEF TypeOK
<1> QED
  BY <1>1, <1>2, CallbackTypes, ValuesFacts

\* What a registered callback frees does not change while only the current
\* table is stored to and addresses without a table are allocated.
LEMMA FreedSame ==
    ASSUME TypeOK, OwnersInv, NEW c \in Retired, NEW T,
           \A x \in Tables : x # md /\ table[x] # NoTable => T[x] = table[x]
    PROVE  FreedOf(T, c) = FreedOf(table, c)
<1>1. c \in Callbacks
  BY RetiredTypes
<1>2. OwnedTables(Retired, table, md)
  BY OwnersIs
<1>3. CASE c.fn = "free_oldmd"
  <2>1. c.arg \in Tables /\ FreedTables(c) = {c.arg}
    BY <1>1, <1>3 DEF Callbacks, FreedTables
  <2>2. c.arg # md /\ table[c.arg] # NoTable
    BY <1>2, <2>1 DEF OwnedTables
  <2>3. T[c.arg] = table[c.arg]
    BY <2>1, <2>2
  <2> QED
    BY <1>3, <2>3 DEF FreedOf
<1>4. CASE c.fn # "free_oldmd"
  BY <1>4 DEF FreedOf
<1> QED
  BY <1>3, <1>4

----------------------------------------------------------------------------
(* Writers.                                                                *)

\* A writer without the lock has nothing at hand but callbacks to run.
LEMMA OtherWriter ==
    ASSUME NEW u \in Writers, WriterOK(u), lock # u, wr'[u] = wr[u], lock' # u, md' # None,
           lockless_reads' = lockless_reads
    PROVE  WriterOK(u)'
<1>1. /\ wr[u].pc \notin Holds /\ wr[u].new = None /\ wr[u].cb = {}
      /\ wr[u].pc # "wait" => wr[u].cbs = {}
      /\ lockless_reads => ~wr[u].replace /\ wr[u].cbs = {}
  BY DEF WriterOK, Holds
<1> QED
  BY <1>1 DEF WriterOK, Holds

\* A writer whose table and value stay keeps what it knows.
LEMMA WriterKept ==
    ASSUME NEW u \in Writers, WriterOK(u), lock' = u <=> lock = u,
           wr'[u].pc = wr[u].pc, wr'[u].key = wr[u].key, wr'[u].new = wr[u].new,
           wr'[u].replace = wr[u].replace, wr'[u].slot = wr[u].slot,
           wr'[u].cb = wr[u].cb, wr'[u].cbs = wr[u].cbs,
           md' = md, wr[u].pc \in Holds => table'[md] = table[md],
           wr[u].new # None => val'[wr[u].new] = val[wr[u].new],
           lockless_reads' = lockless_reads
    PROVE  WriterOK(u)'
<1>1. /\ wr[u].pc \in Holds <=> lock = u
      /\ wr[u].pc # "idle" => md # None
      /\ wr[u].new # None => /\ wr[u].pc \in {"insert", "store", "retire"}
                             /\ wr[u].key \in Keys /\ val[wr[u].new] = wr[u].key
      /\ wr[u].pc \in {"insert", "store"} => wr[u].new # None
      /\ wr[u].pc # "retire" => wr[u].cb = {}
      /\ wr[u].pc # "wait" => wr[u].cbs = {}
  BY DEF WriterOK
<1>2. wr[u].pc = "store" =>
        /\ wr[u].slot \in DOMAIN table[md]
        /\ table[md][wr[u].slot].hash = KeyHash[wr[u].key]
        /\ HomeOf(lockless_reads, table[md], wr[u].slot, KeyHash[wr[u].key])
  BY HomeIs DEF WriterOK
<1>3. wr[u].pc = "unlink" => wr[u].slot \in Moved(table[md])
  BY DEF WriterOK
<1>4. lockless_reads =>
        /\ wr[u].pc \notin {"unlink", "retire"} /\ ~wr[u].replace /\ wr[u].cbs = {}
        /\ wr[u].pc = "store" => table[md][wr[u].slot].value = None
  BY DEF WriterOK
<1>5. wr[u].pc = "store" =>
        /\ wr'[u].slot \in DOMAIN table'[md']
        /\ table'[md'][wr'[u].slot].hash = KeyHash[wr'[u].key]
        /\ HomeOf(lockless_reads', table'[md'], wr'[u].slot, KeyHash[wr'[u].key])
  BY <1>2 DEF Holds
<1>6. wr[u].pc = "store" => Home(table[md], wr[u].slot, KeyHash[wr[u].key])'
  <2>1. Home(table[md], wr[u].slot, KeyHash[wr[u].key])'
          <=> HomeOf(lockless_reads', table'[md'], wr'[u].slot, KeyHash[wr'[u].key])
    BY DEF Home, HomeOf, Probe, ProbeOf
  <2> QED
    BY <1>5, <2>1
<1>7. wr[u].pc = "unlink" => wr'[u].slot \in Moved(table'[md'])
  BY <1>3 DEF Holds
<1>8. lockless_reads => (wr[u].pc = "store" => table'[md'][wr'[u].slot].value = None)
  BY <1>4 DEF Holds
<1> QED
  BY <1>1, <1>4, <1>5, <1>6, <1>7, <1>8 DEF WriterOK

\* A writer that has let go of its operation
Fresh(x, p, C) ==
    /\ x.pc = p /\ x.new = None /\ x.cbs = {} /\ x.replace = FALSE /\ x.cb = C
    /\ x \in Writer

\* A writer that has finished a call holds nothing but its callback.
LEMMA FreshWriter ==
    ASSUME NEW x, NEW p \in Holds, NEW C \in SUBSET Callbacks,
           x = [NoWriter EXCEPT !.pc = p, !.cb = C]
    PROVE  Fresh(x, p, C)
BY DEF NoWriter, Fresh, Writer

\* Two writers do not both hold the lock.
LEMMA OneHolder ==
    ASSUME WritersInv, NEW w \in Writers, wr[w].pc \in Holds
    PROVE  lock = w /\ \A u \in Writers \ {w} : /\ wr[u].pc \notin Holds /\ wr[u].new = None
                                                /\ wr[u].cb = {}
BY DEF WritersInv, WriterOK, Holds

\* Callbacks: nothing is registered that was already.
LEMMA CallbacksKept ==
    ASSUME CallbacksInv, NEW w \in Writers, cbs' = cbs, wr'[w].cbs \subseteq wr[w].cbs,
           \A c \in wr'[w].cb : c \in wr[w].cb \/ c \notin Retired,
           \A u \in Writers \ {w} : wr'[u].cbs = wr[u].cbs /\ wr'[u].cb = wr[u].cb
    PROVE  CallbacksInv'
<1>1. \A c : c \in Retired <=> c \in cbs \/ \E u \in Writers : c \in wr[u].cbs \/ c \in wr[u].cb
  BY RetiredIs, InRetired
<1>2. \A c \in wr'[w].cb : c \notin cbs /\ (\A u \in Writers : c \notin wr[u].cbs)
  BY <1>1 DEF CallbacksInv
<1> SUFFICES ASSUME NEW u \in Writers
             PROVE  /\ cbs' \cap (wr'[u].cbs \cup wr'[u].cb) = {}
                    /\ wr'[u].cbs \cap wr'[u].cb = {}
                    /\ \A x \in Writers \ {u} : wr'[u].cbs \cap (wr'[x].cbs \cup wr'[x].cb) = {}
  BY DEF CallbacksInv
<1>3. /\ cbs \cap (wr[u].cbs \cup wr[u].cb) = {}
      /\ wr[u].cbs \cap wr[u].cb = {}
      /\ \A x \in Writers \ {u} : wr[u].cbs \cap (wr[x].cbs \cup wr[x].cb) = {}
  BY DEF CallbacksInv
<1>4. CASE u = w
  BY <1>2, <1>3, <1>4
<1>5. CASE u # w
  <2>1. wr'[u].cbs = wr[u].cbs /\ wr'[u].cb = wr[u].cb
    BY <1>5
  <2>2. ASSUME NEW x \in Writers \ {u} PROVE wr'[u].cbs \cap (wr'[x].cbs \cup wr'[x].cb) = {}
    <3>1. CASE x = w
      BY <1>2, <1>3, <2>1, <3>1
    <3>2. CASE x # w
      BY <1>3, <2>1, <3>2
    <3> QED
      BY <3>1, <3>2
  <2> QED
    BY <1>3, <2>1, <2>2
<1> QED
  BY <1>4, <1>5

----------------------------------------------------------------------------
(* Readers.                                                                *)

\* Reader r stays where it is.
Stays(r) ==
    /\ rd'[r].pc = rd[r].pc /\ rd'[r].key = rd[r].key /\ rd'[r].md = rd[r].md
    /\ rd'[r].at = rd[r].at /\ rd'[r].ival = rd[r].ival /\ rd'[r].got = rd[r].got
    /\ rd'[r].must \subseteq rd[r].must
    /\ rd[r].pc = "out" => rd'[r] = rd[r]

\* A step of a writer that notes nothing leaves the readers where they are.
LEMMA StaysSame ==
    ASSUME rd' = rd PROVE \A r \in Readers : Stays(r)
BY DEF Stays

\* The state of the lookups and iterations of a reader, for any state
ReachOf(T, q) ==
    (IF q.pc \in {"load", "hash", "each", "visit"} THEN Values(T[q.md]) ELSE {})
    \cup (IF q.pc \in {"hash", "visit"} THEN {q.ival} ELSE {}) \cup q.got

StepsOf(ll, T, q) == 1 .. (IF ll THEN Len(T[q.md]) ELSE NeighLen)

ReaderOf(r, q, ll, T, V, m, R, W) ==
    /\ q.pc = "out" => q = NoReader
    /\ q.pc # "out" => m # None /\ (ll \/ r \in R)
    /\ q.pc \in {"load", "hash", "each", "visit"} =>
        /\ q.md \in Tables /\ T[q.md] # NoTable
        /\ ll => q.md = m
        /\ \A w \in Writers : \A c \in W[w].cbs : q.md \in FreedTables(c) => r \in W[w].waits
    /\ q.pc \in {"load", "hash"} => q.key \in Keys /\ q.at \in StepsOf(ll, T, q)
    /\ ReachOf(T, q) \subseteq Vals
    /\ \A v \in ReachOf(T, q) :
        /\ V[v] # None
        /\ \A w \in Writers : W[w].new # v
        /\ \A w \in Writers : \A c \in W[w].cbs : v \in FreedOf(T, c) => r \in W[w].waits

\* The positions of a lookup, over any tables
LEMMA VisitsIs ==
    ASSUME NEW r
    PROVE  /\ DOMAIN Visits(r) = StepsOf(lockless_reads, table, rd[r])
           /\ (DOMAIN Visits(r))' = StepsOf(lockless_reads', table', rd'[r])
<1>1. Visits(r) = ProbeOf(lockless_reads, table[rd[r].md], KeyHash[rd[r].key])
  BY DEF Visits, Probe, ProbeOf
<1>2. Visits(r)' = ProbeOf(lockless_reads', table'[rd'[r].md], KeyHash[rd'[r].key])
  BY DEF Visits, Probe, ProbeOf
<1>3. ASSUME NEW ll, NEW T, NEW q, NEW h
      PROVE  DOMAIN ProbeOf(ll, T[q.md], h) = StepsOf(ll, T, q)
  BY DEF ProbeOf, StepsOf
<1> QED
  BY <1>1, <1>2, <1>3

\* ReaderOK, over any state of the heap
LEMMA ReaderIs ==
    ASSUME NEW r
    PROVE  ReaderOK(r) <=> ReaderOf(r, rd[r], lockless_reads, table, val, md, readers, wr)
<1>1. Reach(r) = ReachOf(table, rd[r])
  BY DEF Reach, ReachOf, Walks
<1> QED
  BY <1>1, VisitsIs, FreedIs DEF ReaderOK, ReaderOf, Walks, Lookup

\* The same of the next state
LEMMA ReaderNext ==
    ASSUME NEW r
    PROVE  ReaderOK(r)' <=> ReaderOf(r, rd'[r], lockless_reads', table', val', md', readers', wr')
<1>1. Reach(r)' = ReachOf(table', rd'[r])
  BY DEF Reach, ReachOf, Walks
<1>2. (DOMAIN Visits(r))' = StepsOf(lockless_reads', table', rd'[r])
  BY VisitsIs
<1>3. \A c : FreedVals(c)' = FreedOf(table', c)
  BY FreedIs
<1> QED
  BY <1>1, <1>2, <1>3 DEF ReaderOK, ReaderOf, Walks, Lookup

\* What a reader comes to it had before, or the table has it now.
LEMMA ReaderKept ==
    ASSUME NEW r \in Readers, ReaderOK(r), OwnersInv', Stays(r),
           readers' = readers, lockless_reads' = lockless_reads,
           rd[r].pc # "out" => md' # None,
           rd[r].pc # "out" => (lockless_reads => md' = md),
           Walks(r) => /\ table'[rd[r].md] # NoTable
                       /\ Len(table'[rd[r].md]) = Len(table[rd[r].md])
                       /\ Values(table'[rd[r].md]) \subseteq Values(table[rd[r].md]) \cup Current',
           Current' \subseteq Vals,
           \A v \in ReachOf(table, rd[r]) : val'[v] # None /\ \A w \in Writers : wr'[w].new # v,
           \A w \in Writers : \A c \in wr'[w].cbs :
              \/ rd[r].pc # "out" => r \in wr'[w].waits
              \/ /\ c \in wr[w].cbs /\ wr'[w].waits = wr[w].waits
                 /\ FreedOf(table', c) = FreedOf(table, c)
    PROVE  ReaderOK(r)'
<1> DEFINE q == rd[r]
           p == rd'[r]
<1>1. ReaderOf(r, q, lockless_reads, table, val, md, readers, wr)
  BY ReaderIs
<1>2. /\ p.pc = q.pc /\ p.key = q.key /\ p.md = q.md /\ p.at = q.at /\ p.ival = q.ival
      /\ p.got = q.got /\ (q.pc = "out" => p = q)
  BY DEF Stays
<1> HIDE DEF q, p
<1>3. ReachOf(table', p) \subseteq ReachOf(table, q) \cup Current'
  BY <1>2 DEF ReachOf, Walks, q
<1>4. \A v \in Current' : /\ val'[v] # None
                          /\ \A c \in Retired' : v \notin FreedOf(table', c)
                          /\ \A w \in Writers : wr'[w].new # v
  BY OwnersNext DEF OwnedVals
<1>5. \A w \in Writers : \A c \in wr'[w].cbs : c \in Retired'
  BY RetiredIs, InRetired
<1>6. q.pc = "out" => ReachOf(table', p) = {}
  BY <1>1, <1>2 DEF ReaderOf, ReachOf, NoReader
<1>7. ReachOf(table', p) \subseteq Vals
  BY <1>1, <1>3 DEF ReaderOf
<1>8. ASSUME NEW v \in ReachOf(table', p)
      PROVE  /\ val'[v] # None
             /\ \A w \in Writers : wr'[w].new # v
             /\ \A w \in Writers : \A c \in wr'[w].cbs : v \in FreedOf(table', c) => r \in wr'[w].waits
  <2>1. CASE v \in Current'
    BY <1>4, <1>5, <2>1
  <2>2. CASE v \in ReachOf(table, q)
    <3>1. val'[v] # None /\ \A w \in Writers : wr'[w].new # v
      BY <2>2 DEF q
    <3>2. q.pc # "out"
      BY <1>6, <1>8
    <3>3. ASSUME NEW w \in Writers, NEW c \in wr'[w].cbs, v \in FreedOf(table', c)
          PROVE  r \in wr'[w].waits
      <4>1. \/ r \in wr'[w].waits
            \/ /\ c \in wr[w].cbs /\ wr'[w].waits = wr[w].waits
               /\ FreedOf(table', c) = FreedOf(table, c)
        BY <3>2, <3>3 DEF q
      <4> QED
        BY <1>1, <2>2, <3>3, <4>1 DEF ReaderOf
    <3> QED
      BY <3>1, <3>3
  <2> QED
    BY <1>3, <1>8, <2>1, <2>2
<1>9. q.pc \in {"load", "hash", "each", "visit"} =>
        /\ q.md \in Tables /\ table'[q.md] # NoTable
        /\ lockless_reads => q.md = md'
        /\ \A w \in Writers : \A c \in wr'[w].cbs : q.md \in FreedTables(c) => r \in wr'[w].waits
  BY <1>1 DEF ReaderOf, Walks, q
<1>10. q.pc \in {"load", "hash"} => q.key \in Keys /\ p.at \in StepsOf(lockless_reads, table', p)
  <2> SUFFICES ASSUME q.pc \in {"load", "hash"}
               PROVE  q.key \in Keys /\ p.at \in StepsOf(lockless_reads, table', p)
    OBVIOUS
  <2>1. q.key \in Keys /\ q.at \in StepsOf(lockless_reads, table, q)
    BY <1>1 DEF ReaderOf
  <2>2. Len(table'[q.md]) = Len(table[q.md])
    BY DEF q, Walks
  <2> QED
    BY <1>2, <2>1, <2>2 DEF StepsOf
<1>11. q.pc # "out" => md' # None /\ (lockless_reads \/ r \in readers)
  BY <1>1 DEF ReaderOf, q
<1>12. q.pc = "out" => p = NoReader
  BY <1>1, <1>2 DEF ReaderOf
<1>13. ReaderOf(r, p, lockless_reads, table', val', md', readers, wr')
  BY <1>2, <1>7, <1>8, <1>9, <1>10, <1>11, <1>12 DEF ReaderOf
<1> QED
  BY <1>13, ReaderNext DEF p

\* An iteration, for any state
EachOf(T, q) ==
    /\ q.pc \in {"each", "visit"} =>
        /\ q.at \in DOMAIN T[q.md]
        /\ \A v \in q.must \ q.got :
            \E s \in DOMAIN T[q.md] :
                /\ s >= q.at /\ T[q.md][s].value = v
                /\ q.pc = "visit" /\ s = q.at => q.ival = v
    /\ q.pc = "in" => q.must \subseteq q.got

\* EachOK, over any tables
LEMMA EachIs ==
    ASSUME NEW r
    PROVE  /\ EachOK(r) <=> EachOf(table, rd[r])
           /\ EachOK(r)' <=> EachOf(table', rd'[r])
BY DEF EachOK, EachOf

\* An iteration is not disturbed by a store that leaves what it must hand out.
LEMMA EachKept ==
    ASSUME NEW r \in Readers, EachOK(r), Stays(r),
           rd[r].pc \in {"each", "visit"} =>
              /\ DOMAIN table'[rd[r].md] = DOMAIN table[rd[r].md]
              /\ \A s \in DOMAIN table[rd[r].md] :
                    table[rd[r].md][s].value \in rd'[r].must =>
                        table'[rd[r].md][s].value = table[rd[r].md][s].value
    PROVE  EachOK(r)'
<1> DEFINE q == rd[r]
           p == rd'[r]
<1>1. EachOf(table, q)
  BY EachIs
<1>2. /\ p.pc = q.pc /\ p.md = q.md /\ p.at = q.at /\ p.ival = q.ival
      /\ p.got = q.got /\ p.must \subseteq q.must
  BY DEF Stays
<1>3. q.pc \in {"each", "visit"} =>
              /\ DOMAIN table'[q.md] = DOMAIN table[q.md]
              /\ \A s \in DOMAIN table[q.md] :
                    table[q.md][s].value \in p.must => table'[q.md][s].value = table[q.md][s].value
  OBVIOUS
<1> HIDE DEF q, p
<1>4. EachOf(table', p)
  BY <1>1, <1>2, <1>3 DEF EachOf
<1> QED
  BY <1>4, EachIs DEF p

\* Steps that leave the readers and the memory alone, and take no callbacks
LEMMA ReadersIdle ==
    ASSUME TypeOK, OwnersInv, ReadersInv, EachInv, OwnersInv', rd' = rd, readers' = readers,
           lockless_reads' = lockless_reads, md' = md, table' = table,
           \A v \in Vals : val[v] # None => val'[v] # None \/ \E w \in Writers : wr[w].new = v,
           \A w \in Writers : \/ wr'[w].new = wr[w].new \/ wr'[w].new = None
                              \/ wr'[w].new \in Vals /\ val[wr'[w].new] = None,
           \A w \in Writers : \/ wr'[w].cbs = {}
                              \/ wr'[w].cbs = wr[w].cbs /\ wr'[w].waits = wr[w].waits
                              \/ readers \subseteq wr'[w].waits,
           lockless_reads => \A w \in Writers : wr'[w].cbs = {}
    PROVE  ReadersInv' /\ EachInv'
<1>1. Current' = Current /\ Current \subseteq Vals
  <2>1. md # None => IsTable(table[md])
    BY DEF TypeOK, OwnersInv
  <2>2. md # None => Values(table[md]) \subseteq Vals
    BY <2>1, ValuesFacts
  <2> QED
    BY <2>2 DEF Current
<1>2. ASSUME NEW r \in Readers PROVE ReaderOK(r)' /\ EachOK(r)'
  <2>1. ReaderOK(r) /\ EachOK(r) /\ Stays(r)
    BY StaysSame DEF ReadersInv, EachInv
  <2>2. ReaderOf(r, rd[r], lockless_reads, table, val, md, readers, wr)
    BY <2>1, ReaderIs
  <2>3. \A v \in ReachOf(table, rd[r]) :
          v \in Vals /\ val[v] # None /\ \A w \in Writers : wr[w].new # v
    BY <2>2 DEF ReaderOf
  <2>4. \A v \in ReachOf(table, rd[r]) : val'[v] # None /\ \A w \in Writers : wr'[w].new # v
    BY <2>3, HashTableAssumption
  <2>5. rd[r].pc # "out" => md # None /\ (lockless_reads \/ r \in readers)
    BY <2>2 DEF ReaderOf
  <2>6. Walks(r) => table[rd[r].md] # NoTable
    BY <2>2 DEF ReaderOf, Walks
  <2>7. \A w \in Writers : \A c \in wr'[w].cbs :
              \/ rd[r].pc # "out" => r \in wr'[w].waits
              \/ /\ c \in wr[w].cbs /\ wr'[w].waits = wr[w].waits
                 /\ FreedOf(table', c) = FreedOf(table, c)
    BY <2>5
  <2>8. ReaderOK(r)'
    BY <1>1, <2>1, <2>4, <2>5, <2>6, <2>7, ReaderKept
  <2>9. EachOK(r)'
    BY <2>1, EachKept
  <2> QED
    BY <2>8, <2>9
<1> QED
  BY <1>2 DEF ReadersInv, EachInv

----------------------------------------------------------------------------
(* The table.                                                              *)

DeletingOf(W, s) == \E w \in Writers : W[w].pc = "unlink" /\ W[w].slot = s

TableOf(ll, T, m, V, W) ==
    m # None =>
        \A s \in Moved(T[m]) : ~DeletingOf(W, s) =>
            /\ T[m][s].hash = KeyHash[V[T[m][s].value]]
            /\ HomeOf(ll, T[m], s, T[m][s].hash)

\* TableInv, over any state
LEMMA TableIs ==
    TableInv <=> (lockless_reads => cbs = {}) /\ TableOf(lockless_reads, table, md, val, wr)
BY HomeIs DEF TableInv, TableOf, Deleting, DeletingOf

\* The same of the next state
LEMMA TableNext ==
    TableInv' <=> (lockless_reads' => cbs' = {}) /\ TableOf(lockless_reads', table', md', val', wr')
<1>1. \A t, s, h : Home(t, s, h)' <=> HomeOf(lockless_reads', t', s', h')
  BY DEF Home, HomeOf, Probe, ProbeOf
<1> QED
  BY <1>1 DEF TableInv, TableOf, Deleting, DeletingOf

\* The current table is a table.
LEMMA CurrentTable ==
    ASSUME TypeOK, OwnersInv, md # None
    PROVE  /\ md \in Tables /\ IsTable(table[md]) /\ table[md] # NoTable
           /\ Current = Values(table[md]) /\ Current \subseteq Vals
           /\ IsFiniteSet(Current) /\ Cardinality(Current) \in Nat
<1>1. md \in Tables /\ table[md] # NoTable
  BY DEF TypeOK, OwnersInv
<1>2. IsTable(table[md])
  BY <1>1 DEF TypeOK
<1> QED
  BY <1>1, <1>2, ValuesFacts DEF Current

----------------------------------------------------------------------------
(* Steps of writers that store nothing to the heap.                        *)

\* A step that leaves the heap and the callbacks alone keeps the owners.
LEMMA OwnersKept ==
    ASSUME OwnersInv, table' = table, md' = md, val' = val, count' = count,
           Retired' = Retired, \A u \in Writers : wr'[u].new = wr[u].new
    PROVE  OwnersInv'
<1>1. Current' = Current
  BY DEF Current
<1> QED
  BY <1>1, OwnersIs, OwnersNext DEF OwnedVals

\* A step that leaves the table and the deletion in it alone keeps its entries.
LEMMA TableKept ==
    ASSUME TableInv, lockless_reads' = lockless_reads, table' = table, md' = md, val' = val,
           lockless_reads => cbs' = {},
           \A u \in Writers : wr[u].pc = "unlink" => wr'[u].pc = "unlink" /\ wr'[u].slot = wr[u].slot
    PROVE  TableInv'
<1>1. \A s : DeletingOf(wr, s) => DeletingOf(wr', s)
  BY DEF DeletingOf
<1> QED
  BY <1>1, TableIs, TableNext DEF TableOf

\* ossl_ht_write_lock: the lock gets its one holder.
LEMMA WriteLockKeeps ==
    ASSUME HashTableInv, NEW w \in Writers, WriteLock(w)
    PROVE  HashTableInv'
<1> USE DEF HashTableInv
<1>1. /\ UNCHANGED <<lockless_reads, table, md, val, count, readers, cbs, rd>>
      /\ wr[w].pc = "idle" /\ lock = None /\ md # None /\ lock' = w /\ need_sync' = FALSE
      /\ wr' = [wr EXCEPT ![w].pc = "locked"]
  BY DEF WriteLock, WriterAt
<1>2. wr \in [Writers -> Writer] /\ wr[w] \in Writer /\ wr'[w] = [wr[w] EXCEPT !.pc = "locked"]
  BY <1>1 DEF TypeOK
<1>3. /\ wr'[w].pc = "locked" /\ wr'[w].new = wr[w].new /\ wr'[w].cb = wr[w].cb
      /\ wr'[w].cbs = wr[w].cbs /\ wr'[w].waits = wr[w].waits /\ wr'[w].replace = wr[w].replace
      /\ wr'[w] \in Writer
  BY <1>2 DEF Writer, Holds
<1>4. \A u \in Writers \ {w} : wr'[u] = wr[u]
  BY <1>1, <1>2
<1>5. TypeOK'
  <2>1. wr' \in [Writers -> Writer]
    BY <1>1, <1>2, <1>3
  <2> QED
    BY <1>1, <2>1 DEF TypeOK
<1>6. WritersInv'
  <2>1. WriterOK(w)'
    BY <1>1, <1>3 DEF WritersInv, WriterOK, Holds
  <2>2. \A u \in Writers \ {w} : WriterOK(u)'
    BY <1>1, <1>4, OtherWriter, HashTableAssumption DEF WritersInv
  <2> QED
    BY <2>1, <2>2 DEF WritersInv
<1>7. TableInv'
  BY <1>1, <1>3, <1>4, TableKept, TableIs
<1>8. CallbacksInv'
  BY <1>1, <1>3, <1>4, CallbacksKept
<1>9. Retired' = Retired
  BY <1>1, <1>3, <1>4, RetiredSame
<1>10. OwnersInv'
  BY <1>1, <1>3, <1>4, <1>9, OwnersKept
<1>11. ReadersInv' /\ EachInv'
  <2>1. \A u \in Writers : /\ wr'[u].new = wr[u].new
                           /\ wr'[u].cbs = wr[u].cbs /\ wr'[u].waits = wr[u].waits
    BY <1>3, <1>4
  <2>2. lockless_reads => \A u \in Writers : wr'[u].cbs = {}
    BY <2>1 DEF WritersInv, WriterOK
  <2> QED
    BY <1>1, <1>10, <2>1, <2>2, ReadersIdle
<1> QED
  BY <1>5, <1>6, <1>7, <1>8, <1>10, <1>11

\* ossl_ht_write_unlock hands over to the synchronization.
LEMMA WriteUnlockKeeps ==
    ASSUME HashTableInv, NEW w \in Writers, WriteUnlock(w)
    PROVE  HashTableInv'
<1> USE DEF HashTableInv
<1>1. /\ UNCHANGED <<lockless_reads, table, md, val, count, readers, cbs, rd>>
      /\ wr[w].pc = "locked" /\ lock' = None /\ need_sync' = FALSE
      /\ wr' = [wr EXCEPT ![w] = IF need_sync THEN [NoWriter EXCEPT !.pc = "sync"] ELSE NoWriter]
  BY DEF WriteUnlock, WriterAt
<1>2. wr \in [Writers -> Writer] /\ wr[w] \in Writer
  BY <1>1 DEF TypeOK
<1>3. /\ wr'[w].pc \in {"idle", "sync"} /\ wr'[w].new = None /\ wr'[w].cb = {}
      /\ wr'[w].cbs = {} /\ wr'[w].replace = FALSE /\ wr'[w] \in Writer
  BY <1>1, <1>2 DEF Writer, Holds, NoWriter
<1>4. \A u \in Writers \ {w} : wr'[u] = wr[u]
  BY <1>1, <1>2
<1>5. TypeOK'
  <2>1. wr' \in [Writers -> Writer]
    BY <1>1, <1>2, <1>3
  <2> QED
    BY <1>1, <2>1 DEF TypeOK
<1>6. wr[w].new = None /\ wr[w].cb = {} /\ wr[w].cbs = {} /\ md # None
  BY <1>1 DEF WritersInv, WriterOK
<1>7. WritersInv'
  <2>1. WriterOK(w)'
    BY <1>1, <1>3, <1>6, HashTableAssumption DEF WriterOK, Holds
  <2>2. \A u \in Writers \ {w} : WriterOK(u)'
    BY <1>1, <1>4, <1>6, OtherWriter, OneHolder, HashTableAssumption DEF WritersInv, Holds
  <2> QED
    BY <2>1, <2>2 DEF WritersInv
<1>8. TableInv'
  BY <1>1, <1>3, <1>4, TableKept, TableIs
<1>9. CallbacksInv'
  BY <1>1, <1>3, <1>4, CallbacksKept
<1>10. Retired' = Retired
  BY <1>1, <1>3, <1>4, <1>6, RetiredSame
<1>11. OwnersInv'
  BY <1>1, <1>3, <1>4, <1>6, <1>10, OwnersKept
<1>12. ReadersInv' /\ EachInv'
  <2>1. \A u \in Writers : /\ wr'[u].new = wr[u].new
                           /\ \/ wr'[u].cbs = {}
                              \/ wr'[u].cbs = wr[u].cbs /\ wr'[u].waits = wr[u].waits
    BY <1>3, <1>4, <1>6
  <2>2. lockless_reads => \A u \in Writers : wr'[u].cbs = {}
    BY <1>3, <1>4 DEF WritersInv, WriterOK
  <2> QED
    BY <1>1, <1>11, <2>1, <2>2, ReadersIdle
<1> QED
  BY <1>5, <1>7, <1>8, <1>9, <1>11, <1>12

\* A synchronization takes the callbacks and waits for all readers inside,
\* among them those that can reach what the callbacks will free.
LEMMA SyncTakeKeeps ==
    ASSUME HashTableInv, NEW w \in Writers, SyncTake(w)
    PROVE  HashTableInv'
<1> USE DEF HashTableInv
<1>1. /\ UNCHANGED <<lockless_reads, table, md, val, count, need_sync, lock, readers, rd>>
      /\ wr[w].pc = "sync" /\ cbs' = {}
      /\ wr' = [wr EXCEPT ![w].pc = "wait", ![w].cbs = cbs, ![w].waits = readers]
  BY DEF SyncTake, WriterAt
<1>2. /\ wr \in [Writers -> Writer] /\ wr[w] \in Writer
      /\ cbs \subseteq Callbacks /\ readers \subseteq Readers
  BY <1>1 DEF TypeOK
<1>3. wr'[w] = [[[wr[w] EXCEPT !.pc = "wait"] EXCEPT !.cbs = cbs] EXCEPT !.waits = readers]
  BY <1>1, <1>2
<1>4. /\ wr'[w].pc = "wait" /\ wr'[w].new = wr[w].new /\ wr'[w].cb = wr[w].cb
      /\ wr'[w].cbs = cbs /\ wr'[w].waits = readers /\ wr'[w].replace = wr[w].replace
      /\ wr'[w] \in Writer
  BY <1>2, <1>3 DEF Writer, Holds
<1>5. \A u \in Writers \ {w} : wr'[u] = wr[u]
  BY <1>1, <1>2
<1>6. TypeOK'
  <2>1. wr' \in [Writers -> Writer]
    BY <1>1, <1>2, <1>4
  <2> QED
    BY <1>1, <2>1 DEF TypeOK
<1>7. /\ wr[w].new = None /\ wr[w].cb = {} /\ wr[w].cbs = {} /\ md # None /\ lock # w
      /\ lockless_reads => ~wr[w].replace
  BY <1>1 DEF WritersInv, WriterOK, Holds
<1>8. lockless_reads => cbs = {}
  BY TableIs
<1>9. WritersInv'
  <2>1. WriterOK(w)'
    BY <1>1, <1>4, <1>7, <1>8 DEF WriterOK, Holds
  <2>2. \A u \in Writers \ {w} : WriterOK(u)'
    BY <1>1, <1>5, WriterKept DEF WritersInv
  <2> QED
    BY <2>1, <2>2 DEF WritersInv
<1>10. TableInv'
  BY <1>1, <1>4, <1>5, TableKept
<1>11. CallbacksInv'
  <2> SUFFICES ASSUME NEW x \in Writers
               PROVE  /\ cbs' \cap (wr'[x].cbs \cup wr'[x].cb) = {}
                      /\ wr'[x].cbs \cap wr'[x].cb = {}
                      /\ \A y \in Writers \ {x} : wr'[x].cbs \cap (wr'[y].cbs \cup wr'[y].cb) = {}
    BY DEF CallbacksInv
  <2>1. \A y \in Writers : cbs \cap (wr[y].cbs \cup wr[y].cb) = {} /\ wr[y].cbs \cap wr[y].cb = {}
    BY DEF CallbacksInv
  <2>2. \A y \in Writers \ {x} : wr[x].cbs \cap (wr[y].cbs \cup wr[y].cb) = {}
    BY DEF CallbacksInv
  <2>3. CASE x = w
    BY <1>1, <1>4, <1>5, <1>7, <2>1, <2>3
  <2>4. CASE x # w
    BY <1>1, <1>4, <1>5, <1>7, <2>1, <2>2, <2>4
  <2> QED
    BY <2>3, <2>4
<1>12. Retired' = Retired
  <2>1. \A c : c \in Retired <=> c \in cbs \/ \E u \in Writers : c \in wr[u].cbs \/ c \in wr[u].cb
    BY RetiredIs, InRetired
  <2>2. \A c : c \in Retired' <=> c \in cbs' \/ \E u \in Writers : c \in wr'[u].cbs \/ c \in wr'[u].cb
    BY RetiredIs, InRetired
  <2>3. ASSUME NEW c \in Retired PROVE c \in Retired'
    <3>1. CASE c \in cbs
      BY <1>4, <2>2, <3>1
    <3>2. CASE \E u \in Writers : c \in wr[u].cbs \/ c \in wr[u].cb
      BY <1>5, <1>7, <2>2, <3>2
    <3> QED
      BY <2>1, <3>1, <3>2
  <2>4. ASSUME NEW c \in Retired' PROVE c \in Retired
    <3>1. PICK u \in Writers : c \in wr'[u].cbs \/ c \in wr'[u].cb
      BY <1>1, <2>2
    <3>2. CASE u = w
      BY <1>4, <1>7, <2>1, <3>1, <3>2
    <3>3. CASE u # w
      BY <1>5, <2>1, <3>1, <3>3
    <3> QED
      BY <3>2, <3>3
  <2> QED
    BY <2>3, <2>4
<1>13. OwnersInv'
  BY <1>1, <1>4, <1>5, <1>12, OwnersKept
<1>14. ReadersInv' /\ EachInv'
  <2>1. \A u \in Writers : /\ wr'[u].new = wr[u].new
                           /\ \/ wr'[u].cbs = wr[u].cbs /\ wr'[u].waits = wr[u].waits
                              \/ readers \subseteq wr'[u].waits
    BY <1>4, <1>5
  <2>2. lockless_reads => \A u \in Writers : wr'[u].cbs = {}
    BY <1>4, <1>5, <1>8 DEF WritersInv, WriterOK
  <2> QED
    BY <1>1, <1>13, <2>1, <2>2, ReadersIdle
<1> QED
  BY <1>6, <1>9, <1>10, <1>11, <1>13, <1>14

\* ossl_rcu_call: the writer's callback joins the queue.
LEMMA RetireKeeps ==
    ASSUME HashTableInv, NEW w \in Writers, Retire(w)
    PROVE  HashTableInv'
<1> USE DEF HashTableInv
<1>1. /\ UNCHANGED <<lockless_reads, table, md, val, count, lock, readers, rd>>
      /\ wr[w].pc = "retire" /\ cbs' = cbs \cup wr[w].cb /\ need_sync' = TRUE
      /\ wr' = [wr EXCEPT ![w].pc = IF wr[w].new = None THEN "locked" ELSE "insert",
                          ![w].cb = {}]
  BY DEF Retire, WriterAt
<1>2. wr \in [Writers -> Writer] /\ wr[w] \in Writer /\ cbs \subseteq Callbacks /\ wr[w].cb \subseteq Callbacks
  BY <1>1 DEF TypeOK, Writer
<1> DEFINE p == IF wr[w].new = None THEN "locked" ELSE "insert"
<1>3. wr'[w] = [[wr[w] EXCEPT !.pc = p] EXCEPT !.cb = {}]
  BY <1>1, <1>2
<1>4. p \in {"locked", "insert"} /\ (p = "insert" <=> wr[w].new # None)
  OBVIOUS
<1> HIDE DEF p
<1>5. /\ wr'[w].pc = p /\ wr'[w].new = wr[w].new /\ wr'[w].cb = {} /\ wr'[w].key = wr[w].key
      /\ wr'[w].cbs = wr[w].cbs /\ wr'[w].waits = wr[w].waits /\ wr'[w].replace = wr[w].replace
      /\ wr'[w] \in Writer
  BY <1>2, <1>3, <1>4 DEF Writer, Holds
<1>6. \A u \in Writers \ {w} : wr'[u] = wr[u]
  BY <1>1, <1>2
<1>7. TypeOK'
  <2>1. wr' \in [Writers -> Writer]
    BY <1>1, <1>2, <1>5
  <2>2. cbs' \subseteq Callbacks
    BY <1>1, <1>2
  <2> QED
    BY <1>1, <2>1, <2>2 DEF TypeOK
<1>8. /\ wr[w].cbs = {} /\ md # None /\ lock = w /\ ~lockless_reads
      /\ wr[w].new # None => wr[w].key \in Keys /\ val[wr[w].new] = wr[w].key
  BY <1>1 DEF WritersInv, WriterOK, Holds
<1>9. WritersInv'
  <2>1. WriterOK(w)'
    BY <1>1, <1>4, <1>5, <1>8 DEF WriterOK, Holds
  <2>2. \A u \in Writers \ {w} : WriterOK(u)'
    BY <1>1, <1>6, WriterKept DEF WritersInv
  <2> QED
    BY <2>1, <2>2 DEF WritersInv
<1>10. TableInv'
  BY <1>1, <1>6, <1>8, TableKept
<1>11. CallbacksInv'
  <2>1. \A u \in Writers \ {w} : wr[u].cb = {}
    BY <1>1, OneHolder DEF Holds
  <2>2. \A u \in Writers \ {w} : wr[u].cbs \cap wr[w].cb = {}
    BY DEF CallbacksInv
  <2>3. \A u \in Writers : cbs \cap wr[u].cbs = {} /\ wr[u].cbs \cap wr[u].cb = {}
    BY DEF CallbacksInv
  <2>4. \A u \in Writers : wr'[u].cb = {} /\ wr'[u].cbs = wr[u].cbs
    BY <1>5, <1>6, <2>1
  <2>5. \A u \in Writers : cbs' \cap wr'[u].cbs = {}
    BY <1>1, <1>8, <2>2, <2>3, <2>4
  <2>6. \A u, x \in Writers : u # x => wr'[u].cbs \cap wr'[x].cbs = {}
    BY <2>4 DEF CallbacksInv
  <2> QED
    BY <2>4, <2>5, <2>6 DEF CallbacksInv
<1>12. Retired' = Retired
  <2>1. \A c : c \in Retired <=> c \in cbs \/ \E u \in Writers : c \in wr[u].cbs \/ c \in wr[u].cb
    BY RetiredIs, InRetired
  <2>2. \A c : c \in Retired' <=> c \in cbs' \/ \E u \in Writers : c \in wr'[u].cbs \/ c \in wr'[u].cb
    BY RetiredIs, InRetired
  <2>3. \A c \in Retired : c \in Retired'
    BY <1>1, <1>5, <1>6, <2>1, <2>2
  <2>4. \A c \in Retired' : c \in Retired
    BY <1>1, <1>5, <1>6, <2>1, <2>2
  <2> QED
    BY <2>3, <2>4
<1>13. OwnersInv'
  BY <1>1, <1>5, <1>6, <1>12, OwnersKept
<1>14. ReadersInv' /\ EachInv'
  <2>1. \A u \in Writers : /\ wr'[u].new = wr[u].new
                           /\ wr'[u].cbs = wr[u].cbs /\ wr'[u].waits = wr[u].waits
    BY <1>5, <1>6
  <2> QED
    BY <1>1, <1>8, <1>13, <2>1, ReadersIdle
<1> QED
  BY <1>7, <1>9, <1>10, <1>11, <1>13, <1>14

----------------------------------------------------------------------------
(* Insertions that allocate and give up.                                   *)

\* An insertion owns the value it allocates, which no reader has seen.
LEMMA InsertCallKeeps ==
    ASSUME HashTableInv, NEW w \in Writers, NEW key \in Keys, NEW replace \in BOOLEAN,
           InsertCall(w, key, replace)
    PROVE  HashTableInv'
<1> USE DEF HashTableInv
<1>1. PICK v \in Vals :
        /\ val[v] = None /\ val' = [val EXCEPT ![v] = key]
        /\ wr' = [wr EXCEPT ![w] = [@ EXCEPT !.pc = "insert", !.key = key,
                                             !.new = v, !.replace = replace]]
  BY DEF InsertCall
<1>2. /\ UNCHANGED <<lockless_reads, table, md, count, need_sync, lock, readers, cbs, rd>>
      /\ wr[w].pc = "locked" /\ (replace => ~lockless_reads)
  BY DEF InsertCall, WriterAt
<1>3. wr \in [Writers -> Writer] /\ wr[w] \in Writer /\ val \in [Vals -> Keys \cup {None}]
  BY DEF TypeOK
<1>4. wr'[w] = [[[[wr[w] EXCEPT !.pc = "insert"] EXCEPT !.key = key] EXCEPT !.new = v] EXCEPT !.replace = replace]
  BY <1>1, <1>3
<1>5. /\ wr'[w].pc = "insert" /\ wr'[w].new = v /\ wr'[w].cb = wr[w].cb /\ wr'[w].key = key
      /\ wr'[w].cbs = wr[w].cbs /\ wr'[w].waits = wr[w].waits /\ wr'[w].replace = replace
      /\ wr'[w] \in Writer
  BY <1>3, <1>4 DEF Writer, Holds
<1>6. \A u \in Writers \ {w} : wr'[u] = wr[u]
  BY <1>1, <1>3
<1>7. val'[v] = key /\ key # None /\ v # None /\ \A x \in Vals \ {v} : val'[x] = val[x]
  BY <1>1, <1>3, HashTableAssumption
<1>8. TypeOK'
  <2>1. wr' \in [Writers -> Writer]
    BY <1>1, <1>3, <1>5
  <2>2. val' \in [Vals -> Keys \cup {None}]
    BY <1>1, <1>3
  <2> QED
    BY <1>2, <2>1, <2>2 DEF TypeOK
<1>9. /\ wr[w].new = None /\ wr[w].cb = {} /\ wr[w].cbs = {} /\ md # None /\ lock = w
  BY <1>2 DEF WritersInv, WriterOK, Holds
<1>10. OwnedVals(Current, Retired, table, wr, val)
  BY OwnersIs
<1>11. /\ v \notin Current /\ (\A c \in Retired : v \notin FreedOf(table, c))
       /\ \A u \in Writers : wr[u].new # v
  BY <1>1, <1>10 DEF OwnedVals
<1>12. WritersInv'
  <2>1. WriterOK(w)'
    BY <1>2, <1>5, <1>7, <1>9 DEF WriterOK, Holds
  <2>2. \A u \in Writers \ {w} : WriterOK(u)'
    BY <1>2, <1>6, <1>9, OtherWriter DEF WritersInv
  <2> QED
    BY <2>1, <2>2 DEF WritersInv
<1>13. TableInv'
  <2>1. \A s : DeletingOf(wr, s) <=> DeletingOf(wr', s)
    BY <1>2, <1>5, <1>6 DEF DeletingOf
  <2>2. \A s \in Moved(table[md]) : table[md][s].value \in Current
    BY <1>9, CurrentTable, InValues
  <2>3. Current \subseteq Vals
    BY <1>9, CurrentTable
  <2>4. \A s \in Moved(table[md]) : val'[table[md][s].value] = val[table[md][s].value]
    BY <1>7, <1>11, <2>2, <2>3
  <2>5. TableOf(lockless_reads', table', md', val', wr')
    BY <1>2, <2>1, <2>4, TableIs DEF TableOf
  <2> QED
    BY <1>2, <2>5, TableIs, TableNext
<1>14. CallbacksInv'
  BY <1>2, <1>5, <1>6, CallbacksKept
<1>15. Retired' = Retired /\ Current' = Current
  BY <1>2, <1>5, <1>6, RetiredSame DEF Current
<1>16. OwnersInv'
  <2>1. \A x \in Vals : (val'[x] # None <=> val[x] # None \/ x = v)
    BY <1>7
  <2>2. \A x \in Vals : (\E u \in Writers : wr'[u].new = x) <=> (x = v \/ \E u \in Writers : wr[u].new = x)
    BY <1>5, <1>6, <1>9, HashTableAssumption
  <2>3. Current \subseteq Vals /\ \A c \in Retired : FreedOf(table, c) \subseteq Vals
    BY <1>9, CurrentTable, FreedAre
  <2>4. OwnedVals(Current', Retired', table', wr', val')
    <3>1. \A x \in Vals : val'[x] # None <=> \/ x \in Current
                                             \/ \E c \in Retired : x \in FreedOf(table, c)
                                             \/ \E u \in Writers : wr'[u].new = x
      BY <1>10, <2>1, <2>2 DEF OwnedVals
    <3>2. \A x \in Current : /\ \A c \in Retired : x \notin FreedOf(table, c)
                             /\ \A u \in Writers : wr'[u].new # x
      BY <1>10, <1>11, <2>2, <2>3 DEF OwnedVals
    <3>3. \A c \in Retired : \A x \in FreedOf(table, c) : \A u \in Writers : wr'[u].new # x
      BY <1>10, <1>11, <2>2, <2>3 DEF OwnedVals
    <3> QED
      BY <1>2, <1>10, <1>15, <3>1, <3>2, <3>3 DEF OwnedVals
  <2> QED
    BY <1>2, <1>15, <2>4, OwnersIs, OwnersNext
<1>17. ReadersInv' /\ EachInv'
  <2>1. \A u \in Writers : /\ wr'[u].new = wr[u].new \/ (wr'[u].new \in Vals /\ val[wr'[u].new] = None)
                           /\ wr'[u].cbs = wr[u].cbs /\ wr'[u].waits = wr[u].waits
    BY <1>1, <1>5, <1>6
  <2>2. lockless_reads => \A u \in Writers : wr'[u].cbs = {}
    BY <2>1 DEF WritersInv, WriterOK
  <2>3. \A x \in Vals : val[x] # None => val'[x] # None
    BY <1>7
  <2> QED
    BY <1>2, <1>16, <2>1, <2>2, <2>3, ReadersIdle
<1> QED
  BY <1>8, <1>12, <1>13, <1>14, <1>16, <1>17

\* A failed insertion frees its own value and nothing else.
LEMMA InsertFailsKeeps ==
    ASSUME HashTableInv, NEW w \in Writers, wr[w].pc = "insert", InsertFails(w)
    PROVE  HashTableInv'
<1> USE DEF HashTableInv
<1> DEFINE v == wr[w].new
<1>1. /\ UNCHANGED <<lockless_reads, table, md, count, need_sync, lock, readers, cbs, rd>>
      /\ val' = [val EXCEPT ![v] = None]
      /\ wr' = [wr EXCEPT ![w] = [NoWriter EXCEPT !.pc = "locked"]]
  BY DEF InsertFails
<1>2. wr \in [Writers -> Writer] /\ wr[w] \in Writer /\ val \in [Vals -> Keys \cup {None}]
  BY DEF TypeOK
<1>3. /\ wr'[w].pc = "locked" /\ wr'[w].new = None /\ wr'[w].cb = {}
      /\ wr'[w].cbs = {} /\ wr'[w].replace = FALSE /\ wr'[w] \in Writer
  BY <1>1, <1>2 DEF Writer, Holds, NoWriter
<1>4. \A u \in Writers \ {w} : wr'[u] = wr[u]
  BY <1>1, <1>2
<1>5. v # None /\ wr[w].cb = {} /\ wr[w].cbs = {} /\ md # None /\ lock = w
  BY DEF WritersInv, WriterOK, Holds
<1>6. v \in Vals
  BY <1>2, <1>5 DEF Writer
<1> HIDE DEF v
<1>7. val'[v] = None /\ \A x \in Vals \ {v} : val'[x] = val[x]
  BY <1>1, <1>2, <1>6
<1>8. TypeOK'
  <2>1. wr' \in [Writers -> Writer]
    BY <1>1, <1>2, <1>3
  <2>2. val' \in [Vals -> Keys \cup {None}]
    BY <1>1, <1>2
  <2> QED
    BY <1>1, <2>1, <2>2 DEF TypeOK
<1>9. \A u \in Writers \ {w} : wr[u].new = None
  BY OneHolder DEF Holds
<1>10. OwnedVals(Current, Retired, table, wr, val)
  BY OwnersIs
<1>11. v \notin Current /\ (\A c \in Retired : v \notin FreedOf(table, c))
  BY <1>10 DEF OwnedVals, v
<1>12. WritersInv'
  <2>1. WriterOK(w)'
    BY <1>1, <1>3, <1>5 DEF WriterOK, Holds
  <2>2. \A u \in Writers \ {w} : WriterOK(u)'
    BY <1>1, <1>4, <1>5, OtherWriter DEF WritersInv
  <2> QED
    BY <2>1, <2>2 DEF WritersInv
<1>13. TableInv'
  <2>1. \A s : DeletingOf(wr, s) <=> DeletingOf(wr', s)
    BY <1>3, <1>4 DEF DeletingOf
  <2>2. \A s \in Moved(table[md]) : table[md][s].value \in Current
    BY <1>5, CurrentTable, InValues
  <2>3. Current \subseteq Vals
    BY <1>5, CurrentTable
  <2>4. \A s \in Moved(table[md]) : val'[table[md][s].value] = val[table[md][s].value]
    BY <1>7, <1>11, <2>2, <2>3
  <2>5. TableOf(lockless_reads', table', md', val', wr')
    BY <1>1, <2>1, <2>4, TableIs DEF TableOf
  <2> QED
    BY <1>1, <2>5, TableIs, TableNext
<1>14. CallbacksInv'
  BY <1>1, <1>3, <1>4, CallbacksKept
<1>15. Retired' = Retired /\ Current' = Current
  BY <1>1, <1>3, <1>4, <1>5, RetiredSame DEF Current
<1>16. OwnersInv'
  <2>1. \A x \in Vals : (val'[x] # None <=> val[x] # None /\ x # v)
    BY <1>7
  <2>2. \A u \in Writers : wr'[u].new = None
    BY <1>3, <1>4, <1>9
  <2>3. \A x \in Vals : (\E u \in Writers : wr[u].new = x) <=> x = v
    BY <1>9, HashTableAssumption DEF v
  <2>4. Current \subseteq Vals /\ \A c \in Retired : FreedOf(table, c) \subseteq Vals
    BY <1>5, CurrentTable, FreedAre
  <2>5. OwnedVals(Current', Retired', table', wr', val')
    <3>1. \A x \in Vals : val'[x] # None <=> \/ x \in Current
                                             \/ \E c \in Retired : x \in FreedOf(table, c)
                                             \/ \E u \in Writers : wr'[u].new = x
      BY <1>10, <1>11, <2>1, <2>2, <2>3, HashTableAssumption DEF OwnedVals
    <3>2. \A x \in Vals : \A u \in Writers : wr'[u].new # x
      BY <2>2, HashTableAssumption
    <3> QED
      BY <1>1, <1>10, <1>15, <2>4, <3>1, <3>2 DEF OwnedVals
  <2> QED
    BY <1>1, <1>15, <2>5, OwnersIs, OwnersNext
<1>17. ReadersInv' /\ EachInv'
  <2>1. \A u \in Writers : /\ wr'[u].new = wr[u].new \/ wr'[u].new = None
                           /\ wr'[u].cbs = {} \/ (wr'[u].cbs = wr[u].cbs /\ wr'[u].waits = wr[u].waits)
    BY <1>3, <1>4
  <2>2. lockless_reads => \A u \in Writers : wr'[u].cbs = {}
    BY <1>3, <1>4 DEF WritersInv, WriterOK
  <2>3. \A x \in Vals : val[x] # None => val'[x] # None \/ \E u \in Writers : wr[u].new = x
    BY <1>7 DEF v
  <2> QED
    BY <1>1, <1>16, <2>1, <2>2, <2>3, ReadersIdle
<1> QED
  BY <1>8, <1>12, <1>13, <1>14, <1>16, <1>17

----------------------------------------------------------------------------
(* Freeing.                                                                *)

\* The callbacks run: no reader can reach what they free, because the wait for
\* them is over.
LEMMA SyncDoneKeeps ==
    ASSUME HashTableInv, NEW w \in Writers, SyncDone(w)
    PROVE  HashTableInv'
<1> USE DEF HashTableInv
<1> DEFINE G == wr[w].cbs
<1>1. /\ UNCHANGED <<lockless_reads, md, count, need_sync, lock, readers, cbs, rd>>
      /\ wr[w].pc = "wait" /\ wr[w].waits = {}
      /\ val' = [v \in Vals |-> IF \E cb \in G : v \in FreedVals(cb) THEN None ELSE val[v]]
      /\ table' = [t \in Tables |-> IF \E cb \in G : t \in FreedTables(cb) THEN NoTable ELSE table[t]]
      /\ wr' = [wr EXCEPT ![w] = NoWriter]
  BY DEF SyncDone, WriterAt
<1>2. /\ wr \in [Writers -> Writer] /\ wr[w] \in Writer /\ val \in [Vals -> Keys \cup {None}]
      /\ table \in [Tables -> Seq(Entries)]
  BY DEF TypeOK
<1>3. /\ wr'[w].pc = "idle" /\ wr'[w].new = None /\ wr'[w].cb = {}
      /\ wr'[w].cbs = {} /\ wr'[w].replace = FALSE /\ wr'[w] \in Writer
  BY <1>1, <1>2 DEF Writer, Holds, NoWriter
<1>4. \A u \in Writers \ {w} : wr'[u] = wr[u]
  BY <1>1, <1>2
<1>5. /\ md # None /\ wr[w].new = None /\ wr[w].cb = {} /\ lock # w
  BY <1>1 DEF WritersInv, WriterOK, Holds
<1>6. \A v \in Vals : val'[v] = IF \E c \in G : v \in FreedOf(table, c) THEN None ELSE val[v]
  BY <1>1, FreedIs
<1>7. \A t \in Tables : table'[t] = IF \E c \in G : t \in FreedTables(c) THEN NoTable ELSE table[t]
  BY <1>1
<1>8. TypeOK'
  <2>1. wr' \in [Writers -> Writer]
    BY <1>1, <1>2, <1>3
  <2>2. val' \in [Vals -> Keys \cup {None}]
    BY <1>1, <1>2
  <2>3. NoTable \in Seq(Entries)
    BY DEF NoTable
  <2>4. table' \in [Tables -> Seq(Entries)] /\ \A x \in Tables : table'[x] # NoTable => IsTable(table'[x])
    <3>1. \A x \in Tables : table'[x] = NoTable \/ table'[x] = table[x]
      BY <1>7
    <3>2. \A x \in Tables : table'[x] \in Seq(Entries)
      BY <1>2, <2>3, <3>1
    <3>3. table' = [x \in Tables |-> table'[x]]
      BY <1>1
    <3>4. table' \in [Tables -> Seq(Entries)]
      BY <3>2, <3>3
    <3> QED
      BY <3>1, <3>4 DEF TypeOK
  <2> QED
    BY <1>1, <2>1, <2>2, <2>4 DEF TypeOK
<1> HIDE DEF G
<1>9. \A c : c \in Retired <=> c \in cbs \/ \E u \in Writers : c \in wr[u].cbs \/ c \in wr[u].cb
  BY RetiredIs, InRetired
<1>10. \A c : c \in Retired' <=> c \in cbs' \/ \E u \in Writers : c \in wr'[u].cbs \/ c \in wr'[u].cb
  BY RetiredIs, InRetired
<1>11. G \subseteq Retired
  BY <1>9 DEF G
<1>12. ASSUME NEW c \in Retired, c \notin G PROVE c \in Retired'
  <2>1. CASE c \in cbs
    BY <1>1, <1>10, <2>1
  <2>2. CASE \E u \in Writers : c \in wr[u].cbs \/ c \in wr[u].cb
    BY <1>4, <1>5, <1>10, <1>12, <2>2 DEF G
  <2> QED
    BY <1>9, <2>1, <2>2
<1>13. ASSUME NEW c \in Retired' PROVE c \in Retired /\ c \notin G
  <2>1. CASE c \in cbs
    BY <1>9, <2>1 DEF G, CallbacksInv
  <2>2. CASE c \notin cbs
    <3>1. PICK u \in Writers : c \in wr'[u].cbs \/ c \in wr'[u].cb
      BY <1>1, <1>10, <2>2
    <3>2. u # w /\ (c \in wr[u].cbs \/ c \in wr[u].cb)
      BY <1>3, <1>4, <3>1
    <3>3. wr[w].cbs \cap (wr[u].cbs \cup wr[u].cb) = {}
      BY <3>2 DEF CallbacksInv
    <3> QED
      BY <1>9, <3>2, <3>3 DEF G
  <2> QED
    BY <2>1, <2>2
<1>14. Retired' = Retired \ G
  BY <1>12, <1>13
<1>15. OwnedVals(Current, Retired, table, wr, val) /\ OwnedTables(Retired, table, md) /\ HeldOnce(table, md)
  BY OwnersIs
<1>16. md \in Tables /\ table'[md] = table[md]
  BY <1>5, <1>7, <1>11, <1>15, CurrentTable DEF OwnedTables
<1>17. Current' = Current /\ Current \subseteq Vals
  BY <1>1, <1>5, <1>16, CurrentTable DEF Current
<1>18. ASSUME NEW c \in Retired' PROVE FreedOf(table', c) = FreedOf(table, c)
  <2>1. c \in Retired /\ c \notin G /\ c \in Callbacks
    BY <1>13, RetiredTypes
  <2>2. CASE c.fn = "free_oldmd"
    <3>1. c.arg \in Tables /\ c.arg \in FreedTables(c)
      BY <2>1, <2>2 DEF Callbacks, FreedTables
    <3>2. \A d \in G : c.arg \notin FreedTables(d)
      BY <1>11, <1>15, <2>1, <3>1 DEF OwnedTables
    <3>3. table'[c.arg] = table[c.arg]
      BY <1>7, <3>1, <3>2
    <3> QED
      BY <2>2, <3>3 DEF FreedOf
  <2>3. CASE c.fn # "free_oldmd"
    BY <2>3 DEF FreedOf
  <2> QED
    BY <2>2, <2>3
<1>19. \A v \in Current : val'[v] = val[v]
  BY <1>6, <1>11, <1>15, <1>17 DEF OwnedVals
<1>20. \A u \in Writers : wr[u].new # None => wr[u].new \in Vals /\ val'[wr[u].new] = val[wr[u].new]
  <2>1. \A u \in Writers : wr[u].new # None => wr[u].new \in Vals
    BY <1>2 DEF Writer
  <2> QED
    BY <1>6, <1>11, <1>15, <2>1 DEF OwnedVals
<1>21. WritersInv'
  <2>1. WriterOK(w)'
    BY <1>1, <1>3, <1>5 DEF WriterOK, Holds
  <2>2. \A u \in Writers \ {w} : WriterOK(u)'
    BY <1>1, <1>4, <1>16, <1>20, WriterKept DEF WritersInv
  <2> QED
    BY <2>1, <2>2 DEF WritersInv
<1>22. TableInv'
  <2>1. \A s : DeletingOf(wr, s) <=> DeletingOf(wr', s)
    BY <1>1, <1>3, <1>4 DEF DeletingOf
  <2>2. \A s \in Moved(table[md]) : table[md][s].value \in Current
    BY <1>5, CurrentTable, InValues
  <2>3. \A s \in Moved(table[md]) : val'[table[md][s].value] = val[table[md][s].value]
    BY <1>19, <2>2
  <2>4. table'[md'] = table[md] /\ md' = md /\ lockless_reads' = lockless_reads
    BY <1>1, <1>16
  <2>5. TableOf(lockless_reads, table, md, val, wr)
    BY TableIs
  <2>6. TableOf(lockless_reads', table', md', val', wr')
    BY <2>1, <2>3, <2>4, <2>5 DEF TableOf
  <2> QED
    BY <1>1, <2>6, TableIs, TableNext
<1>23. CallbacksInv'
  BY <1>1, <1>3, <1>4, CallbacksKept
<1>24. OwnersInv'
  <2>1. \A x \in Vals : (\E u \in Writers : wr'[u].new = x) <=> (\E u \in Writers : wr[u].new = x)
    BY <1>3, <1>4, <1>5
  <2>2. \A x \in Vals : \A u \in Writers : wr'[u].new = x => wr[u].new = x
    BY <1>3, <1>4, <1>5
  <2>3. Current \subseteq Vals /\ \A c \in Retired : FreedOf(table, c) \subseteq Vals
    BY <1>17, FreedAre
  <2>4. OwnedVals(Current', Retired', table', wr', val')
    <3>1. ASSUME NEW x \in Vals
          PROVE  val'[x] # None <=> \/ x \in Current
                                    \/ \E c \in Retired' : x \in FreedOf(table, c)
                                    \/ \E u \in Writers : wr'[u].new = x
      <4>1. val'[x] # None <=> val[x] # None /\ ~\E c \in G : x \in FreedOf(table, c)
        BY <1>6
      <4>2. val[x] # None <=> \/ x \in Current
                              \/ \E c \in Retired : x \in FreedOf(table, c)
                              \/ \E u \in Writers : wr'[u].new = x
        BY <1>15, <2>1 DEF OwnedVals
      <4>3. x \in Current => ~\E c \in G : x \in FreedOf(table, c)
        BY <1>11, <1>15 DEF OwnedVals
      <4>4. (\E u \in Writers : wr'[u].new = x) => ~\E c \in G : x \in FreedOf(table, c)
        BY <1>11, <1>15, <2>1 DEF OwnedVals
      <4>5. \A c \in Retired, d \in G : x \in FreedOf(table, c) /\ x \in FreedOf(table, d) => c = d
        BY <1>11, <1>15 DEF OwnedVals
      <4> QED
        BY <1>14, <4>1, <4>2, <4>3, <4>4, <4>5
    <3>2. \A x \in Current : /\ \A c \in Retired' : x \notin FreedOf(table, c)
                             /\ \A u \in Writers : wr'[u].new # x
      BY <1>14, <1>15, <2>2, <2>3 DEF OwnedVals
    <3>3. \A c \in Retired' : \A x \in FreedOf(table, c) : \A u \in Writers : wr'[u].new # x
      BY <1>14, <1>15, <2>2, <2>3 DEF OwnedVals
    <3>4. \A c, d \in Retired' : FreedOf(table, c) \cap FreedOf(table, d) # {} => c = d
      BY <1>14, <1>15 DEF OwnedVals
    <3> QED
      BY <1>17, <1>18, <3>1, <3>2, <3>3, <3>4 DEF OwnedVals
  <2>5. OwnedTables(Retired', table', md')
    <3>1. ASSUME NEW x \in Tables
          PROVE  table'[x] # NoTable <=> x = md \/ \E c \in Retired' : x \in FreedTables(c)
      <4>1. table'[x] # NoTable <=> table[x] # NoTable /\ ~\E c \in G : x \in FreedTables(c)
        BY <1>7
      <4>2. table[x] # NoTable <=> x = md \/ \E c \in Retired : x \in FreedTables(c)
        BY <1>15 DEF OwnedTables
      <4>3. \A c \in Retired, d \in G : x \in FreedTables(c) /\ x \in FreedTables(d) => c = d
        BY <1>11, <1>15 DEF OwnedTables
      <4>4. x = md => ~\E c \in G : x \in FreedTables(c)
        BY <1>11, <1>15 DEF OwnedTables
      <4> QED
        BY <1>14, <4>1, <4>2, <4>3, <4>4
    <3> QED
      BY <1>1, <1>14, <1>15, <3>1 DEF OwnedTables
  <2>6. HeldOnce(table', md')
    BY <1>1, <1>15, <1>16 DEF HeldOnce
  <2> QED
    BY <1>1, <1>17, <2>4, <2>5, <2>6, OwnersIs, OwnersNext
<1>25. ASSUME NEW r \in Readers PROVE ReaderOK(r)' /\ EachOK(r)'
  <2>1. ReaderOK(r) /\ EachOK(r) /\ Stays(r)
    BY <1>1, StaysSame DEF ReadersInv, EachInv
  <2>2. ReaderOf(r, rd[r], lockless_reads, table, val, md, readers, wr)
    BY <2>1, ReaderIs
  <2>3. \A v \in ReachOf(table, rd[r]) :
          v \in Vals /\ val[v] # None /\ (\A u \in Writers : wr[u].new # v)
          /\ \A c \in G : v \notin FreedOf(table, c)
    BY <1>1, <2>2 DEF ReaderOf, G
  <2>4. \A v \in ReachOf(table, rd[r]) : val'[v] # None /\ \A u \in Writers : wr'[u].new # v
    BY <1>3, <1>4, <1>6, <2>3, HashTableAssumption
  <2>5. rd[r].pc # "out" => md # None
    BY <2>2 DEF ReaderOf
  <2>6. Walks(r) => table[rd[r].md] # NoTable /\ table'[rd[r].md] = table[rd[r].md]
    BY <1>1, <1>7, <2>2 DEF ReaderOf, Walks, G
  <2>7. \A u \in Writers : \A c \in wr'[u].cbs :
              /\ c \in wr[u].cbs /\ wr'[u].waits = wr[u].waits
              /\ FreedOf(table', c) = FreedOf(table, c)
    BY <1>3, <1>4, <1>10, <1>18
  <2>8. ReaderOK(r)'
    BY <1>1, <1>17, <1>24, <2>1, <2>4, <2>5, <2>6, <2>7, ReaderKept
  <2>9. EachOK(r)'
    BY <2>1, <2>6, EachKept DEF Walks
  <2> QED
    BY <2>8, <2>9
<1> QED
  BY <1>8, <1>21, <1>22, <1>23, <1>24, <1>25 DEF ReadersInv, EachInv

----------------------------------------------------------------------------
(* The map, and the history of the readers.                                *)

HoldingOf(T, m, V, k) ==
    IF m = None THEN {} ELSE {s \in Moved(T[m]) : V[T[m][s].value] = k}

MapOf(T, m, V, W) ==
    [k \in Keys |->
        IF HoldingOf(T, m, V, k) = {} THEN {None}
        ELSE {T[m][s].value : s \in HoldingOf(T, m, V, k)}
             \cup {None : s \in {x \in HoldingOf(T, m, V, k) : DeletingOf(W, x)}}]

KeptOf(M) == {v \in Vals : \E k \in Keys : M[k] = {v}}

\* Map, over any state
LEMMA MapIs ==
    Map = MapOf(table, md, val, wr) /\ Map' = MapOf(table', md', val', wr')
BY DEF Map, MapOf, Holding, HoldingOf, Deleting, DeletingOf

\* Kept, over any map
LEMMA KeptIs ==
    Kept = KeptOf(Map) /\ Kept' = KeptOf(Map')
BY DEF Kept, KeptOf

\* The answers that are right for a key
LEMMA InMap ==
    ASSUME NEW T, NEW m, NEW V, NEW W, NEW k \in Keys, NEW x
    PROVE  x \in MapOf(T, m, V, W)[k] <=>
             \/ \E s \in HoldingOf(T, m, V, k) : T[m][s].value = x
             \/ x = None /\ HoldingOf(T, m, V, k) = {}
             \/ x = None /\ \E s \in HoldingOf(T, m, V, k) : DeletingOf(W, s)
<1> DEFINE H == HoldingOf(T, m, V, k)
<1>1. MapOf(T, m, V, W)[k] =
        IF H = {} THEN {None}
        ELSE {T[m][s].value : s \in H} \cup {None : s \in {y \in H : DeletingOf(W, y)}}
  BY DEF MapOf
<1> HIDE DEF H
<1>2. CASE H = {}
  BY <1>1, <1>2 DEF H
<1>3. CASE H # {}
  <2>1. x \in {T[m][s].value : s \in H} <=> \E s \in H : T[m][s].value = x
    OBVIOUS
  <2>2. x \in {None : s \in {y \in H : DeletingOf(W, y)}} <=> x = None /\ \E s \in H : DeletingOf(W, s)
    OBVIOUS
  <2> QED
    BY <1>1, <1>3, <2>1, <2>2 DEF H
<1> QED
  BY <1>2, <1>3

\* Answers are values of the table, or None.
LEMMA MapTypes ==
    ASSUME NEW T, NEW m, NEW V, NEW W, CurrentOf(T, m) \subseteq Vals
    PROVE  /\ \A k \in Keys : MapOf(T, m, V, W)[k] \subseteq Vals \cup {None}
           /\ KeptOf(MapOf(T, m, V, W)) \subseteq CurrentOf(T, m)
<1>1. ASSUME NEW k \in Keys, NEW s \in HoldingOf(T, m, V, k)
      PROVE  T[m][s].value \in CurrentOf(T, m)
  BY InValues DEF HoldingOf, CurrentOf
<1>2. ASSUME NEW k \in Keys, NEW x \in MapOf(T, m, V, W)[k]
      PROVE  x \in CurrentOf(T, m) \/ x = None
  BY <1>1, InMap
<1>3. ASSUME NEW v \in KeptOf(MapOf(T, m, V, W)) PROVE v \in CurrentOf(T, m)
  <2>1. PICK k \in Keys : MapOf(T, m, V, W)[k] = {v}
    BY DEF KeptOf
  <2>2. v \in MapOf(T, m, V, W)[k] /\ v # None
    BY <2>1, HashTableAssumption DEF KeptOf
  <2> QED
    BY <1>2, <2>2
<1> QED
  BY <1>2, <1>3

\* After a change of the table the readers are where they were, and an iteration
\* need not come to what is no longer there.
LEMMA NoteFacts ==
    ASSUME TypeOK, ReadersInv, NoteChange, Current' \subseteq Vals
    PROVE  /\ rd' \in [Readers -> Reader]
           /\ \A r \in Readers : Stays(r) /\ (rd[r].pc \in {"each", "visit"} => rd'[r].must \subseteq Current')
           /\ \A r \in Readers : rd'[r].may = IF Lookup(r) THEN rd[r].may \cup Map'[rd[r].key]
                                              ELSE rd[r].may
<1> DEFINE A(r) == IF Lookup(r) THEN rd[r].may \cup Map'[rd[r].key] ELSE rd[r].may
           B(r) == IF rd[r].pc \in {"each", "visit"} THEN rd[r].must \cap Kept' ELSE rd[r].must
<1>1. rd' = [r \in Readers |-> [[rd[r] EXCEPT !.may = A(r)] EXCEPT !.must = B(r)]]
  BY DEF NoteChange, Lookup
<1>2. \A r \in Readers : A(r) = IF Lookup(r) THEN rd[r].may \cup Map'[rd[r].key] ELSE rd[r].may
  OBVIOUS
<1>3. \A r \in Readers : /\ B(r) \subseteq rd[r].must
                         /\ rd[r].pc \in {"each", "visit"} => B(r) \subseteq Kept'
                         /\ rd[r].pc = "out" => B(r) = rd[r].must
  OBVIOUS
<1>4. Kept' \subseteq Current' /\ \A k \in Keys : Map'[k] \subseteq Vals \cup {None}
  BY MapTypes, MapIs, KeptIs, CurrentIs
<1>5. \A r \in Readers : Lookup(r) => rd[r].key \in Keys
  BY DEF ReadersInv, ReaderOK
<1>6. \A r \in Readers : rd[r] \in Reader
  BY DEF TypeOK
<1>7. \A r \in Readers : /\ A(r) \subseteq Vals \cup {None} /\ B(r) \subseteq Vals
                         /\ rd[r].pc = "out" => A(r) = rd[r].may
  <2>1. \A r \in Readers : rd[r].may \subseteq Vals \cup {None} /\ rd[r].must \subseteq Vals
    BY <1>6 DEF Reader
  <2> QED
    BY <1>3, <1>4, <1>5, <2>1 DEF Lookup
<1> HIDE DEF A, B
<1>8. ASSUME NEW r \in Readers
      PROVE  /\ rd'[r] \in Reader /\ rd'[r].may = A(r) /\ rd'[r].must = B(r)
             /\ rd'[r].pc = rd[r].pc /\ rd'[r].key = rd[r].key /\ rd'[r].md = rd[r].md
             /\ rd'[r].at = rd[r].at /\ rd'[r].ival = rd[r].ival /\ rd'[r].got = rd[r].got
             /\ rd[r].pc = "out" => rd'[r] = rd[r]
  <2>1. rd'[r] = [[rd[r] EXCEPT !.may = A(r)] EXCEPT !.must = B(r)]
    BY <1>1
  <2>2. A(r) \subseteq Vals \cup {None} /\ B(r) \subseteq Vals /\ rd[r] \in Reader
    BY <1>6, <1>7
  <2>3. rd[r].pc = "out" => A(r) = rd[r].may /\ B(r) = rd[r].must
    BY <1>3, <1>7
  <2> QED
    BY <2>1, <2>2, <2>3 DEF Reader
<1>9. rd' \in [Readers -> Reader]
  BY <1>1, <1>8
<1> QED
  BY <1>2, <1>3, <1>4, <1>8, <1>9 DEF Stays

\* The values of the table after a step
LEMMA CurrentNext ==
    ASSUME md' # None, IsTable(table'[md'])
    PROVE  Current' = Values(table'[md']) /\ Current' \subseteq Vals
BY ValuesFacts DEF Current

----------------------------------------------------------------------------
(* Where a writer stores.                                                  *)

\* The first of several positions exists, and is a slot of the table.
LEMMA LeastSlot ==
    ASSUME NEW t, IsTable(t), NEW key \in Keys, TypeOK,
           NEW is, is # {}, is \subseteq DOMAIN Probe(t, KeyHash[key])
    PROVE  \E i \in is : /\ i = CHOOSE x \in is : \A h \in is : x <= h
                         /\ i \in Nat /\ \A h \in is : i <= h
                         /\ Probe(t, KeyHash[key])[i] \in DOMAIN t
                         /\ 1 .. i \subseteq DOMAIN Probe(t, KeyHash[key])
                         /\ \A h \in 1 .. i : Probe(t, KeyHash[key])[h] \in DOMAIN t
<1>1. KeyHash[key] \in Nat /\ lockless_reads \in BOOLEAN
  BY HashTableAssumption DEF TypeOK
<1>2. /\ DOMAIN Probe(t, KeyHash[key]) = 1 .. (IF lockless_reads THEN Len(t) ELSE NeighLen)
      /\ \A i \in DOMAIN Probe(t, KeyHash[key]) : Probe(t, KeyHash[key])[i] \in DOMAIN t
      /\ (IF lockless_reads THEN Len(t) ELSE NeighLen) \in Nat
  BY <1>1, ProbeFacts, ProbeIs
<1>3. is \subseteq Nat
  BY <1>2
<1>4. \E i \in is : \A h \in is : i <= h
  BY <1>3, LeastNat
<1> DEFINE j == CHOOSE i \in is : \A h \in is : i <= h
<1>5. j \in is /\ \A h \in is : j <= h
  BY <1>4
<1> HIDE DEF j
<1>6. j \in Nat /\ 1 .. j \subseteq DOMAIN Probe(t, KeyHash[key])
  BY <1>2, <1>5
<1> QED
  BY <1>2, <1>5, <1>6 DEF j

\* The entry that a replacement or a deletion takes is one of its key.
LEMMA HitSlot ==
    ASSUME TypeOK, NEW t, IsTable(t), NEW key \in Keys, Hits(t, key) # {}, NEW s,
           s = Probe(t, KeyHash[key])[CHOOSE i \in Hits(t, key) : \A h \in Hits(t, key) : i <= h]
    PROVE  /\ s \in DOMAIN t /\ s \in Moved(t) /\ t[s].hash = KeyHash[key]
           /\ MatchKey(val[t[s].value], key) /\ HomeOf(lockless_reads, t, s, KeyHash[key])
<1>1. Hits(t, key) \subseteq DOMAIN Probe(t, KeyHash[key])
  BY DEF Hits
<1>2. PICK i \in Hits(t, key) :
        /\ i = CHOOSE x \in Hits(t, key) : \A h \in Hits(t, key) : x <= h
        /\ i \in Nat /\ Probe(t, KeyHash[key])[i] \in DOMAIN t
  BY <1>1, LeastSlot
<1>3. s = Probe(t, KeyHash[key])[i] /\ s \in DOMAIN t
  BY <1>2
<1>4. /\ t[s].value # None /\ t[s].hash = KeyHash[key] /\ MatchKey(val[t[s].value], key)
      /\ lockless_reads => \A h \in 1 .. i : t[Probe(t, KeyHash[key])[h]].value # None
  BY <1>3 DEF Hits
<1>5. \A h \in 1 .. i - 1 : h \in 1 .. i
  BY <1>2
<1>6. HomeOf(lockless_reads, t, s, KeyHash[key])
  BY <1>1, <1>3, <1>4, <1>5, ProbeIs DEF HomeOf
<1> QED
  BY <1>3, <1>4, <1>6 DEF Moved

\* The entry that an insertion fills is free and can be found.
LEMMA VacantSlot ==
    ASSUME TypeOK, NEW t, IsTable(t), NEW key \in Keys, Vacant(t, key) # {}, NEW s,
           s = Probe(t, KeyHash[key])[CHOOSE i \in Vacant(t, key) : \A h \in Vacant(t, key) : i <= h]
    PROVE  /\ s \in DOMAIN t /\ t[s].value = None
           /\ HomeOf(lockless_reads, t, s, KeyHash[key])
<1> DEFINE p == Probe(t, KeyHash[key])
           free == {i \in DOMAIN p : t[p[i]].value = None}
<1>1. Vacant(t, key) = {i \in free : \A h \in free : IF lockless_reads THEN i <= h ELSE h <= i}
  BY DEF Vacant
<1>2. Vacant(t, key) \subseteq DOMAIN p
  BY <1>1
<1>3. PICK i \in Vacant(t, key) :
        /\ i = CHOOSE x \in Vacant(t, key) : \A h \in Vacant(t, key) : x <= h
        /\ i \in Nat /\ p[i] \in DOMAIN t /\ 1 .. i \subseteq DOMAIN p
  BY <1>2, LeastSlot
<1>4. s = p[i] /\ s \in DOMAIN t
  BY <1>3
<1>5. t[s].value = None
  BY <1>1, <1>4
<1>6. lockless_reads => \A h \in 1 .. i - 1 : t[p[h]].value # None
  <2> SUFFICES ASSUME lockless_reads, NEW h \in 1 .. i - 1, t[p[h]].value = None PROVE FALSE
    OBVIOUS
  <2>1. h \in 1 .. i /\ h < i
    BY <1>3
  <2>2. h \in free
    BY <1>3, <2>1
  <2>3. i <= h
    BY <1>1, <2>2
  <2> QED
    BY <1>3, <2>1, <2>3
<1> HIDE DEF p
<1>7. HomeOf(lockless_reads, t, s, KeyHash[key])
  BY <1>2, <1>4, <1>6, ProbeIs DEF HomeOf, p
<1> QED
  BY <1>4, <1>5, <1>7

\* A store of a hash changes the owner of nothing and what no reader holds.
LEMMA SameValues ==
    ASSUME HashTableInv, md # None, md' = md, val' = val, count' = count, cbs' = cbs,
           lockless_reads' = lockless_reads, readers' = readers,
           NEW u, table' = [table EXCEPT ![md] = u], IsTable(u), DOMAIN u = DOMAIN table[md],
           Len(u) = Len(table[md]),
           \A z \in DOMAIN u : u[z].value = table[md][z].value,
           \A x \in Writers : /\ wr'[x].new = wr[x].new /\ wr'[x].cb = wr[x].cb
                              /\ wr'[x].cbs = wr[x].cbs /\ wr'[x].waits = wr[x].waits,
           \A r \in Readers : Stays(r)
    PROVE  CallbacksInv' /\ OwnersInv' /\ ReadersInv' /\ EachInv'
<1> USE DEF HashTableInv
<1> DEFINE t == table[md]
<1>1. md \in Tables /\ IsTable(t) /\ table \in [Tables -> Seq(Entries)] /\ Current = Values(t)
  BY CurrentTable DEF TypeOK
<1>2. table'[md] = u /\ \A x \in Tables \ {md} : table'[x] = table[x]
  BY <1>1
<1>3. Moved(u) = Moved(t) /\ Values(u) = Values(t)
  BY DEF Moved, Values
<1>4. Current' = Current /\ Current \subseteq Vals
  BY <1>1, <1>2, <1>3, CurrentTable DEF Current
<1>5. Retired' = Retired
  BY RetiredSame
<1>6. CallbacksInv'
  BY DEF CallbacksInv
<1>7. \A c \in Retired : FreedOf(table', c) = FreedOf(table, c)
  BY <1>2, FreedSame
<1>8. OwnersInv'
  <2>0. OwnedVals(Current, Retired, table, wr, val)
    BY OwnersIs
  <2>1. OwnedVals(Current', Retired', table', wr', val')
    BY <1>4, <1>5, <1>7, <2>0, OwnedSame
  <2>2. u # NoTable /\ t # NoTable
    BY <1>1, TableFacts
  <2>3. \A x \in Tables : table'[x] # NoTable <=> table[x] # NoTable
    BY <1>2, <2>2
  <2>4. OwnedTables(Retired', table', md')
    BY <1>5, <2>3, OwnersIs DEF OwnedTables
  <2>5. \A s, z \in Moved(t) : t[s].value = t[z].value => s = z
    BY OwnersIs DEF HeldOnce
  <2>6. HeldOnce(table', md')
    BY <1>2, <1>3, <2>2, <2>5 DEF HeldOnce, Moved
  <2> QED
    BY <1>4, <2>1, <2>4, <2>6, OwnersIs, OwnersNext
<1>9. ASSUME NEW r \in Readers PROVE ReaderOK(r)' /\ EachOK(r)'
  <2>1. ReaderOK(r) /\ EachOK(r) /\ Stays(r)
    BY DEF ReadersInv, EachInv
  <2>2. ReaderOf(r, rd[r], lockless_reads, table, val, md, readers, wr)
    BY <2>1, ReaderIs
  <2>3. \A v \in ReachOf(table, rd[r]) : val'[v] # None /\ \A x \in Writers : wr'[x].new # v
    BY <2>2 DEF ReaderOf
  <2>4. Walks(r) => rd[r].md \in Tables /\ table[rd[r].md] # NoTable
    BY <2>2 DEF ReaderOf, Walks
  <2>5. Walks(r) => /\ table'[rd[r].md] # NoTable
                    /\ Len(table'[rd[r].md]) = Len(table[rd[r].md])
                    /\ DOMAIN table'[rd[r].md] = DOMAIN table[rd[r].md]
                    /\ Values(table'[rd[r].md]) = Values(table[rd[r].md])
                    /\ \A s \in DOMAIN table[rd[r].md] :
                         table'[rd[r].md][s].value = table[rd[r].md][s].value
    <3>1. CASE rd[r].md = md
      BY <1>2, <1>3, <3>1, TableFacts
    <3>2. CASE rd[r].md # md
      BY <1>2, <2>4, <3>2
    <3> QED
      BY <3>1, <3>2
  <2>6. \A x \in Writers : \A c \in wr'[x].cbs :
              /\ c \in wr[x].cbs /\ wr'[x].waits = wr[x].waits
              /\ FreedOf(table', c) = FreedOf(table, c)
    <3>1. \A x \in Writers : \A c \in wr[x].cbs : c \in Retired
      BY RetiredIs, InRetired
    <3> QED
      BY <1>7, <3>1
  <2>7. ReaderOK(r)'
    BY <1>4, <1>8, <2>1, <2>3, <2>5, <2>6, ReaderKept
  <2>8. EachOK(r)'
    BY <2>1, <2>5, EachKept DEF Walks
  <2> QED
    BY <2>7, <2>8
<1> QED
  BY <1>6, <1>8, <1>9 DEF ReadersInv, EachInv

\* The type of the tables after a store to the current one
LEMMA StoreTypes ==
    ASSUME TypeOK, md \in Tables, NEW u, IsTable(u), table' = [table EXCEPT ![md] = u]
    PROVE  table' \in [Tables -> Seq(Entries)] /\ \A x \in Tables : table'[x] # NoTable => IsTable(table'[x])
<1>1. table \in [Tables -> Seq(Entries)] /\ \A x \in Tables : table[x] # NoTable => IsTable(table[x])
  BY DEF TypeOK
<1>2. u \in Seq(Entries)
  BY TableFacts
<1> QED
  BY <1>1, <1>2

\* The first store of an insertion: the slot is where the hash belongs.
LEMMA InsertHashKeeps ==
    ASSUME HashTableInv, NEW w \in Writers, InsertHash(w)
    PROVE  HashTableInv'
<1> USE DEF HashTableInv
<1> DEFINE t == table[md]
           k == wr[w].key
           is == IF Found(w) # {} THEN Found(w) ELSE Room(w)
           s == Slot(w, is)
           e == [t[s] EXCEPT !.hash = KeyHash[k]]
           u == [t EXCEPT ![s] = e]
<1>1. /\ UNCHANGED <<lockless_reads, md, val, count, need_sync, lock, readers, cbs, rd>>
      /\ wr[w].pc = "insert" /\ is # {}
      /\ table' = [table EXCEPT ![md] = [@ EXCEPT ![s].hash = KeyHash[k]]]
      /\ wr' = [wr EXCEPT ![w].pc = "store", ![w].slot = s]
  BY DEF InsertHash, WriterAt
<1>2. /\ wr[w].new # None /\ k \in Keys /\ wr[w].cb = {} /\ wr[w].cbs = {} /\ md # None /\ lock = w
      /\ val[wr[w].new] = k /\ (lockless_reads => ~wr[w].replace)
  BY <1>1 DEF WritersInv, WriterOK, Holds
<1>3. md \in Tables /\ IsTable(t) /\ table \in [Tables -> Seq(Entries)]
  BY <1>2, CurrentTable DEF TypeOK
<1>4. KeyHash[k] \in Nat /\ lockless_reads \in BOOLEAN
  BY <1>2, HashTableAssumption DEF TypeOK
<1>5. /\ s \in DOMAIN t /\ HomeOf(lockless_reads, t, s, KeyHash[k])
      /\ t[s].value # None => t[s].hash = KeyHash[k]
      /\ lockless_reads => t[s].value = None
  <2>1. CASE Found(w) # {}
    <3>1. is = Hits(t, k)
      BY <2>1 DEF Found
    <3>2. s = Probe(t, KeyHash[k])[CHOOSE i \in Hits(t, k) : \A h \in Hits(t, k) : i <= h]
      BY <3>1 DEF Slot
    <3>3. wr[w].replace
      BY <2>1 DEF InsertHash
    <3>4. Hits(t, k) # {} /\ ~lockless_reads
      BY <1>1, <1>2, <3>1, <3>3
    <3> HIDE DEF is, s, t, k
    <3>5. TypeOK /\ IsTable(t) /\ k \in Keys
      BY <1>2, <1>3
    <3>6. s \in DOMAIN t /\ t[s].hash = KeyHash[k] /\ HomeOf(lockless_reads, t, s, KeyHash[k])
      BY <3>2, <3>4, <3>5, HitSlot, Zenon
    <3> QED
      BY <3>4, <3>6
  <2>2. CASE Found(w) = {}
    <3>1. is = Vacant(t, k)
      BY <2>2 DEF Room
    <3>2. s = Probe(t, KeyHash[k])[CHOOSE i \in Vacant(t, k) : \A h \in Vacant(t, k) : i <= h]
      BY <3>1 DEF Slot
    <3> HIDE DEF is, s, t, k
    <3> QED
      BY <1>1, <1>2, <1>3, <3>1, <3>2, VacantSlot
  <2> QED
    BY <2>1, <2>2
<1> HIDE DEF is, s
<1>6. t[s] \in Entries /\ DOMAIN t = 1 .. Len(t) /\ s \in Nat
  BY <1>3, <1>5, TableFacts
<1>7. e \in Entries /\ e.hash = KeyHash[k] /\ e.value = t[s].value
  BY <1>4, <1>6 DEF Entries
<1>8. table' = [table EXCEPT ![md] = u]
  BY <1>1, <1>3, <1>5
<1> HIDE DEF e
<1>9. /\ IsTable(u) /\ Len(u) = Len(t) /\ DOMAIN u = DOMAIN t
      /\ u[s] = e /\ \A z \in DOMAIN t \ {s} : u[z] = t[z]
  BY <1>3, <1>5, <1>7, StoreTable
<1> HIDE DEF u
<1>10. Moved(u) = Moved(t) /\ \A z \in DOMAIN t : u[z].value = t[z].value
  BY <1>5, <1>7, <1>9, StoreHash
<1>11. wr \in [Writers -> Writer] /\ wr[w] \in Writer
  BY DEF TypeOK
<1>12. wr'[w] = [[wr[w] EXCEPT !.pc = "store"] EXCEPT !.slot = s]
  BY <1>1, <1>11
<1>13. /\ wr'[w].pc = "store" /\ wr'[w].new = wr[w].new /\ wr'[w].cb = wr[w].cb /\ wr'[w].key = k
       /\ wr'[w].cbs = wr[w].cbs /\ wr'[w].waits = wr[w].waits /\ wr'[w].replace = wr[w].replace
       /\ wr'[w].slot = s /\ wr'[w] \in Writer
  BY <1>6, <1>11, <1>12 DEF Writer, Holds
<1>14. \A x \in Writers \ {w} : wr'[x] = wr[x]
  BY <1>1, <1>11
<1>15. table'[md] = u
  BY <1>3, <1>8
<1>16. TypeOK'
  <2>1. wr' \in [Writers -> Writer]
    BY <1>1, <1>11, <1>13
  <2>2. table' \in [Tables -> Seq(Entries)] /\ \A x \in Tables : table'[x] # NoTable => IsTable(table'[x])
    BY <1>3, <1>8, <1>9, StoreTypes
  <2> QED
    BY <1>1, <2>1, <2>2 DEF TypeOK
<1>17. CallbacksInv' /\ OwnersInv' /\ ReadersInv' /\ EachInv'
  <2>1. \A r \in Readers : Stays(r)
    BY <1>1, StaysSame
  <2>2. \A x \in Writers : /\ wr'[x].new = wr[x].new /\ wr'[x].cb = wr[x].cb
                           /\ wr'[x].cbs = wr[x].cbs /\ wr'[x].waits = wr[x].waits
    BY <1>13, <1>14
  <2> QED
    BY <1>1, <1>2, <1>8, <1>9, <1>10, <2>1, <2>2, SameValues
<1> HIDE DEF t, k
<1>18. /\ HomeOf(lockless_reads, u, s, KeyHash[k])
       /\ \A z \in DOMAIN t : t[z].value # None => u[z].value # None
  <2>1. \A z \in DOMAIN t : t[z].value # None => u[z].value # None
    BY <1>10
  <2> QED
    BY <1>3, <1>4, <1>5, <1>9, <2>1, HomeKept
<1>19. WritersInv'
  <2>1. WriterOK(w)'
    <3>1. Home(table[md], wr[w].slot, KeyHash[wr[w].key])'
            <=> HomeOf(lockless_reads', table'[md'], wr'[w].slot, KeyHash[wr'[w].key])
      BY DEF Home, HomeOf, Probe, ProbeOf
    <3>2. Home(table[md], wr[w].slot, KeyHash[wr[w].key])'
      BY <1>1, <1>13, <1>15, <1>18, <3>1
    <3>3. table'[md'][wr'[w].slot].hash = KeyHash[wr'[w].key] /\ wr'[w].slot \in DOMAIN table'[md']
      BY <1>1, <1>5, <1>7, <1>9, <1>13, <1>15
    <3>4. lockless_reads' => table'[md'][wr'[w].slot].value = None
      BY <1>1, <1>5, <1>7, <1>9, <1>13, <1>15
    <3> QED
      BY <1>1, <1>2, <1>13, <3>2, <3>3, <3>4 DEF WriterOK, Holds
  <2>2. \A x \in Writers \ {w} : WriterOK(x)'
    BY <1>1, <1>2, <1>14, OtherWriter DEF WritersInv
  <2> QED
    BY <2>1, <2>2 DEF WritersInv
<1>20. TableInv'
  <2>1. \A z : ~DeletingOf(wr, z)
    BY <1>1, OneHolder DEF DeletingOf, Holds
  <2>2. TableOf(lockless_reads, table, md, val, wr)
    BY TableIs
  <2>3. ASSUME NEW z \in Moved(u)
        PROVE  /\ u[z].hash = KeyHash[val[u[z].value]]
               /\ HomeOf(lockless_reads, u, z, u[z].hash)
    <3>1. /\ t[z].hash = KeyHash[val[t[z].value]] /\ HomeOf(lockless_reads, t, z, t[z].hash)
          /\ z \in DOMAIN t /\ t[z].value # None
      BY <1>2, <1>10, <2>1, <2>2 DEF TableOf, Moved, t
    <3>2. u[z].hash = t[z].hash /\ u[z].value = t[z].value
      BY <1>5, <1>7, <1>9, <3>1
    <3>3. t[z].hash \in Nat
      BY <1>3, <3>1, TableFacts
    <3>4. HomeOf(lockless_reads, u, z, t[z].hash)
      BY <1>3, <1>4, <1>9, <1>18, <3>1, <3>3, HomeKept
    <3> QED
      BY <3>1, <3>2, <3>4
  <2>4. TableOf(lockless_reads', table', md', val', wr')
    BY <1>1, <1>15, <2>3 DEF TableOf
  <2> QED
    BY <1>1, <2>4, TableIs, TableNext
<1> QED
  BY <1>16, <1>17, <1>19, <1>20

\* The first store of a deletion: the entry is still there, without its hash.
LEMMA DeleteHashKeeps ==
    ASSUME HashTableInv, NEW w \in Writers, NEW key \in Keys, DeleteHash(w, key)
    PROVE  HashTableInv'
<1> USE DEF HashTableInv
<1> DEFINE t == table[md]
           hit == Hits(t, key)
           s == Probe(t, KeyHash[key])[CHOOSE i \in hit : \A h \in hit : i <= h]
           e == [t[s] EXCEPT !.hash = 0]
           u == [t EXCEPT ![s] = e]
<1>1. /\ UNCHANGED <<lockless_reads, md, val, count, need_sync, lock, readers, cbs>>
      /\ wr[w].pc = "locked" /\ ~lockless_reads /\ hit # {}
      /\ table' = [table EXCEPT ![md] = [@ EXCEPT ![s].hash = 0]]
      /\ wr' = [wr EXCEPT ![w].pc = "unlink", ![w].slot = s]
      /\ NoteChange
  BY DEF DeleteHash, WriterAt
<1>2. wr[w].new = None /\ wr[w].cb = {} /\ wr[w].cbs = {} /\ md # None /\ lock = w
  BY <1>1 DEF WritersInv, WriterOK, Holds
<1>3. md \in Tables /\ IsTable(t) /\ table \in [Tables -> Seq(Entries)] /\ TypeOK
  BY <1>2, CurrentTable DEF TypeOK
<1>4. s = Probe(t, KeyHash[key])[CHOOSE i \in Hits(t, key) : \A h \in Hits(t, key) : i <= h]
  OBVIOUS
<1>a. TypeOK /\ IsTable(t) /\ Hits(t, key) # {}
  BY <1>1, <1>3
<1> HIDE DEF s, t
<1>5. s \in DOMAIN t /\ s \in Moved(t)
  BY <1>4, <1>a, HitSlot, Zenon
<1>6. t[s] \in Entries /\ DOMAIN t = 1 .. Len(t) /\ s \in Nat
  BY <1>3, <1>5, TableFacts
<1>7. e \in Entries /\ e.hash = 0 /\ e.value = t[s].value
  BY <1>6 DEF Entries
<1>8. table' = [table EXCEPT ![md] = u]
  BY <1>1, <1>3, <1>5 DEF t
<1> HIDE DEF e
<1>9. /\ IsTable(u) /\ Len(u) = Len(t) /\ DOMAIN u = DOMAIN t
      /\ u[s] = e /\ \A z \in DOMAIN t \ {s} : u[z] = t[z]
  BY <1>3, <1>5, <1>7, StoreTable
<1> HIDE DEF u
<1>10. Moved(u) = Moved(t) /\ Values(u) = Values(t) /\ \A z \in DOMAIN t : u[z].value = t[z].value
  BY <1>5, <1>7, <1>9, StoreHash
<1>11. wr \in [Writers -> Writer] /\ wr[w] \in Writer
  BY DEF TypeOK
<1>12. wr'[w] = [[wr[w] EXCEPT !.pc = "unlink"] EXCEPT !.slot = s]
  BY <1>1, <1>11
<1>13. /\ wr'[w].pc = "unlink" /\ wr'[w].new = wr[w].new /\ wr'[w].cb = wr[w].cb
       /\ wr'[w].cbs = wr[w].cbs /\ wr'[w].waits = wr[w].waits
       /\ wr'[w].slot = s /\ wr'[w] \in Writer
  BY <1>6, <1>11, <1>12 DEF Writer, Holds
<1>14. \A x \in Writers \ {w} : wr'[x] = wr[x]
  BY <1>1, <1>11
<1>15. table'[md] = u
  BY <1>3, <1>8
<1>16. Current' \subseteq Vals
  BY <1>1, <1>2, <1>9, <1>15, CurrentNext
<1>17. rd' \in [Readers -> Reader] /\ \A r \in Readers : Stays(r)
  BY <1>1, <1>16, NoteFacts
<1>18. TypeOK'
  <2>1. wr' \in [Writers -> Writer]
    BY <1>1, <1>11, <1>13
  <2>2. table' \in [Tables -> Seq(Entries)] /\ \A x \in Tables : table'[x] # NoTable => IsTable(table'[x])
    BY <1>3, <1>8, <1>9, StoreTypes
  <2> QED
    BY <1>1, <1>17, <2>1, <2>2 DEF TypeOK
<1>19. CallbacksInv' /\ OwnersInv' /\ ReadersInv' /\ EachInv'
  <2>1. \A x \in Writers : /\ wr'[x].new = wr[x].new /\ wr'[x].cb = wr[x].cb
                           /\ wr'[x].cbs = wr[x].cbs /\ wr'[x].waits = wr[x].waits
    BY <1>13, <1>14
  <2>2. /\ DOMAIN u = DOMAIN table[md] /\ Len(u) = Len(table[md])
        /\ \A z \in DOMAIN u : u[z].value = table[md][z].value
    BY <1>9, <1>10 DEF t
  <2> QED
    BY <1>1, <1>2, <1>8, <1>9, <1>17, <2>1, <2>2, SameValues
<1>20. WritersInv'
  <2>1. WriterOK(w)'
    <3>1. wr'[w].slot \in Moved(table'[md'])
      BY <1>1, <1>5, <1>10, <1>13, <1>15
    <3> QED
      BY <1>1, <1>2, <1>13, <3>1 DEF WriterOK, Holds
  <2>2. \A x \in Writers \ {w} : WriterOK(x)'
    BY <1>1, <1>2, <1>14, OtherWriter DEF WritersInv
  <2> QED
    BY <2>1, <2>2 DEF WritersInv
<1>21. TableInv'
  <2>1. \A z : ~DeletingOf(wr, z)
    BY <1>1, OneHolder DEF DeletingOf, Holds
  <2>2. TableOf(lockless_reads, table, md, val, wr) /\ DeletingOf(wr', s)
    BY <1>13, TableIs DEF DeletingOf
  <2>3. ASSUME NEW z \in Moved(u), z # s
        PROVE  /\ u[z].hash = KeyHash[val[u[z].value]]
               /\ HomeOf(lockless_reads, u, z, u[z].hash)
    <3>1. /\ t[z].hash = KeyHash[val[t[z].value]] /\ HomeOf(lockless_reads, t, z, t[z].hash)
          /\ z \in DOMAIN t /\ t[z].value # None
      BY <1>2, <1>10, <2>1, <2>2 DEF TableOf, Moved, t
    <3>2. u[z] = t[z]
      BY <1>9, <2>3, <3>1
    <3>3. t[z].hash \in Nat /\ lockless_reads \in BOOLEAN
      BY <1>3, <3>1, TableFacts DEF TypeOK
    <3>4. HomeOf(lockless_reads, u, z, t[z].hash)
      BY <1>1, <1>3, <1>9, <3>1, <3>3, HomeKept
    <3> QED
      BY <3>1, <3>2, <3>4
  <2>4. TableOf(lockless_reads', table', md', val', wr')
    BY <1>1, <1>15, <2>2, <2>3 DEF TableOf
  <2> QED
    BY <1>1, <2>4, TableIs, TableNext
<1> QED
  BY <1>18, <1>19, <1>20, <1>21

----------------------------------------------------------------------------
(* Stores of a value: of an insertion, a replacement or a deletion.         *)

\* The writer's value v, or NULL, goes into entry s; what was there has a
\* callback now.
StoresValue(w, s, u, C) ==
    /\ md # None /\ s \in DOMAIN table[md] /\ wr[w].cbs = {} /\ wr[w].cb = {}
    /\ table' = [table EXCEPT ![md] = u]
    /\ IsTable(u) /\ Len(u) = Len(table[md]) /\ DOMAIN u = DOMAIN table[md]
    /\ u[s].value = wr[w].new /\ \A z \in DOMAIN u \ {s} : u[z] = table[md][z]
    /\ wr'[w].new = None /\ wr'[w].cbs = {} /\ wr'[w].cb = C
    /\ \A x \in Writers \ {w} : wr'[x] = wr[x] /\ wr[x].new = None
    /\ table[md][s].value = None => C = {}
    /\ table[md][s].value # None =>
        \E c \in Callbacks : C = {c} /\ FreedTables(c) = {} /\ \A T : FreedOf(T, c) = {table[md][s].value}
    /\ lockless_reads => table[md][s].value = None
    /\ count' = count + (IF wr[w].new = None THEN 0 ELSE 1)
                      - (IF table[md][s].value = None THEN 0 ELSE 1)
    /\ NoteChange

\* What becomes of the owners
LEMMA ValueOwners ==
    ASSUME HashTableInv, NEW w \in Writers, NEW s, NEW u, NEW C, StoresValue(w, s, u, C),
           UNCHANGED <<lockless_reads, md, val, readers, cbs>>
    PROVE  /\ CallbacksInv' /\ OwnersInv' /\ Current' \subseteq Vals /\ count' \in Nat
           /\ Current' = (Current \ {table[md][s].value}) \cup ({wr[w].new} \ {None})
           /\ \A c \in Retired : FreedOf(table', c) = FreedOf(table, c)
           /\ table[md][s].value = wr[w].new => wr[w].new = None
<1> USE DEF HashTableInv
<1> DEFINE t == table[md]
           old == t[s].value
           v == wr[w].new
<1>1. /\ md # None /\ s \in DOMAIN t /\ wr[w].cbs = {} /\ wr[w].cb = {}
      /\ table' = [table EXCEPT ![md] = u]
      /\ IsTable(u) /\ Len(u) = Len(t) /\ DOMAIN u = DOMAIN t
      /\ u[s].value = v /\ \A z \in DOMAIN u \ {s} : u[z] = t[z]
      /\ wr'[w].new = None /\ wr'[w].cbs = {} /\ wr'[w].cb = C
      /\ \A x \in Writers \ {w} : wr'[x] = wr[x] /\ wr[x].new = None
  BY DEF StoresValue
<1>2. /\ old = None => C = {}
      /\ old # None => \E c \in Callbacks : C = {c} /\ FreedTables(c) = {} /\ \A T : FreedOf(T, c) = {old}
      /\ count' = count + (IF v = None THEN 0 ELSE 1) - (IF old = None THEN 0 ELSE 1)
  BY DEF StoresValue
<1>3. md \in Tables /\ IsTable(t) /\ table \in [Tables -> Seq(Entries)] /\ Current = Values(t)
  BY <1>1, CurrentTable DEF TypeOK
<1>4. table'[md] = u /\ \A x \in Tables \ {md} : table'[x] = table[x]
  BY <1>1, <1>3
<1>5. Current \subseteq Vals /\ IsFiniteSet(Current) /\ Cardinality(Current) \in Nat
  BY <1>1, CurrentTable
<1>6. v \in Vals \cup {None}
  BY DEF TypeOK, Writer
<1>7. OwnedVals(Current, Retired, table, wr, val) /\ OwnedTables(Retired, table, md) /\ HeldOnce(table, md)
      /\ count = Cardinality(Current)
  BY OwnersIs
<1>8. Current' = Values(u) /\ Current' \subseteq Vals
  BY <1>1, <1>4, CurrentNext
<1> HIDE DEF v
<1>9. \A y, z \in Moved(t) : t[y].value = t[z].value => y = z
  BY <1>1, <1>7 DEF HeldOnce
<1> HIDE DEF t
<1>10. /\ Values(u) = (Values(t) \ {old}) \cup ({v} \ {None})
       /\ v # None => Moved(u) = Moved(t) \cup {s}
       /\ v = None => Moved(u) = Moved(t) \ {s}
  <2>1. s \in DOMAIN t /\ DOMAIN u = DOMAIN t /\ u[s].value = v /\ \A z \in DOMAIN t \ {s} : u[z] = t[z]
    BY <1>1
  <2>2. v # None => Moved(u) = Moved(t) \cup {s}
    BY <1>3, <2>1, StoreValue
  <2>3. v = None => Moved(u) = Moved(t) \ {s}
    BY <1>3, <2>1, StoreValue
  <2>4. Values(u) = (Values(t) \ {t[s].value}) \cup ({v} \ {None})
    BY <1>3, <1>9, <2>1, StoreUnique
  <2> QED
    BY <2>2, <2>3, <2>4
<1>11. /\ v \notin Current /\ (\A c \in Retired : v \notin FreedOf(table, c))
  <2>1. None \notin Current /\ \A c \in Retired : None \notin FreedOf(table, c)
    BY <1>5, FreedAre, HashTableAssumption
  <2> QED
    BY <1>7, <2>1 DEF OwnedVals, v
<1>12. old # None => old \in Current /\ old \in Vals
  BY <1>1, <1>3, <1>5, InValues DEF Moved
<1>13. old = v => v = None
  BY <1>11, <1>12
<1> HIDE DEF old
<1>14. Current' = (Current \ {old}) \cup ({v} \ {None})
  BY <1>3, <1>8, <1>10
<1>15. \A c \in Retired : FreedOf(table', c) = FreedOf(table, c)
  BY <1>4, FreedSame
<1>16. Retired' = Retired \cup C
  <2>1. \A c : c \in Retired <=> c \in cbs \/ \E x \in Writers : c \in wr[x].cbs \/ c \in wr[x].cb
    BY RetiredIs, InRetired
  <2>2. \A c : c \in Retired' <=> c \in cbs' \/ \E x \in Writers : c \in wr'[x].cbs \/ c \in wr'[x].cb
    BY RetiredIs, InRetired
  <2>3. ASSUME NEW c \in Retired PROVE c \in Retired'
    <3>1. CASE c \in cbs
      BY <2>2, <3>1
    <3>2. CASE \E x \in Writers : c \in wr[x].cbs \/ c \in wr[x].cb
      BY <1>1, <2>2, <3>2
    <3> QED
      BY <2>1, <3>1, <3>2
  <2>4. ASSUME NEW c \in Retired' PROVE c \in Retired \cup C
    <3>1. CASE c \in cbs
      BY <2>1, <3>1
    <3>2. CASE c \notin cbs
      <4>1. PICK x \in Writers : c \in wr'[x].cbs \/ c \in wr'[x].cb
        BY <2>2, <3>2
      <4> QED
        BY <1>1, <2>1, <4>1
    <3> QED
      BY <3>1, <3>2
  <2>5. C \subseteq Retired'
    BY <1>1, <2>2
  <2> QED
    BY <2>3, <2>4, <2>5
<1>17. \A c \in C : c \notin Retired /\ FreedTables(c) = {} /\ FreedOf(table', c) = {old}
                    /\ old # None /\ old \in Current
  <2>1. \A c \in C : FreedTables(c) = {} /\ FreedOf(table', c) = {old} /\ FreedOf(table, c) = {old}
                     /\ old # None
    BY <1>2
  <2>2. \A c \in C : old \in Current
    BY <1>12, <2>1
  <2> QED
    BY <1>7, <2>1, <2>2 DEF OwnedVals
<1>18. \A c, d \in C : c = d
  BY <1>2
<1>19. CallbacksInv'
  BY <1>1, <1>17, CallbacksKept
<1>20. OwnersInv'
  <2>1. \A x \in Writers : wr'[x].new = None
    BY <1>1
  <2>2. \A x \in Vals : (\E y \in Writers : wr[y].new = x) <=> x = v
    BY <1>1, <1>6, HashTableAssumption DEF v
  <2>3. \A c \in Retired : FreedOf(table, c) \subseteq Vals
    BY FreedAre
  <2>4. \A x \in Vals : val'[x] # None <=> \/ x \in Current'
                                           \/ \E c \in Retired' : x \in FreedOf(table', c)
                                           \/ \E y \in Writers : wr'[y].new = x
    <3> SUFFICES ASSUME NEW x \in Vals
                 PROVE  val[x] # None <=> \/ x \in Current'
                                          \/ \E c \in Retired' : x \in FreedOf(table', c)
      BY <2>1, HashTableAssumption
    <3>1. val[x] # None <=> \/ x \in Current
                            \/ \E c \in Retired : x \in FreedOf(table, c)
                            \/ x = v
      BY <1>7, <2>2 DEF OwnedVals
    <3>2. (\E c \in Retired' : x \in FreedOf(table', c)) <=>
            \/ \E c \in Retired : x \in FreedOf(table, c)
            \/ x = old
      <4>1. (\E c \in C : x \in FreedOf(table', c)) <=> x = old
        BY <1>2, <1>17, HashTableAssumption
      <4> QED
        BY <1>15, <1>16, <4>1
    <3> QED
      BY <1>12, <1>14, <3>1, <3>2, HashTableAssumption
  <2>5. \A x \in Current' : \A c \in Retired' : x \notin FreedOf(table', c)
    <3> SUFFICES ASSUME NEW x \in Current', NEW c \in Retired' PROVE x \notin FreedOf(table', c)
      OBVIOUS
    <3>1. CASE c \in Retired
      BY <1>7, <1>11, <1>14, <1>15, <3>1 DEF OwnedVals
    <3>2. CASE c \in C
      BY <1>13, <1>14, <1>17, <3>2
    <3> QED
      BY <1>16, <3>1, <3>2
  <2>6. \A c, d \in Retired' : FreedOf(table', c) \cap FreedOf(table', d) # {} => c = d
    <3>1. \A c, d \in Retired : FreedOf(table', c) \cap FreedOf(table', d) # {} => c = d
      BY <1>7, <1>15 DEF OwnedVals
    <3>2. \A c \in Retired, d \in C : FreedOf(table', c) \cap FreedOf(table', d) = {}
      BY <1>7, <1>15, <1>17 DEF OwnedVals
    <3>3. \A c \in Retired' : c \in Retired \/ c \in C
      BY <1>16
    <3> QED
      BY <1>18, <3>1, <3>2, <3>3
  <2>7. \A x \in Vals : \A y \in Writers : wr'[y].new # x
    BY <2>1, HashTableAssumption
  <2>8. \A c \in Retired' : FreedOf(table', c) \subseteq Vals
    BY <1>12, <1>15, <1>16, <1>17, <2>3
  <2>9. OwnedVals(Current', Retired', table', wr', val')
    BY <1>8, <2>4, <2>5, <2>6, <2>7, <2>8 DEF OwnedVals
  <2>10. u # NoTable /\ t # NoTable
    BY <1>1, <1>3, TableFacts
  <2>11. OwnedTables(Retired', table', md')
    <3>1. \A x \in Tables : table'[x] # NoTable <=> table[x] # NoTable
      BY <1>4, <2>10 DEF t
    <3>2. \A x : (\E c \in Retired' : x \in FreedTables(c)) <=> (\E c \in Retired : x \in FreedTables(c))
      BY <1>16, <1>17
    <3>3. \A c \in C : FreedTables(c) = {}
      BY <1>17
    <3> QED
      BY <1>7, <1>16, <3>1, <3>2, <3>3 DEF OwnedTables
  <2>12. HeldOnce(table', md')
    <3>1. \A y, z \in Moved(u) : u[y].value = u[z].value => y = z
      <4> SUFFICES ASSUME NEW y \in Moved(u), NEW z \in Moved(u), u[y].value = u[z].value, y # z
                   PROVE  FALSE
        OBVIOUS
      <4>1. CASE y # s /\ z # s
        BY <1>1, <1>9, <4>1 DEF Moved
      <4>2. ASSUME NEW x \in Moved(u), x # s PROVE u[x].value # v
        <5>1. x \in Moved(t) /\ u[x] = t[x]
          BY <1>1, <4>2 DEF Moved
        <5>2. t[x].value \in Current
          BY <1>3, <5>1, InValues
        <5> QED
          BY <1>11, <5>1, <5>2
      <4> QED
        BY <1>1, <4>1, <4>2
    <3> QED
      BY <1>4, <2>10, <3>1 DEF HeldOnce
  <2>13. count' = Cardinality(Current') /\ count' \in Nat
    <3>1. IsFiniteSet(Current \ {old}) /\ Cardinality(Current \ {old}) = IF old \in Current THEN Cardinality(Current) - 1 ELSE Cardinality(Current)
      BY <1>5, FS_RemoveElement
    <3>2. old \in Current <=> old # None
      BY <1>5, <1>12, HashTableAssumption
    <3>3. v \notin Current \ {old}
      BY <1>11
    <3>4. /\ IsFiniteSet((Current \ {old}) \cup {v})
          /\ Cardinality((Current \ {old}) \cup {v}) = Cardinality(Current \ {old}) + 1
      BY <3>1, <3>3, FS_AddElement
    <3>5. IsFiniteSet(Current') /\ Cardinality(Current') \in Nat
      <4>1. CASE v = None
        <5>1. Current' = Current \ {old}
          BY <1>14, <4>1
        <5> QED
          BY <3>1, <5>1, FS_CardinalityType
      <4>2. CASE v # None
        <5>1. Current' = (Current \ {old}) \cup {v}
          BY <1>14, <4>2
        <5> QED
          BY <3>4, <5>1, FS_CardinalityType
      <4> QED
        BY <4>1, <4>2
    <3>6. CASE v = None
      <4>1. Current' = Current \ {old}
        BY <1>14, <3>6
      <4> QED
        BY <1>2, <1>5, <1>7, <3>1, <3>2, <3>5, <3>6, <4>1
    <3>7. CASE v # None
      <4>1. Current' = (Current \ {old}) \cup {v}
        BY <1>14, <3>7
      <4> QED
        BY <1>2, <1>5, <1>7, <3>1, <3>2, <3>4, <3>5, <3>7, <4>1
    <3> QED
      BY <3>6, <3>7
  <2> QED
    BY <2>9, <2>11, <2>12, <2>13, OwnersNext
<1>21. count' \in Nat
  <2>1. count' = Cardinality(Current')
    BY <1>20, OwnersNext
  <2> QED
    BY <1>1, <1>4, <1>8, <2>1, ValuesFacts
<1> QED
  BY <1>8, <1>13, <1>14, <1>15, <1>19, <1>20, <1>21 DEF old, v, t

\* What becomes of the readers
LEMMA ValueReaders ==
    ASSUME HashTableInv, NEW w \in Writers, NEW s, NEW u, NEW C, StoresValue(w, s, u, C),
           UNCHANGED <<lockless_reads, md, val, readers, cbs>>
    PROVE  ReadersInv' /\ EachInv' /\ rd' \in [Readers -> Reader]
<1> USE DEF HashTableInv
<1> DEFINE t == table[md]
           old == t[s].value
<1>1. /\ md # None /\ s \in DOMAIN t /\ table' = [table EXCEPT ![md] = u]
      /\ IsTable(u) /\ Len(u) = Len(t) /\ DOMAIN u = DOMAIN t
      /\ u[s].value = wr[w].new /\ \A z \in DOMAIN u \ {s} : u[z] = t[z]
      /\ wr'[w].new = None /\ wr'[w].cbs = {} /\ NoteChange
      /\ \A x \in Writers \ {w} : wr'[x] = wr[x] /\ wr[x].new = None
  BY DEF StoresValue
<1>2. md \in Tables /\ IsTable(t) /\ table \in [Tables -> Seq(Entries)]
  BY <1>1, CurrentTable DEF TypeOK
<1>3. table'[md] = u /\ \A x \in Tables \ {md} : table'[x] = table[x]
  BY <1>1, <1>2
<1>4. /\ OwnersInv' /\ Current' \subseteq Vals
      /\ Current' = (Current \ {old}) \cup ({wr[w].new} \ {None})
      /\ \A c \in Retired : FreedOf(table', c) = FreedOf(table, c)
      /\ old = wr[w].new => wr[w].new = None
  BY ValueOwners
<1>5. rd' \in [Readers -> Reader]
  BY <1>1, <1>4, NoteFacts
<1>6. \A r \in Readers : Stays(r) /\ (rd[r].pc \in {"each", "visit"} => rd'[r].must \subseteq Current')
  BY <1>1, <1>4, NoteFacts
<1>7. Values(u) = Current'
  BY <1>1, <1>3, CurrentNext
<1>8. old \notin Current'
  BY <1>4, HashTableAssumption
<1> HIDE DEF t, old
<1>9. ASSUME NEW r \in Readers PROVE ReaderOK(r)' /\ EachOK(r)'
  <2>1. ReaderOK(r) /\ EachOK(r) /\ Stays(r)
    BY <1>6 DEF ReadersInv, EachInv
  <2>2. ReaderOf(r, rd[r], lockless_reads, table, val, md, readers, wr)
    BY <2>1, ReaderIs
  <2>3. \A v \in ReachOf(table, rd[r]) : v \in Vals /\ val[v] # None
    BY <2>2 DEF ReaderOf
  <2>4. \A x \in Writers : wr'[x].new = None
    BY <1>1
  <2>5. \A v \in ReachOf(table, rd[r]) : val'[v] # None /\ \A x \in Writers : wr'[x].new # v
    BY <2>3, <2>4, HashTableAssumption
  <2>6. Walks(r) => rd[r].md \in Tables /\ table[rd[r].md] # NoTable
    BY <2>2 DEF ReaderOf, Walks
  <2>7. Walks(r) => /\ table'[rd[r].md] # NoTable
                    /\ Len(table'[rd[r].md]) = Len(table[rd[r].md])
                    /\ DOMAIN table'[rd[r].md] = DOMAIN table[rd[r].md]
                    /\ Values(table'[rd[r].md]) \subseteq Values(table[rd[r].md]) \cup Current'
    <3>1. CASE rd[r].md = md
      BY <1>1, <1>3, <1>7, <3>1, TableFacts DEF t
    <3>2. CASE rd[r].md # md
      BY <1>3, <2>6, <3>2
    <3> QED
      BY <3>1, <3>2
  <2>8. \A x \in Writers : \A c \in wr'[x].cbs :
              /\ c \in wr[x].cbs /\ wr'[x].waits = wr[x].waits
              /\ FreedOf(table', c) = FreedOf(table, c)
    <3>1. \A x \in Writers : \A c \in wr[x].cbs : c \in Retired
      BY RetiredIs, InRetired
    <3> QED
      BY <1>1, <1>4, <3>1
  <2>9. ReaderOK(r)'
    BY <1>1, <1>4, <2>1, <2>5, <2>7, <2>8, ReaderKept
  <2>10. rd[r].pc \in {"each", "visit"} =>
              \A z \in DOMAIN table[rd[r].md] :
                    table[rd[r].md][z].value \in rd'[r].must =>
                        table'[rd[r].md][z].value = table[rd[r].md][z].value
    <3> SUFFICES ASSUME rd[r].pc \in {"each", "visit"}, NEW z \in DOMAIN table[rd[r].md],
                        table[rd[r].md][z].value \in Current'
                 PROVE  table'[rd[r].md][z].value = table[rd[r].md][z].value
      BY <1>6
    <3>1. CASE rd[r].md # md
      BY <1>3, <2>6, <3>1 DEF Walks
    <3>2. CASE rd[r].md = md
      <4>1. z # s
        BY <1>8, <3>2 DEF old, t
      <4> QED
        BY <1>1, <1>3, <3>2, <4>1 DEF t
    <3> QED
      BY <3>1, <3>2
  <2>11. EachOK(r)'
    BY <2>1, <2>7, <2>10, EachKept DEF Walks
  <2> QED
    BY <2>9, <2>11
<1> QED
  BY <1>5, <1>9 DEF ReadersInv, EachInv

\* The second store of an insertion: the table owns the new value, and in a
\* replacement a callback the old one.
LEMMA InsertValueKeeps ==
    ASSUME HashTableInv, NEW w \in Writers, InsertValue(w)
    PROVE  HashTableInv'
<1> USE DEF HashTableInv
<1> DEFINE t == table[md]
           s == wr[w].slot
           v == wr[w].new
           old == t[s].value
           c == [fn |-> "free_old_ht_value", arg |-> old]
           C == IF old = None THEN {} ELSE {c}
           e == [t[s] EXCEPT !.value = v]
           u == [t EXCEPT ![s] = e]
<1>1. /\ UNCHANGED <<lockless_reads, md, val, need_sync, lock, readers, cbs>>
      /\ wr[w].pc = "store"
      /\ table' = [table EXCEPT ![md] = [@ EXCEPT ![s].value = v]]
      /\ count' = IF old = None THEN count + 1 ELSE count
      /\ wr' = [wr EXCEPT ![w] = IF old = None THEN [NoWriter EXCEPT !.pc = "locked"]
                                 ELSE [NoWriter EXCEPT !.pc = "retire", !.cb = {c}]]
      /\ NoteChange
  BY DEF InsertValue, WriterAt
<1>2. /\ v # None /\ wr[w].key \in Keys /\ wr[w].cb = {} /\ wr[w].cbs = {} /\ md # None /\ lock = w
      /\ val[v] = wr[w].key /\ s \in DOMAIN t /\ t[s].hash = KeyHash[wr[w].key]
      /\ lockless_reads => old = None
  BY <1>1 DEF WritersInv, WriterOK, Holds
<1>3. HomeOf(lockless_reads, t, s, KeyHash[wr[w].key])
  BY <1>1, HomeIs DEF WritersInv, WriterOK
<1>4. md \in Tables /\ IsTable(t) /\ table \in [Tables -> Seq(Entries)] /\ lockless_reads \in BOOLEAN /\ count \in Nat
  BY <1>2, CurrentTable DEF TypeOK
<1>5. wr \in [Writers -> Writer] /\ wr[w] \in Writer /\ v \in Vals
  BY <1>2 DEF TypeOK, Writer
<1>6. t[s] \in Entries /\ old \in Vals \cup {None}
  BY <1>2, <1>4, TableFacts
<1>7. e \in Entries /\ e.hash = t[s].hash /\ e.value = v
  BY <1>5, <1>6 DEF Entries
<1>8. table' = [table EXCEPT ![md] = u]
  BY <1>1, <1>2, <1>4
<1> HIDE DEF e, v, s
<1>9. /\ IsTable(u) /\ Len(u) = Len(t) /\ DOMAIN u = DOMAIN t
      /\ u[s] = e /\ \A z \in DOMAIN t \ {s} : u[z] = t[z]
  BY <1>2, <1>4, <1>7, StoreTable
<1> HIDE DEF u
<1>10. /\ old = None => C = {}
       /\ old # None => c \in Callbacks /\ C = {c} /\ FreedTables(c) = {} /\ \A T : FreedOf(T, c) = {old}
  BY <1>6 DEF Callbacks, FreedTables, FreedOf
<1>11. C \subseteq Callbacks
  BY <1>10
<1>12. /\ wr'[w].new = None /\ wr'[w].cbs = {} /\ wr'[w].replace = FALSE
       /\ wr'[w].pc = IF old = None THEN "locked" ELSE "retire"
       /\ wr'[w].cb = C /\ wr'[w] \in Writer
  <2>1. CASE old = None
    <3>1. wr'[w] = [NoWriter EXCEPT !.pc = "locked"]
      BY <1>1, <1>5, <2>1
    <3>2. wr'[w] = [NoWriter EXCEPT !.pc = "locked", !.cb = {}] /\ "locked" \in Holds
      BY <3>1 DEF NoWriter, Holds
    <3>3. {} \in SUBSET Callbacks /\ C = {}
      BY <2>1
    <3>4. Fresh(wr'[w], "locked", {})
      BY <3>2, <3>3, FreshWriter
    <3> HIDE DEF C, old
    <3> QED
      BY <2>1, <3>3, <3>4 DEF Fresh
  <2>2. CASE old # None
    <3>1. wr'[w] = [NoWriter EXCEPT !.pc = "retire", !.cb = {c}]
      BY <1>1, <1>5, <2>2
    <3>2. {c} \in SUBSET Callbacks /\ C = {c} /\ "retire" \in Holds
      BY <1>10, <2>2 DEF Holds
    <3> HIDE DEF c, old, C
    <3>3. Fresh(wr'[w], "retire", {c})
      BY <3>1, <3>2, FreshWriter
    <3> QED
      BY <2>2, <3>2, <3>3 DEF Fresh
  <2> QED
    BY <2>1, <2>2
<1>13. \A x \in Writers \ {w} : wr'[x] = wr[x] /\ wr[x].new = None
  BY <1>1, <1>5, OneHolder DEF Holds
<1> HIDE DEF c
<1>14. old # None => \E d \in Callbacks : C = {d} /\ FreedTables(d) = {} /\ \A T : FreedOf(T, d) = {old}
  BY <1>10
<1> HIDE DEF C, old, t
<1>15. StoresValue(w, s, u, C)
  <2>1. count' = count + (IF v = None THEN 0 ELSE 1) - (IF old = None THEN 0 ELSE 1)
    BY <1>1, <1>2, <1>4
  <2>2. u[s].value = v
    BY <1>7, <1>9
  <2> QED
    BY <1>1, <1>2, <1>8, <1>9, <1>10, <1>12, <1>13, <1>14, <2>1, <2>2 DEF StoresValue, t, old, v
<1>16. CallbacksInv' /\ OwnersInv' /\ count' \in Nat
  BY <1>1, <1>15, ValueOwners
<1>17. ReadersInv' /\ EachInv' /\ rd' \in [Readers -> Reader]
  BY <1>1, <1>15, ValueReaders
<1>18. table'[md] = u
  BY <1>4, <1>8
<1>19. TypeOK'
  <2>1. wr' \in [Writers -> Writer]
    BY <1>1, <1>5, <1>12
  <2>2. table' \in [Tables -> Seq(Entries)] /\ \A x \in Tables : table'[x] # NoTable => IsTable(table'[x])
    BY <1>4, <1>8, <1>9, StoreTypes
  <2> QED
    BY <1>1, <1>16, <1>17, <2>1, <2>2 DEF TypeOK
<1>20. WritersInv'
  <2>1. WriterOK(w)'
    <3>1. wr'[w].pc # "retire" => wr'[w].cb = {}
      BY <1>10, <1>12
    <3>2. lockless_reads => wr'[w].pc = "locked"
      BY <1>2, <1>12
    <3> QED
      BY <1>1, <1>2, <1>12, <3>1, <3>2 DEF WriterOK, Holds
  <2>2. \A x \in Writers \ {w} : WriterOK(x)'
    BY <1>1, <1>2, <1>13, OtherWriter DEF WritersInv
  <2> QED
    BY <2>1, <2>2 DEF WritersInv
<1>21. TableInv'
  <2>1. \A z : ~DeletingOf(wr, z)
    BY <1>1, OneHolder DEF DeletingOf, Holds
  <2>2. TableOf(lockless_reads, table, md, val, wr)
    BY TableIs
  <2>3. \A z \in DOMAIN t : t[z].value # None => u[z].value # None
    BY <1>2, <1>7, <1>9
  <2>4. ASSUME NEW z \in Moved(u)
        PROVE  /\ u[z].hash = KeyHash[val[u[z].value]]
               /\ HomeOf(lockless_reads, u, z, u[z].hash)
    <3>1. CASE z # s
      <4>1. z \in Moved(t) /\ z \in DOMAIN t
        BY <1>9, <3>1 DEF Moved
      <4>2. t[z].hash = KeyHash[val[t[z].value]] /\ HomeOf(lockless_reads, t, z, t[z].hash)
        BY <1>2, <2>1, <2>2, <4>1 DEF TableOf, t
      <4>3. u[z] = t[z] /\ t[z].hash \in Nat
        BY <1>4, <1>9, <3>1, <4>1, TableFacts
      <4>4. HomeOf(lockless_reads, u, z, t[z].hash)
        BY <1>4, <1>9, <2>3, <4>2, <4>3, HomeKept
      <4> QED
        BY <4>2, <4>3, <4>4
    <3>2. CASE z = s
      <4>1. KeyHash[wr[w].key] \in Nat
        BY <1>2, HashTableAssumption
      <4>2. HomeOf(lockless_reads, u, s, KeyHash[wr[w].key])
        BY <1>3, <1>4, <1>9, <2>3, <4>1, HomeKept
      <4> QED
        BY <1>2, <1>7, <1>9, <3>2, <4>2
    <3> QED
      BY <3>1, <3>2
  <2>5. TableOf(lockless_reads', table', md', val', wr')
    BY <1>1, <1>18, <2>4 DEF TableOf
  <2> QED
    BY <1>1, <2>5, TableIs, TableNext
<1> QED
  BY <1>16, <1>17, <1>19, <1>20, <1>21

\* The second store of a deletion: a callback owns the value.
LEMMA DeleteValueKeeps ==
    ASSUME HashTableInv, NEW w \in Writers, DeleteValue(w)
    PROVE  HashTableInv'
<1> USE DEF HashTableInv
<1> DEFINE t == table[md]
           s == wr[w].slot
           old == t[s].value
           c == [fn |-> "free_old_entry", arg |-> old]
           e == [t[s] EXCEPT !.value = None]
           u == [t EXCEPT ![s] = e]
<1>1. /\ UNCHANGED <<lockless_reads, md, val, need_sync, lock, readers, cbs>>
      /\ wr[w].pc = "unlink"
      /\ table' = [table EXCEPT ![md] = [@ EXCEPT ![s].value = None]]
      /\ count' = count - 1
      /\ wr' = [wr EXCEPT ![w] = [NoWriter EXCEPT !.pc = "retire", !.cb = {c}]]
      /\ NoteChange
  BY DEF DeleteValue, WriterAt
<1>2. /\ wr[w].new = None /\ wr[w].cb = {} /\ wr[w].cbs = {} /\ md # None /\ lock = w
      /\ s \in Moved(t) /\ ~lockless_reads
  BY <1>1 DEF WritersInv, WriterOK, Holds
<1>3. md \in Tables /\ IsTable(t) /\ table \in [Tables -> Seq(Entries)] /\ count \in Nat
  BY <1>2, CurrentTable DEF TypeOK
<1>4. wr \in [Writers -> Writer] /\ wr[w] \in Writer
  BY DEF TypeOK
<1>5. s \in DOMAIN t /\ old # None
  BY <1>2 DEF Moved
<1>6. t[s] \in Entries /\ old \in Vals
  BY <1>3, <1>5, TableFacts
<1>7. e \in Entries /\ e.value = None
  BY <1>6 DEF Entries
<1>8. table' = [table EXCEPT ![md] = u]
  BY <1>1, <1>3, <1>5
<1> HIDE DEF e, s
<1>9. /\ IsTable(u) /\ Len(u) = Len(t) /\ DOMAIN u = DOMAIN t
      /\ u[s] = e /\ \A z \in DOMAIN t \ {s} : u[z] = t[z]
  BY <1>3, <1>5, <1>7, StoreTable
<1> HIDE DEF u
<1>10. c \in Callbacks /\ FreedTables(c) = {} /\ \A T : FreedOf(T, c) = {old}
  BY <1>6 DEF Callbacks, FreedTables, FreedOf
<1>11. wr'[w] = [NoWriter EXCEPT !.pc = "retire", !.cb = {c}]
  BY <1>1, <1>4
<1> HIDE DEF c, old
<1>12. /\ wr'[w].new = None /\ wr'[w].cbs = {} /\ wr'[w].replace = FALSE
       /\ wr'[w].pc = "retire" /\ wr'[w].cb = {c} /\ wr'[w] \in Writer
  <2>1. {c} \in SUBSET Callbacks /\ "retire" \in Holds
    BY <1>10 DEF Holds
  <2>2. Fresh(wr'[w], "retire", {c})
    BY <1>11, <2>1, FreshWriter
  <2> QED
    BY <2>2 DEF Fresh
<1>13. \A x \in Writers \ {w} : wr'[x] = wr[x] /\ wr[x].new = None
  BY <1>1, <1>4, OneHolder DEF Holds
<1> HIDE DEF t
<1>14. StoresValue(w, s, u, {c})
  <2>1. count' = count + (IF wr[w].new = None THEN 0 ELSE 1) - (IF old = None THEN 0 ELSE 1)
    BY <1>1, <1>2, <1>3, <1>5
  <2>2. u[s].value = wr[w].new
    BY <1>2, <1>7, <1>9
  <2> QED
    BY <1>1, <1>2, <1>5, <1>8, <1>9, <1>10, <1>12, <1>13, <2>1, <2>2 DEF StoresValue, t, old
<1>15. CallbacksInv' /\ OwnersInv' /\ count' \in Nat
  BY <1>1, <1>14, ValueOwners
<1>16. ReadersInv' /\ EachInv' /\ rd' \in [Readers -> Reader]
  BY <1>1, <1>14, ValueReaders
<1>17. table'[md] = u
  BY <1>3, <1>8
<1>18. TypeOK'
  <2>1. wr' \in [Writers -> Writer]
    BY <1>1, <1>4, <1>12
  <2>2. table' \in [Tables -> Seq(Entries)] /\ \A x \in Tables : table'[x] # NoTable => IsTable(table'[x])
    BY <1>3, <1>8, <1>9, StoreTypes
  <2> QED
    BY <1>1, <1>15, <1>16, <2>1, <2>2 DEF TypeOK
<1>19. WritersInv'
  <2>1. WriterOK(w)'
    BY <1>1, <1>2, <1>12 DEF WriterOK, Holds
  <2>2. \A x \in Writers \ {w} : WriterOK(x)'
    BY <1>1, <1>2, <1>13, OtherWriter DEF WritersInv
  <2> QED
    BY <2>1, <2>2 DEF WritersInv
<1>20. TableInv'
  <2>1. \A z : DeletingOf(wr, z) => z = s
    BY <1>1, OneHolder DEF DeletingOf, Holds, s
  <2>2. TableOf(lockless_reads, table, md, val, wr)
    BY TableIs
  <2>3. ASSUME NEW z \in Moved(u)
        PROVE  /\ u[z].hash = KeyHash[val[u[z].value]]
               /\ HomeOf(lockless_reads, u, z, u[z].hash)
    <3>1. z # s
      BY <1>7, <1>9 DEF Moved
    <3>2. z \in Moved(t) /\ z \in DOMAIN t
      BY <1>9, <3>1 DEF Moved
    <3>3. t[z].hash = KeyHash[val[t[z].value]] /\ HomeOf(lockless_reads, t, z, t[z].hash)
      BY <1>2, <2>1, <2>2, <3>1, <3>2 DEF TableOf, t
    <3>4. u[z] = t[z] /\ t[z].hash \in Nat /\ lockless_reads \in BOOLEAN
      BY <1>3, <1>9, <3>1, <3>2, TableFacts DEF TypeOK
    <3>5. HomeOf(lockless_reads, u, z, t[z].hash)
      BY <1>2, <1>3, <1>9, <3>3, <3>4, HomeKept
    <3> QED
      BY <3>3, <3>4, <3>5
  <2>4. TableOf(lockless_reads', table', md', val', wr')
    BY <1>1, <1>17, <2>3 DEF TableOf
  <2> QED
    BY <1>1, <2>4, TableIs, TableNext
<1> QED
  BY <1>15, <1>16, <1>18, <1>19, <1>20

----------------------------------------------------------------------------
(* Publishing a table: growing and flushing.                               *)

\* A new table x is current; the old one has a callback, which frees its values
\* unless the new table has them.
Publishes(w, x, u, c) ==
    /\ md # None /\ ~lockless_reads /\ x \in Tables /\ table[x] = NoTable
    /\ md' = x /\ table' = [table EXCEPT ![x] = u]
    /\ IsTable(u) /\ \A s, z \in Moved(u) : u[s].value = u[z].value => s = z
    /\ wr[w].cbs = {} /\ wr[w].cb = {} /\ wr'[w].new = wr[w].new /\ wr'[w].cbs = {} /\ wr'[w].cb = {c}
    /\ \A y \in Writers \ {w} : wr'[y] = wr[y]
    /\ c \in Callbacks /\ FreedTables(c) = {md}
    /\ \/ FreedOf(table', c) = {} /\ Values(u) = Values(table[md])
       \/ FreedOf(table', c) = Values(table[md]) /\ Values(u) = {}
    /\ count' = Cardinality(Values(u))
    /\ NoteChange

\* What holds whenever the pointer of the table is replaced: the old table has a
\* callback, and readers walk on in it.
LEMMA PublishKeeps ==
    ASSUME HashTableInv, NEW w \in Writers, NEW x, NEW u, NEW c, Publishes(w, x, u, c),
           UNCHANGED <<lockless_reads, val, readers, cbs>>
    PROVE  /\ CallbacksInv' /\ OwnersInv' /\ ReadersInv' /\ EachInv'
           /\ rd' \in [Readers -> Reader] /\ count' \in Nat
           /\ table' \in [Tables -> Seq(Entries)]
           /\ \A y \in Tables : table'[y] # NoTable => IsTable(table'[y])
<1> USE DEF HashTableInv
<1> DEFINE t == table[md]
<1>1. /\ md # None /\ ~lockless_reads /\ x \in Tables /\ table[x] = NoTable
      /\ md' = x /\ table' = [table EXCEPT ![x] = u]
      /\ IsTable(u) /\ \A s, z \in Moved(u) : u[s].value = u[z].value => s = z
      /\ wr[w].cbs = {} /\ wr[w].cb = {} /\ wr'[w].new = wr[w].new /\ wr'[w].cbs = {} /\ wr'[w].cb = {c}
      /\ \A y \in Writers \ {w} : wr'[y] = wr[y]
  BY DEF Publishes
<1>2. /\ c \in Callbacks /\ FreedTables(c) = {md} /\ NoteChange
      /\ \/ FreedOf(table', c) = {} /\ Values(u) = Values(t)
         \/ FreedOf(table', c) = Values(t) /\ Values(u) = {}
      /\ count' = Cardinality(Values(u))
  BY DEF Publishes
<1>3. md \in Tables /\ IsTable(t) /\ table \in [Tables -> Seq(Entries)] /\ Current = Values(t) /\ t # NoTable
  BY <1>1, CurrentTable DEF TypeOK
<1>4. x # md /\ x # None /\ u # NoTable /\ u \in Seq(Entries)
  BY <1>1, <1>3, TableFacts, HashTableAssumption
<1>5. table'[x] = u /\ \A y \in Tables \ {x} : table'[y] = table[y]
  BY <1>1, <1>3
<1>6. Current' = Values(u) /\ Current' \subseteq Vals
  BY <1>1, <1>4, <1>5, CurrentNext
<1>7. rd' \in [Readers -> Reader] /\ \A r \in Readers : Stays(r)
  BY <1>2, <1>6, NoteFacts
<1>8. /\ table' \in [Tables -> Seq(Entries)]
      /\ \A y \in Tables : table'[y] # NoTable => IsTable(table'[y])
  BY <1>1, <1>3, <1>4, <1>5 DEF TypeOK
<1>9. count' \in Nat
  BY <1>1, <1>2, ValuesFacts
<1> HIDE DEF t
<1>10. OwnedVals(Current, Retired, table, wr, val) /\ OwnedTables(Retired, table, md)
  BY OwnersIs
<1>11. \A d \in Retired : FreedOf(table', d) = FreedOf(table, d)
  BY <1>1, <1>5, FreedSame
<1>12. c \notin Retired
  BY <1>2, <1>10 DEF OwnedTables
<1>13. Retired' = Retired \cup {c}
  <2>1. \A d : d \in Retired <=> d \in cbs \/ \E y \in Writers : d \in wr[y].cbs \/ d \in wr[y].cb
    BY RetiredIs, InRetired
  <2>2. \A d : d \in Retired' <=> d \in cbs' \/ \E y \in Writers : d \in wr'[y].cbs \/ d \in wr'[y].cb
    BY RetiredIs, InRetired
  <2>3. ASSUME NEW d \in Retired PROVE d \in Retired'
    <3>1. CASE d \in cbs
      BY <2>2, <3>1
    <3>2. CASE \E y \in Writers : d \in wr[y].cbs \/ d \in wr[y].cb
      BY <1>1, <2>2, <3>2
    <3> QED
      BY <2>1, <3>1, <3>2
  <2>4. ASSUME NEW d \in Retired' PROVE d \in Retired \cup {c}
    <3>1. CASE d \in cbs
      BY <2>1, <3>1
    <3>2. CASE d \notin cbs
      <4>1. PICK y \in Writers : d \in wr'[y].cbs \/ d \in wr'[y].cb
        BY <2>2, <3>2
      <4> QED
        BY <1>1, <2>1, <4>1
    <3> QED
      BY <3>1, <3>2
  <2>5. c \in Retired'
    BY <1>1, <2>2
  <2> QED
    BY <2>3, <2>4, <2>5
<1>14. CallbacksInv'
  BY <1>1, <1>12, CallbacksKept
<1>15. \A y \in Writers : wr'[y].new = wr[y].new
  BY <1>1
<1>16. OwnersInv'
  <2>1. \A v : v \in Current <=> v \in Current' \/ v \in FreedOf(table', c)
    BY <1>2, <1>3, <1>6
  <2>2. \A v : ~(v \in Current' /\ v \in FreedOf(table', c))
    BY <1>2, <1>6
  <2>3. \A v \in Vals : val'[v] # None <=> \/ v \in Current'
                                           \/ \E d \in Retired' : v \in FreedOf(table', d)
                                           \/ \E y \in Writers : wr'[y].new = v
    <3> SUFFICES ASSUME NEW v \in Vals
                 PROVE  val[v] # None <=> \/ v \in Current'
                                          \/ \E d \in Retired' : v \in FreedOf(table', d)
                                          \/ \E y \in Writers : wr[y].new = v
      BY <1>15
    <3>1. val[v] # None <=> \/ v \in Current
                            \/ \E d \in Retired : v \in FreedOf(table, d)
                            \/ \E y \in Writers : wr[y].new = v
      BY <1>10 DEF OwnedVals
    <3>2. (\E d \in Retired' : v \in FreedOf(table', d)) <=>
            \/ \E d \in Retired : v \in FreedOf(table, d)
            \/ v \in FreedOf(table', c)
      BY <1>11, <1>13
    <3> QED
      BY <2>1, <3>1, <3>2
  <2>4. \A v \in Current : \A d \in Retired : v \notin FreedOf(table', d)
    BY <1>10, <1>11 DEF OwnedVals
  <2>5. \A v \in Current' : \A d \in Retired' : v \notin FreedOf(table', d)
    BY <1>13, <2>1, <2>2, <2>4
  <2>6. \A v \in Current : \A y \in Writers : wr'[y].new # v
    BY <1>10, <1>15 DEF OwnedVals
  <2>7. \A d \in Retired' : \A v \in FreedOf(table', d) : \A y \in Writers : wr'[y].new # v
    <3>1. \A d \in Retired : \A v \in FreedOf(table', d) : \A y \in Writers : wr'[y].new # v
      BY <1>10, <1>11, <1>15 DEF OwnedVals
    <3> QED
      BY <1>13, <2>1, <2>6, <3>1
  <2>8. \A d, b \in Retired' : FreedOf(table', d) \cap FreedOf(table', b) # {} => d = b
    <3>1. \A d, b \in Retired : FreedOf(table', d) \cap FreedOf(table', b) # {} => d = b
      BY <1>10, <1>11 DEF OwnedVals
    <3>2. \A d \in Retired : FreedOf(table', d) \cap FreedOf(table', c) = {}
      BY <2>1, <2>4
    <3>3. \A d \in Retired' : d \in Retired \/ d = c
      BY <1>13
    <3> QED
      BY <3>1, <3>2, <3>3
  <2>9. \A v \in Current' : \A y \in Writers : wr'[y].new # v
    BY <2>1, <2>6
  <2>10. OwnedVals(Current', Retired', table', wr', val')
    BY <2>3, <2>5, <2>7, <2>8, <2>9 DEF OwnedVals
  <2>11. OwnedTables(Retired', table', md')
    <3>1. \A d \in Retired : x \notin FreedTables(d)
      BY <1>1, <1>10 DEF OwnedTables
    <3>2. \A y \in Tables : table'[y] # NoTable <=> y = x \/ \E d \in Retired' : y \in FreedTables(d)
      <4>1. \A y \in Tables : table[y] # NoTable <=> y = md \/ \E d \in Retired : y \in FreedTables(d)
        BY <1>10 DEF OwnedTables
      <4>2. \A y : (\E d \in Retired' : y \in FreedTables(d)) <=> y = md \/ \E d \in Retired : y \in FreedTables(d)
        BY <1>2, <1>13
      <4> QED
        BY <1>4, <1>5, <4>1, <4>2
    <3>3. \A d \in Retired' : x \notin FreedTables(d)
      BY <1>2, <1>4, <1>13, <3>1
    <3>4. \A d, b \in Retired' : FreedTables(d) \cap FreedTables(b) # {} => d = b
      <4>1. \A d, b \in Retired : FreedTables(d) \cap FreedTables(b) # {} => d = b
        BY <1>10 DEF OwnedTables
      <4>2. \A d \in Retired : FreedTables(d) \cap FreedTables(c) = {}
        BY <1>2, <1>10 DEF OwnedTables
      <4>3. \A d \in Retired' : d \in Retired \/ d = c
        BY <1>13
      <4> QED
        BY <4>1, <4>2, <4>3
    <3> QED
      BY <1>1, <3>2, <3>3, <3>4 DEF OwnedTables
  <2>12. HeldOnce(table', md')
    BY <1>1, <1>4, <1>5 DEF HeldOnce
  <2> QED
    BY <1>2, <1>6, <2>10, <2>11, <2>12, OwnersNext
<1>17. ASSUME NEW r \in Readers PROVE ReaderOK(r)' /\ EachOK(r)'
  <2>1. ReaderOK(r) /\ EachOK(r) /\ Stays(r)
    BY <1>7 DEF ReadersInv, EachInv
  <2>2. ReaderOf(r, rd[r], lockless_reads, table, val, md, readers, wr)
    BY <2>1, ReaderIs
  <2>3. \A v \in ReachOf(table, rd[r]) : val'[v] # None /\ \A y \in Writers : wr'[y].new # v
    BY <1>15, <2>2 DEF ReaderOf
  <2>4. Walks(r) => table'[rd[r].md] = table[rd[r].md] /\ table[rd[r].md] # NoTable
    BY <1>1, <1>5, <2>2 DEF ReaderOf, Walks
  <2>5. \A y \in Writers : \A d \in wr'[y].cbs :
              /\ d \in wr[y].cbs /\ wr'[y].waits = wr[y].waits
              /\ FreedOf(table', d) = FreedOf(table, d)
    <3>1. \A y \in Writers : \A d \in wr[y].cbs : d \in Retired
      BY RetiredIs, InRetired
    <3> QED
      BY <1>1, <1>11, <3>1
  <2>6. ReaderOK(r)'
    BY <1>1, <1>4, <1>6, <1>16, <2>1, <2>3, <2>4, <2>5, ReaderKept
  <2>7. EachOK(r)'
    BY <2>1, <2>4, EachKept DEF Walks
  <2> QED
    BY <2>6, <2>7
<1> QED
  BY <1>7, <1>8, <1>9, <1>14, <1>16, <1>17 DEF ReadersInv, EachInv

\* ossl_ht_flush_internal: the callback of the old table owns its values too.
LEMMA FlushKeeps ==
    ASSUME HashTableInv, NEW w \in Writers, Flush(w)
    PROVE  HashTableInv'
<1> USE DEF HashTableInv
<1> DEFINE u == NewList(DefaultNeigh)
           c == [fn |-> "free_oldmd", arg |-> md]
<1>1. PICK x \in Tables : table[x] = NoTable /\ table' = [table EXCEPT ![x] = u] /\ md' = x
  BY DEF Flush
<1>2. /\ UNCHANGED <<lockless_reads, val, need_sync, lock, readers, cbs>>
      /\ wr[w].pc = "locked" /\ ~lockless_reads /\ count' = 0
      /\ wr' = [wr EXCEPT ![w] = [NoWriter EXCEPT !.pc = "retire", !.cb = {c}]]
      /\ NoteChange
  BY DEF Flush, WriterAt
<1>3. wr[w].new = None /\ wr[w].cb = {} /\ wr[w].cbs = {} /\ md # None /\ lock = w
  BY <1>2 DEF WritersInv, WriterOK, Holds
<1>4. md \in Tables /\ IsTable(table[md]) /\ table[md] # NoTable /\ table \in [Tables -> Seq(Entries)]
  BY <1>3, CurrentTable DEF TypeOK
<1>5. IsTable(u) /\ Moved(u) = {} /\ Values(u) = {}
  BY EmptyTable, HashTableAssumption
<1> HIDE DEF u
<1>6. wr \in [Writers -> Writer]
  BY DEF TypeOK
<1>7. c \in Callbacks /\ FreedTables(c) = {md} /\ \A T : FreedOf(T, c) = Values(T[md])
  BY <1>4 DEF Callbacks, FreedTables, FreedOf
<1>8. wr'[w] = [NoWriter EXCEPT !.pc = "retire", !.cb = {c}]
  BY <1>2, <1>6
<1> HIDE DEF c
<1>9. Fresh(wr'[w], "retire", {c})
  BY <1>7, <1>8, FreshWriter DEF Holds
<1>10. \A y \in Writers \ {w} : wr'[y] = wr[y]
  BY <1>2, <1>6
<1>11. FreedOf(table', c) = Values(table[md])
  <2>1. x # md
    BY <1>1, <1>4
  <2>2. table'[md] = table[md]
    BY <1>1, <1>4, <2>1
  <2> QED
    BY <1>7, <2>2
<1>12. count' = Cardinality(Values(u))
  BY <1>2, <1>5, FS_EmptySet
<1>13. Publishes(w, x, u, c)
  BY <1>1, <1>2, <1>3, <1>5, <1>7, <1>9, <1>10, <1>11, <1>12 DEF Publishes, Fresh
<1>14. /\ CallbacksInv' /\ OwnersInv' /\ ReadersInv' /\ EachInv'
       /\ rd' \in [Readers -> Reader] /\ count' \in Nat
       /\ table' \in [Tables -> Seq(Entries)]
       /\ \A y \in Tables : table'[y] # NoTable => IsTable(table'[y])
  BY <1>2, <1>13, PublishKeeps
<1>15. TypeOK'
  <2>1. wr' \in [Writers -> Writer]
    BY <1>2, <1>6, <1>9 DEF Fresh
  <2> QED
    BY <1>1, <1>2, <1>14, <2>1 DEF TypeOK
<1>16. md' # None
  BY <1>1, HashTableAssumption
<1>17. WritersInv'
  <2>1. WriterOK(w)'
    BY <1>2, <1>3, <1>9, <1>16 DEF WriterOK, Holds, Fresh
  <2>2. \A y \in Writers \ {w} : WriterOK(y)'
    BY <1>2, <1>3, <1>10, <1>16, OtherWriter DEF WritersInv
  <2> QED
    BY <2>1, <2>2 DEF WritersInv
<1>18. TableInv'
  <2>1. table'[md'] = u
    BY <1>1, <1>4
  <2>2. TableOf(lockless_reads', table', md', val', wr')
    BY <1>5, <2>1 DEF TableOf
  <2> QED
    BY <1>2, <2>2, TableNext
<1> QED
  BY <1>14, <1>15, <1>17, <1>18

\* grow_hashtable: all entries have moved, each to where its hash belongs.
LEMMA GrowKeeps ==
    ASSUME HashTableInv, NEW w \in Writers, Grow(w)
    PROVE  HashTableInv'
<1> USE DEF HashTableInv
<1> DEFINE t == table[md]
           n == 2 * Neighborhoods(t)
           u == Rehash(t, n)
           c == [fn |-> "free_old_neigh_table", arg |-> md]
           g == wr[w].grows + 1
<1>1. PICK x \in Tables : table[x] = NoTable /\ table' = [table EXCEPT ![x] = u] /\ md' = x
  BY DEF Grow
<1>2. /\ UNCHANGED <<lockless_reads, val, count, need_sync, lock, readers, cbs>>
      /\ wr[w].pc = "insert" /\ ~lockless_reads
      /\ wr' = [wr EXCEPT ![w].pc = "retire", ![w].grows = @ + 1, ![w].cb = {c}]
      /\ NoteChange
  BY DEF Grow, WriterAt
<1>3. /\ wr[w].new # None /\ wr[w].cb = {} /\ wr[w].cbs = {} /\ md # None /\ lock = w
      /\ wr[w].key \in Keys /\ val[wr[w].new] = wr[w].key
  BY <1>2 DEF WritersInv, WriterOK, Holds
<1>4. md \in Tables /\ IsTable(t) /\ t # NoTable /\ table \in [Tables -> Seq(Entries)] /\ Current = Values(t)
  BY <1>3, CurrentTable DEF TypeOK
<1>5. \A z : ~DeletingOf(wr, z)
  BY <1>2, OneHolder DEF DeletingOf, Holds
<1>6. TableOf(lockless_reads, table, md, val, wr)
  BY TableIs
<1>7. \A s \in Moved(t) : /\ t[s].hash = KeyHash[val[t[s].value]] /\ HomeOf(FALSE, t, s, t[s].hash)
                          /\ s \in DOMAIN t
  <2>1. lockless_reads = FALSE
    BY <1>2 DEF TypeOK
  <2> QED
    BY <1>3, <1>5, <1>6, <2>1 DEF TableOf, Moved
<1> HIDE DEF t
<1>8. InPlace(t)
  <2>1. \A s \in Moved(t) : t[s].hash \in Nat
    BY <1>4, <1>7, TableFacts
  <2> QED
    BY <1>4, <1>7, <2>1, HomeIn DEF InPlace
<1>9. /\ IsTable(u)
      /\ \A s \in Moved(t) : Place(t, n, s) \in Moved(u) /\ u[Place(t, n, s)] = t[s]
      /\ \A z \in Moved(u) : \E s \in Moved(t) : z = Place(t, n, s) /\ u[z] = t[s]
      /\ InPlace(u) /\ Values(u) = Values(t)
  BY <1>4, <1>8, RehashFacts
<1> HIDE DEF u, n
<1>10. \A s, z \in Moved(t) : t[s].value = t[z].value => s = z
  BY <1>3, OwnersIs DEF HeldOnce, t
<1>11. \A s, z \in Moved(u) : u[s].value = u[z].value => s = z
  BY <1>9, <1>10
<1>12. wr \in [Writers -> Writer] /\ wr[w] \in Writer
  BY DEF TypeOK
<1>13. c \in Callbacks /\ FreedTables(c) = {md} /\ \A T : FreedOf(T, c) = {}
  BY <1>4 DEF Callbacks, FreedTables, FreedOf
<1>14. wr'[w] = [[[wr[w] EXCEPT !.pc = "retire"] EXCEPT !.grows = g] EXCEPT !.cb = {c}]
  BY <1>2, <1>12
<1>15. g \in Nat
  BY <1>12 DEF Writer
<1> HIDE DEF c, g
<1>16. /\ wr'[w].pc = "retire" /\ wr'[w].new = wr[w].new /\ wr'[w].key = wr[w].key
       /\ wr'[w].cbs = wr[w].cbs /\ wr'[w].cb = {c} /\ wr'[w].replace = wr[w].replace
       /\ wr'[w] \in Writer
  <2>1. {c} \subseteq Callbacks
    BY <1>13
  <2> DEFINE a == [wr[w] EXCEPT !.pc = "retire"]
             b == [a EXCEPT !.grows = g]
  <2>2. /\ a \in Writer /\ a.pc = "retire" /\ a.new = wr[w].new /\ a.key = wr[w].key
        /\ a.cbs = wr[w].cbs /\ a.replace = wr[w].replace
    BY <1>12 DEF Writer, Holds
  <2> HIDE DEF a
  <2>3. /\ b \in Writer /\ b.pc = "retire" /\ b.new = wr[w].new /\ b.key = wr[w].key
        /\ b.cbs = wr[w].cbs /\ b.replace = wr[w].replace
    BY <1>15, <2>2 DEF Writer
  <2>4. wr'[w] = [b EXCEPT !.cb = {c}]
    BY <1>14 DEF a
  <2> HIDE DEF b
  <2> QED
    BY <2>1, <2>3, <2>4 DEF Writer
<1>17. \A y \in Writers \ {w} : wr'[y] = wr[y]
  BY <1>2, <1>12
<1>18. count' = Cardinality(Values(u))
  BY <1>2, <1>4, <1>9, OwnersIs
<1>19. FreedOf(table', c) = {}
  BY <1>13
<1>20. Publishes(w, x, u, c)
  BY <1>1, <1>2, <1>3, <1>9, <1>11, <1>13, <1>16, <1>17, <1>18, <1>19 DEF Publishes, t
<1>21. /\ CallbacksInv' /\ OwnersInv' /\ ReadersInv' /\ EachInv'
       /\ rd' \in [Readers -> Reader] /\ count' \in Nat
       /\ table' \in [Tables -> Seq(Entries)]
       /\ \A y \in Tables : table'[y] # NoTable => IsTable(table'[y])
  BY <1>2, <1>20, PublishKeeps
<1>22. TypeOK'
  <2>1. wr' \in [Writers -> Writer]
    BY <1>2, <1>12, <1>16
  <2> QED
    BY <1>1, <1>2, <1>21, <2>1 DEF TypeOK
<1>23. md' # None
  BY <1>1, HashTableAssumption
<1>24. WritersInv'
  <2>1. WriterOK(w)'
    BY <1>2, <1>3, <1>16, <1>23 DEF WriterOK, Holds
  <2>2. \A y \in Writers \ {w} : WriterOK(y)'
    BY <1>2, <1>3, <1>17, <1>23, OtherWriter DEF WritersInv
  <2> QED
    BY <2>1, <2>2 DEF WritersInv
<1>25. TableInv'
  <2>1. table'[md'] = u
    BY <1>1, <1>4
  <2>2. ASSUME NEW z \in Moved(u)
        PROVE  u[z].hash = KeyHash[val[u[z].value]] /\ HomeOf(FALSE, u, z, u[z].hash)
    <3>1. PICK s \in Moved(t) : u[z] = t[s]
      BY <1>9
    <3>2. u[z].hash \in Nat
      BY <1>4, <1>7, <3>1, TableFacts
    <3>3. HomeOf(FALSE, u, z, u[z].hash)
      BY <1>9, <3>2, HomeIn DEF InPlace
    <3> QED
      BY <1>7, <3>1, <3>3
  <2>3. TableOf(FALSE, table', md', val', wr')
    BY <1>2, <2>1, <2>2 DEF TableOf
  <2>4. lockless_reads' = FALSE
    BY <1>2 DEF TypeOK
  <2> QED
    BY <2>3, <2>4, TableNext
<1> QED
  BY <1>21, <1>22, <1>24, <1>25

----------------------------------------------------------------------------
(* Freeing and making the whole.                                           *)

\* ossl_ht_free: table, values and callbacks are gone together.
LEMMA HtFreeKeeps ==
    ASSUME HashTableInv, HtFree
    PROVE  HashTableInv'
<1> USE DEF HashTableInv
<1>1. /\ md # None /\ \A w \in Writers : wr[w].pc = "idle"
      /\ \A r \in Readers : rd[r].pc = "out"
      /\ val' = [v \in Vals |-> IF \/ v \in Values(table[md])
                                   \/ \E cb \in cbs : v \in FreedVals(cb) THEN None ELSE val[v]]
      /\ table' = [t \in Tables |->
                    IF t = md \/ \E cb \in cbs : t \in FreedTables(cb) THEN NoTable ELSE table[t]]
      /\ md' = None /\ cbs' = {} /\ count' = 0
      /\ UNCHANGED <<lockless_reads, need_sync, lock, readers, wr, rd>>
  BY DEF HtFree, WriterAt
<1>2. \A w \in Writers : /\ wr[w].cb = {} /\ wr[w].cbs = {} /\ wr[w].new = None /\ lock # w
                         /\ lockless_reads => ~wr[w].replace
  BY <1>1 DEF WritersInv, WriterOK, Holds
<1>3. \A c : c \in Retired <=> c \in cbs
  BY <1>2, RetiredIs, InRetired
<1>4. \A c : c \notin Retired'
  BY <1>1, <1>2, RetiredIs, InRetired
<1>5. /\ OwnedVals(Current, Retired, table, wr, val) /\ OwnedTables(Retired, table, md)
      /\ Current = Values(table[md])
  BY <1>1, OwnersIs, CurrentTable
<1>6. \A v \in Vals : val'[v] = None
  <2> SUFFICES ASSUME NEW v \in Vals, val'[v] # None PROVE FALSE
    OBVIOUS
  <2>1. v \notin Current /\ ~(\E c \in Retired : v \in FreedOf(table, c)) /\ val[v] # None
    BY <1>1, <1>3, <1>5, FreedIs
  <2>2. \A w \in Writers : wr[w].new # v
    BY <1>2, HashTableAssumption
  <2> QED
    BY <1>5, <2>1, <2>2 DEF OwnedVals
<1>7. \A x \in Tables : table'[x] = NoTable
  <2> SUFFICES ASSUME NEW x \in Tables, table'[x] # NoTable PROVE FALSE
    OBVIOUS
  <2>1. x # md /\ ~(\E c \in Retired : x \in FreedTables(c)) /\ table[x] # NoTable
    BY <1>1, <1>3
  <2> QED
    BY <1>5, <2>1 DEF OwnedTables
<1>8. TypeOK'
  <2>1. NoTable \in Seq(Entries)
    BY DEF NoTable
  <2>2. table' \in [Tables -> Seq(Entries)]
    <3>1. table' = [x \in Tables |-> table'[x]]
      BY <1>1
    <3> QED
      BY <1>7, <2>1, <3>1
  <2>3. val' \in [Vals -> Keys \cup {None}]
    <3>1. val' = [v \in Vals |-> val'[v]]
      BY <1>1
    <3> QED
      BY <1>6, <3>1
  <2> QED
    BY <1>1, <1>7, <2>2, <2>3 DEF TypeOK
<1>9. WritersInv'
  BY <1>1, <1>2 DEF WritersInv, WriterOK, Holds
<1>10. TableInv'
  BY <1>1 DEF TableInv
<1>11. CallbacksInv'
  BY <1>1, <1>2 DEF CallbacksInv
<1>12. Current' = {} /\ Retired' = {}
  BY <1>1, <1>4 DEF Current
<1>13. OwnersInv'
  <2>1. \A v \in Vals : \A w \in Writers : wr'[w].new # v
    BY <1>1, <1>2, HashTableAssumption
  <2>2. OwnedVals(Current', Retired', table', wr', val')
    BY <1>6, <1>12, <2>1 DEF OwnedVals
  <2>3. OwnedTables(Retired', table', md')
    BY <1>1, <1>7, <1>12, HashTableAssumption DEF OwnedTables
  <2>4. HeldOnce(table', md')
    BY <1>1 DEF HeldOnce
  <2> QED
    BY <1>1, <1>12, <2>2, <2>3, <2>4, OwnersNext, FS_EmptySet
<1>14. ASSUME NEW r \in Readers PROVE ReaderOK(r)' /\ EachOK(r)'
  <2>1. rd[r] = NoReader /\ rd'[r] = NoReader
    BY <1>1 DEF ReadersInv, ReaderOK
  <2>2. ReaderOf(r, NoReader, lockless_reads', table', val', md', readers', wr')
    <3>1. ReachOf(table', NoReader) = {}
      BY DEF ReachOf, NoReader
    <3> QED
      BY <3>1 DEF ReaderOf, NoReader
  <2>3. EachOf(table', NoReader)
    BY DEF EachOf, NoReader
  <2> QED
    BY <2>1, <2>2, <2>3, ReaderNext, EachIs
<1> QED
  BY <1>8, <1>9, <1>10, <1>11, <1>13, <1>14 DEF ReadersInv, EachInv

\* ossl_ht_new: a table without values
LEMMA HtNewKeeps ==
    ASSUME HashTableInv, HtNew
    PROVE  HashTableInv'
<1> USE DEF HashTableInv
<1> DEFINE u == NewList(DefaultNeigh)
<1>1. PICK x \in Tables : table[x] = NoTable /\ md' = x /\ table' = [table EXCEPT ![x] = u]
  BY DEF HtNew
<1>2. md = None /\ UNCHANGED <<lockless_reads, val, count, need_sync, lock, readers, cbs, wr, rd>>
  BY DEF HtNew
<1>3. \A w \in Writers : /\ wr[w].pc = "idle" /\ wr[w].cb = {} /\ wr[w].cbs = {}
                         /\ wr[w].new = None /\ lock # w
                         /\ lockless_reads => ~wr[w].replace
  BY <1>2 DEF WritersInv, WriterOK, Holds
<1>4. IsTable(u) /\ Moved(u) = {} /\ Values(u) = {} /\ u \in Seq(Entries)
  BY EmptyTable, HashTableAssumption
<1>5. u # NoTable
  BY <1>4, TableFacts
<1> HIDE DEF u
<1>6. table \in [Tables -> Seq(Entries)]
  BY DEF TypeOK
<1>7. x # None /\ table'[x] = u /\ \A y \in Tables \ {x} : table'[y] = table[y]
  BY <1>1, <1>6, HashTableAssumption
<1>8. TypeOK'
  <2>1. /\ table' \in [Tables -> Seq(Entries)]
        /\ \A y \in Tables : table'[y] # NoTable => IsTable(table'[y])
    BY <1>1, <1>4, <1>6, <1>7 DEF TypeOK
  <2> QED
    BY <1>1, <1>2, <2>1 DEF TypeOK
<1>9. WritersInv'
  BY <1>2, <1>3 DEF WritersInv, WriterOK, Holds
<1>10. TableInv'
  <2>1. TableOf(lockless_reads', table', md', val', wr')
    BY <1>1, <1>4, <1>7 DEF TableOf
  <2> QED
    BY <1>2, <2>1, TableIs, TableNext
<1>11. CallbacksInv'
  BY <1>2 DEF CallbacksInv
<1>12. Current = {} /\ Current' = {} /\ Retired' = Retired
  <2>1. Current = {}
    BY <1>2 DEF Current
  <2>2. Current' = {}
    BY <1>1, <1>4, <1>7 DEF Current
  <2> QED
    BY <1>2, <2>1, <2>2, RetiredSame
<1>13. OwnersInv'
  <2>1. /\ OwnedVals(Current, Retired, table, wr, val) /\ OwnedTables(Retired, table, md)
        /\ count = Cardinality(Current)
    BY OwnersIs
  <2>2. \A c \in Retired : FreedOf(table', c) = FreedOf(table, c)
    BY <1>1, <1>7, FreedSame
  <2>3. OwnedVals(Current', Retired', table', wr', val')
    BY <1>2, <1>12, <2>1, <2>2, OwnedSame
  <2>4. OwnedTables(Retired', table', md')
    <3>1. \A c \in Retired : x \notin FreedTables(c)
      BY <1>1, <2>1 DEF OwnedTables
    <3>2. \A y \in Tables : y # md
      BY <1>2, HashTableAssumption
    <3>3. \A y \in Tables : table'[y] # NoTable <=> y = x \/ \E c \in Retired : y \in FreedTables(c)
      BY <1>5, <1>7, <2>1, <3>2 DEF OwnedTables
    <3> QED
      BY <1>1, <1>12, <2>1, <3>1, <3>3 DEF OwnedTables
  <2>5. HeldOnce(table', md')
    BY <1>1, <1>4, <1>5, <1>7 DEF HeldOnce
  <2> QED
    BY <1>2, <1>12, <2>1, <2>3, <2>4, <2>5, OwnersNext
<1>14. ASSUME NEW r \in Readers PROVE ReaderOK(r)' /\ EachOK(r)'
  <2>1. rd[r] = NoReader /\ rd'[r] = NoReader
    BY <1>2 DEF ReadersInv, ReaderOK
  <2>2. ReaderOf(r, NoReader, lockless_reads', table', val', md', readers', wr')
    <3>1. ReachOf(table', NoReader) = {}
      BY DEF ReachOf, NoReader
    <3> QED
      BY <3>1 DEF ReaderOf, NoReader
  <2>3. EachOf(table', NoReader)
    BY DEF EachOf, NoReader
  <2> QED
    BY <2>1, <2>2, <2>3, ReaderNext, EachIs
<1> QED
  BY <1>8, <1>9, <1>10, <1>11, <1>13, <1>14 DEF ReadersInv, EachInv

----------------------------------------------------------------------------
(* Steps of readers.                                                       *)

\* They leave the heap and what the writers hold alone.
LEMMA SameHeap ==
    ASSUME HashTableInv,
           UNCHANGED <<lockless_reads, table, md, val, count, lock, cbs>>,
           \A w \in Writers : /\ wr'[w].pc = wr[w].pc /\ wr'[w].key = wr[w].key
                              /\ wr'[w].new = wr[w].new /\ wr'[w].replace = wr[w].replace
                              /\ wr'[w].slot = wr[w].slot /\ wr'[w].cb = wr[w].cb
                              /\ wr'[w].cbs = wr[w].cbs
    PROVE  WritersInv' /\ TableInv' /\ CallbacksInv' /\ OwnersInv'
<1> USE DEF HashTableInv
<1>1. WritersInv'
  BY WriterKept DEF WritersInv
<1>2. TableInv'
  BY TableKept, TableIs
<1>3. CallbacksInv'
  BY DEF CallbacksInv
<1>4. OwnersInv'
  BY RetiredSame, OwnersKept
<1> QED
  BY <1>1, <1>2, <1>3, <1>4

\* One reader moves.
LEMMA ReaderStep ==
    ASSUME HashTableInv, NEW r \in Readers, NEW q \in Reader, rd' = [rd EXCEPT ![r] = q],
           ReaderOf(r, q, lockless_reads, table, val, md, readers, wr), EachOf(table, q),
           UNCHANGED <<lockless_reads, table, md, val, count, need_sync, lock, readers, cbs, wr>>
    PROVE  HashTableInv'
<1> USE DEF HashTableInv
<1>1. rd \in [Readers -> Reader] /\ rd'[r] = q /\ \A y \in Readers \ {r} : rd'[y] = rd[y]
  BY DEF TypeOK
<1>2. WritersInv' /\ TableInv' /\ CallbacksInv' /\ OwnersInv'
  BY SameHeap
<1>3. TypeOK'
  <2>1. rd' \in [Readers -> Reader]
    BY <1>1
  <2> QED
    BY <2>1 DEF TypeOK
<1>4. ASSUME NEW y \in Readers PROVE ReaderOK(y)' /\ EachOK(y)'
  <2>1. CASE y = r
    BY <1>1, <2>1, ReaderNext, EachIs
  <2>2. CASE y # r
    <3>1. ReaderOf(y, rd[y], lockless_reads, table, val, md, readers, wr) /\ EachOf(table, rd[y])
      BY ReaderIs, EachIs DEF ReadersInv, EachInv
    <3>2. rd'[y] = rd[y]
      BY <1>1, <2>2
    <3> QED
      BY <3>1, <3>2, ReaderNext, EachIs
  <2> QED
    BY <2>1, <2>2
<1> QED
  BY <1>2, <1>3, <1>4 DEF ReadersInv, EachInv

\* ossl_ht_read_lock
LEMMA ReadLockKeeps ==
    ASSUME HashTableInv, NEW r \in Readers, ReadLock(r)
    PROVE  HashTableInv'
<1> USE DEF HashTableInv
<1> DEFINE q == [NoReader EXCEPT !.pc = "in"]
<1>1. /\ rd[r].pc = "out" /\ md # None /\ rd' = [rd EXCEPT ![r].pc = "in"]
      /\ readers' = IF lockless_reads THEN readers ELSE readers \cup {r}
      /\ UNCHANGED <<lockless_reads, table, md, val, count, need_sync, lock, cbs, wr>>
  BY DEF ReadLock
<1>2. rd \in [Readers -> Reader] /\ rd[r] = NoReader
  BY <1>1 DEF ReadersInv, ReaderOK, TypeOK
<1>3. rd'[r] = q /\ \A y \in Readers \ {r} : rd'[y] = rd[y]
  BY <1>1, <1>2
<1>4. /\ q \in Reader /\ q.pc = "in" /\ q.got = {} /\ q.must = {}
  BY <1>2 DEF NoReader, Reader
<1> HIDE DEF q
<1>5. WritersInv' /\ TableInv' /\ CallbacksInv' /\ OwnersInv'
  BY <1>1, SameHeap
<1>6. TypeOK'
  <2>1. rd' \in [Readers -> Reader]
    BY <1>1, <1>2, <1>3, <1>4
  <2>2. readers' \subseteq Readers
    BY <1>1 DEF TypeOK
  <2> QED
    BY <1>1, <2>1, <2>2 DEF TypeOK
<1>7. readers \subseteq readers' /\ (lockless_reads \/ r \in readers')
  BY <1>1
<1>8. ReaderOK(r)' /\ EachOK(r)'
  <2>1. ReachOf(table', q) = {}
    BY <1>4 DEF ReachOf
  <2>2. ReaderOf(r, q, lockless_reads', table', val', md', readers', wr')
    BY <1>1, <1>4, <1>7, <2>1 DEF ReaderOf
  <2>3. EachOf(table', q)
    BY <1>4 DEF EachOf
  <2> QED
    BY <1>3, <2>2, <2>3, ReaderNext, EachIs
<1>9. ASSUME NEW y \in Readers \ {r} PROVE ReaderOK(y)' /\ EachOK(y)'
  <2>1. ReaderOf(y, rd[y], lockless_reads, table, val, md, readers, wr) /\ EachOf(table, rd[y])
    BY ReaderIs, EachIs DEF ReadersInv, EachInv
  <2>2. ReaderOf(y, rd[y], lockless_reads, table, val, md, readers', wr)
    BY <1>7, <2>1 DEF ReaderOf
  <2> QED
    BY <1>1, <1>3, <2>1, <2>2, ReaderNext, EachIs
<1> QED
  BY <1>5, <1>6, <1>8, <1>9 DEF ReadersInv, EachInv

\* ossl_ht_read_unlock: a reader that left reaches nothing, so a
\* synchronization need not wait for it.
LEMMA ReadUnlockKeeps ==
    ASSUME HashTableInv, NEW r \in Readers, ReadUnlock(r)
    PROVE  HashTableInv'
<1> USE DEF HashTableInv
<1>1. /\ rd[r].pc = "in" /\ rd' = [rd EXCEPT ![r] = NoReader] /\ readers' = readers \ {r}
      /\ wr' = [w \in Writers |-> [wr[w] EXCEPT !.waits = @ \ {r}]]
      /\ UNCHANGED <<lockless_reads, table, md, val, count, need_sync, lock, cbs>>
  BY DEF ReadUnlock
<1>2. rd \in [Readers -> Reader] /\ wr \in [Writers -> Writer]
  BY DEF TypeOK
<1>3. rd'[r] = NoReader /\ \A y \in Readers \ {r} : rd'[y] = rd[y]
  BY <1>1, <1>2
<1>4. ASSUME NEW w \in Writers
      PROVE  /\ wr'[w] \in Writer /\ wr'[w].waits = wr[w].waits \ {r}
             /\ wr'[w].pc = wr[w].pc /\ wr'[w].key = wr[w].key
             /\ wr'[w].new = wr[w].new /\ wr'[w].replace = wr[w].replace
             /\ wr'[w].slot = wr[w].slot /\ wr'[w].cb = wr[w].cb
             /\ wr'[w].cbs = wr[w].cbs
  <2>1. wr[w] \in Writer /\ wr'[w] = [wr[w] EXCEPT !.waits = wr[w].waits \ {r}]
    BY <1>1, <1>2
  <2>2. wr[w].waits \ {r} \subseteq Readers
    BY <2>1 DEF Writer
  <2> QED
    BY <2>1, <2>2 DEF Writer
<1>5. WritersInv' /\ TableInv' /\ CallbacksInv' /\ OwnersInv'
  BY <1>1, <1>4, SameHeap
<1>6. TypeOK'
  <2>1. NoReader \in Reader
    BY DEF NoReader, Reader
  <2>2. rd' \in [Readers -> Reader]
    BY <1>1, <1>2, <2>1
  <2>3. wr' \in [Writers -> Writer]
    BY <1>1, <1>4
  <2> QED
    BY <1>1, <2>2, <2>3 DEF TypeOK
<1>7. ReaderOK(r)' /\ EachOK(r)'
  <2>1. ReachOf(table', NoReader) = {}
    BY DEF ReachOf, NoReader
  <2>2. ReaderOf(r, NoReader, lockless_reads', table', val', md', readers', wr')
    BY <2>1 DEF ReaderOf, NoReader
  <2>3. EachOf(table', NoReader)
    BY DEF EachOf, NoReader
  <2> QED
    BY <1>3, <2>2, <2>3, ReaderNext, EachIs
<1>8. ASSUME NEW y \in Readers \ {r} PROVE ReaderOK(y)' /\ EachOK(y)'
  <2>1. ReaderOf(y, rd[y], lockless_reads, table, val, md, readers, wr) /\ EachOf(table, rd[y])
    BY ReaderIs, EachIs DEF ReadersInv, EachInv
  <2>2. \A w \in Writers : y \in wr[w].waits => y \in wr'[w].waits
    BY <1>4
  <2>3. y \in readers => y \in readers'
    BY <1>1
  <2>4. ReaderOf(y, rd[y], lockless_reads, table, val, md, readers', wr')
    BY <1>4, <2>1, <2>2, <2>3 DEF ReaderOf
  <2> QED
    BY <1>1, <1>3, <2>1, <2>4, ReaderNext, EachIs
<1> QED
  BY <1>5, <1>6, <1>7, <1>8 DEF ReadersInv, EachInv

\* What a reader inside its section comes to through the current table
LEMMA CurrentSafe ==
    ASSUME HashTableInv, md # None
    PROVE  /\ md \in Tables /\ table[md] # NoTable /\ IsTable(table[md])
           /\ Current = Values(table[md]) /\ Current \subseteq Vals
           /\ \A w \in Writers : \A c \in wr[w].cbs : md \notin FreedTables(c)
           /\ \A v \in Current :
                /\ val[v] # None
                /\ \A w \in Writers : wr[w].new # v
                /\ \A w \in Writers : \A c \in wr[w].cbs : v \notin FreedOf(table, c)
<1> USE DEF HashTableInv
<1>1. \A w \in Writers : \A c \in wr[w].cbs : c \in Retired
  BY RetiredIs, InRetired
<1>2. /\ OwnedVals(Current, Retired, table, wr, val) /\ OwnedTables(Retired, table, md)
      /\ HeldOnce(table, md)
  BY OwnersIs
<1>3. md \in Tables /\ table[md] # NoTable /\ IsTable(table[md])
  BY CurrentTable, <1>2 DEF TypeOK, HeldOnce
<1>4. Current = Values(table[md]) /\ Current \subseteq Vals
  BY <1>3, ValuesFacts DEF Current
<1> QED
  BY <1>1, <1>2, <1>3, <1>4 DEF OwnedVals, OwnedTables

\* ossl_ht_get dereferences the table: it is the current one, which no
\* synchronization is about to free.
LEMMA GetCallKeeps ==
    ASSUME HashTableInv, NEW r \in Readers, NEW key \in Keys, GetCall(r, key)
    PROVE  HashTableInv'
<1> USE DEF HashTableInv
<1> DEFINE A == Map[key]
           q == [NoReader EXCEPT !.pc = "load", !.key = key, !.md = md, !.at = 1, !.may = A]
<1>1. /\ rd[r].pc = "in" /\ rd' = [rd EXCEPT ![r] = q]
      /\ UNCHANGED <<lockless_reads, table, md, val, count, need_sync, lock, readers, cbs, wr>>
  BY DEF GetCall
<1>2. md # None /\ (lockless_reads \/ r \in readers)
  BY <1>1 DEF ReadersInv, ReaderOK
<1>3. A \subseteq Vals \cup {None}
  BY <1>2, CurrentSafe, MapIs, MapTypes, CurrentIs
<1> HIDE DEF A
<1>4. md \in Tables
  BY <1>2, CurrentSafe
<1>5. /\ q \in Reader /\ q.pc = "load" /\ q.got = {} /\ q.key = key /\ q.md = md /\ q.at = 1
  BY <1>3, <1>4 DEF NoReader, Reader
<1> HIDE DEF q
<1>6. ReachOf(table, q) = Current
  BY <1>2, <1>5, CurrentSafe DEF ReachOf
<1>7. q.at \in StepsOf(lockless_reads, table, q)
  <2>1. Len(table[md]) \in Nat \ {0}
    BY <1>2, CurrentSafe, TableFacts
  <2> QED
    BY <1>5, <2>1, HashTableAssumption DEF StepsOf
<1>8. ReaderOf(r, q, lockless_reads, table, val, md, readers, wr)
  BY <1>2, <1>5, <1>6, <1>7, CurrentSafe DEF ReaderOf
<1>9. EachOf(table, q)
  BY <1>5 DEF EachOf
<1> QED
  BY <1>1, <1>5, <1>8, <1>9, ReaderStep

\* An iteration dereferences the table: all it must hand out is ahead of it.
LEMMA EachCallKeeps ==
    ASSUME HashTableInv, NEW r \in Readers, EachCall(r)
    PROVE  HashTableInv'
<1> USE DEF HashTableInv
<1> DEFINE A == Kept
           q == [NoReader EXCEPT !.pc = "each", !.md = md, !.at = 1, !.must = A]
<1>1. /\ rd[r].pc = "in" /\ rd' = [rd EXCEPT ![r] = q]
      /\ UNCHANGED <<lockless_reads, table, md, val, count, need_sync, lock, readers, cbs, wr>>
  BY DEF EachCall
<1>2. md # None /\ (lockless_reads \/ r \in readers)
  BY <1>1 DEF ReadersInv, ReaderOK
<1>3. A \subseteq Current
  BY <1>2, CurrentSafe, MapIs, KeptIs, MapTypes, CurrentIs
<1> HIDE DEF A
<1>4. md \in Tables /\ A \subseteq Vals
  BY <1>2, <1>3, CurrentSafe
<1>5. /\ q \in Reader /\ q.pc = "each" /\ q.got = {} /\ q.md = md /\ q.at = 1 /\ q.must = A
  BY <1>4 DEF NoReader, Reader
<1> HIDE DEF q
<1>6. ReachOf(table, q) = Current
  BY <1>2, <1>5, CurrentSafe DEF ReachOf
<1>7. ReaderOf(r, q, lockless_reads, table, val, md, readers, wr)
  BY <1>2, <1>5, <1>6, CurrentSafe DEF ReaderOf
<1>8. EachOf(table, q)
  <2>1. DOMAIN table[md] = 1 .. Len(table[md]) /\ Len(table[md]) \in Nat \ {0}
    BY <1>2, CurrentSafe, TableFacts
  <2>2. 1 \in DOMAIN table[md] /\ \A s \in DOMAIN table[md] : s >= 1
    BY <2>1
  <2>3. \A v \in A : \E s \in DOMAIN table[md] : table[md][s].value = v
    BY <1>2, <1>3, CurrentSafe DEF Values
  <2> QED
    BY <1>5, <2>2, <2>3 DEF EachOf
<1> QED
  BY <1>1, <1>5, <1>7, <1>8, ReaderStep

\* The entry that an iteration stands at is one of its table.
LEMMA EachFacts ==
    ASSUME HashTableInv, NEW r \in Readers, rd[r].pc \in {"each", "visit"}
    PROVE  LET t == table[rd[r].md]
           IN  /\ rd[r].md \in Tables /\ IsTable(t) /\ rd[r].at \in DOMAIN t
               /\ DOMAIN t = 1 .. Len(t) /\ Len(t) \in Nat /\ rd[r].at \in Nat
               /\ {EachEntry(r)} \ {None} \subseteq Values(t) /\ Values(t) \subseteq Vals
               /\ EachEntry(r) = t[rd[r].at].value
               /\ rd[r] \in Reader /\ rd[r].got \subseteq Vals /\ rd[r].must \subseteq Vals
               /\ ReaderOf(r, rd[r], lockless_reads, table, val, md, readers, wr)
               /\ EachOf(table, rd[r])
<1> USE DEF HashTableInv
<1> DEFINE t == table[rd[r].md]
<1>1. rd[r] \in Reader /\ rd[r].got \subseteq Vals /\ rd[r].must \subseteq Vals
  BY DEF TypeOK, Reader
<1>2. /\ ReaderOf(r, rd[r], lockless_reads, table, val, md, readers, wr) /\ EachOf(table, rd[r])
  BY ReaderIs, EachIs DEF ReadersInv, EachInv
<1>3. rd[r].md \in Tables /\ IsTable(t) /\ rd[r].at \in DOMAIN t
  BY <1>2 DEF ReaderOf, EachOf, TypeOK
<1>4. DOMAIN t = 1 .. Len(t) /\ Len(t) \in Nat
  BY <1>3, TableFacts
<1>5. {EachEntry(r)} \ {None} \subseteq Values(t) /\ EachEntry(r) = t[rd[r].at].value
  BY <1>3 DEF Values, EachEntry
<1> QED
  BY <1>1, <1>2, <1>3, <1>4, <1>5, ValuesFacts

\* An iteration that goes on has ahead of it what it must hand out and has not.
LEMMA EachGoesOnKeeps ==
    ASSUME HashTableInv, NEW r \in Readers, rd[r].pc \in {"each", "visit"},
           NEW got \in SUBSET ReachOf(table, rd[r]), rd' = [rd EXCEPT ![r] = EachGoesOn(r, got)],
           \A x \in rd[r].must \ got :
              \E s \in DOMAIN table[rd[r].md] : s >= rd[r].at + 1 /\ table[rd[r].md][s].value = x,
           UNCHANGED <<lockless_reads, table, md, val, count, need_sync, lock, readers, cbs, wr>>
    PROVE  HashTableInv'
<1> DEFINE t == table[rd[r].md]
           next == [rd[r] EXCEPT !.pc = "each", !.at = rd[r].at + 1, !.ival = None, !.got = got]
           last == [NoReader EXCEPT !.pc = "in", !.got = got, !.must = rd[r].must]
           q == IF rd[r].at < Len(t) THEN next ELSE last
<1>1. /\ rd[r].md \in Tables /\ rd[r].at \in Nat /\ DOMAIN t = 1 .. Len(t) /\ Len(t) \in Nat
      /\ rd[r] \in Reader /\ rd[r].must \subseteq Vals
      /\ ReaderOf(r, rd[r], lockless_reads, table, val, md, readers, wr)
  BY EachFacts
<1>2. rd' = [rd EXCEPT ![r] = q]
  BY Zenon DEF EachGoesOn
<1>3. got \subseteq Vals
  BY <1>1 DEF ReaderOf
<1>4. CASE rd[r].at < Len(t)
  <2>1. rd[r].at + 1 \in DOMAIN t /\ rd[r].at + 1 \in Nat
    BY <1>1, <1>4
  <2>2. /\ q \in Reader /\ q.pc = "each" /\ q.md = rd[r].md /\ q.at = rd[r].at + 1
        /\ q.got = got /\ q.must = rd[r].must
    <3> DEFINE a == [rd[r] EXCEPT !.pc = "each", !.at = rd[r].at + 1]
               b == [a EXCEPT !.ival = None]
    <3>1. /\ a \in Reader /\ a.pc = "each" /\ a.md = rd[r].md /\ a.at = rd[r].at + 1
          /\ a.must = rd[r].must
      BY <1>1, <2>1 DEF Reader
    <3>2. q = [b EXCEPT !.got = got]
      BY <1>4
    <3> HIDE DEF a, q
    <3>3. /\ b \in Reader /\ b.pc = "each" /\ b.md = rd[r].md /\ b.at = rd[r].at + 1
          /\ b.must = rd[r].must
      BY <3>1 DEF Reader
    <3> HIDE DEF b
    <3> QED
      BY <1>3, <3>2, <3>3 DEF Reader
  <2> HIDE DEF q
  <2>3. ReachOf(table, q) \subseteq ReachOf(table, rd[r])
    BY <2>2 DEF ReachOf
  <2>4. ReaderOf(r, q, lockless_reads, table, val, md, readers, wr)
    BY <1>1, <2>2, <2>3 DEF ReaderOf
  <2>5. EachOf(table, q)
    BY <2>1, <2>2 DEF EachOf
  <2> QED
    BY <1>2, <2>2, <2>4, <2>5, ReaderStep
<1>5. CASE ~(rd[r].at < Len(t))
  <2>1. q \in Reader /\ q.pc = "in" /\ q.got = got /\ q.must = rd[r].must
    BY <1>1, <1>3, <1>5 DEF NoReader, Reader
  <2> HIDE DEF q
  <2>2. ReachOf(table, q) = got
    BY <2>1 DEF ReachOf
  <2>3. ReaderOf(r, q, lockless_reads, table, val, md, readers, wr)
    BY <1>1, <1>3, <2>1, <2>2 DEF ReaderOf
  <2>4. \A x \in rd[r].must : x \in got
    BY <1>1, <1>5
  <2>5. EachOf(table, q)
    BY <2>1, <2>4 DEF EachOf
  <2> QED
    BY <1>2, <2>1, <2>3, <2>5, ReaderStep
<1> QED
  BY <1>4, <1>5

\* An iteration that is stopped keeps what it was given.
LEMMA EachStopsKeeps ==
    ASSUME HashTableInv, NEW r \in Readers, rd[r].pc \in {"each", "visit"},
           NEW got \in SUBSET ReachOf(table, rd[r]), rd' = [rd EXCEPT ![r] = EachStops(r, got)],
           UNCHANGED <<lockless_reads, table, md, val, count, need_sync, lock, readers, cbs, wr>>
    PROVE  HashTableInv'
<1> DEFINE q == [NoReader EXCEPT !.pc = "in", !.got = got]
<1>1. ReaderOf(r, rd[r], lockless_reads, table, val, md, readers, wr)
  BY EachFacts
<1>2. rd' = [rd EXCEPT ![r] = q]
  BY DEF EachStops
<1>3. got \subseteq Vals
  BY <1>1 DEF ReaderOf
<1>4. q \in Reader /\ q.pc = "in" /\ q.got = got /\ q.must = {}
  BY <1>3 DEF NoReader, Reader
<1> HIDE DEF q
<1>5. ReachOf(table, q) = got
  BY <1>4 DEF ReachOf
<1>6. ReaderOf(r, q, lockless_reads, table, val, md, readers, wr)
  BY <1>1, <1>3, <1>4, <1>5 DEF ReaderOf
<1>7. EachOf(table, q)
  BY <1>4 DEF EachOf
<1> QED
  BY <1>2, <1>4, <1>6, <1>7, ReaderStep

\* The first load of an entry: a free one holds nothing that must be handed out.
LEMMA EachTestKeeps ==
    ASSUME HashTableInv, NEW r \in Readers, EachTest(r)
    PROVE  HashTableInv'
<1> DEFINE t == table[rd[r].md]
           v == EachEntry(r)
<1>1. /\ rd[r].pc = "each"
      /\ UNCHANGED <<lockless_reads, table, md, val, count, need_sync, lock, readers, cbs, wr>>
  BY DEF EachTest
<1>2. /\ rd[r].md \in Tables /\ rd[r].at \in DOMAIN t /\ rd[r].at \in Nat
      /\ DOMAIN t = 1 .. Len(t) /\ Len(t) \in Nat
      /\ {v} \ {None} \subseteq Values(t) /\ Values(t) \subseteq Vals /\ v = t[rd[r].at].value
      /\ rd[r] \in Reader /\ rd[r].got \subseteq Vals /\ rd[r].must \subseteq Vals
      /\ ReaderOf(r, rd[r], lockless_reads, table, val, md, readers, wr) /\ EachOf(table, rd[r])
  BY <1>1, EachFacts
<1>3. CASE v = None
  <2>1. rd' = [rd EXCEPT ![r] = EachGoesOn(r, rd[r].got)]
    BY <1>3, Zenon DEF EachTest
  <2>2. rd[r].got \in SUBSET ReachOf(table, rd[r])
    BY DEF ReachOf
  <2>3. \A x \in rd[r].must \ rd[r].got : \E s \in DOMAIN t : s >= rd[r].at + 1 /\ t[s].value = x
    <3> SUFFICES ASSUME NEW x \in rd[r].must \ rd[r].got
                 PROVE  \E s \in DOMAIN t : s >= rd[r].at + 1 /\ t[s].value = x
      OBVIOUS
    <3>1. PICK s \in DOMAIN t : s >= rd[r].at /\ t[s].value = x
      BY <1>1, <1>2 DEF EachOf
    <3>2. x # None
      BY <1>2, HashTableAssumption
    <3>3. s # rd[r].at
      BY <1>2, <1>3, <3>1, <3>2
    <3> HIDE DEF v
    <3> QED
      BY <1>2, <3>1, <3>3
  <2> QED
    BY <1>1, <2>1, <2>2, <2>3, EachGoesOnKeeps
<1>4. CASE v # None
  <2> DEFINE q == [rd[r] EXCEPT !.pc = "visit", !.ival = v]
  <2>1. rd' = [rd EXCEPT ![r] = q]
    BY <1>4, Zenon DEF EachTest
  <2>2. v \in Values(t) /\ v \in Vals
    BY <1>2, <1>4
  <2> HIDE DEF v
  <2>3. /\ q \in Reader /\ q.pc = "visit" /\ q.md = rd[r].md /\ q.at = rd[r].at
        /\ q.ival = v /\ q.got = rd[r].got /\ q.must = rd[r].must
    BY <1>2, <2>2 DEF Reader
  <2> HIDE DEF q
  <2>4. ReachOf(table, q) \subseteq ReachOf(table, rd[r])
    BY <1>1, <2>2, <2>3 DEF ReachOf
  <2>5. ReaderOf(r, q, lockless_reads, table, val, md, readers, wr)
    BY <1>1, <1>2, <2>3, <2>4 DEF ReaderOf
  <2>6. EachOf(table, q)
    BY <1>1, <1>2, <2>3 DEF EachOf
  <2> QED
    BY <1>1, <2>1, <2>3, <2>5, <2>6, ReaderStep
<1> QED
  BY <1>3, <1>4

\* The second load: what must be handed out is still there, for both loads.
LEMMA EachVisitKeeps ==
    ASSUME HashTableInv, NEW r \in Readers, EachVisit(r)
    PROVE  HashTableInv'
<1> DEFINE t == table[rd[r].md]
           G(v) == rd[r].got \cup ({v} \ {None})
<1>1. /\ rd[r].pc = "visit"
      /\ UNCHANGED <<lockless_reads, table, md, val, count, need_sync, lock, readers, cbs, wr>>
  BY DEF EachVisit
<1>2. PICK v \in {rd[r].ival, EachEntry(r)} : \/ rd' = [rd EXCEPT ![r] = EachGoesOn(r, G(v))]
                                              \/ rd' = [rd EXCEPT ![r] = EachStops(r, G(v))]
  BY Zenon DEF EachVisit
<1>3. /\ rd[r].at \in DOMAIN t /\ rd[r].at \in Nat
      /\ DOMAIN t = 1 .. Len(t) /\ Len(t) \in Nat
      /\ {EachEntry(r)} \ {None} \subseteq Values(t) /\ EachEntry(r) = t[rd[r].at].value
      /\ rd[r].must \subseteq Vals /\ EachOf(table, rd[r])
  BY <1>1, EachFacts
<1>4. G(v) \in SUBSET ReachOf(table, rd[r])
  BY <1>1, <1>2, <1>3 DEF ReachOf
<1>5. \A x \in rd[r].must \ G(v) : \E s \in DOMAIN t : s >= rd[r].at + 1 /\ t[s].value = x
  <2> SUFFICES ASSUME NEW x \in rd[r].must \ G(v)
               PROVE  \E s \in DOMAIN t : s >= rd[r].at + 1 /\ t[s].value = x
    OBVIOUS
  <2>1. PICK s \in DOMAIN t : /\ s >= rd[r].at /\ t[s].value = x
                              /\ s = rd[r].at => rd[r].ival = x
    BY <1>1, <1>3 DEF EachOf
  <2>2. x # None /\ x # v
    BY <1>3, HashTableAssumption
  <2>3. s # rd[r].at
    BY <1>2, <1>3, <2>1, <2>2
  <2> QED
    BY <1>3, <2>1, <2>3
<1> HIDE DEF G
<1> QED
  BY <1>1, <1>2, <1>4, <1>5, EachGoesOnKeeps, EachStopsKeeps

\* The entry that a lookup visits is one of its table.
LEMMA EntryFacts ==
    ASSUME HashTableInv, NEW r \in Readers, Lookup(r)
    PROVE  /\ rd[r].key \in Keys /\ rd[r].md \in Tables /\ IsTable(table[rd[r].md])
           /\ DOMAIN Visits(r) = 1 .. Len(Visits(r)) /\ Len(Visits(r)) \in Nat
           /\ rd[r].at \in DOMAIN Visits(r)
           /\ \A i \in DOMAIN Visits(r) : Visits(r)[i] \in DOMAIN table[rd[r].md]
           /\ Entry(r) \in Entries
           /\ Entry(r).value # None => Entry(r).value \in Values(table[rd[r].md])
<1> USE DEF HashTableInv
<1> DEFINE t == table[rd[r].md]
<1>1. /\ rd[r].key \in Keys /\ rd[r].md \in Tables /\ t # NoTable /\ rd[r].at \in DOMAIN Visits(r)
  BY DEF ReadersInv, ReaderOK, Lookup, Walks
<1>2. IsTable(t)
  BY <1>1 DEF TypeOK
<1>3. KeyHash[rd[r].key] \in Nat /\ lockless_reads \in BOOLEAN
  BY <1>1, HashTableAssumption DEF TypeOK
<1>4. Visits(r) = ProbeOf(lockless_reads, t, KeyHash[rd[r].key])
  BY ProbeIs DEF Visits
<1> HIDE DEF t
<1>5. /\ DOMAIN Visits(r) = 1 .. Len(Visits(r)) /\ Len(Visits(r)) \in Nat
      /\ \A i \in DOMAIN Visits(r) : Visits(r)[i] \in DOMAIN t
  BY <1>2, <1>3, <1>4, ProbeFacts
<1>6. Entry(r) = t[Visits(r)[rd[r].at]] /\ Visits(r)[rd[r].at] \in DOMAIN t
  BY <1>1, <1>5 DEF Entry, t
<1>7. Entry(r) \in Entries
  BY <1>2, <1>6, TableFacts
<1>8. Entry(r).value # None => Entry(r).value \in Values(t)
  BY <1>6 DEF Values
<1> QED
  BY <1>1, <1>2, <1>5, <1>7, <1>8 DEF t

\* The lookup returns nothing, or what it may come to.
LEMMA ReturnsKeeps ==
    ASSUME HashTableInv, NEW r \in Readers, Lookup(r), NEW v \in {None} \cup Reach(r),
           rd' = [rd EXCEPT ![r] = Returns(r, v)],
           UNCHANGED <<lockless_reads, table, md, val, count, need_sync, lock, readers, cbs, wr>>
    PROVE  HashTableInv'
<1> USE DEF HashTableInv
<1> DEFINE G == {v} \ {None}
           q == Returns(r, v)
<1>1. ReaderOf(r, rd[r], lockless_reads, table, val, md, readers, wr)
  BY ReaderIs DEF ReadersInv
<1>2. Reach(r) = ReachOf(table, rd[r])
  BY DEF Reach, ReachOf, Walks
<1>3. G \subseteq ReachOf(table, rd[r]) /\ G \subseteq Vals /\ rd[r].key \in Keys
  BY <1>1, <1>2 DEF ReaderOf, Lookup
<1>4. q = [NoReader EXCEPT !.pc = "in", !.key = rd[r].key, !.got = G]
  BY DEF Returns
<1> HIDE DEF G, q
<1>5. q \in Reader /\ q.pc = "in" /\ q.got = G /\ q.must = {}
  BY <1>3, <1>4 DEF NoReader, Reader
<1>6. ReachOf(table, q) = G
  BY <1>5 DEF ReachOf
<1>7. ReaderOf(r, q, lockless_reads, table, val, md, readers, wr)
  BY <1>1, <1>3, <1>5, <1>6 DEF ReaderOf, Lookup
<1>8. EachOf(table, q)
  BY <1>5 DEF EachOf
<1>9. rd' = [rd EXCEPT ![r] = q]
  BY DEF q
<1> QED
  BY <1>5, <1>7, <1>8, <1>9, ReaderStep

\* A lookup that goes on keeps its key and its table.
LEMMA ContinuesIs ==
    ASSUME HashTableInv, NEW r \in Readers, Lookup(r), rd[r].at # Len(Visits(r))
    PROVE  /\ Continues(r) \in Reader /\ Continues(r).pc = "load"
           /\ Continues(r).key = rd[r].key /\ Continues(r).md = rd[r].md
           /\ Continues(r).at = rd[r].at + 1 /\ Continues(r).got = rd[r].got
           /\ Continues(r).may = rd[r].may /\ Continues(r).ival = None
<1> DEFINE a == [rd[r] EXCEPT !.pc = "load"]
           b == [a EXCEPT !.at = rd[r].at + 1]
           c == [b EXCEPT !.ival = None]
<1>1. rd[r] \in Reader /\ rd[r].at \in Nat
  BY DEF HashTableInv, TypeOK, Reader
<1>2. Continues(r) = [rd[r] EXCEPT !.pc = "load", !.at = rd[r].at + 1, !.ival = None]
  BY DEF Continues
<1>3. Continues(r) = c
  BY <1>1, <1>2 DEF Reader
<1>4. /\ a \in Reader /\ a.pc = "load" /\ a.key = rd[r].key /\ a.md = rd[r].md
      /\ a.got = rd[r].got /\ a.may = rd[r].may
  BY <1>1 DEF Reader
<1> HIDE DEF a
<1>5. /\ b \in Reader /\ b.pc = "load" /\ b.key = rd[r].key /\ b.md = rd[r].md
      /\ b.got = rd[r].got /\ b.may = rd[r].may /\ b.at = rd[r].at + 1
  BY <1>1, <1>4 DEF Reader
<1> HIDE DEF b
<1>6. /\ c \in Reader /\ c.pc = "load" /\ c.key = rd[r].key /\ c.md = rd[r].md
      /\ c.got = rd[r].got /\ c.may = rd[r].may /\ c.at = rd[r].at + 1 /\ c.ival = None
  BY <1>5 DEF Reader
<1> QED
  BY <1>3, <1>6

\* Going on to the next entry, or giving up after the last
LEMMA ContinuesKeeps ==
    ASSUME HashTableInv, NEW r \in Readers, Lookup(r),
           rd' = [rd EXCEPT ![r] = Continues(r)],
           UNCHANGED <<lockless_reads, table, md, val, count, need_sync, lock, readers, cbs, wr>>
    PROVE  HashTableInv'
<1>1. CASE rd[r].at = Len(Visits(r))
  BY <1>1, ReturnsKeeps DEF Continues
<1>2. CASE rd[r].at # Len(Visits(r))
  <2> DEFINE q == Continues(r)
  <2>1. /\ q \in Reader /\ q.pc = "load" /\ q.key = rd[r].key /\ q.md = rd[r].md
        /\ q.at = rd[r].at + 1 /\ q.got = rd[r].got
    BY <1>2, ContinuesIs
  <2>2. q.at \in DOMAIN Visits(r)
    BY <1>2, <2>1, EntryFacts
  <2>3. rd' = [rd EXCEPT ![r] = q]
    OBVIOUS
  <2> HIDE DEF q
  <2>4. ReaderOf(r, rd[r], lockless_reads, table, val, md, readers, wr)
    BY ReaderIs DEF HashTableInv, ReadersInv
  <2>5. ReachOf(table, q) \subseteq ReachOf(table, rd[r])
    BY <2>1 DEF ReachOf, Lookup
  <2>6. q.at \in StepsOf(lockless_reads, table, q)
    BY <2>1, <2>2, VisitsIs DEF StepsOf
  <2>7. ReaderOf(r, q, lockless_reads, table, val, md, readers, wr)
    BY <2>1, <2>4, <2>5, <2>6 DEF ReaderOf, Lookup
  <2>8. EachOf(table, q)
    BY <2>1 DEF EachOf
  <2> QED
    BY <2>1, <2>3, <2>7, <2>8, ReaderStep
<1> QED
  BY <1>1, <1>2

\* ossl_ht_get loads a value: it is one its table holds, so it is protected.
LEMMA GetValueKeeps ==
    ASSUME HashTableInv, NEW r \in Readers, GetValue(r)
    PROVE  HashTableInv'
<1> DEFINE v == Entry(r).value
           q == [rd[r] EXCEPT !.pc = "hash", !.ival = v]
<1>1. rd[r].pc = "load" /\ Lookup(r)
  BY DEF GetValue, Lookup
<1>2. UNCHANGED <<lockless_reads, table, md, val, count, need_sync, lock, readers, cbs, wr>>
  BY DEF GetValue
<1>3. CASE v # None
  <2>1. rd' = [rd EXCEPT ![r] = q]
    BY <1>3 DEF GetValue
  <2>2. v \in Values(table[rd[r].md]) /\ v \in Vals /\ rd[r] \in Reader
    BY <1>1, <1>3, EntryFacts, ValuesFacts DEF HashTableInv, TypeOK
  <2> HIDE DEF v
  <2>3. /\ q \in Reader /\ q.pc = "hash" /\ q.key = rd[r].key /\ q.md = rd[r].md
        /\ q.at = rd[r].at /\ q.got = rd[r].got /\ q.ival = v
    BY <2>2 DEF Reader
  <2> HIDE DEF q
  <2>4. ReaderOf(r, rd[r], lockless_reads, table, val, md, readers, wr)
    BY ReaderIs DEF HashTableInv, ReadersInv
  <2>5. ReachOf(table, q) \subseteq ReachOf(table, rd[r])
    BY <1>1, <2>2, <2>3 DEF ReachOf
  <2>6. q.at \in StepsOf(lockless_reads, table, q)
    BY <1>1, <2>3, <2>4 DEF StepsOf, ReaderOf
  <2>7. ReaderOf(r, q, lockless_reads, table, val, md, readers, wr)
    BY <1>1, <2>3, <2>4, <2>5, <2>6 DEF ReaderOf
  <2>8. EachOf(table, q)
    BY <2>3 DEF EachOf
  <2> QED
    BY <1>2, <2>1, <2>3, <2>7, <2>8, ReaderStep
<1>4. CASE v = None /\ lockless_reads
  <2>1. rd' = [rd EXCEPT ![r] = Returns(r, None)]
    BY <1>4 DEF GetValue
  <2> QED
    BY <1>1, <1>2, <2>1, ReturnsKeeps
<1>5. CASE v = None /\ ~lockless_reads
  <2>1. rd' = [rd EXCEPT ![r] = Continues(r)]
    BY <1>5 DEF GetValue
  <2> QED
    BY <1>1, <1>2, <2>1, ContinuesKeeps
<1> QED
  BY <1>3, <1>4, <1>5

\* ossl_ht_get compares the hash and the key and returns the value or goes on.
LEMMA GetHashKeeps ==
    ASSUME HashTableInv, NEW r \in Readers, GetHash(r)
    PROVE  HashTableInv'
<1>1. rd[r].pc = "hash" /\ Lookup(r)
  BY DEF GetHash, Lookup
<1>2. UNCHANGED <<lockless_reads, table, md, val, count, need_sync, lock, readers, cbs, wr>>
  BY DEF GetHash
<1>3. \/ rd' = [rd EXCEPT ![r] = Returns(r, rd[r].ival)]
      \/ rd' = [rd EXCEPT ![r] = Continues(r)]
  BY DEF GetHash
<1>4. rd[r].ival \in Reach(r)
  BY <1>1 DEF Reach
<1> QED
  BY <1>1, <1>2, <1>3, <1>4, ReturnsKeeps, ContinuesKeeps

\* The invariant holds before the table is made.
LEMMA InitKeeps ==
    ASSUME Init PROVE HashTableInv
<1> USE DEF Init
<1> DEFINE u == NewList(DefaultNeigh)
<1>1. IsTable(u) /\ Moved(u) = {} /\ Values(u) = {} /\ u \in Seq(Entries)
  BY EmptyTable, HashTableAssumption
<1>2. u # NoTable /\ NoTable \in Seq(Entries)
  BY <1>1, TableFacts DEF NoTable
<1>3. md \in Tables /\ md # None /\ table = [x \in Tables |-> IF x = md THEN u ELSE NoTable]
  BY HashTableAssumption
<1> HIDE DEF u
<1>4. /\ NoWriter \in Writer /\ NoWriter.pc = "idle" /\ NoWriter.new = None
      /\ NoWriter.cb = {} /\ NoWriter.cbs = {} /\ NoWriter.replace = FALSE
  BY DEF NoWriter, Writer
<1>5. NoReader \in Reader
  BY DEF NoReader, Reader
<1>6. table \in [Tables -> Seq(Entries)] /\ table[md] = u /\ \A x \in Tables \ {md} : table[x] = NoTable
  BY <1>1, <1>2, <1>3
<1>7. \A w \in Writers : wr[w] = NoWriter
  OBVIOUS
<1>8. TypeOK
  <2>1. \A x \in Tables : table[x] # NoTable => IsTable(table[x])
    BY <1>1, <1>6
  <2> QED
    BY <1>3, <1>4, <1>5, <1>6, <2>1 DEF TypeOK
<1>9. WritersInv
  BY <1>3, <1>4, <1>7, HashTableAssumption DEF WritersInv, WriterOK, Holds
<1>10. TableInv
  BY <1>1, <1>6 DEF TableInv
<1>11. CallbacksInv
  BY <1>4, <1>7 DEF CallbacksInv
<1>12. Current = {} /\ Retired = {}
  <2>1. \A c : c \notin Retired
    BY <1>4, <1>7, RetiredIs, InRetired
  <2> QED
    BY <1>1, <1>3, <1>6, <2>1 DEF Current
<1>13. OwnersInv
  <2>1. \A v \in Vals : val[v] = None /\ \A w \in Writers : wr[w].new # v
    BY <1>4, <1>7, HashTableAssumption
  <2>2. OwnedVals(Current, Retired, table, wr, val)
    BY <1>12, <2>1 DEF OwnedVals
  <2>3. OwnedTables(Retired, table, md)
    BY <1>2, <1>6, <1>12 DEF OwnedTables
  <2>4. HeldOnce(table, md)
    BY <1>1, <1>2, <1>6 DEF HeldOnce
  <2> QED
    BY <1>12, <2>2, <2>3, <2>4, OwnersIs, FS_EmptySet
<1>14. ASSUME NEW r \in Readers PROVE ReaderOK(r) /\ EachOK(r)
  <2>1. rd[r] = NoReader
    OBVIOUS
  <2>2. ReachOf(table, NoReader) = {}
    BY DEF ReachOf, NoReader
  <2>3. ReaderOf(r, NoReader, lockless_reads, table, val, md, readers, wr)
    BY <2>2 DEF ReaderOf, NoReader
  <2>4. EachOf(table, NoReader)
    BY DEF EachOf, NoReader
  <2> QED
    BY <2>1, <2>3, <2>4, ReaderIs, EachIs
<1> QED
  BY <1>8, <1>9, <1>10, <1>11, <1>13, <1>14 DEF HashTableInv, ReadersInv, EachInv

\* Steps outside the hash table
LEMMA StutterKeeps ==
    ASSUME HashTableInv, UNCHANGED vars
    PROVE  HashTableInv'
<1> USE DEF HashTableInv, vars
<1>1. WritersInv' /\ TableInv' /\ CallbacksInv' /\ OwnersInv'
  BY SameHeap
<1>2. TypeOK'
  BY DEF TypeOK
<1>3. ASSUME NEW y \in Readers PROVE ReaderOK(y)' /\ EachOK(y)'
  <2>1. ReaderOf(y, rd[y], lockless_reads, table, val, md, readers, wr) /\ EachOf(table, rd[y])
    BY ReaderIs, EachIs DEF ReadersInv, EachInv
  <2> QED
    BY <2>1, ReaderNext, EachIs
<1> QED
  BY <1>1, <1>2, <1>3 DEF ReadersInv, EachInv

\* Every step of every reader and writer keeps the invariant.
LEMMA NextKeeps ==
    ASSUME HashTableInv, [Next]_vars
    PROVE  HashTableInv'
<1>1. ASSUME NEW w \in Writers,
             \/ WriteLock(w) \/ WriteUnlock(w) \/ SyncTake(w) \/ SyncDone(w)
             \/ \E k \in Keys, replace \in BOOLEAN : InsertCall(w, k, replace)
             \/ InsertDuplicate(w) \/ InsertHash(w) \/ InsertValue(w)
             \/ Grow(w) \/ InsertNoSpace(w)
             \/ \E k \in Keys : DeleteHash(w, k)
             \/ DeleteValue(w) \/ Flush(w) \/ Retire(w)
      PROVE  HashTableInv'
  <2>1. CASE WriteLock(w)
    BY <2>1, WriteLockKeeps
  <2>2. CASE WriteUnlock(w)
    BY <2>2, WriteUnlockKeeps
  <2>3. CASE SyncTake(w)
    BY <2>3, SyncTakeKeeps
  <2>4. CASE SyncDone(w)
    BY <2>4, SyncDoneKeeps
  <2>5. CASE \E k \in Keys, replace \in BOOLEAN : InsertCall(w, k, replace)
    BY <2>5, InsertCallKeeps
  <2>6. CASE InsertDuplicate(w) \/ InsertNoSpace(w)
    BY <2>6, InsertFailsKeeps DEF InsertDuplicate, InsertNoSpace, WriterAt
  <2>7. CASE InsertHash(w)
    BY <2>7, InsertHashKeeps
  <2>8. CASE InsertValue(w)
    BY <2>8, InsertValueKeeps
  <2>9. CASE Grow(w)
    BY <2>9, GrowKeeps
  <2>10. CASE \E k \in Keys : DeleteHash(w, k)
    BY <2>10, DeleteHashKeeps
  <2>11. CASE DeleteValue(w)
    BY <2>11, DeleteValueKeeps
  <2>12. CASE Flush(w)
    BY <2>12, FlushKeeps
  <2>13. CASE Retire(w)
    BY <2>13, RetireKeeps
  <2> QED
    BY <1>1, <2>1, <2>2, <2>3, <2>4, <2>5, <2>6, <2>7, <2>8, <2>9, <2>10, <2>11, <2>12, <2>13
<1>2. CASE HtFree
  BY <1>2, HtFreeKeeps
<1>3. CASE HtNew
  BY <1>3, HtNewKeeps
<1>4. ASSUME NEW r \in Readers,
             \/ ReadLock(r) \/ ReadUnlock(r)
             \/ \E k \in Keys : GetCall(r, k)
             \/ GetValue(r) \/ GetHash(r)
             \/ EachCall(r) \/ EachTest(r) \/ EachVisit(r)
      PROVE  HashTableInv'
  BY <1>4, ReadLockKeeps, ReadUnlockKeeps, GetCallKeeps, GetValueKeeps, GetHashKeeps,
     EachCallKeeps, EachTestKeeps, EachVisitKeeps
<1>5. CASE UNCHANGED vars
  BY <1>5, StutterKeeps
<1> QED
  BY <1>1, <1>2, <1>3, <1>4, <1>5 DEF Next

----------------------------------------------------------------------------
(* Theorems.                                                               *)

\* The invariant of hashtable.c: at every step of the writers, readers, the
\* owner and the synchronizations, one writer holds the lock, every entry stands
\* where its hash is looked for, everything allocated has one owner, what a
\* reader can come to is not freed before it leaves, and an iteration still has
\* ahead of it what it must hand out and has not.
THEOREM Inductive == Spec => []HashTableInv
<1>1. Init => HashTableInv
  BY InitKeeps
<1>2. HashTableInv /\ [Next]_vars => HashTableInv'
  BY NextKeeps
<1> QED
  BY <1>1, <1>2, PTL DEF Spec

\* The variables keep their types: tables are whole neighborhoods of entries,
\* also after growing, and the count never becomes negative.
THEOREM TypeCorrect == Spec => []TypeOK
BY Inductive, PTL DEF HashTableInv

\* No lookup or iteration of ossl_ht_get, ossl_ht_foreach_until or
\* ossl_ht_filter stands on freed memory, whatever is deleted, replaced, flushed
\* or grown meanwhile: for any number of readers and writers.
THEOREM ReadersSafe == Spec => []NoUseAfterFree
<1>1. HashTableInv => NoUseAfterFree
  <2> SUFFICES ASSUME HashTableInv, NEW r \in Readers
               PROVE  /\ rd[r].pc \in {"load", "hash", "each", "visit"} => table[rd[r].md] # NoTable
                      /\ rd[r].pc \in {"hash", "visit"} => val[rd[r].ival] # None
                      /\ \A v \in rd[r].got : val[v] # None
    BY DEF NoUseAfterFree
  <2>1. ReaderOK(r)
    BY DEF HashTableInv, ReadersInv
  <2>2. /\ rd[r].got \subseteq Reach(r)
        /\ rd[r].pc \in {"hash", "visit"} => rd[r].ival \in Reach(r)
    BY DEF Reach
  <2> QED
    BY <2>1, <2>2 DEF ReaderOK, Walks
<1> QED
  BY <1>1, Inductive, PTL

\* ossl_ht_foreach_until and ossl_ht_filter, unless the callback stops them, hand
\* out every value that was in the table from the start of the iteration to its
\* end, over growth and flushes and whatever is stored between the load of an
\* entry that is tested and the load that is passed on.
THEOREM IterationsComplete == Spec => []EachComplete
<1>1. HashTableInv => EachComplete
  BY DEF HashTableInv, EachInv, EachOK, EachComplete
<1> QED
  BY <1>1, Inductive, PTL

\* A set all of whose members are one has one member: how owners are counted.
LEMMA OneOf ==
    ASSUME NEW S, NEW x \in S, \A y \in S : y = x
    PROVE  Cardinality(S) = 1
<1>1. S = {x}
  OBVIOUS
<1> QED
  BY <1>1, FS_Singleton

\* Every value and every table has one owner that will free it, and the count
\* of ossl_ht_count is right: over growth, replacement, deletion, flush, free and
\* failed insertions nothing leaks and nothing is freed twice.
THEOREM OneOwner == Spec => []OwnedOnce
<1>1. ASSUME HashTableInv PROVE OwnedOnce
  <2>1. /\ OwnedVals(Current, Retired, table, wr, val) /\ OwnedTables(Retired, table, md)
        /\ HeldOnce(table, md) /\ count = Cardinality(Current)
    BY <1>1, OwnersIs DEF HashTableInv
  <2>2. ASSUME NEW v \in Vals
        PROVE  LET entries == IF md = None THEN {}
                              ELSE {s \in DOMAIN table[md] : table[md][s].value = v}
                   owners == {<<"entry", s>> : s \in entries}
                             \cup {<<"callback", cb>> : cb \in {c \in Retired : v \in FreedVals(c)}}
                             \cup {<<"insertion", w>> : w \in {x \in Writers : wr[x].new = v}}
               IN  IF val[v] = None THEN owners = {} ELSE Cardinality(owners) = 1
    <3> DEFINE entries == IF md = None THEN {}
                          ELSE {s \in DOMAIN table[md] : table[md][s].value = v}
               callbacks == {c \in Retired : v \in FreedOf(table, c)}
               inserts == {x \in Writers : wr[x].new = v}
               owners == {<<"entry", s>> : s \in entries}
                         \cup {<<"callback", cb>> : cb \in callbacks}
                         \cup {<<"insertion", w>> : w \in inserts}
    <3>1. v # None
      BY HashTableAssumption
    <3>2. /\ entries # {} <=> v \in Current
          /\ \A s, z \in entries : s = z
      BY <2>1, <3>1 DEF Current, Values, HeldOnce, Moved
    <3>3. val[v] # None <=> entries # {} \/ callbacks # {} \/ inserts # {}
      BY <2>1, <3>2 DEF OwnedVals
    <3>4. /\ entries # {} => callbacks = {} /\ inserts = {}
          /\ callbacks # {} => inserts = {}
      BY <2>1, <3>2 DEF OwnedVals
    <3>5. \A c, d \in callbacks : c = d
      BY <2>1 DEF OwnedVals
    <3>6. \A w, y \in inserts : w = y
      <4> SUFFICES ASSUME NEW w \in inserts, NEW y \in inserts PROVE w = y
        OBVIOUS
      <4>1. wr[w].new # None /\ wr[y].new # None
        BY <3>1
      <4> QED
        BY <1>1, <4>1 DEF HashTableInv, WritersInv, WriterOK, Holds
    <3> HIDE DEF entries, callbacks, inserts
    <3>7. CASE val[v] = None
      <4>1. owners = {}
        BY <3>3, <3>7
      <4> QED
        BY <3>7, <4>1, FreedIs DEF entries, callbacks, inserts
    <3>8. CASE val[v] # None
      <4>1. \E x \in owners : \A y \in owners : y = x
        <5>1. CASE entries # {}
          <6>1. PICK s : entries = {s}
            BY <3>2, <3>4, <5>1
          <6>2. callbacks = {} /\ inserts = {}
            BY <3>4, <5>1
          <6>3. \A y : y \in owners <=> y = <<"entry", s>>
            BY <6>1, <6>2
          <6> QED
            BY <6>3
        <5>2. CASE callbacks # {}
          <6>1. PICK s : callbacks = {s}
            BY <3>4, <3>5, <5>2
          <6>2. entries = {} /\ inserts = {}
            BY <3>4, <5>2
          <6>3. \A y : y \in owners <=> y = <<"callback", s>>
            BY <6>1, <6>2
          <6> QED
            BY <6>3
        <5>3. CASE inserts # {}
          <6>1. PICK s : inserts = {s}
            BY <3>4, <3>6, <5>3
          <6>2. entries = {} /\ callbacks = {}
            BY <3>4, <5>3
          <6>3. \A y : y \in owners <=> y = <<"insertion", s>>
            BY <6>1, <6>2
          <6> QED
            BY <6>3
        <5> QED
          BY <3>3, <3>8, <5>1, <5>2, <5>3
      <4> HIDE DEF owners
      <4>2. Cardinality(owners) = 1
        BY <4>1, OneOf
      <4> QED
        BY <3>8, <4>2, FreedIs DEF owners, entries, callbacks, inserts
    <3> QED
      BY <3>7, <3>8
  <2>3. ASSUME NEW t \in Tables
        PROVE  LET owners == {<<"callback", cb>> : cb \in {c \in Retired : t \in FreedTables(c)}}
                             \cup {<<"current", x>> : x \in {md} \cap {t}}
               IN  IF table[t] = NoTable THEN owners = {} ELSE Cardinality(owners) = 1
    <3> DEFINE callbacks == {c \in Retired : t \in FreedTables(c)}
               owners == {<<"callback", cb>> : cb \in callbacks}
                         \cup {<<"current", x>> : x \in {md} \cap {t}}
    <3>1. table[t] # NoTable <=> t = md \/ callbacks # {}
      BY <2>1 DEF OwnedTables
    <3>2. t = md => callbacks = {}
      BY <2>1 DEF OwnedTables
    <3>3. \A c, d \in callbacks : c = d
      BY <2>1 DEF OwnedTables
    <3> HIDE DEF callbacks
    <3>4. CASE table[t] = NoTable
      BY <3>1, <3>4 DEF callbacks
    <3>5. CASE table[t] # NoTable
      <4>1. \E x \in owners : \A y \in owners : y = x
        <5>1. CASE t = md
          <6>1. \A y : y \in owners <=> y = <<"current", t>>
            BY <3>2, <5>1
          <6> QED
            BY <6>1
        <5>2. CASE t # md
          <6>1. PICK c : callbacks = {c}
            BY <3>1, <3>3, <3>5, <5>2
          <6>2. \A y : y \in owners <=> y = <<"callback", c>>
            BY <5>2, <6>1
          <6> QED
            BY <6>2
        <5> QED
          BY <5>1, <5>2
      <4> HIDE DEF owners
      <4>2. Cardinality(owners) = 1
        BY <4>1, OneOf
      <4> QED
        BY <3>5, <4>2 DEF owners, callbacks
    <3> QED
      BY <3>4, <3>5
  <2>4. md # None => count = Cardinality(Values(table[md]))
    BY <2>1 DEF Current
  <2> QED
    BY <2>2, <2>3, <2>4 DEF OwnedOnce
<1> QED
  BY <1>1, Inductive, PTL

-----------------------------------------------------------------------------

\* The i-th entry that q visits in t is that of its key, and q comes to it.
ComesTo(q, ll, t, V, i) ==
    LET p == ProbeOf(ll, t, KeyHash[q.key])
        e == t[p[i]]
    IN  /\ i \in DOMAIN p /\ i >= q.at
        /\ e.value # None /\ e.hash = KeyHash[q.key] /\ V[e.value] = q.key
        /\ ll => \A h \in 1 .. i - 1 : t[p[h]].value # None
        /\ q.pc = "hash" /\ i = q.at => V[q.ival] = q.key

LookupOf(q, ll, t, V, A) ==
    q.pc \in {"load", "hash"} =>
    /\ A \subseteq q.may
    /\ \A s \in Moved(t) : V[t[s].value] = q.key => t[s].value \in q.may
    /\ q.pc = "hash" /\ V[q.ival] = q.key => q.ival \in q.may
    /\ None \notin q.may => \E i : ComesTo(q, ll, t, V, i)

\* LookupOK, over any state
LEMMA LookupIs ==
    ASSUME NEW r
    PROVE  /\ LookupOK(r) <=>
                LookupOf(rd[r], lockless_reads, table[rd[r].md], val, Map[rd[r].key])
           /\ LookupOK(r)' <=>
                LookupOf(rd'[r], lockless_reads', table'[rd'[r].md], val', Map'[rd'[r].key])
<1>1. Visits(r) = ProbeOf(lockless_reads, table[rd[r].md], KeyHash[rd[r].key])
  BY DEF Visits, Probe, ProbeOf
<1>2. Visits(r)' = ProbeOf(lockless_reads', table'[rd'[r].md], KeyHash[rd'[r].key])
  BY DEF Visits, Probe, ProbeOf
<1>3. LookupOK(r) <=> LookupOf(rd[r], lockless_reads, table[rd[r].md], val, Map[rd[r].key])
  <2>1. \A i : /\ i \in DOMAIN Visits(r) /\ i >= rd[r].at /\ Finds(r, i)
               /\ lockless_reads =>
                    \A h \in 1 .. i - 1 : table[rd[r].md][Visits(r)[h]].value # None
               /\ rd[r].pc = "hash" /\ i = rd[r].at => val[rd[r].ival] = rd[r].key
               <=> ComesTo(rd[r], lockless_reads, table[rd[r].md], val, i)
    BY <1>1 DEF ComesTo, Finds
  <2> QED
    BY <2>1 DEF LookupOK, LookupOf, Lookup
<1>4. LookupOK(r)' <=>
        LookupOf(rd'[r], lockless_reads', table'[rd'[r].md], val', Map'[rd'[r].key])
  <2>1. \A i : /\ i \in DOMAIN Visits(r)' /\ i >= rd'[r].at /\ Finds(r, i)'
               /\ lockless_reads' =>
                    \A h \in 1 .. i - 1 : table'[rd'[r].md][Visits(r)'[h]].value # None
               /\ rd'[r].pc = "hash" /\ i = rd'[r].at => val'[rd'[r].ival] = rd'[r].key
               <=> ComesTo(rd'[r], lockless_reads', table'[rd'[r].md], val', i)
    BY <1>2 DEF ComesTo, Finds
  <2> QED
    BY <2>1 DEF LookupOK, LookupOf, Lookup
<1> QED
  BY <1>3, <1>4

\* A lookup that stays where it is, while the answers open to it grow
LEMMA LookupKept ==
    ASSUME NEW q, NEW p, NEW ll \in BOOLEAN, NEW t, NEW u, NEW V, NEW U, NEW A, NEW B,
           IsTable(t), Len(u) = Len(t), DOMAIN u = DOMAIN t, q.key \in Keys, q.pc \in {"load", "hash"},
           LookupOf(q, ll, t, V, A),
           p.pc = q.pc, p.key = q.key, p.at = q.at, p.ival = q.ival,
           q.may \subseteq p.may, B \subseteq p.may,
           \A x \in Values(t) : U[x] = V[x],
           q.pc = "hash" => U[q.ival] = V[q.ival],
           \A s \in Moved(u) : \/ s \in Moved(t) /\ u[s].value = t[s].value
                               \/ U[u[s].value] = q.key => u[s].value \in p.may,
           ll => Moved(t) \subseteq Moved(u),
           None \notin p.may =>
              \A s \in Moved(t) : V[t[s].value] = q.key /\ t[s].hash = KeyHash[q.key] =>
                 s \in Moved(u) /\ u[s].hash = KeyHash[q.key] /\ U[u[s].value] = q.key
    PROVE  LookupOf(p, ll, u, U, B)
<1> DEFINE P == ProbeOf(ll, t, KeyHash[q.key])
<1>1. ProbeOf(ll, u, KeyHash[p.key]) = P
  <2>1. Neighborhoods(u) = Neighborhoods(t)
    BY DEF Neighborhoods
  <2> QED
    BY <2>1 DEF ProbeOf
<1>2. KeyHash[q.key] \in Nat
  BY HashTableAssumption
<1>3. DOMAIN P \subseteq Nat /\ \A i \in DOMAIN P : P[i] \in DOMAIN t /\ 1 .. i \subseteq DOMAIN P
  BY <1>2, ProbeFacts
<1>4. ASSUME NEW s \in Moved(u), U[u[s].value] = q.key PROVE u[s].value \in p.may
  <2>1. CASE s \in Moved(t) /\ u[s].value = t[s].value
    BY <1>4, <2>1, InValues DEF LookupOf
  <2> QED
    BY <1>4, <2>1
<1>5. p.pc = "hash" /\ U[p.ival] = p.key => p.ival \in p.may
  BY DEF LookupOf
<1>6. ASSUME None \notin p.may PROVE \E i : ComesTo(p, ll, u, U, i)
  <2>1. PICK i : ComesTo(q, ll, t, V, i)
    BY <1>6 DEF LookupOf
  <2>2. /\ i \in DOMAIN P /\ i >= q.at
        /\ t[P[i]].value # None /\ t[P[i]].hash = KeyHash[q.key] /\ V[t[P[i]].value] = q.key
        /\ ll => \A h \in 1 .. i - 1 : t[P[h]].value # None
        /\ q.pc = "hash" /\ i = q.at => V[q.ival] = q.key
    BY <2>1 DEF ComesTo
  <2>3. P[i] \in Moved(t) /\ i \in Nat
    BY <1>3, <2>2 DEF Moved
  <2>4. P[i] \in Moved(u) /\ u[P[i]].hash = KeyHash[q.key] /\ U[u[P[i]].value] = q.key
    BY <1>6, <2>2, <2>3
  <2>5. ll => \A h \in 1 .. i - 1 : u[P[h]].value # None
    <3> SUFFICES ASSUME ll, NEW h \in 1 .. i - 1 PROVE u[P[h]].value # None
      OBVIOUS
    <3>1. h \in 1 .. i
      BY <2>3
    <3>2. P[h] \in Moved(t)
      BY <1>3, <2>2, <3>1 DEF Moved
    <3> QED
      BY <3>2 DEF Moved
  <2>6. q.pc = "hash" /\ i = q.at => U[q.ival] = q.key
    BY <2>2
  <2>7. u[P[i]].value # None
    BY <2>4 DEF Moved
  <2> HIDE DEF P
  <2>8. ComesTo(p, ll, u, U, i)
    BY <1>1, <2>2, <2>4, <2>5, <2>6, <2>7 DEF ComesTo
  <2> QED
    BY <2>8
<1> QED
  BY <1>4, <1>5, <1>6 DEF LookupOf

\* Steps that leave the entries of the table and their keys alone
SameEntries ==
    /\ md' = md
    /\ md # None => /\ DOMAIN table'[md] = DOMAIN table[md]
                    /\ \A s \in DOMAIN table[md] : table'[md][s].value = table[md][s].value
    /\ \A v \in Current : val'[v] = val[v]

\* The answers change only with the entries or the deletion under way.
LEMMA SameMap ==
    ASSUME SameEntries, \A s : DeletingOf(wr', s) <=> DeletingOf(wr, s)
    PROVE  Map' = Map
<1>1. \A k : HoldingOf(table', md', val', k) = HoldingOf(table, md, val, k)
  <2>1. CASE md = None
    BY <2>1 DEF HoldingOf, SameEntries
  <2>2. CASE md # None
    <3>1. Moved(table'[md]) = Moved(table[md])
      BY <2>2 DEF SameEntries, Moved
    <3>2. \A s \in Moved(table[md]) : val'[table'[md][s].value] = val[table[md][s].value]
      BY <2>2 DEF SameEntries, Moved, Current, Values
    <3> QED
      BY <2>2, <3>1, <3>2 DEF HoldingOf, SameEntries
  <2> QED
    BY <2>1, <2>2
<1>2. \A k : \A s \in HoldingOf(table, md, val, k) :
        table'[md'][s].value = table[md][s].value
  BY DEF HoldingOf, SameEntries, Moved
<1>3. ASSUME NEW k \in Keys PROVE Map'[k] = Map[k]
  <2>1. \A x : x \in Map'[k] <=> x \in Map[k]
    BY <1>1, <1>2, MapIs, InMap
  <2> DEFINE M == Map'[k]
             N == Map[k]
  <2>2. \A x : x \in M <=> x \in N
    BY <2>1
  <2> HIDE DEF M, N
  <2>3. M = N
    BY <2>2
  <2> QED
    BY <2>3 DEF M, N
<1> QED
  BY <1>3 DEF Map

\* So it is with where the keys are.
LEMMA SameKeys ==
    ASSUME SameEntries, KeysInv,
           \A w \in Writers : wr'[w].pc = "store" =>
              wr[w].pc = "store" /\ wr'[w].slot = wr[w].slot /\ wr'[w].key = wr[w].key
    PROVE  KeysInv'
<1> SUFFICES ASSUME md # None PROVE KeysInv'
  BY DEF KeysInv, SameEntries
<1>1. Moved(table'[md]) = Moved(table[md])
  BY DEF SameEntries, Moved
<1>2. \A s \in Moved(table[md]) : val'[table'[md][s].value] = val[table[md][s].value]
  BY DEF SameEntries, Moved, Current, Values
<1> QED
  BY <1>1, <1>2 DEF KeysInv, SameEntries

----------------------------------------------------------------------------
(* What the abstract map sees.                                             *)

CallOf(q) ==
    [key |-> IF q.pc \in {"load", "hash"} THEN q.key ELSE None,
     may |-> IF q.pc \in {"load", "hash"} THEN q.may ELSE {},
     res |-> IF q.pc = "in" /\ q.key # None
             THEN IF q.got = {} THEN None ELSE CHOOSE v \in q.got : TRUE
             ELSE None]

\* Calls, reader by reader
LEMMA CallsIs ==
    /\ Calls = [r \in Readers |-> CallOf(rd[r])]
    /\ Calls' = [r \in Readers |-> CallOf(rd'[r])]
BY DEF Calls, CallOf, Lookup, AnswerOf

AbstractStep == [Abstract!Next]_(Abstract!vars)

\* A step that changes neither the answers nor the calls is not seen.
LEMMA Stutters ==
    ASSUME Map' = Map, Calls' = Calls
    PROVE  AbstractStep
BY DEF AbstractStep, Abstract!vars

\* What NoteChange records is what the abstract map notes.
LEMMA Notes ==
    ASSUME ReadersInv,
           \A r \in Readers : Stays(r),
           \A r \in Readers : rd'[r].may = IF Lookup(r) THEN rd[r].may \cup Map'[rd[r].key]
                                           ELSE rd[r].may
    PROVE  Abstract!Note(Map')
<1>1. ASSUME NEW r \in Readers, Lookup(r)
      PROVE  /\ Calls[r].key # None
             /\ CallOf(rd'[r]) = [Calls[r] EXCEPT !.may = @ \cup Map'[Calls[r].key]]
  <2>1. rd[r].key \in Keys /\ rd[r].pc \in {"load", "hash"}
    BY <1>1 DEF ReadersInv, ReaderOK, Lookup
  <2>2. Calls[r] = [key |-> rd[r].key, may |-> rd[r].may, res |-> None]
    BY <2>1, CallsIs DEF CallOf
  <2>3. CallOf(rd'[r]) = [key |-> rd[r].key, may |-> rd[r].may \cup Map'[rd[r].key], res |-> None]
    BY <1>1, <2>1 DEF CallOf, Stays
  <2>4. rd[r].key # None
    BY <2>1, HashTableAssumption
  <2> QED
    BY <2>2, <2>3, <2>4
<1>2. ASSUME NEW r \in Readers, ~Lookup(r)
      PROVE  Calls[r].key = None /\ CallOf(rd'[r]) = Calls[r]
  <2>1. Calls[r] = CallOf(rd[r]) /\ rd[r].pc \notin {"load", "hash"}
    BY <1>2, CallsIs DEF Lookup
  <2>2. CallOf(rd[r]) = CallOf(rd'[r])
    BY <2>1 DEF CallOf, Stays
  <2> QED
    BY <2>1, <2>2 DEF CallOf
<1>3. Calls' = [r \in Readers |-> IF Calls[r].key = None THEN Calls[r]
                                  ELSE [Calls[r] EXCEPT !.may = @ \cup Map'[Calls[r].key]]]
  BY <1>1, <1>2, CallsIs
<1> QED
  BY <1>3 DEF Abstract!Note

\* A key gets or loses its value at one store.
LEMMA PutStep ==
    ASSUME NEW k \in Keys, NEW v \in Vals \cup {None},
           Map' = [Map EXCEPT ![k] = {v}], Abstract!Note(Map')
    PROVE  AbstractStep
<1>1. Abstract!Put(k, v)
  BY DEF Abstract!Put
<1> QED
  BY <1>1 DEF AbstractStep, Abstract!Next

\* While a deletion is under way its key also counts as absent.
LEMMA DeleteStep ==
    ASSUME NEW k \in Keys, Map' = [Map EXCEPT ![k] = @ \cup {None}], Abstract!Note(Map')
    PROVE  AbstractStep
<1>1. Abstract!DeleteBegins(k)
  BY DEF Abstract!DeleteBegins
<1> QED
  BY <1>1 DEF AbstractStep, Abstract!Next

\* All keys lose their values at one store.
LEMMA ClearStep ==
    ASSUME Map' = [k \in Keys |-> {None}], Abstract!Note(Map')
    PROVE  AbstractStep
<1>1. Abstract!Clear
  BY DEF Abstract!Clear
<1> QED
  BY <1>1 DEF AbstractStep, Abstract!Next

----------------------------------------------------------------------------
(* Steps that lookups do not see.                                          *)

Linear == KeysInv /\ LookupsInv

\* Steps of writers that store nothing into the table are not seen.
LEMMA QuietKeeps ==
    ASSUME HashTableInv, Linear, SameEntries, UNCHANGED <<lockless_reads, rd>>,
           \A s : DeletingOf(wr', s) <=> DeletingOf(wr, s),
           \A w \in Writers : wr'[w].pc = "store" =>
              wr[w].pc = "store" /\ wr'[w].slot = wr[w].slot /\ wr'[w].key = wr[w].key,
           \A r \in Readers : Lookup(r) => table'[rd[r].md] = table[rd[r].md],
           \A r \in Readers : \A v \in Reach(r) : val'[v] = val[v]
    PROVE  Linear' /\ AbstractStep
<1>1. Map' = Map
  BY SameMap
<1>2. KeysInv'
  BY SameKeys DEF Linear
<1>3. Calls' = Calls
  BY CallsIs
<1>4. ASSUME NEW r \in Readers PROVE LookupOK(r)'
  <2>1. CASE ~Lookup(r)
    BY <2>1 DEF LookupOK, Lookup
  <2>2. CASE Lookup(r)
    <3> DEFINE q == rd[r]
               t == table[rd[r].md]
               A == Map[rd[r].key]
    <3>1. LookupOf(q, lockless_reads, t, val, A)
      BY LookupIs DEF Linear, LookupsInv
    <3>2. q.key \in Keys /\ IsTable(t)
      BY <2>2, EntryFacts
    <3>3. \A x \in Values(t) : val'[x] = val[x]
      BY <2>2 DEF Reach, Walks, Lookup
    <3>4. q.pc = "hash" => val'[q.ival] = val[q.ival]
      BY DEF Reach
    <3>5. lockless_reads \in BOOLEAN /\ q.pc \in {"load", "hash"} /\ A \subseteq q.may
      BY <2>2, <3>1 DEF HashTableInv, TypeOK, LookupOf, Lookup
    <3>6. rd'[r] = q /\ table'[rd'[r].md] = t /\ Map'[rd'[r].key] = A
      BY <1>1, <2>2
    <3> HIDE DEF q, t, A
    <3>8. LookupOf(q, lockless_reads, t, val', A)
      BY <3>1, <3>2, <3>3, <3>4, <3>5, InValues, LookupKept
    <3> QED
      BY <3>6, <3>8, LookupIs
  <2> QED
    BY <2>1, <2>2
<1> QED
  BY <1>1, <1>2, <1>3, <1>4, Stutters DEF Linear, LookupsInv

\* Steps of one writer that touch no memory
LEMMA WriterQuiet ==
    ASSUME HashTableInv, Linear, NEW w \in Writers,
           UNCHANGED <<lockless_reads, table, md, val, rd>>,
           \A y \in Writers \ {w} : wr'[y] = wr[y],
           wr[w].pc # "unlink", wr'[w].pc \notin {"store", "unlink"}
    PROVE  Linear' /\ AbstractStep
<1>1. SameEntries
  BY DEF SameEntries
<1>2. \A s : DeletingOf(wr', s) <=> DeletingOf(wr, s)
  BY DEF DeletingOf
<1> QED
  BY <1>1, <1>2, QuietKeeps

\* Locking, unlocking and queueing of callbacks are not seen.
LEMMA WriteLockLinear ==
    ASSUME HashTableInv, Linear, NEW w \in Writers,
           WriteLock(w) \/ WriteUnlock(w) \/ SyncTake(w) \/ Retire(w)
    PROVE  Linear' /\ AbstractStep
<1>1. wr \in [Writers -> Writer]
  BY DEF HashTableInv, TypeOK
<1>2. UNCHANGED <<lockless_reads, table, md, val, rd>> /\ wr[w].pc # "unlink"
  BY DEF WriteLock, WriteUnlock, SyncTake, Retire, WriterAt
<1>3. \A y \in Writers \ {w} : wr'[y] = wr[y]
  BY <1>1 DEF WriteLock, WriteUnlock, SyncTake, Retire
<1>4. wr'[w].pc \notin {"store", "unlink"}
  <2>1. CASE WriteLock(w)
    BY <1>1, <2>1 DEF WriteLock, Writer
  <2>2. CASE WriteUnlock(w)
    BY <1>1, <2>2 DEF WriteUnlock, Writer, NoWriter
  <2>3. CASE SyncTake(w)
    BY <1>1, <2>3 DEF SyncTake, Writer
  <2>4. CASE Retire(w)
    BY <1>1, <2>4 DEF Retire, Writer
  <2> QED
    BY <2>1, <2>2, <2>3, <2>4
<1> QED
  BY <1>2, <1>3, <1>4, WriterQuiet

\* Nor is the allocation of a value,
LEMMA InsertCallLinear ==
    ASSUME HashTableInv, Linear, NEW w \in Writers, NEW key \in Keys, NEW replace \in BOOLEAN,
           InsertCall(w, key, replace)
    PROVE  Linear' /\ AbstractStep
<1> USE DEF HashTableInv
<1>1. wr \in [Writers -> Writer] /\ val \in [Vals -> Keys \cup {None}]
  BY DEF TypeOK
<1>2. PICK v \in Vals :
        /\ val[v] = None /\ val' = [val EXCEPT ![v] = key]
        /\ wr' = [wr EXCEPT ![w] = [@ EXCEPT !.pc = "insert", !.key = key,
                                             !.new = v, !.replace = replace]]
  BY DEF InsertCall
<1>3. UNCHANGED <<lockless_reads, table, md, rd>> /\ wr[w].pc = "locked"
  BY DEF InsertCall, WriterAt
<1>4. \A y \in Writers \ {w} : wr'[y] = wr[y]
  BY <1>1, <1>2
<1>5. wr'[w].pc = "insert"
  BY <1>1, <1>2 DEF Writer
<1>6. \A x : val[x] # None => val'[x] = val[x]
  BY <1>1, <1>2
<1>7. \A r \in Readers : \A x \in Reach(r) : val'[x] = val[x]
  BY <1>6 DEF ReadersInv, ReaderOK
<1>8. SameEntries
  <2>1. ASSUME NEW x \in Current PROVE val'[x] = val[x]
    <3>1. md # None
      BY <2>1 DEF Current
    <3> QED
      BY <1>6, <2>1, <3>1, CurrentSafe
  <2> QED
    BY <1>3, <2>1 DEF SameEntries
<1>9. \A s : DeletingOf(wr', s) <=> DeletingOf(wr, s)
  BY <1>3, <1>4, <1>5 DEF DeletingOf
<1> QED
  BY <1>3, <1>4, <1>5, <1>7, <1>8, <1>9, QuietKeeps

\* nor an insertion that fails,
LEMMA InsertFailsLinear ==
    ASSUME HashTableInv, Linear, NEW w \in Writers, wr[w].pc = "insert", InsertFails(w)
    PROVE  Linear' /\ AbstractStep
<1> USE DEF HashTableInv
<1>1. wr \in [Writers -> Writer] /\ val \in [Vals -> Keys \cup {None}]
  BY DEF TypeOK
<1>2. /\ val' = [val EXCEPT ![wr[w].new] = None]
      /\ wr' = [wr EXCEPT ![w] = [NoWriter EXCEPT !.pc = "locked"]]
      /\ UNCHANGED <<lockless_reads, table, md, rd>>
  BY DEF InsertFails
<1>3. \A y \in Writers \ {w} : wr'[y] = wr[y]
  BY <1>1, <1>2
<1>4. wr'[w].pc = "locked"
  BY <1>1, <1>2 DEF NoWriter
<1>5. \A x : wr[w].new # x => val'[x] = val[x]
  BY <1>1, <1>2
<1>6. \A r \in Readers : \A x \in Reach(r) : val'[x] = val[x]
  BY <1>5 DEF ReadersInv, ReaderOK
<1>7. SameEntries
  <2>1. ASSUME NEW x \in Current PROVE val'[x] = val[x]
    <3>1. md # None
      BY <2>1 DEF Current
    <3> QED
      BY <1>5, <2>1, <3>1, CurrentSafe
  <2> QED
    BY <1>2, <2>1 DEF SameEntries
<1>8. \A s : DeletingOf(wr', s) <=> DeletingOf(wr, s)
  BY <1>3, <1>4 DEF DeletingOf
<1> QED
  BY <1>2, <1>3, <1>4, <1>6, <1>7, <1>8, QuietKeeps

\* nor the callbacks, which free nothing that a lookup can come to.
LEMMA SyncDoneLinear ==
    ASSUME HashTableInv, HashTableInv', Linear, NEW w \in Writers, SyncDone(w)
    PROVE  Linear' /\ AbstractStep
<1> USE DEF HashTableInv
<1>1. wr \in [Writers -> Writer] /\ table \in [Tables -> Seq(Entries)]
  BY DEF TypeOK
<1>2. /\ wr[w].pc = "wait" /\ wr' = [wr EXCEPT ![w] = NoWriter]
      /\ UNCHANGED <<lockless_reads, md, rd>>
      /\ \A v \in Vals : val'[v] # None => val'[v] = val[v]
      /\ \A t \in Tables : table'[t] # NoTable => table'[t] = table[t]
  BY DEF SyncDone, WriterAt
<1>3. \A y \in Writers \ {w} : wr'[y] = wr[y]
  BY <1>1, <1>2
<1>4. wr'[w].pc = "idle"
  BY <1>1, <1>2 DEF NoWriter
<1>5. md # None => table'[md] = table[md]
  <2>1. md' # None => md' \in Tables /\ table'[md'] # NoTable
    BY DEF OwnersInv, TypeOK
  <2> QED
    BY <1>2, <2>1
<1>6. \A v \in Current : val'[v] = val[v]
  <2>1. Current' = Current
    BY <1>2, <1>5 DEF Current
  <2>2. Current \subseteq Vals
    BY CurrentSafe DEF Current
  <2>3. \A v \in Current' : val'[v] # None
    BY <2>1, <2>2, OwnersNext DEF OwnedVals
  <2> QED
    BY <1>2, <2>1, <2>2, <2>3
<1>7. ASSUME NEW r \in Readers, Walks(r) PROVE table'[rd[r].md] = table[rd[r].md]
  <2>1. Walks(r)' => rd'[r].md \in Tables /\ table'[rd'[r].md] # NoTable
    BY DEF ReadersInv, ReaderOK
  <2>2. Walks(r)'
    BY <1>2, <1>7 DEF Walks
  <2> QED
    BY <1>2, <2>1, <2>2
<1>8. ASSUME NEW r \in Readers, NEW v \in Reach(r) PROVE val'[v] = val[v]
  <2>1. Reach(r)' = Reach(r)
    BY <1>2, <1>7 DEF Reach, Walks
  <2>2. v \in Vals /\ val'[v] # None
    BY <2>1 DEF ReadersInv, ReaderOK
  <2> QED
    BY <1>2, <2>2
<1>9. SameEntries
  BY <1>2, <1>5, <1>6 DEF SameEntries
<1>10. \A s : DeletingOf(wr', s) <=> DeletingOf(wr, s)
  BY <1>2, <1>3, <1>4 DEF DeletingOf
<1> QED
  BY <1>2, <1>3, <1>4, <1>7, <1>8, <1>9, <1>10, QuietKeeps DEF Lookup, Walks

----------------------------------------------------------------------------
(* Stores into an entry.                                                   *)

\* The table after a store of n into entry s
Stored(s, n) ==
    LET t == table[md]
        u == table'[md]
    IN  /\ md # None /\ md' = md /\ s \in DOMAIN t
        /\ DOMAIN u = DOMAIN t /\ Len(u) = Len(t) /\ u[s] = n
        /\ \A z \in DOMAIN t \ {s} : u[z] = t[z]
        /\ \A x \in Tables \ {md} : table'[x] = table[x]
        /\ UNCHANGED <<lockless_reads, val>>

\* The store of a hash leaves every other entry alone.
LEMMA StoredHash ==
    ASSUME HashTableInv, md # None, NEW s \in DOMAIN table[md], NEW h \in Nat,
           table' = [table EXCEPT ![md] = [@ EXCEPT ![s].hash = h]],
           UNCHANGED <<lockless_reads, md, val>>
    PROVE  Stored(s, [table[md][s] EXCEPT !.hash = h])
<1> DEFINE t == table[md]
           e == [t[s] EXCEPT !.hash = h]
           u == [t EXCEPT ![s] = e]
<1>1. md \in Tables /\ IsTable(t) /\ table \in [Tables -> Seq(Entries)]
  BY CurrentTable DEF HashTableInv, TypeOK
<1>2. e \in Entries
  <2>1. t[s] \in Entries
    BY <1>1, TableFacts
  <2> QED
    BY <2>1 DEF Entries
<1>3. table' = [table EXCEPT ![md] = u]
  BY <1>1
<1> HIDE DEF e
<1>4. /\ Len(u) = Len(t) /\ DOMAIN u = DOMAIN t
      /\ u[s] = e /\ \A z \in DOMAIN t \ {s} : u[z] = t[z]
  BY <1>1, <1>2, StoreTable
<1> HIDE DEF u
<1>5. table'[md] = u /\ \A x \in Tables \ {md} : table'[x] = table[x]
  BY <1>1, <1>3
<1> QED
  BY <1>4, <1>5 DEF Stored, e

\* So does the store of a value.
LEMMA StoredValue ==
    ASSUME HashTableInv, md # None, NEW s \in DOMAIN table[md], NEW v \in Vals \cup {None},
           table' = [table EXCEPT ![md] = [@ EXCEPT ![s].value = v]],
           UNCHANGED <<lockless_reads, md, val>>
    PROVE  Stored(s, [table[md][s] EXCEPT !.value = v])
<1> DEFINE t == table[md]
           e == [t[s] EXCEPT !.value = v]
           u == [t EXCEPT ![s] = e]
<1>1. md \in Tables /\ IsTable(t) /\ table \in [Tables -> Seq(Entries)]
  BY CurrentTable DEF HashTableInv, TypeOK
<1>2. e \in Entries
  <2>1. t[s] \in Entries
    BY <1>1, TableFacts
  <2> QED
    BY <2>1 DEF Entries
<1>3. table' = [table EXCEPT ![md] = u]
  BY <1>1
<1> HIDE DEF e
<1>4. /\ Len(u) = Len(t) /\ DOMAIN u = DOMAIN t
      /\ u[s] = e /\ \A z \in DOMAIN t \ {s} : u[z] = t[z]
  BY <1>1, <1>2, StoreTable
<1> HIDE DEF u
<1>5. table'[md] = u /\ \A x \in Tables \ {md} : table'[x] = table[x]
  BY <1>1, <1>3
<1> QED
  BY <1>4, <1>5 DEF Stored, e

\* A store keeps what lookups rest on when what it puts there is an answer of its
\* key, and when the key whose entry it changes keeps it or may be absent.
LEMMA StoreLookups ==
    ASSUME HashTableInv, LookupsInv, NEW s, NEW n, Stored(s, n),
           \A r \in Readers : Stays(r),
           \A r \in Readers : Lookup(r) => /\ rd[r].may \subseteq rd'[r].may
                                           /\ Map'[rd[r].key] \subseteq rd'[r].may,
           \/ n.value = table[md][s].value
           \/ n.value = None
           \/ val[n.value] \in Keys /\ n.value \in Map'[val[n.value]],
           lockless_reads /\ table[md][s].value # None => n.value # None,
           s \in Moved(table[md]) /\ table[md][s].hash = KeyHash[val[table[md][s].value]] =>
              \/ /\ n.value # None /\ n.hash = table[md][s].hash
                 /\ val[n.value] = val[table[md][s].value]
              \/ None \in Map'[val[table[md][s].value]]
    PROVE  LookupsInv'
<1> SUFFICES ASSUME NEW r \in Readers PROVE LookupOK(r)'
  BY DEF LookupsInv
<1>1. CASE ~Lookup(r)
  BY <1>1 DEF LookupOK, Lookup, Stays
<1>2. CASE Lookup(r)
  <2> DEFINE q == rd[r]
             p == rd'[r]
             t == table[rd[r].md]
             u == table'[rd[r].md]
             A == Map[rd[r].key]
             B == Map'[rd[r].key]
             k == rd[r].key
  <2>1. LookupOf(q, lockless_reads, t, val, A)
    BY LookupIs DEF LookupsInv
  <2>2. k \in Keys /\ IsTable(t) /\ rd[r].md \in Tables
    BY <1>2, EntryFacts
  <2>3. lockless_reads \in BOOLEAN /\ q.pc \in {"load", "hash"}
    BY <1>2 DEF HashTableInv, TypeOK, Lookup
  <2>4. /\ p.pc = q.pc /\ p.key = k /\ p.at = q.at /\ p.ival = q.ival /\ p.md = q.md
        /\ q.may \subseteq p.may /\ B \subseteq p.may
    BY <1>2 DEF Stays
  <2>5. /\ Len(u) = Len(t) /\ DOMAIN u = DOMAIN t
    BY <2>2 DEF Stored
  <2>6. ASSUME NEW z \in Moved(u)
        PROVE  \/ z \in Moved(t) /\ u[z].value = t[z].value
               \/ val[u[z].value] = k => u[z].value \in p.may
    <3>1. z \in DOMAIN t /\ u[z].value # None
      BY <2>5, <2>6 DEF Moved
    <3>2. CASE u[z] = t[z]
      BY <3>1, <3>2 DEF Moved
    <3>3. CASE u[z] # t[z]
      <4>1. rd[r].md = md /\ z = s /\ u[z] = n
        BY <2>2, <3>1, <3>3 DEF Stored
      <4>2. CASE n.value = t[z].value
        BY <3>1, <4>1, <4>2 DEF Moved
      <4>3. CASE n.value \in Map'[val[n.value]]
        BY <2>4, <4>1, <4>3
      <4> QED
        BY <3>1, <4>1, <4>2, <4>3
    <3> QED
      BY <3>2, <3>3
  <2>7. lockless_reads => Moved(t) \subseteq Moved(u)
    <3> SUFFICES ASSUME lockless_reads, NEW z \in Moved(t) PROVE z \in Moved(u)
      OBVIOUS
    <3>1. CASE u[z] = t[z]
      BY <2>5, <3>1 DEF Moved
    <3>2. CASE u[z] # t[z]
      <4>1. rd[r].md = md /\ z = s /\ u[z] = n
        BY <2>2, <3>2 DEF Stored, Moved
      <4> QED
        BY <2>5, <4>1 DEF Moved
    <3> QED
      BY <3>1, <3>2
  <2>8. ASSUME None \notin p.may, NEW z \in Moved(t), val[t[z].value] = k, t[z].hash = KeyHash[k]
        PROVE  z \in Moved(u) /\ u[z].hash = KeyHash[k] /\ val[u[z].value] = k
    <3>1. CASE u[z] = t[z]
      BY <2>5, <2>8, <3>1 DEF Moved
    <3>2. CASE u[z] # t[z]
      <4>1. rd[r].md = md /\ z = s /\ u[z] = n
        BY <2>2, <3>2 DEF Stored, Moved
      <4>2. None \notin Map'[val[table[md][s].value]]
        BY <2>4, <2>8, <4>1
      <4>3. n.value # None /\ n.hash = t[z].hash /\ val[n.value] = val[t[z].value]
        BY <2>8, <4>1, <4>2
      <4> QED
        BY <2>5, <2>8, <4>1, <4>3 DEF Moved
    <3> QED
      BY <3>1, <3>2
  <2> HIDE DEF q, p, t, u, A, B, k
  <2>9. q.key = k
    BY DEF q, k
  <2>10. LookupOf(p, lockless_reads, u, val, B)
    <3>1. \A z \in Moved(u) : \/ z \in Moved(t) /\ u[z].value = t[z].value
                              \/ val[u[z].value] = q.key => u[z].value \in p.may
      BY <2>6, <2>9
    <3>2. None \notin p.may =>
            \A z \in Moved(t) : val[t[z].value] = q.key /\ t[z].hash = KeyHash[q.key] =>
                 z \in Moved(u) /\ u[z].hash = KeyHash[q.key] /\ val[u[z].value] = q.key
      BY <2>8, <2>9
    <3>3. q.key \in Keys /\ p.key = q.key
      BY <2>2, <2>4, <2>9
    <3> QED
      BY <2>1, <2>2, <2>3, <2>4, <2>5, <2>7, <3>1, <3>2, <3>3, LookupKept
  <2>11. /\ rd'[r] = p /\ table'[p.md] = u /\ Map'[p.key] = B
         /\ lockless_reads' = lockless_reads /\ val' = val
    BY <2>4 DEF p, q, u, B, k, Stored
  <2> QED
    BY <2>10, <2>11, LookupIs
<1> QED
  BY <1>1, <1>2

\* The values of the table have keys, and their entries are where lookups go.
LEMMA EntryKeys ==
    ASSUME HashTableInv, md # None, NEW z \in Moved(table[md])
    PROVE  /\ z \in DOMAIN table[md] /\ table[md][z].value \in Current
           /\ table[md][z].value \in Vals /\ val[table[md][z].value] \in Keys
<1>1. z \in DOMAIN table[md] /\ table[md][z].value \in Current
  BY InValues, CurrentSafe DEF Moved
<1>2. val[table[md][z].value] # None /\ table[md][z].value \in Vals
  BY <1>1, CurrentSafe
<1> QED
  BY <1>1, <1>2 DEF HashTableInv, TypeOK

\* A key that is not found is not in the table.
LEMMA NotFound ==
    ASSUME HashTableInv, md # None, NEW key \in Keys, Hits(table[md], key) = {},
           \A s : ~DeletingOf(wr, s), NEW z \in Moved(table[md])
    PROVE  val[table[md][z].value] # key
<1> DEFINE t == table[md]
           P == ProbeOf(lockless_reads, t, KeyHash[key])
<1> SUFFICES ASSUME val[t[z].value] = key PROVE FALSE
  OBVIOUS
<1>1. t[z].hash = KeyHash[key] /\ HomeOf(lockless_reads, t, z, KeyHash[key])
  BY TableIs DEF HashTableInv, TableOf
<1>2. PICK i \in DOMAIN P : /\ P[i] = z
                            /\ lockless_reads => \A h \in 1 .. i - 1 : t[P[h]].value # None
  BY <1>1 DEF HomeOf
<1>3. t[z].value # None
  BY DEF Moved
<1>4. IsTable(t) /\ lockless_reads \in BOOLEAN /\ KeyHash[key] \in Nat
  BY CurrentSafe, HashTableAssumption DEF HashTableInv, TypeOK
<1>5. i \in Nat
  BY <1>2, <1>4, ProbeFacts
<1>6. lockless_reads => \A h \in 1 .. i : t[P[h]].value # None
  <2> SUFFICES ASSUME lockless_reads, NEW h \in 1 .. i PROVE t[P[h]].value # None
    OBVIOUS
  <2>1. h = i \/ h \in 1 .. i - 1
    BY <1>5
  <2> QED
    BY <1>2, <1>3, <2>1
<1>7. MatchKey(val[t[z].value], key)
  BY DEF MatchKey
<1>8. Probe(t, KeyHash[key]) = P
  BY ProbeIs
<1> HIDE DEF P, t
<1>9. i \in Hits(t, key)
  BY <1>1, <1>2, <1>3, <1>6, <1>7, <1>8 DEF Hits
<1> QED
  BY <1>9 DEF t

\* The store of a hash before its value is not seen: in a replacement it is the
\* hash that was there, and a free entry is passed over.
LEMMA InsertHashLinear ==
    ASSUME KeysTold, HashTableInv, Linear, NEW w \in Writers, InsertHash(w)
    PROVE  Linear' /\ AbstractStep
<1> USE DEF HashTableInv
<1> DEFINE t == table[md]
           k == wr[w].key
           is == IF Found(w) # {} THEN Found(w) ELSE Room(w)
           s == Slot(w, is)
           n == [t[s] EXCEPT !.hash = KeyHash[k]]
<1>1. /\ UNCHANGED <<lockless_reads, md, val, rd>>
      /\ wr[w].pc = "insert" /\ is # {}
      /\ table' = [table EXCEPT ![md] = [@ EXCEPT ![s].hash = KeyHash[k]]]
      /\ wr' = [wr EXCEPT ![w].pc = "store", ![w].slot = s]
  BY DEF InsertHash, WriterAt
<1>2. /\ k \in Keys /\ md # None /\ \A z : ~DeletingOf(wr, z)
  <2>1. k \in Keys /\ md # None
    BY <1>1 DEF WritersInv, WriterOK
  <2>2. \A y \in Writers : wr[y].pc # "unlink"
    BY <1>1, OneHolder DEF Holds
  <2> QED
    BY <2>1, <2>2 DEF DeletingOf
<1>3. IsTable(t) /\ KeyHash[k] \in Nat /\ TypeOK
  BY <1>2, CurrentTable, HashTableAssumption
<1>4. /\ s \in DOMAIN t
      /\ t[s].value # None => t[s].hash = KeyHash[k]
      /\ \A z \in Moved(t) : z = s <=> val[t[z].value] = k
  <2>1. CASE Found(w) # {}
    <3>1. is = Hits(t, k)
      BY <2>1 DEF Found
    <3>2. s = Probe(t, KeyHash[k])[CHOOSE i \in Hits(t, k) : \A h \in Hits(t, k) : i <= h]
      BY <3>1 DEF Slot
    <3>a. Hits(t, k) # {}
      BY <1>1, <3>1
    <3> HIDE DEF is, s, t, k
    <3>b. TypeOK /\ IsTable(t) /\ k \in Keys
      BY <1>2, <1>3
    <3>3. /\ s \in DOMAIN t /\ s \in Moved(t) /\ t[s].hash = KeyHash[k]
          /\ MatchKey(val[t[s].value], k)
      BY <3>2, <3>a, <3>b, HitSlot, Zenon
    <3>4. val[t[s].value] = k
      BY <1>2, <3>3, EntryKeys DEF KeysTold, t
    <3>5. \A z \in Moved(t) : val[t[z].value] = k => z = s
      BY <1>2, <3>3, <3>4 DEF Linear, KeysInv, t
    <3> QED
      BY <3>3, <3>4, <3>5
  <2>2. CASE Found(w) = {}
    <3>1. is = Vacant(t, k)
      BY <2>2 DEF Room
    <3>2. s = Probe(t, KeyHash[k])[CHOOSE i \in Vacant(t, k) : \A h \in Vacant(t, k) : i <= h]
      BY <3>1 DEF Slot
    <3>3. Hits(t, k) = {}
      BY <2>2 DEF Found
    <3>4. \A z \in Moved(t) : val[t[z].value] # k
      BY <1>2, <3>3, NotFound
    <3> HIDE DEF is, s, t, k
    <3>5. s \in DOMAIN t /\ t[s].value = None
      BY <1>1, <1>2, <1>3, <3>1, <3>2, VacantSlot
    <3> QED
      BY <3>4, <3>5 DEF Moved
  <2> QED
    BY <2>1, <2>2
<1> HIDE DEF is, s
<1>5. Stored(s, n)
  BY <1>1, <1>2, <1>3, <1>4, StoredHash
<1>6. n.value = t[s].value /\ n.hash = KeyHash[k]
  <2>1. t[s] \in Entries
    BY <1>3, <1>4, TableFacts
  <2> QED
    BY <2>1 DEF Entries
<1> HIDE DEF n
<1>7. wr \in [Writers -> Writer]
  BY DEF TypeOK
<1>8. /\ \A y \in Writers \ {w} : wr'[y] = wr[y]
      /\ wr'[w].pc = "store" /\ wr'[w].slot = s /\ wr'[w].key = k
  BY <1>1, <1>7 DEF Writer
<1>9. DOMAIN table'[md] = DOMAIN t /\ \A z \in DOMAIN t : table'[md][z].value = t[z].value
  BY <1>5, <1>6 DEF Stored
<1>10. SameEntries
  BY <1>1, <1>9 DEF SameEntries
<1>11. \A z : DeletingOf(wr', z) <=> DeletingOf(wr, z)
  BY <1>1, <1>8 DEF DeletingOf
<1>12. Map' = Map /\ Calls' = Calls
  BY <1>1, <1>10, <1>11, SameMap, CallsIs
<1>13. KeysInv'
  <2>1. Moved(table'[md]) = Moved(t)
    BY <1>9 DEF Moved
  <2>2. \A z \in Moved(t) : val'[table'[md][z].value] = val[t[z].value]
    BY <1>1, <1>9 DEF Moved
  <2>3. \A y \in Writers \ {w} : wr'[y].pc # "store"
    BY <1>1, <1>8, OneHolder DEF Holds
  <2> HIDE DEF t, k
  <2>4. ASSUME NEW y \in Writers, wr'[y].pc = "store", NEW z \in Moved(t)
        PROVE  z = wr'[y].slot <=> val'[table'[md][z].value] = wr'[y].key
    <3>1. y = w
      BY <2>3, <2>4
    <3> QED
      BY <1>4, <1>8, <2>2, <3>1
  <2>5. \A y, z \in Moved(t) : val[t[y].value] = val[t[z].value] => y = z
    BY <1>2 DEF Linear, KeysInv, t
  <2>6. \A y, z \in Moved(t) : val'[table'[md][y].value] = val'[table'[md][z].value] => y = z
    BY <2>2, <2>5
  <2>7. md' = md
    BY <1>1
  <2> QED
    BY <2>1, <2>4, <2>6, <2>7 DEF KeysInv
<1>14. LookupsInv'
  <2>1. \A r \in Readers : Stays(r)
    BY <1>1, StaysSame
  <2>2. \A r \in Readers : Lookup(r) => Map'[rd[r].key] \subseteq rd'[r].may
    BY <1>1, <1>12 DEF Linear, LookupsInv, LookupOK
  <2>3. s \in Moved(t) => n.value # None /\ n.hash = t[s].hash
    BY <1>4, <1>6 DEF Moved
  <2> QED
    BY <1>1, <1>5, <1>6, <2>1, <2>2, <2>3, StoreLookups DEF Linear
<1> QED
  BY <1>12, <1>13, <1>14, Stutters DEF Linear

\* The store of 0 over a hash begins the deletion: from here on a lookup may
\* miss the entry.
LEMMA DeleteHashLinear ==
    ASSUME KeysTold, HashTableInv, HashTableInv', Linear, NEW w \in Writers, NEW key \in Keys,
           DeleteHash(w, key)
    PROVE  Linear' /\ AbstractStep
<1> USE DEF HashTableInv
<1> DEFINE t == table[md]
           hit == Hits(t, key)
           s == Probe(t, KeyHash[key])[CHOOSE i \in hit : \A h \in hit : i <= h]
           n == [t[s] EXCEPT !.hash = 0]
<1>1. /\ UNCHANGED <<lockless_reads, md, val>>
      /\ wr[w].pc = "locked" /\ ~lockless_reads /\ hit # {}
      /\ table' = [table EXCEPT ![md] = [@ EXCEPT ![s].hash = 0]]
      /\ wr' = [wr EXCEPT ![w].pc = "unlink", ![w].slot = s]
      /\ NoteChange
  BY DEF DeleteHash, WriterAt
<1>2. md # None /\ \A z : ~DeletingOf(wr, z)
  <2>1. md # None
    BY <1>1 DEF WritersInv, WriterOK
  <2>2. \A y \in Writers : wr[y].pc # "unlink"
    BY <1>1, OneHolder DEF Holds
  <2> QED
    BY <2>1, <2>2 DEF DeletingOf
<1>3. IsTable(t) /\ TypeOK
  BY <1>2, CurrentTable
<1>4. s = Probe(t, KeyHash[key])[CHOOSE i \in Hits(t, key) : \A h \in Hits(t, key) : i <= h]
  OBVIOUS
<1>a. TypeOK /\ IsTable(t) /\ Hits(t, key) # {}
  BY <1>1, <1>3
<1> HIDE DEF s, t
<1>5. s \in DOMAIN t /\ s \in Moved(t) /\ MatchKey(val[t[s].value], key)
  BY <1>4, <1>a, HitSlot, Zenon
<1>6. val[t[s].value] = key /\ \A z \in Moved(t) : val[t[z].value] = key => z = s
  <2>1. val[t[s].value] = key
    BY <1>2, <1>5, EntryKeys DEF KeysTold, t
  <2> QED
    BY <1>2, <1>5, <2>1 DEF Linear, KeysInv, t
<1>7. Stored(s, n)
  BY <1>1, <1>2, <1>5, StoredHash DEF t
<1>8. n.value = t[s].value
  <2>1. t[s] \in Entries
    BY <1>3, <1>5, TableFacts
  <2> QED
    BY <2>1 DEF Entries
<1> HIDE DEF n
<1>9. wr \in [Writers -> Writer]
  BY DEF TypeOK
<1>10. /\ \A y \in Writers \ {w} : wr'[y] = wr[y]
       /\ wr'[w].pc = "unlink" /\ wr'[w].slot = s
  BY <1>1, <1>9 DEF Writer
<1>11. DOMAIN table'[md] = DOMAIN t /\ \A z \in DOMAIN t : table'[md][z].value = t[z].value
  BY <1>7, <1>8 DEF Stored, t
<1>12. SameEntries
  BY <1>1, <1>11 DEF SameEntries, t
<1>13. KeysInv'
  BY <1>10, <1>12, SameKeys DEF Linear
<1>14. \A z : DeletingOf(wr', z) <=> z = s
  BY <1>2, <1>10 DEF DeletingOf
<1>15. Map' = [Map EXCEPT ![key] = @ \cup {None}]
  <2>1. Moved(table'[md]) = Moved(t)
    BY <1>11 DEF Moved
  <2>2. \A k : HoldingOf(table', md', val', k) = HoldingOf(table, md, val, k)
    BY <1>1, <1>11, <2>1 DEF HoldingOf, Moved, t
  <2>3. \A k : \A z \in HoldingOf(table, md, val, k) : table'[md'][z].value = table[md][z].value
    BY <1>1, <1>2, <1>11 DEF HoldingOf, Moved, t
  <2>4. \A k : s \in HoldingOf(table, md, val, k) <=> k = key
    BY <1>2, <1>5, <1>6 DEF HoldingOf, t
  <2>5. ASSUME NEW k \in Keys PROVE Map'[k] = IF k = key THEN Map[k] \cup {None} ELSE Map[k]
    <3> DEFINE M == Map'[k]
               N == IF k = key THEN Map[k] \cup {None} ELSE Map[k]
    <3>1. \A x : x \in Map'[k] <=> x \in Map[k] \/ (x = None /\ k = key)
      BY <1>2, <1>14, <2>2, <2>3, <2>4, MapIs, InMap
    <3>2. \A x : x \in M <=> x \in N
      BY <3>1
    <3> HIDE DEF M, N
    <3>3. M = N
      BY <3>2
    <3> QED
      BY <3>3 DEF M, N
  <2> QED
    BY <2>5 DEF Map
<1>16. /\ \A r \in Readers : Stays(r)
       /\ \A r \in Readers : rd'[r].may = IF Lookup(r) THEN rd[r].may \cup Map'[rd[r].key]
                                          ELSE rd[r].may
  <2>1. Current' \subseteq Vals
    BY <1>1, <1>2, CurrentNext DEF TypeOK, OwnersInv
  <2> QED
    BY <1>1, <2>1, NoteFacts
<1>17. Abstract!Note(Map')
  BY <1>16, Notes
<1>18. LookupsInv'
  <2>1. None \in Map'[key]
    BY <1>15 DEF Map
  <2>2. \A r \in Readers : Lookup(r) => /\ rd[r].may \subseteq rd'[r].may
                                        /\ Map'[rd[r].key] \subseteq rd'[r].may
    BY <1>16
  <2> QED
    BY <1>1, <1>6, <1>7, <1>8, <1>16, <2>1, <2>2, StoreLookups DEF Linear, t
<1> QED
  BY <1>13, <1>15, <1>17, <1>18, DeleteStep DEF Linear

\* The store of the value is where an insertion or a replacement takes effect.
LEMMA InsertValueLinear ==
    ASSUME HashTableInv, HashTableInv', Linear, NEW w \in Writers, InsertValue(w)
    PROVE  Linear' /\ AbstractStep
<1> USE DEF HashTableInv
<1> DEFINE t == table[md]
           u == table'[md]
           s == wr[w].slot
           v == wr[w].new
           k == wr[w].key
           n == [t[s] EXCEPT !.value = v]
           old == t[s].value
<1>1. /\ UNCHANGED <<lockless_reads, md, val>>
      /\ wr[w].pc = "store"
      /\ table' = [table EXCEPT ![md] = [@ EXCEPT ![s].value = v]]
      /\ wr' = [wr EXCEPT ![w] = IF old = None THEN [NoWriter EXCEPT !.pc = "locked"]
                                 ELSE [NoWriter EXCEPT !.pc = "retire",
                                       !.cb = {[fn |-> "free_old_ht_value", arg |-> old]}]]
      /\ NoteChange
  BY DEF InsertValue, WriterAt
<1>2. /\ v # None /\ k \in Keys /\ md # None /\ val[v] = k /\ s \in DOMAIN t
      /\ t[s].hash = KeyHash[k]
  BY <1>1 DEF WritersInv, WriterOK
<1>3. \A z : ~DeletingOf(wr, z)
  BY <1>1, OneHolder DEF DeletingOf, Holds
<1>4. wr \in [Writers -> Writer] /\ v \in Vals /\ IsTable(t)
  <2>1. wr \in [Writers -> Writer] /\ wr[w] \in Writer
    BY DEF TypeOK
  <2>2. v \in Vals
    BY <1>2, <2>1 DEF Writer
  <2> QED
    BY <1>2, <2>1, <2>2, CurrentTable
<1>5. /\ \A z \in Moved(t) : z = s <=> val[t[z].value] = k
      /\ \A y, z \in Moved(t) : val[t[y].value] = val[t[z].value] => y = z
  BY <1>1, <1>2 DEF Linear, KeysInv
<1>6. wr'[w].pc \in {"locked", "retire"} /\ \A y \in Writers \ {w} : wr'[y] = wr[y]
  BY <1>1, <1>4 DEF NoWriter
<1>7. \A y \in Writers : wr'[y].pc \notin {"store", "unlink"}
  BY <1>1, <1>6, OneHolder DEF Holds
<1>8. Stored(s, n)
  BY <1>1, <1>2, <1>4, StoredValue
<1>9. n.value = v /\ n.hash = t[s].hash
  <2>1. t[s] \in Entries
    BY <1>2, <1>4, TableFacts
  <2> QED
    BY <1>4, <2>1 DEF Entries
<1> HIDE DEF n
<1>10. /\ DOMAIN u = DOMAIN t /\ u[s] = n /\ \A z \in DOMAIN t \ {s} : u[z] = t[z]
       /\ md' = md /\ val' = val
  BY <1>8 DEF Stored
<1> HIDE DEF t, u, s, v, k, old
<1>11. /\ s \in Moved(u) /\ val[u[s].value] = k
       /\ \A z : z # s => (z \in Moved(u) <=> z \in Moved(t)) /\ (z \in Moved(t) => u[z] = t[z])
  BY <1>2, <1>9, <1>10 DEF Moved
<1>12. KeysInv'
  <2>1. ASSUME NEW y \in Moved(u), NEW z \in Moved(u), val[u[y].value] = val[u[z].value]
        PROVE  y = z
    <3>1. CASE y = s
      BY <1>5, <1>11, <2>1, <3>1
    <3>2. CASE z = s
      BY <1>5, <1>11, <2>1, <3>2
    <3>3. CASE y # s /\ z # s
      BY <1>5, <1>11, <2>1, <3>3
    <3> QED
      BY <3>1, <3>2, <3>3
  <2>2. table'[md'] = u /\ val' = val
    BY <1>10 DEF u
  <2> QED
    BY <1>7, <2>1, <2>2 DEF KeysInv
<1>13. Map' = [Map EXCEPT ![k] = {v}]
  <2>1. \A z : ~DeletingOf(wr', z)
    BY <1>7 DEF DeletingOf
  <2>2. \A j, z : z \in HoldingOf(table, md, val, j) <=> z \in Moved(t) /\ val[t[z].value] = j
    BY <1>2 DEF HoldingOf, t
  <2>3. \A j, z : z \in HoldingOf(table', md', val', j) <=> z \in Moved(u) /\ val[u[z].value] = j
    BY <1>2, <1>10 DEF HoldingOf, u
  <2>4. \A z : z \in HoldingOf(table', md', val', k) <=> z = s
    BY <1>5, <1>11, <2>3
  <2>5. \A j : j # k => /\ HoldingOf(table', md', val', j) = HoldingOf(table, md, val, j)
                        /\ s \notin HoldingOf(table, md, val, j)
    <3>1. ASSUME NEW j, j # k, NEW z
          PROVE  /\ z \in HoldingOf(table', md', val', j) <=> z \in HoldingOf(table, md, val, j)
                 /\ s \notin HoldingOf(table, md, val, j)
      BY <1>5, <1>11, <2>2, <2>3, <3>1
    <3> QED
      BY <3>1
  <2>6. u[s].value = v
    BY <1>9, <1>10
  <2>7. ASSUME NEW j \in Keys PROVE Map'[j] = IF j = k THEN {v} ELSE Map[j]
    <3> DEFINE M == Map'[j]
               N == IF j = k THEN {v} ELSE Map[j]
    <3>1. \A x : x \in M <=> x \in N
      <4>1. CASE j = k
        <5>1. \A x : x \in Map'[j] <=> x = v
          <6>1. table'[md'][s].value = v
            BY <1>10, <2>6 DEF u
          <6>2. \A x : x \in MapOf(table', md', val', wr')[k] <=> x = v
            <7> DEFINE H == HoldingOf(table', md', val', k)
            <7>1. H # {} /\ \A z \in H : ~DeletingOf(wr', z)
              BY <2>1, <2>4
            <7>2. \A x : x \in MapOf(table', md', val', wr')[k] <=>
                           \E z \in H : table'[md'][z].value = x
              BY <1>2, <7>1, InMap
            <7> QED
              BY <2>4, <6>1, <7>2
          <6> QED
            BY <4>1, <6>2, MapIs
        <5> QED
          BY <4>1, <5>1
      <4>2. CASE j # k
        <5>1. \A z \in HoldingOf(table, md, val, j) : table'[md'][z].value = table[md][z].value
          <6> SUFFICES ASSUME NEW z \in HoldingOf(table, md, val, j)
                       PROVE  table'[md'][z].value = table[md][z].value
            OBVIOUS
          <6>1. z \in Moved(t) /\ z # s
            BY <2>2, <2>5, <4>2
          <6> QED
            BY <1>10, <1>11, <6>1 DEF t, u
        <5>2. \A x : x \in Map'[j] <=> x \in Map[j]
          BY <1>3, <2>1, <2>5, <4>2, <5>1, MapIs, InMap
        <5> QED
          BY <4>2, <5>2
      <4> QED
        BY <4>1, <4>2
    <3> HIDE DEF M, N
    <3>2. M = N
      BY <3>1
    <3> QED
      BY <3>2 DEF M, N
  <2> QED
    BY <2>7 DEF Map
<1>14. /\ \A r \in Readers : Stays(r)
       /\ \A r \in Readers : rd'[r].may = IF Lookup(r) THEN rd[r].may \cup Map'[rd[r].key]
                                          ELSE rd[r].may
  <2>1. Current' \subseteq Vals
    BY <1>2, <1>10, CurrentNext DEF TypeOK, OwnersInv
  <2> QED
    BY <1>1, <2>1, NoteFacts
<1>15. Abstract!Note(Map')
  BY <1>14, Notes
<1>16. LookupsInv'
  <2>1. n.value \in Map'[val[n.value]] /\ val[n.value] \in Keys
    BY <1>2, <1>9, <1>13 DEF Map
  <2>2. \A r \in Readers : Lookup(r) => /\ rd[r].may \subseteq rd'[r].may
                                        /\ Map'[rd[r].key] \subseteq rd'[r].may
    BY <1>14
  <2>3. n.value # None
    BY <1>2, <1>9
  <2>4. s \in Moved(t) => n.hash = t[s].hash /\ val[n.value] = val[t[s].value]
    BY <1>2, <1>5, <1>9
  <2> QED
    BY <1>8, <1>14, <2>1, <2>2, <2>3, <2>4, StoreLookups DEF Linear, t
<1> QED
  BY <1>2, <1>4, <1>12, <1>13, <1>15, <1>16, PutStep DEF Linear

\* The store of None ends the deletion.
LEMMA DeleteValueLinear ==
    ASSUME HashTableInv, HashTableInv', Linear, NEW w \in Writers, DeleteValue(w)
    PROVE  Linear' /\ AbstractStep
<1> USE DEF HashTableInv
<1> DEFINE t == table[md]
           u == table'[md]
           s == wr[w].slot
           k == val[t[s].value]
           n == [t[s] EXCEPT !.value = None]
<1>1. /\ UNCHANGED <<lockless_reads, md, val>>
      /\ wr[w].pc = "unlink"
      /\ table' = [table EXCEPT ![md] = [@ EXCEPT ![s].value = None]]
      /\ wr' = [wr EXCEPT ![w] = [NoWriter EXCEPT !.pc = "retire",
                                    !.cb = {[fn |-> "free_old_entry", arg |-> t[s].value]}]]
      /\ NoteChange
  BY DEF DeleteValue, WriterAt
<1>2. md # None /\ s \in Moved(t) /\ ~lockless_reads
  BY <1>1 DEF WritersInv, WriterOK
<1>3. s \in DOMAIN t /\ k \in Keys /\ IsTable(t)
  BY <1>2, EntryKeys, CurrentTable
<1>4. wr \in [Writers -> Writer]
  BY DEF TypeOK
<1>5. \A y, z \in Moved(t) : val[t[y].value] = val[t[z].value] => y = z
  BY <1>2 DEF Linear, KeysInv
<1>6. wr'[w].pc = "retire" /\ \A y \in Writers \ {w} : wr'[y] = wr[y]
  BY <1>1, <1>4 DEF NoWriter
<1>7. \A y \in Writers : wr'[y].pc \notin {"store", "unlink"}
  BY <1>1, <1>6, OneHolder DEF Holds
<1>8. Stored(s, n)
  BY <1>1, <1>2, <1>3, StoredValue
<1>9. n.value = None
  <2>1. t[s] \in Entries
    BY <1>3, TableFacts
  <2> QED
    BY <2>1 DEF Entries
<1> HIDE DEF n
<1>10. /\ DOMAIN u = DOMAIN t /\ u[s] = n /\ \A z \in DOMAIN t \ {s} : u[z] = t[z]
       /\ md' = md /\ val' = val
  BY <1>8 DEF Stored
<1>11. \A z : DeletingOf(wr, z) => z = s
  BY <1>1, OneHolder DEF DeletingOf, Holds
<1>12. \A z \in Moved(t) : val[t[z].value] = k => z = s
  BY <1>2, <1>5
<1> HIDE DEF t, u, s, k
<1>13. \A z : /\ z \in Moved(u) <=> z \in Moved(t) /\ z # s
              /\ z \in Moved(u) => u[z] = t[z]
  BY <1>3, <1>9, <1>10 DEF Moved
<1>14. KeysInv'
  <2>1. \A y, z \in Moved(u) : val[u[y].value] = val[u[z].value] => y = z
    BY <1>5, <1>13
  <2>2. table'[md'] = u /\ val' = val
    BY <1>10 DEF u
  <2> QED
    BY <1>7, <2>1, <2>2 DEF KeysInv
<1>15. Map' = [Map EXCEPT ![k] = {None}]
  <2>1. \A z : ~DeletingOf(wr', z)
    BY <1>7 DEF DeletingOf
  <2>2. \A j, z : z \in HoldingOf(table, md, val, j) <=> z \in Moved(t) /\ val[t[z].value] = j
    BY <1>2 DEF HoldingOf, t
  <2>3. \A j, z : z \in HoldingOf(table', md', val', j) <=> z \in Moved(u) /\ val[u[z].value] = j
    BY <1>2, <1>10 DEF HoldingOf, u
  <2>4. HoldingOf(table', md', val', k) = {}
    BY <1>12, <1>13, <2>3
  <2>5. \A j : j # k => /\ HoldingOf(table', md', val', j) = HoldingOf(table, md, val, j)
                        /\ s \notin HoldingOf(table, md, val, j)
    <3>1. val[t[s].value] = k
      BY DEF k
    <3>2. ASSUME NEW j, j # k, NEW z
          PROVE  /\ z \in HoldingOf(table', md', val', j) <=> z \in HoldingOf(table, md, val, j)
                 /\ s \notin HoldingOf(table, md, val, j)
      BY <1>13, <2>2, <2>3, <3>1, <3>2
    <3> QED
      BY <3>2
  <2>6. ASSUME NEW j \in Keys PROVE Map'[j] = IF j = k THEN {None} ELSE Map[j]
    <3> DEFINE M == Map'[j]
               N == IF j = k THEN {None} ELSE Map[j]
    <3>1. \A x : x \in M <=> x \in N
      <4>1. CASE j = k
        <5>1. \A x : x \in Map'[j] <=> x = None
          BY <2>4, <4>1, MapIs, InMap
        <5> QED
          BY <4>1, <5>1
      <4>2. CASE j # k
        <5>1. \A z \in HoldingOf(table, md, val, j) : table'[md'][z].value = table[md][z].value
          <6> SUFFICES ASSUME NEW z \in HoldingOf(table, md, val, j)
                       PROVE  table'[md'][z].value = table[md][z].value
            OBVIOUS
          <6>1. z \in Moved(t) /\ z # s
            BY <2>2, <2>5, <4>2
          <6> QED
            BY <1>10, <1>13, <6>1 DEF t, u
        <5>2. \A z \in HoldingOf(table, md, val, j) : ~DeletingOf(wr, z)
          BY <1>11, <2>5, <4>2
        <5>3. \A x : x \in Map'[j] <=> x \in Map[j]
          BY <2>1, <2>5, <4>2, <5>1, <5>2, MapIs, InMap
        <5> QED
          BY <4>2, <5>3
      <4> QED
        BY <4>1, <4>2
    <3> HIDE DEF M, N
    <3>2. M = N
      BY <3>1
    <3> QED
      BY <3>2 DEF M, N
  <2> QED
    BY <2>6 DEF Map
<1>16. /\ \A r \in Readers : Stays(r)
       /\ \A r \in Readers : rd'[r].may = IF Lookup(r) THEN rd[r].may \cup Map'[rd[r].key]
                                          ELSE rd[r].may
  <2>1. Current' \subseteq Vals
    BY <1>2, <1>10, CurrentNext DEF TypeOK, OwnersInv
  <2> QED
    BY <1>1, <2>1, NoteFacts
<1>17. Abstract!Note(Map')
  BY <1>16, Notes
<1>18. LookupsInv'
  <2>1. None \in Map'[val[t[s].value]]
    BY <1>3, <1>15 DEF Map, k
  <2>2. \A r \in Readers : Lookup(r) => /\ rd[r].may \subseteq rd'[r].may
                                        /\ Map'[rd[r].key] \subseteq rd'[r].may
    BY <1>16
  <2> QED
    BY <1>2, <1>8, <1>9, <1>16, <2>1, <2>2, StoreLookups DEF Linear, t
<1> QED
  BY <1>3, <1>14, <1>15, <1>17, <1>18, PutStep DEF Linear

----------------------------------------------------------------------------
(* Other tables.                                                           *)

\* Lookups keep to the table they came to.
LEMMA NoteLookups ==
    ASSUME HashTableInv, LookupsInv, \A r \in Readers : Stays(r),
           UNCHANGED <<lockless_reads, val>>,
           \A r \in Readers : Lookup(r) => /\ table'[rd[r].md] = table[rd[r].md]
                                           /\ rd[r].may \subseteq rd'[r].may
                                           /\ Map'[rd[r].key] \subseteq rd'[r].may
    PROVE  LookupsInv'
<1> SUFFICES ASSUME NEW r \in Readers PROVE LookupOK(r)'
  BY DEF LookupsInv
<1>1. CASE ~Lookup(r)
  BY <1>1 DEF LookupOK, Lookup, Stays
<1>2. CASE Lookup(r)
  <2> DEFINE q == rd[r]
             p == rd'[r]
             t == table[rd[r].md]
             A == Map[rd[r].key]
             B == Map'[rd[r].key]
  <2>1. LookupOf(q, lockless_reads, t, val, A)
    BY LookupIs DEF LookupsInv
  <2>2. q.key \in Keys /\ IsTable(t)
    BY <1>2, EntryFacts
  <2>3. lockless_reads \in BOOLEAN /\ q.pc \in {"load", "hash"}
    BY <1>2 DEF HashTableInv, TypeOK, Lookup
  <2>4. /\ p.pc = q.pc /\ p.key = q.key /\ p.at = q.at /\ p.ival = q.ival /\ p.md = q.md
        /\ q.may \subseteq p.may /\ B \subseteq p.may
    BY <1>2 DEF Stays
  <2>5. /\ table'[p.md] = t /\ Map'[p.key] = B
    BY <1>2, <2>4
  <2> HIDE DEF q, p, t, A, B
  <2>6. LookupOf(p, lockless_reads, t, val, B)
    BY <2>1, <2>2, <2>3, <2>4, LookupKept
  <2>7. rd'[r] = p
    BY DEF p
  <2> QED
    BY <2>5, <2>6, <2>7, LookupIs
<1> QED
  BY <1>1, <1>2

\* Publishing a table at a free address leaves those of the lookups alone.
LEMMA OtherTables ==
    ASSUME HashTableInv, NEW x \in Tables, table[x] = NoTable, NEW u,
           table' = [table EXCEPT ![x] = u]
    PROVE  /\ \A r \in Readers : Lookup(r) => table'[rd[r].md] = table[rd[r].md]
           /\ table'[x] = u
<1>1. table \in [Tables -> Seq(Entries)]
  BY DEF HashTableInv, TypeOK
<1>2. \A r \in Readers : Lookup(r) => rd[r].md \in Tables /\ table[rd[r].md] # NoTable
  BY DEF HashTableInv, ReadersInv, ReaderOK, Walks, Lookup
<1> QED
  BY <1>1, <1>2

\* A map without entries
LEMMA EmptyMap ==
    ASSUME NEW T, NEW m, NEW V, NEW W, m # None => Moved(T[m]) = {}
    PROVE  MapOf(T, m, V, W) = [k \in Keys |-> {None}]
<1>1. \A k : HoldingOf(T, m, V, k) = {}
  BY DEF HoldingOf
<1> QED
  BY <1>1 DEF MapOf

\* A flush takes effect where it publishes the empty table.
LEMMA FlushLinear ==
    ASSUME HashTableInv, HashTableInv', Linear, NEW w \in Writers, Flush(w)
    PROVE  Linear' /\ AbstractStep
<1> USE DEF HashTableInv
<1> DEFINE u == NewList(DefaultNeigh)
<1>1. PICK x \in Tables : table[x] = NoTable /\ md' = x /\ table' = [table EXCEPT ![x] = u]
  BY DEF Flush
<1>2. UNCHANGED <<lockless_reads, val>> /\ NoteChange
  BY DEF Flush
<1>3. Moved(u) = {}
  BY EmptyTable, HashTableAssumption
<1> HIDE DEF u
<1>4. /\ \A r \in Readers : Lookup(r) => table'[rd[r].md] = table[rd[r].md]
      /\ table'[md'] = u
  BY <1>1, OtherTables
<1>5. Map' = [k \in Keys |-> {None}]
  BY <1>3, <1>4, MapIs, EmptyMap
<1>6. /\ \A r \in Readers : Stays(r)
      /\ \A r \in Readers : rd'[r].may = IF Lookup(r) THEN rd[r].may \cup Map'[rd[r].key]
                                         ELSE rd[r].may
  <2>1. md' # None
    BY <1>1, HashTableAssumption
  <2>2. Current' \subseteq Vals
    BY <2>1, CurrentNext DEF TypeOK, OwnersInv
  <2> QED
    BY <1>2, <2>2, NoteFacts
<1>7. LookupsInv'
  BY <1>2, <1>4, <1>6, NoteLookups DEF Linear
<1>8. KeysInv'
  BY <1>3, <1>4 DEF KeysInv
<1>9. Abstract!Note(Map')
  BY <1>6, Notes
<1> QED
  BY <1>5, <1>7, <1>8, <1>9, ClearStep DEF Linear

\* ossl_ht_free empties the map; nobody looks.
LEMMA HtFreeLinear ==
    ASSUME HashTableInv, Linear, HtFree
    PROVE  Linear' /\ AbstractStep
<1> USE DEF HashTableInv
<1>1. md' = None /\ rd' = rd /\ \A r \in Readers : rd[r].pc = "out"
  BY DEF HtFree
<1>2. Map' = [k \in Keys |-> {None}]
  BY <1>1, MapIs, EmptyMap
<1>3. \A r \in Readers : ~Lookup(r)
  BY <1>1 DEF Lookup
<1>4. LookupsInv'
  BY <1>1, <1>3 DEF LookupsInv, LookupOK, Lookup
<1>5. KeysInv'
  BY <1>1 DEF KeysInv
<1>6. Abstract!Note(Map')
  BY <1>1, <1>3, StaysSame, Notes
<1> QED
  BY <1>2, <1>4, <1>5, <1>6, ClearStep DEF Linear

\* A new table has no keys.
LEMMA HtNewLinear ==
    ASSUME HashTableInv, Linear, HtNew
    PROVE  Linear' /\ AbstractStep
<1> USE DEF HashTableInv
<1> DEFINE u == NewList(DefaultNeigh)
<1>1. PICK x \in Tables : table[x] = NoTable /\ md' = x /\ table' = [table EXCEPT ![x] = u]
  BY DEF HtNew
<1>2. md = None /\ rd' = rd
  BY DEF HtNew
<1>3. Moved(u) = {}
  BY EmptyTable, HashTableAssumption
<1> HIDE DEF u
<1>4. table'[md'] = u
  BY <1>1, OtherTables
<1>5. Map' = Map
  <2>1. MapOf(table, md, val, wr) = [k \in Keys |-> {None}]
    BY <1>2, EmptyMap
  <2>2. MapOf(table', md', val', wr') = [k \in Keys |-> {None}]
    BY <1>3, <1>4, EmptyMap
  <2> QED
    BY <2>1, <2>2, MapIs
<1>6. \A r \in Readers : ~Lookup(r)
  BY <1>2 DEF ReadersInv, ReaderOK, Lookup
<1>7. LookupsInv'
  BY <1>2, <1>6 DEF LookupsInv, LookupOK, Lookup
<1>8. KeysInv'
  BY <1>3, <1>4 DEF KeysInv
<1>9. Calls' = Calls
  BY <1>2, CallsIs
<1> QED
  BY <1>5, <1>7, <1>8, <1>9, Stutters DEF Linear

\* Growing is not seen.
LEMMA GrowLinear ==
    ASSUME HashTableInv, HashTableInv', Linear, NEW w \in Writers, Grow(w)
    PROVE  Linear' /\ AbstractStep
<1> USE DEF HashTableInv
<1> DEFINE t == table[md]
           n == 2 * Neighborhoods(t)
           u == Rehash(t, n)
<1>1. PICK x \in Tables : table[x] = NoTable /\ md' = x /\ table' = [table EXCEPT ![x] = u]
  BY DEF Grow
<1>2. /\ UNCHANGED <<lockless_reads, val>> /\ NoteChange /\ wr[w].pc = "insert" /\ ~lockless_reads
      /\ wr' = [wr EXCEPT ![w].pc = "retire", ![w].grows = @ + 1,
                          ![w].cb = {[fn |-> "free_old_neigh_table", arg |-> md]}]
  BY DEF Grow, WriterAt
<1>3. md # None
  BY <1>2 DEF WritersInv, WriterOK
<1>4. wr \in [Writers -> Writer] /\ IsTable(t)
  BY <1>3, CurrentTable DEF TypeOK
<1>5. wr'[w].pc = "retire" /\ \A y \in Writers \ {w} : wr'[y] = wr[y]
  BY <1>2, <1>4 DEF Writer
<1>6. \A z : ~DeletingOf(wr, z) /\ ~DeletingOf(wr', z)
  BY <1>2, <1>5, OneHolder DEF DeletingOf, Holds
<1>7. \A y \in Writers : wr'[y].pc # "store"
  BY <1>2, <1>5, OneHolder DEF Holds
<1>8. InPlace(t)
  <2>1. TableOf(lockless_reads, table, md, val, wr) /\ lockless_reads = FALSE
    BY <1>2, TableIs DEF TypeOK
  <2>2. \A s \in Moved(t) : HomeOf(FALSE, t, s, t[s].hash) /\ s \in DOMAIN t
    BY <1>3, <1>6, <2>1 DEF TableOf, Moved
  <2> HIDE DEF t
  <2>3. \A s \in Moved(t) : t[s].hash \in Nat
    BY <1>4, <2>2, TableFacts
  <2> QED
    BY <1>4, <2>2, <2>3, HomeIn DEF InPlace
<1> HIDE DEF t
<1>9. /\ \A s \in Moved(t) : Place(t, n, s) \in Moved(u) /\ u[Place(t, n, s)] = t[s]
      /\ \A z \in Moved(u) : \E s \in Moved(t) : z = Place(t, n, s) /\ u[z] = t[s]
  BY <1>4, <1>8, RehashFacts
<1> HIDE DEF u, n
<1>10. /\ \A r \in Readers : Lookup(r) => table'[rd[r].md] = table[rd[r].md]
       /\ table'[md'] = u /\ md' # None
  BY <1>1, OtherTables, HashTableAssumption
<1>11. KeysInv'
  <2>1. \A y, z \in Moved(t) : val[t[y].value] = val[t[z].value] => y = z
    BY <1>3 DEF Linear, KeysInv, t
  <2>2. \A y, z \in Moved(u) : val[u[y].value] = val[u[z].value] => y = z
    BY <1>9, <2>1
  <2> QED
    BY <1>2, <1>7, <1>10, <2>2 DEF KeysInv
<1>12. Map' = Map
  <2>1. \A j, z : z \in HoldingOf(table, md, val, j) <=> z \in Moved(t) /\ val[t[z].value] = j
    BY <1>3 DEF HoldingOf, t
  <2>2. \A j, z : z \in HoldingOf(table', md', val', j) <=> z \in Moved(u) /\ val[u[z].value] = j
    BY <1>2, <1>10 DEF HoldingOf
  <2>3. ASSUME NEW j \in Keys PROVE Map'[j] = Map[j]
    <3> DEFINE H == HoldingOf(table, md, val, j)
               G == HoldingOf(table', md', val', j)
    <3>1. \A s \in H : Place(t, n, s) \in G /\ u[Place(t, n, s)] = t[s]
      BY <1>9, <2>1, <2>2
    <3>2. \A z \in G : \E s \in H : u[z] = t[s]
      BY <1>9, <2>1, <2>2
    <3>3. \A y : y \in MapOf(table, md, val, wr)[j] <=>
                    (\E s \in H : t[s].value = y) \/ (y = None /\ H = {})
      BY <1>6, InMap DEF t
    <3>4. \A y : y \in MapOf(table', md', val', wr')[j] <=>
                    (\E z \in G : u[z].value = y) \/ (y = None /\ G = {})
      BY <1>6, <1>10, InMap
    <3> HIDE DEF H, G
    <3> DEFINE M == Map'[j]
               N == Map[j]
    <3>5. \A y : y \in M <=> y \in N
      BY <3>1, <3>2, <3>3, <3>4, MapIs
    <3> HIDE DEF M, N
    <3>6. M = N
      BY <3>5
    <3> QED
      BY <3>6 DEF M, N
  <2> QED
    BY <2>3 DEF Map
<1>13. /\ \A r \in Readers : Stays(r)
       /\ \A r \in Readers : rd'[r].may = IF Lookup(r) THEN rd[r].may \cup Map'[rd[r].key]
                                          ELSE rd[r].may
  <2>1. Current' \subseteq Vals
    BY <1>10, CurrentNext DEF TypeOK, OwnersInv
  <2> QED
    BY <1>2, <2>1, NoteFacts
<1>14. LookupsInv'
  BY <1>2, <1>10, <1>13, NoteLookups DEF Linear
<1>15. Calls' = Calls
  <2>1. ASSUME NEW r \in Readers PROVE CallOf(rd'[r]) = CallOf(rd[r])
    <3>1. Lookup(r) => rd'[r].may = rd[r].may
      BY <1>12, <1>13 DEF Linear, LookupsInv, LookupOK
    <3> QED
      BY <1>13, <3>1 DEF CallOf, Stays, Lookup
  <2> QED
    BY <2>1, CallsIs
<1> QED
  BY <1>11, <1>12, <1>14, <1>15, Stutters DEF Linear

----------------------------------------------------------------------------
(* Steps of lookups.                                                       *)

\* A step of one reader leaves the map and the lookups of others alone.
LEMMA ReaderLinear ==
    ASSUME HashTableInv, Linear, NEW r \in Readers, NEW q, rd' = [rd EXCEPT ![r] = q],
           UNCHANGED <<lockless_reads, table, md, val>>,
           \A w \in Writers : /\ wr'[w].pc = wr[w].pc /\ wr'[w].slot = wr[w].slot
                              /\ wr'[w].key = wr[w].key,
           LookupOf(q, lockless_reads, table[q.md], val, Map[q.key])
    PROVE  /\ Linear' /\ Map' = Map /\ rd'[r] = q
           /\ Calls' = [Calls EXCEPT ![r] = CallOf(q)]
<1>1. rd \in [Readers -> Reader]
  BY DEF HashTableInv, TypeOK
<1>2. rd'[r] = q /\ \A y \in Readers \ {r} : rd'[y] = rd[y]
  BY <1>1
<1>3. SameEntries
  BY DEF SameEntries
<1>4. \A s : DeletingOf(wr', s) <=> DeletingOf(wr, s)
  BY DEF DeletingOf
<1>5. Map' = Map /\ KeysInv'
  BY <1>3, <1>4, SameMap, SameKeys DEF Linear
<1>6. ASSUME NEW y \in Readers PROVE LookupOK(y)'
  <2>1. CASE y = r
    BY <1>2, <1>5, <2>1, LookupIs
  <2>2. CASE y # r
    <3>1. LookupOf(rd[y], lockless_reads, table[rd[y].md], val, Map[rd[y].key])
      BY LookupIs DEF Linear, LookupsInv
    <3> QED
      BY <1>2, <1>5, <2>2, <3>1, LookupIs
  <2> QED
    BY <2>1, <2>2
<1>7. Calls' = [Calls EXCEPT ![r] = CallOf(q)]
  BY <1>2, CallsIs
<1> QED
  BY <1>2, <1>5, <1>6, <1>7 DEF Linear, LookupsInv

\* The caller sees nothing.
LEMMA ReaderStutters ==
    ASSUME NEW r \in Readers, Map' = Map, NEW q, CallOf(q) = CallOf(rd[r]),
           Calls' = [Calls EXCEPT ![r] = CallOf(q)]
    PROVE  AbstractStep
<1>1. Calls' = Calls
  BY CallsIs
<1> QED
  BY <1>1, Stutters

\* The caller has done with what it looked up.
LEMMA ReaderForgets ==
    ASSUME NEW r \in Readers, Map' = Map, NEW q, ~Lookup(r),
           CallOf(q) = [key |-> None, may |-> {}, res |-> None],
           Calls' = [Calls EXCEPT ![r] = CallOf(q)]
    PROVE  AbstractStep
<1>1. Calls[r] = CallOf(rd[r]) /\ Calls = [y \in Readers |-> CallOf(rd[y])]
  BY CallsIs
<1>2. PICK x : CallOf(rd[r]) = [key |-> None, may |-> {}, res |-> x]
  BY DEF CallOf, Lookup
<1>3. [Calls EXCEPT ![r].res = None] = [Calls EXCEPT ![r] = CallOf(q)]
  <2> DEFINE c == Calls
  <2>1. c[r] = [key |-> None, may |-> {}, res |-> x] /\ r \in DOMAIN c
    BY <1>1, <1>2
  <2>2. [c[r] EXCEPT !.res = None] = CallOf(q)
    BY <2>1
  <2> HIDE DEF c
  <2>3. [c EXCEPT ![r].res = None] = [c EXCEPT ![r] = [c[r] EXCEPT !.res = None]]
    OBVIOUS
  <2> QED
    BY <2>2, <2>3 DEF c
<1>4. Abstract!Forget(r)
  BY <1>1, <1>2, <1>3 DEF Abstract!Forget
<1> QED
  BY <1>4 DEF AbstractStep, Abstract!Next

\* Entering, leaving and beginning an iteration give up the last answer.
LEMMA ReadLockLinear ==
    ASSUME HashTableInv, Linear, NEW r \in Readers, ReadLock(r) \/ ReadUnlock(r) \/ EachCall(r)
    PROVE  Linear' /\ AbstractStep
<1> USE DEF HashTableInv
<1>1. CASE ReadLock(r)
  <2> DEFINE q == [NoReader EXCEPT !.pc = "in"]
  <2>1. /\ rd[r].pc = "out" /\ rd' = [rd EXCEPT ![r].pc = "in"]
        /\ UNCHANGED <<lockless_reads, table, md, val, wr>>
    BY <1>1 DEF ReadLock
  <2>2. rd[r] = NoReader
    BY <2>1 DEF ReadersInv, ReaderOK
  <2>3. rd' = [rd EXCEPT ![r] = q]
    BY <2>1, <2>2
  <2>4. q.pc = "in" /\ q.key = None /\ ~Lookup(r)
    BY <2>1 DEF NoReader, Lookup
  <2> HIDE DEF q
  <2>5. CallOf(q) = [key |-> None, may |-> {}, res |-> None]
    BY <2>4 DEF CallOf
  <2>6. LookupOf(q, lockless_reads, table[q.md], val, Map[q.key])
    BY <2>4 DEF LookupOf
  <2>7. Linear' /\ Map' = Map /\ Calls' = [Calls EXCEPT ![r] = CallOf(q)]
    BY <2>1, <2>3, <2>6, ReaderLinear
  <2> QED
    BY <2>4, <2>5, <2>7, ReaderForgets
<1>2. CASE ReadUnlock(r)
  <2>1. /\ rd[r].pc = "in" /\ rd' = [rd EXCEPT ![r] = NoReader]
        /\ wr' = [w \in Writers |-> [wr[w] EXCEPT !.waits = @ \ {r}]]
        /\ UNCHANGED <<lockless_reads, table, md, val>>
    BY <1>2 DEF ReadUnlock
  <2>2. wr \in [Writers -> Writer]
    BY DEF TypeOK
  <2>3. \A w \in Writers : /\ wr'[w].pc = wr[w].pc /\ wr'[w].slot = wr[w].slot
                           /\ wr'[w].key = wr[w].key
    BY <2>1, <2>2 DEF Writer
  <2> DEFINE q == NoReader
  <2>4. q.pc = "out" /\ ~Lookup(r)
    BY <2>1 DEF NoReader, Lookup
  <2> HIDE DEF q
  <2>5. CallOf(q) = [key |-> None, may |-> {}, res |-> None]
    BY <2>4 DEF CallOf
  <2>6. LookupOf(q, lockless_reads, table[q.md], val, Map[q.key])
    BY <2>4 DEF LookupOf
  <2>7. rd' = [rd EXCEPT ![r] = q]
    BY <2>1 DEF q
  <2>8. Linear' /\ Map' = Map /\ Calls' = [Calls EXCEPT ![r] = CallOf(q)]
    BY <2>1, <2>3, <2>6, <2>7, ReaderLinear
  <2> QED
    BY <2>4, <2>5, <2>8, ReaderForgets
<1>3. CASE EachCall(r)
  <2> DEFINE K == Kept
             q == [NoReader EXCEPT !.pc = "each", !.md = md, !.at = 1, !.must = K]
  <2>1. /\ rd[r].pc = "in" /\ rd' = [rd EXCEPT ![r] = q]
        /\ UNCHANGED <<lockless_reads, table, md, val, wr>>
    BY <1>3 DEF EachCall
  <2> HIDE DEF K
  <2>2. q.pc = "each" /\ ~Lookup(r)
    BY <2>1 DEF NoReader, Lookup
  <2> HIDE DEF q
  <2>3. CallOf(q) = [key |-> None, may |-> {}, res |-> None]
    BY <2>2 DEF CallOf
  <2>4. LookupOf(q, lockless_reads, table[q.md], val, Map[q.key])
    BY <2>2 DEF LookupOf
  <2>5. Linear' /\ Map' = Map /\ Calls' = [Calls EXCEPT ![r] = CallOf(q)]
    BY <2>1, <2>4, ReaderLinear
  <2> QED
    BY <2>2, <2>3, <2>5, ReaderForgets
<1> QED
  BY <1>1, <1>2, <1>3

\* The steps of an iteration are not seen; it has no answer as a lookup.
LEMMA EachLinear ==
    ASSUME HashTableInv, Linear, NEW r \in Readers, rd[r].pc \in {"each", "visit"}, NEW q,
           q.pc \in {"each", "visit"} \/ (q.pc = "in" /\ q.key = None),
           rd' = [rd EXCEPT ![r] = q], UNCHANGED <<lockless_reads, table, md, val, wr>>
    PROVE  Linear' /\ AbstractStep
<1>1. CallOf(q) = [key |-> None, may |-> {}, res |-> None] /\ ~Lookup(r)
  BY DEF CallOf, Lookup
<1>2. LookupOf(q, lockless_reads, table[q.md], val, Map[q.key])
  BY DEF LookupOf
<1>3. Linear' /\ Map' = Map /\ Calls' = [Calls EXCEPT ![r] = CallOf(q)]
  BY <1>2, ReaderLinear
<1> QED
  BY <1>1, <1>3, ReaderForgets

\* Whether an iteration goes on or is stopped
LEMMA EachMoves ==
    ASSUME NEW r \in Readers, rd[r] \in Reader, NEW got
    PROVE  /\ \/ EachGoesOn(r, got).pc = "each"
              \/ EachGoesOn(r, got).pc = "in" /\ EachGoesOn(r, got).key = None
           /\ EachStops(r, got).pc = "in" /\ EachStops(r, got).key = None
<1> DEFINE a == [rd[r] EXCEPT !.pc = "each"]
           b == [a EXCEPT !.at = rd[r].at + 1]
           c == [b EXCEPT !.ival = None]
           next == [rd[r] EXCEPT !.pc = "each", !.at = rd[r].at + 1, !.ival = None, !.got = got]
           last == [NoReader EXCEPT !.pc = "in", !.got = got, !.must = rd[r].must]
<1>1. a.pc = "each" /\ "pc" \in DOMAIN a
  BY DEF Reader
<1>2. next = [c EXCEPT !.got = got]
  OBVIOUS
<1> HIDE DEF a, next
<1>3. b.pc = "each" /\ "pc" \in DOMAIN b
  BY <1>1
<1> HIDE DEF b
<1>4. c.pc = "each" /\ "pc" \in DOMAIN c
  BY <1>3
<1> HIDE DEF c
<1>5. next.pc = "each"
  BY <1>2, <1>4
<1>6. last.pc = "in" /\ last.key = None
  BY DEF NoReader
<1>7. EachGoesOn(r, got) = next \/ EachGoesOn(r, got) = last
  BY DEF EachGoesOn, next
<1>8. EachStops(r, got).pc = "in" /\ EachStops(r, got).key = None
  BY DEF EachStops, NoReader
<1> HIDE DEF last
<1> QED
  BY <1>5, <1>6, <1>7, <1>8

\* The first load of an entry is not seen.
LEMMA EachTestLinear ==
    ASSUME HashTableInv, Linear, NEW r \in Readers, EachTest(r)
    PROVE  Linear' /\ AbstractStep
<1> DEFINE v == EachEntry(r)
           n == EachGoesOn(r, rd[r].got)
           u == [rd[r] EXCEPT !.pc = "visit", !.ival = v]
           q == IF v = None THEN n ELSE u
<1>1. rd[r] \in Reader
  BY DEF HashTableInv, TypeOK
<1>2. /\ rd[r].pc = "each" /\ rd' = [rd EXCEPT ![r] = q]
      /\ UNCHANGED <<lockless_reads, table, md, val, wr>>
  BY Zenon DEF EachTest
<1> HIDE DEF v
<1>3. u.pc = "visit"
  BY <1>1 DEF Reader
<1>4. n.pc = "each" \/ (n.pc = "in" /\ n.key = None)
  BY <1>1, EachMoves
<1> HIDE DEF n, u
<1>5. q.pc \in {"each", "visit"} \/ (q.pc = "in" /\ q.key = None)
  BY <1>3, <1>4
<1> HIDE DEF q
<1> QED
  BY <1>2, <1>5, EachLinear

\* Neither is the second.
LEMMA EachVisitLinear ==
    ASSUME HashTableInv, Linear, NEW r \in Readers, EachVisit(r)
    PROVE  Linear' /\ AbstractStep
<1> DEFINE G(v) == rd[r].got \cup ({v} \ {None})
<1>1. rd[r] \in Reader
  BY DEF HashTableInv, TypeOK
<1>2. rd[r].pc = "visit" /\ UNCHANGED <<lockless_reads, table, md, val, wr>>
  BY DEF EachVisit
<1>3. PICK v : \/ rd' = [rd EXCEPT ![r] = EachGoesOn(r, G(v))]
               \/ rd' = [rd EXCEPT ![r] = EachStops(r, G(v))]
  BY Zenon DEF EachVisit
<1> HIDE DEF G
<1>4. PICK q : /\ rd' = [rd EXCEPT ![r] = q]
               /\ q = EachGoesOn(r, G(v)) \/ q = EachStops(r, G(v))
  BY <1>3, Zenon
<1>5. q.pc \in {"each", "visit"} \/ (q.pc = "in" /\ q.key = None)
  BY <1>1, <1>4, EachMoves
<1> QED
  BY <1>2, <1>4, <1>5, EachLinear

\* The call of ossl_ht_get: its key is in the table that was dereferenced, or
\* was absent at this moment.
LEMMA GetCallLinear ==
    ASSUME HashTableInv, Linear, NEW r \in Readers, NEW key \in Keys, GetCall(r, key)
    PROVE  Linear' /\ AbstractStep
<1> USE DEF HashTableInv
<1> DEFINE t == table[md]
           A == Map[key]
           q == [NoReader EXCEPT !.pc = "load", !.key = key, !.md = md, !.at = 1, !.may = A]
<1>1. /\ rd[r].pc = "in" /\ rd' = [rd EXCEPT ![r] = q]
      /\ UNCHANGED <<lockless_reads, table, md, val, wr>>
  BY DEF GetCall
<1>2. md # None
  BY <1>1 DEF ReadersInv, ReaderOK
<1>3. IsTable(t) /\ lockless_reads \in BOOLEAN /\ KeyHash[key] \in Nat
  BY <1>2, CurrentTable, HashTableAssumption DEF TypeOK
<1>4. \A s : s \in HoldingOf(table, md, val, key) <=> s \in Moved(t) /\ val[t[s].value] = key
  BY <1>2 DEF HoldingOf
<1>5. \A s \in Moved(t) : val[t[s].value] = key => t[s].value \in A
  BY <1>4, MapIs, InMap
<1>6. ASSUME None \notin A
      PROVE  \E s \in Moved(t) : val[t[s].value] = key /\ ~DeletingOf(wr, s)
  BY <1>4, <1>6, MapIs, InMap
<1> HIDE DEF A
<1>7. q.pc = "load" /\ q.key = key /\ q.md = md /\ q.at = 1 /\ q.may = A
  BY DEF NoReader
<1> HIDE DEF q
<1>8. ASSUME None \notin A PROVE \E i : ComesTo(q, lockless_reads, t, val, i)
  <2> DEFINE P == ProbeOf(lockless_reads, t, KeyHash[key])
  <2>1. PICK s \in Moved(t) : val[t[s].value] = key /\ ~DeletingOf(wr, s)
    BY <1>6, <1>8
  <2>2. t[s].hash = KeyHash[key] /\ HomeOf(lockless_reads, t, s, KeyHash[key])
    BY <1>2, <2>1, TableIs DEF TableOf
  <2>3. PICK i \in DOMAIN P : /\ P[i] = s
                              /\ lockless_reads => \A h \in 1 .. i - 1 : t[P[h]].value # None
    BY <2>2 DEF HomeOf
  <2>4. i \in Nat /\ i >= 1
    BY <1>3, <2>3, ProbeFacts
  <2>5. t[s].value # None
    BY <2>1 DEF Moved
  <2> HIDE DEF P, t
  <2>6. ComesTo(q, lockless_reads, t, val, i)
    BY <1>7, <2>1, <2>2, <2>3, <2>4, <2>5 DEF ComesTo, P
  <2> QED
    BY <2>6
<1> HIDE DEF t
<1>9. LookupOf(q, lockless_reads, t, val, A)
  BY <1>5, <1>7, <1>8 DEF LookupOf
<1>10. Linear' /\ Map' = Map /\ Calls' = [Calls EXCEPT ![r] = CallOf(q)]
  BY <1>1, <1>7, <1>9, ReaderLinear DEF A, t
<1>11. CallOf(q) = [key |-> key, may |-> A, res |-> None]
  BY <1>7 DEF CallOf
<1>12. Calls[r].key = None
  BY <1>1, CallsIs DEF CallOf
<1>13. Abstract!Call(r, key)
  BY <1>10, <1>11, <1>12 DEF Abstract!Call, A
<1> QED
  BY <1>10, <1>13 DEF AbstractStep, Abstract!Next

\* The answer of a lookup is one that is open to it.
LEMMA ReturnsLinear ==
    ASSUME HashTableInv, Linear, NEW r \in Readers, Lookup(r), NEW v \in rd[r].may,
           rd' = [rd EXCEPT ![r] = Returns(r, v)],
           UNCHANGED <<lockless_reads, table, md, val, wr>>
    PROVE  Linear' /\ AbstractStep
<1> DEFINE G == {v} \ {None}
           q == Returns(r, v)
<1>1. rd[r].key \in Keys /\ rd[r].key # None
  BY EntryFacts, HashTableAssumption
<1>2. q.pc = "in" /\ q.key = rd[r].key /\ q.got = G
  BY DEF Returns, NoReader
<1>3. rd' = [rd EXCEPT ![r] = q]
  OBVIOUS
<1> HIDE DEF q
<1>4. LookupOf(q, lockless_reads, table[q.md], val, Map[q.key])
  BY <1>2 DEF LookupOf
<1>5. Linear' /\ Map' = Map /\ Calls' = [Calls EXCEPT ![r] = CallOf(q)]
  BY <1>3, <1>4, ReaderLinear
<1>6. (IF G = {} THEN None ELSE CHOOSE x \in G : TRUE) = v
  <2>1. CASE v = None
    BY <2>1
  <2>2. CASE v # None
    <3>1. G = {v}
      BY <2>2
    <3> HIDE DEF G
    <3>2. (CHOOSE x \in G : TRUE) \in G
      BY <3>1
    <3> QED
      BY <3>1, <3>2
  <2> QED
    BY <2>1, <2>2
<1> HIDE DEF G
<1>7. CallOf(q) = [key |-> None, may |-> {}, res |-> v]
  BY <1>1, <1>2, <1>6 DEF CallOf
<1>8. Calls[r].key # None /\ Calls[r].may = rd[r].may
  BY <1>1, CallsIs DEF CallOf, Lookup
<1>9. Abstract!Return(r)
  BY <1>5, <1>7, <1>8 DEF Abstract!Return
<1> QED
  BY <1>5, <1>9 DEF AbstractStep, Abstract!Next

\* A lookup goes on past an entry that is not the one it comes to.
LEMMA ContinuesLinear ==
    ASSUME HashTableInv, Linear, NEW r \in Readers, Lookup(r),
           rd' = [rd EXCEPT ![r] = Continues(r)],
           UNCHANGED <<lockless_reads, table, md, val, wr>>,
           None \notin rd[r].may => ~ComesTo(rd[r], lockless_reads, table[rd[r].md], val, rd[r].at)
    PROVE  Linear' /\ AbstractStep
<1> DEFINE t == table[rd[r].md]
           p == rd[r]
           P == ProbeOf(lockless_reads, t, KeyHash[p.key])
<1>1. LookupOf(p, lockless_reads, t, val, Map[p.key])
  BY LookupIs DEF Linear, LookupsInv
<1>2. Visits(r) = P
  BY ProbeIs DEF Visits
<1>3. /\ DOMAIN P = 1 .. Len(P) /\ Len(P) \in Nat /\ p.at \in DOMAIN P
  BY <1>2, EntryFacts
<1>4. ASSUME None \notin p.may
      PROVE  \E i \in Nat : ComesTo(p, lockless_reads, t, val, i) /\ i >= p.at + 1
  <2>1. PICK i : ComesTo(p, lockless_reads, t, val, i)
    BY <1>1, <1>4 DEF LookupOf, Lookup
  <2>2. i \in DOMAIN P /\ i >= p.at
    BY <2>1 DEF ComesTo
  <2>3. ~ComesTo(p, lockless_reads, t, val, p.at)
    BY <1>4
  <2> HIDE DEF p, t, P
  <2>4. i \in Nat /\ p.at \in Nat
    BY <1>3, <2>2
  <2>5. i # p.at
    BY <2>1, <2>3
  <2> QED
    BY <2>1, <2>2, <2>4, <2>5
<1>5. CASE p.at = Len(Visits(r))
  <2>1. None \in p.may
    <3> SUFFICES ASSUME None \notin p.may PROVE FALSE
      OBVIOUS
    <3>1. PICK i \in Nat : ComesTo(p, lockless_reads, t, val, i) /\ i >= p.at + 1
      BY <1>4
    <3>2. i \in DOMAIN P
      BY <3>1 DEF ComesTo
    <3> HIDE DEF p, P
    <3> QED
      BY <1>2, <1>3, <1>5, <3>1, <3>2
  <2>2. rd' = [rd EXCEPT ![r] = Returns(r, None)]
    BY <1>5 DEF Continues
  <2> QED
    BY <2>1, <2>2, ReturnsLinear
<1>6. CASE p.at # Len(Visits(r))
  <2> DEFINE q == Continues(r)
  <2>1. /\ q.pc = "load" /\ q.key = p.key /\ q.md = p.md
        /\ q.at = p.at + 1 /\ q.got = p.got /\ q.may = p.may
    BY <1>6, ContinuesIs
  <2>2. rd' = [rd EXCEPT ![r] = q] /\ table[q.md] = t
    BY <2>1
  <2> HIDE DEF q, t, p, P
  <2>3. ASSUME None \notin p.may PROVE \E i : ComesTo(q, lockless_reads, t, val, i)
    <3>1. PICK i \in Nat : ComesTo(p, lockless_reads, t, val, i) /\ i >= p.at + 1
      BY <1>4, <2>3
    <3>2. ComesTo(q, lockless_reads, t, val, i)
      BY <2>1, <3>1 DEF ComesTo
    <3> QED
      BY <3>2
  <2>4. p.pc \in {"load", "hash"}
    BY DEF Lookup, p
  <2>5. LookupOf(q, lockless_reads, t, val, Map[q.key])
    BY <1>1, <2>1, <2>3, <2>4 DEF LookupOf
  <2>6. Linear' /\ Map' = Map /\ Calls' = [Calls EXCEPT ![r] = CallOf(q)]
    BY <2>2, <2>5, ReaderLinear
  <2>7. CallOf(q) = CallOf(p)
    BY <2>1, <2>4 DEF CallOf
  <2> QED
    BY <2>6, <2>7, ReaderStutters DEF p
<1> QED
  BY <1>5, <1>6

\* The load of a value: the entry of the key is not passed over.
LEMMA GetValueLinear ==
    ASSUME HashTableInv, Linear, NEW r \in Readers, GetValue(r)
    PROVE  Linear' /\ AbstractStep
<1> DEFINE v == Entry(r).value
           q == [rd[r] EXCEPT !.pc = "hash", !.ival = v]
           p == rd[r]
           t == table[rd[r].md]
           P == ProbeOf(lockless_reads, t, KeyHash[p.key])
<1>1. p.pc = "load" /\ Lookup(r)
  BY DEF GetValue, Lookup
<1>2. UNCHANGED <<lockless_reads, table, md, val, wr>>
  BY DEF GetValue
<1>3. LookupOf(p, lockless_reads, t, val, Map[p.key])
  BY LookupIs DEF Linear, LookupsInv
<1>4. Visits(r) = P /\ v = t[P[p.at]].value
  <2>1. Visits(r) = P
    BY ProbeIs DEF Visits
  <2>2. Entry(r) = t[Visits(r)[p.at]]
    BY DEF Entry
  <2> HIDE DEF t, p, P
  <2> QED
    BY <2>1, <2>2
<1>5. DOMAIN P = 1 .. Len(P) /\ Len(P) \in Nat /\ p.at \in DOMAIN P /\ P[p.at] \in DOMAIN t
  BY <1>1, <1>4, EntryFacts
<1>6. CASE v # None
  <2>1. rd' = [rd EXCEPT ![r] = q]
    BY <1>6 DEF GetValue
  <2>2. p \in Reader /\ P[p.at] \in Moved(t)
    BY <1>4, <1>5, <1>6 DEF HashTableInv, TypeOK, Moved
  <2> HIDE DEF v
  <2>3. /\ q.pc = "hash" /\ q.key = p.key /\ q.md = p.md
        /\ q.at = p.at /\ q.got = p.got /\ q.ival = v /\ q.may = p.may
    BY <2>2 DEF Reader
  <2>4. table[q.md] = t
    BY <2>3
  <2> HIDE DEF q, p, t
  <2>5. val[v] = p.key => v \in p.may
    BY <1>1, <1>3, <1>4, <2>2 DEF LookupOf
  <2>6. ASSUME None \notin p.may PROVE \E i : ComesTo(q, lockless_reads, t, val, i)
    <3>1. PICK i : ComesTo(p, lockless_reads, t, val, i)
      BY <1>1, <1>3, <2>6 DEF LookupOf
    <3>2. val[t[P[i]].value] = p.key
      BY <3>1 DEF ComesTo
    <3>3. i = q.at => val[v] = p.key
      BY <1>4, <2>3, <3>2
    <3>4. ComesTo(q, lockless_reads, t, val, i)
      BY <2>3, <3>1, <3>3 DEF ComesTo
    <3> QED
      BY <3>4
  <2>7. LookupOf(q, lockless_reads, t, val, Map[q.key])
    BY <1>1, <1>3, <2>3, <2>5, <2>6 DEF LookupOf
  <2>8. Linear' /\ Map' = Map /\ Calls' = [Calls EXCEPT ![r] = CallOf(q)]
    BY <1>2, <2>1, <2>4, <2>7, ReaderLinear
  <2>9. CallOf(q) = CallOf(p)
    BY <1>1, <2>3 DEF CallOf
  <2> QED
    BY <2>8, <2>9, ReaderStutters DEF p
<1>7. CASE v = None
  <2>1. ~ComesTo(p, lockless_reads, t, val, p.at)
    BY <1>4, <1>7 DEF ComesTo
  <2>2. CASE lockless_reads
    <3>1. rd' = [rd EXCEPT ![r] = Returns(r, None)]
      BY <1>7, <2>2 DEF GetValue
    <3>2. None \in p.may
      <4> SUFFICES ASSUME None \notin p.may PROVE FALSE
        OBVIOUS
      <4>1. PICK i : ComesTo(p, lockless_reads, t, val, i)
        BY <1>1, <1>3 DEF LookupOf
      <4>2. i \in DOMAIN P /\ i >= p.at /\ \A h \in 1 .. i - 1 : t[P[h]].value # None
        BY <2>2, <4>1 DEF ComesTo
      <4>3. i # p.at
        BY <2>1, <4>1
      <4>4. p.at \in 1 .. i - 1
        <5> HIDE DEF P, p
        <5>1. i \in Nat /\ p.at \in Nat /\ p.at >= 1
          BY <1>5, <4>2
        <5> QED
          BY <4>2, <4>3, <5>1
      <4> QED
        BY <1>4, <1>7, <4>2, <4>4
    <3> QED
      BY <1>1, <1>2, <3>1, <3>2, ReturnsLinear
  <2>3. CASE ~lockless_reads
    <3>1. rd' = [rd EXCEPT ![r] = Continues(r)]
      BY <1>7, <2>3 DEF GetValue
    <3> QED
      BY <1>1, <1>2, <2>1, <3>1, ContinuesLinear
  <2> QED
    BY <2>2, <2>3
<1> QED
  BY <1>6, <1>7

\* The load of the hash: a match is the key's value at some moment of the call,
\* and where the hash changed meanwhile the key was absent at some moment.
LEMMA GetHashLinear ==
    ASSUME KeysTold, HashTableInv, Linear, NEW r \in Readers, GetHash(r)
    PROVE  Linear' /\ AbstractStep
<1> DEFINE p == rd[r]
           t == table[rd[r].md]
           P == ProbeOf(lockless_reads, t, KeyHash[p.key])
<1>1. p.pc = "hash" /\ Lookup(r)
  BY DEF GetHash, Lookup
<1>2. UNCHANGED <<lockless_reads, table, md, val, wr>>
  BY DEF GetHash
<1>3. LookupOf(p, lockless_reads, t, val, Map[p.key])
  BY LookupIs DEF Linear, LookupsInv
<1>4. Entry(r) = t[P[p.at]]
  BY ProbeIs DEF Visits, Entry
<1>5. p.key \in Keys /\ val[p.ival] \in Keys
  <2>1. p.ival \in Reach(r)
    BY <1>1 DEF Reach
  <2>2. p.ival \in Vals /\ val[p.ival] # None
    BY <2>1 DEF HashTableInv, ReadersInv, ReaderOK
  <2> QED
    BY <1>1, <2>2, EntryFacts DEF HashTableInv, TypeOK
<1>6. CASE Entry(r).hash = KeyHash[p.key] /\ MatchKey(val[p.ival], p.key)
  <2>1. rd' = [rd EXCEPT ![r] = Returns(r, p.ival)]
    BY <1>6 DEF GetHash
  <2>2. val[p.ival] = p.key
    BY <1>5, <1>6 DEF KeysTold
  <2>3. p.ival \in p.may
    BY <1>1, <1>3, <2>2 DEF LookupOf
  <2> QED
    BY <1>1, <1>2, <2>1, <2>3, ReturnsLinear
<1>7. CASE ~(Entry(r).hash = KeyHash[p.key] /\ MatchKey(val[p.ival], p.key))
  <2>1. rd' = [rd EXCEPT ![r] = Continues(r)]
    BY <1>7 DEF GetHash
  <2>2. ~ComesTo(p, lockless_reads, t, val, p.at)
    <3> SUFFICES ASSUME ComesTo(p, lockless_reads, t, val, p.at) PROVE FALSE
      BY Zenon
    <3>1. t[P[p.at]].hash = KeyHash[p.key] /\ val[p.ival] = p.key
      BY <1>1 DEF ComesTo
    <3> QED
      BY <1>4, <1>7, <3>1 DEF MatchKey
  <2> QED
    BY <1>1, <1>2, <2>1, <2>2, ContinuesLinear
<1> QED
  BY <1>6, <1>7

\* Steps outside the hash table are not seen.
LEMMA StutterLinear ==
    ASSUME HashTableInv, Linear, UNCHANGED vars
    PROVE  Linear' /\ AbstractStep
<1>1. SameEntries
  BY DEF SameEntries, vars
<1> QED
  BY <1>1, QuietKeeps DEF vars

\* Before the table is made the map is empty and nobody looks.
LEMMA InitLinear ==
    ASSUME Init PROVE Linear /\ Abstract!Init
<1> DEFINE u == NewList(DefaultNeigh)
<1>1. Moved(u) = {}
  BY EmptyTable, HashTableAssumption
<1>2. table[md] = u
  BY DEF Init
<1> HIDE DEF u
<1>3. KeysInv
  BY <1>1, <1>2 DEF KeysInv
<1>4. \A r \in Readers : rd[r] = NoReader /\ NoReader.pc = "out"
  BY DEF Init, NoReader
<1>5. LookupsInv
  BY <1>4 DEF LookupsInv, LookupOK, Lookup
<1>6. Map = [k \in Keys |-> {None}]
  <2>1. MapOf(table, md, val, wr) = [k \in Keys |-> {None}]
    BY <1>1, <1>2, EmptyMap
  <2> QED
    BY <2>1, MapIs
<1>7. CallOf(NoReader) = [key |-> None, may |-> {}, res |-> None]
  BY DEF CallOf, NoReader
<1>8. Calls = [r \in Readers |-> [key |-> None, may |-> {}, res |-> None]]
  BY <1>4, <1>7, CallsIs
<1> QED
  BY <1>3, <1>5, <1>6, <1>8 DEF Linear, Abstract!Init

\* Every step is a step of ConcurrentMap or not seen.
LEMMA NextLinear ==
    ASSUME KeysTold, HashTableInv, HashTableInv', Linear, [Next]_vars
    PROVE  Linear' /\ AbstractStep
<1>1. ASSUME NEW w \in Writers,
             \/ WriteLock(w) \/ WriteUnlock(w) \/ SyncTake(w) \/ SyncDone(w)
             \/ \E k \in Keys, replace \in BOOLEAN : InsertCall(w, k, replace)
             \/ InsertDuplicate(w) \/ InsertHash(w) \/ InsertValue(w)
             \/ Grow(w) \/ InsertNoSpace(w)
             \/ \E k \in Keys : DeleteHash(w, k)
             \/ DeleteValue(w) \/ Flush(w) \/ Retire(w)
      PROVE  Linear' /\ AbstractStep
  <2>1. CASE WriteLock(w) \/ WriteUnlock(w) \/ SyncTake(w) \/ Retire(w)
    BY <2>1, WriteLockLinear
  <2>2. CASE SyncDone(w)
    BY <2>2, SyncDoneLinear
  <2>3. CASE \E k \in Keys, replace \in BOOLEAN : InsertCall(w, k, replace)
    BY <2>3, InsertCallLinear
  <2>4. CASE InsertDuplicate(w) \/ InsertNoSpace(w)
    BY <2>4, InsertFailsLinear DEF InsertDuplicate, InsertNoSpace, WriterAt
  <2>5. CASE InsertHash(w)
    BY <2>5, InsertHashLinear
  <2>6. CASE InsertValue(w)
    BY <2>6, InsertValueLinear
  <2>7. CASE Grow(w)
    BY <2>7, GrowLinear
  <2>8. CASE \E k \in Keys : DeleteHash(w, k)
    BY <2>8, DeleteHashLinear
  <2>9. CASE DeleteValue(w)
    BY <2>9, DeleteValueLinear
  <2>10. CASE Flush(w)
    BY <2>10, FlushLinear
  <2> QED
    BY <1>1, <2>1, <2>2, <2>3, <2>4, <2>5, <2>6, <2>7, <2>8, <2>9, <2>10
<1>2. CASE HtFree
  BY <1>2, HtFreeLinear
<1>3. CASE HtNew
  BY <1>3, HtNewLinear
<1>4. ASSUME NEW r \in Readers,
             \/ ReadLock(r) \/ ReadUnlock(r)
             \/ \E k \in Keys : GetCall(r, k)
             \/ GetValue(r) \/ GetHash(r)
             \/ EachCall(r) \/ EachTest(r) \/ EachVisit(r)
      PROVE  Linear' /\ AbstractStep
  BY <1>4, ReadLockLinear, GetCallLinear, GetValueLinear, GetHashLinear,
     EachTestLinear, EachVisitLinear
<1>5. CASE UNCHANGED vars
  BY <1>5, StutterLinear
<1> QED
  BY <1>1, <1>2, <1>3, <1>4, <1>5 DEF Next

\* What lookups rest on, where different keys never match (collision_check is
\* set and the keys have one size): a key is in the table once, and a lookup
\* comes to the entry of its key unless the key was absent during the call.
THEOREM LookupsFind == ASSUME KeysTold PROVE Spec => [](KeysInv /\ LookupsInv)
<1>1. Init => Linear
  BY InitLinear
<1>2. HashTableInv /\ HashTableInv' /\ Linear /\ [Next]_vars => Linear'
  BY NextLinear
<1>3. Spec => []Linear
  BY <1>1, <1>2, Inductive, PTL DEF Spec
<1> QED
  BY <1>3 DEF Linear

\* Where different keys never match, the lookups of hashtable.c are
\* linearizable: insertions, replacements, deletions and flushes take effect at
\* the store of one pointer, growing is not seen, and ossl_ht_get answers with
\* what its key had at some moment of the call, with and without lockless_reads,
\* for any number of concurrent readers.
THEOREM Linearizable == ASSUME KeysTold PROVE Spec => ImplementsMap
<1>1. Init => Abstract!Init
  BY InitLinear
<1>2. HashTableInv /\ HashTableInv' /\ Linear /\ [Next]_vars =>
        [Abstract!Next]_(Abstract!vars)
  BY NextLinear DEF AbstractStep
<1>3. Spec => []Linear
  BY LookupsFind DEF Linear
<1> QED
  BY <1>1, <1>2, <1>3, Inductive, PTL DEF Spec, ImplementsMap, Abstract!Spec
=============================================================================
