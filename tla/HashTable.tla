----------------------------- MODULE HashTable -----------------------------
(***************************************************************************)
(* The concurrent hash table of crypto/hashtable/hashtable.c: neighborhoods *)
(* of a few entries each, one writer at a time under the RCU write lock,   *)
(* and lookups that run beside it, under the RCU read lock or, in a table  *)
(* with lockless_reads, under no lock at all.                              *)
(*                                                                         *)
(* An entry is a hash and a pointer to a value, stored and loaded one      *)
(* after the other: every store of a writer and every load of a lookup is  *)
(* a step.  What a writer unlinks is freed by a callback after a           *)
(* synchronization, modelled by what RcuLock proves of it: the callbacks   *)
(* run when every reader that was inside has left.                         *)
(*                                                                         *)
(* The callers keep to the documentation: in a table with lockless_reads   *)
(* nothing is replaced or flushed, and it is freed when nobody reads.      *)
(***************************************************************************)
EXTENDS Integers, Sequences, FiniteSets

CONSTANTS
    Readers, Writers,
    Keys,
    KeyHash,        \* ht_hash_fn: the hash of each key
    KeySize,        \* keysize of each key
    Vals,           \* the addresses of struct ht_internal_value_st
    Tables,         \* the addresses of struct ht_mutable_data_st
    NeighLen,       \* NEIGHBORHOOD_LEN
    DefaultNeigh,   \* DEFAULT_NEIGH_LEN, also the initial size
    MaxNeigh,       \* allocating more neighborhoods than that fails
    collision_check,
    None            \* NULL, "no thread"

ASSUME HashTableAssumption ==
    /\ KeyHash \in [Keys -> Nat] /\ KeySize \in [Keys -> Nat]
    /\ NeighLen \in Nat \ {0} /\ DefaultNeigh \in Nat \ {0}
    /\ None \notin Keys \cup Vals \cup Tables \cup Readers \cup Writers

VARIABLES
    lockless_reads, \* config.lockless_reads
    table,          \* the neighborhoods of each allocated table, else NoTable
    md,             \* h->md
    val,            \* the key of each allocated value, else None
    count,          \* wpd.value_count
    need_sync,      \* wpd.need_sync
    lock,           \* the holder of the write lock
    readers,        \* the readers inside the RCU read lock
    cbs,            \* callbacks registered and not yet taken
    wr,             \* where each writer is
    rd              \* where each reader is

vars == <<lockless_reads, table, md, val, count, need_sync, lock, readers, cbs, wr, rd>>

----------------------------------------------------------------------------
(* Tables.                                                                 *)

Empty == [hash |-> 0, value |-> None]

\* alloc_new_neighborhood_list: the entries of n neighborhoods one after the
\* other, which is also the order in which growing and iterating walk them
NewList(n) == [s \in 1 .. n * NeighLen |-> Empty]

Neighborhoods(t) == Len(t) \div NeighLen

NoTable == <<>>  \* of an address at which no table is allocated

\* The entries that an insertion or a lookup of hash may visit, in order: one
\* neighborhood, or with lockless_reads every one from there around.
Probe(t, hash) ==
    LET first == (hash % Neighborhoods(t)) * NeighLen
    IN  [i \in 1 .. (IF lockless_reads THEN Len(t) ELSE NeighLen) |->
            ((first + i - 1) % Len(t)) + 1]

\* match_key: of the key copied into a value and the key looked for
MatchKey(a, b) == (collision_check /\ KeySize[a] = KeySize[b]) => a = b

\* ossl_ht_insert_locked, ossl_ht_delete: the positions at which key is found.
Hits(t, key) ==
    LET p == Probe(t, KeyHash[key])
    IN  {i \in DOMAIN p : /\ t[p[i]].value # None
                          /\ t[p[i]].hash = KeyHash[key]
                          /\ MatchKey(val[t[p[i]].value], key)
                          /\ lockless_reads => \A h \in 1 .. i : t[p[h]].value # None}

\* The position an insertion would fill: the first free one when nothing is
\* ever deleted, the last free one of the neighborhood otherwise.
Vacant(t, key) ==
    LET p == Probe(t, KeyHash[key])
        free == {i \in DOMAIN p : t[p[i]].value = None}
    IN  {i \in free : \A h \in free : IF lockless_reads THEN i <= h ELSE h <= i}

\* grow_hashtable: the entries in order, each into the first free place of the
\* neighborhood that its hash selects among n, which is as many places in as
\* entries went there before.  The entries of a new neighborhood all come from
\* one old one, so there is always room, and the branch that grows again is
\* never taken.
Moved(t) == {s \in DOMAIN t : t[s].value # None}
Place(t, n, s) ==
    LET row(u) == t[u].hash % n
    IN  row(s) * NeighLen + Cardinality({u \in Moved(t) : u <= s /\ row(u) = row(s)})
Rehash(t, n) ==
    [z \in 1 .. n * NeighLen |->
        IF \E s \in Moved(t) : Place(t, n, s) = z
        THEN t[CHOOSE s \in Moved(t) : Place(t, n, s) = z] ELSE Empty]

\* The values that a table points to.
Values(t) == {t[s].value : s \in DOMAIN t} \ {None}

\* The answers that are right for each key now: its value or None, and both
\* while a deletion has taken the hash away and not yet the value.
Holding(k) ==
    IF md = None THEN {}
    ELSE {s \in Moved(table[md]) : val[table[md][s].value] = k}
Deleting(s) == \E w \in Writers : wr[w].pc = "unlink" /\ wr[w].slot = s
Map ==
    [k \in Keys |->
        IF Holding(k) = {} THEN {None}
        ELSE {table[md][s].value : s \in Holding(k)}
             \cup {None : s \in {x \in Holding(k) : Deleting(x)}}]

\* The values that a key is mapped to for sure
Kept == {v \in Vals : \E k \in Keys : Map[k] = {v}}

----------------------------------------------------------------------------
NoWriter == [pc |-> "idle", key |-> None, new |-> None, replace |-> FALSE,
             slot |-> None, grows |-> 0, cb |-> {}, cbs |-> {}, waits |-> {}]
NoReader == [pc |-> "out", key |-> None, md |-> None, at |-> 0, ival |-> None,
             may |-> {}, must |-> {}, got |-> {}]

Init ==
    /\ lockless_reads \in BOOLEAN
    /\ md \in Tables
    /\ table = [x \in Tables |-> IF x = md THEN NewList(DefaultNeigh) ELSE NoTable]
    /\ val = [v \in Vals |-> None]
    /\ count = 0 /\ need_sync = FALSE /\ lock = None
    /\ readers = {} /\ cbs = {}
    /\ wr = [w \in Writers |-> NoWriter]
    /\ rd = [r \in Readers |-> NoReader]

\* History: every lookup in flight may from now on also answer with what its
\* key maps to now, and an iteration need not visit what was unlinked.
NoteChange ==
    rd' = [r \in Readers |->
            [rd[r] EXCEPT !.may = IF rd[r].pc \in {"load", "hash"}
                                  THEN @ \cup Map'[rd[r].key] ELSE @,
                          !.must = IF rd[r].pc \in {"each", "visit"}
                                   THEN @ \cap Kept' ELSE @]]

----------------------------------------------------------------------------
(* Writers.                                                                *)

WriterAt(w, loc) == wr[w].pc = loc

\* ossl_ht_write_lock
WriteLock(w) ==
    /\ WriterAt(w, "idle")
    /\ lock = None /\ md # None
    /\ lock' = w /\ need_sync' = FALSE
    /\ wr' = [wr EXCEPT ![w].pc = "locked"]
    /\ UNCHANGED <<lockless_reads, table, md, val, count, readers, cbs, rd>>

\* ossl_ht_write_unlock
WriteUnlock(w) ==
    /\ WriterAt(w, "locked")
    /\ lock' = None /\ need_sync' = FALSE
    /\ wr' = [wr EXCEPT ![w] = IF need_sync THEN [NoWriter EXCEPT !.pc = "sync"] ELSE NoWriter]
    /\ UNCHANGED <<lockless_reads, table, md, val, count, readers, cbs, rd>>

\* ossl_synchronize_rcu: takes the callbacks and waits for the readers inside
SyncTake(w) ==
    /\ WriterAt(w, "sync")
    /\ wr' = [wr EXCEPT ![w].pc = "wait", ![w].cbs = cbs, ![w].waits = readers]
    /\ cbs' = {}
    /\ UNCHANGED <<lockless_reads, table, md, val, count, need_sync, lock, readers, rd>>

\* Mutant: growing frees the values of the old table like a flush.
FreedVals_Grow(cb) == IF cb.fn \in {"free_oldmd", "free_old_neigh_table"} THEN Values(table[cb.arg]) ELSE {cb.arg}

\* The values that a callback frees: free_oldmd those that its table held when
\* it was replaced, free_old_ht_value and free_old_entry their argument.
FreedVals(cb) ==
    CASE cb.fn = "free_oldmd" -> Values(table[cb.arg])
      [] cb.fn = "free_old_neigh_table" -> {}
      [] OTHER -> {cb.arg}

FreedTables(cb) == IF cb.fn \in {"free_oldmd", "free_old_neigh_table"} THEN {cb.arg} ELSE {}

SyncDone(w) ==
    /\ WriterAt(w, "wait")
    /\ wr[w].waits = {}
    /\ val' = [v \in Vals |-> IF \E cb \in wr[w].cbs : v \in FreedVals(cb) THEN None ELSE val[v]]
    /\ table' = [t \in Tables |-> IF \E cb \in wr[w].cbs : t \in FreedTables(cb) THEN NoTable ELSE table[t]]
    /\ wr' = [wr EXCEPT ![w] = NoWriter]
    /\ UNCHANGED <<lockless_reads, md, count, need_sync, lock, readers, cbs, rd>>

\* ossl_ht_insert: alloc_new_value
InsertCall(w, key, replace) ==
    /\ WriterAt(w, "locked")
    /\ replace => ~lockless_reads
    /\ \E v \in Vals :
        /\ val[v] = None
        /\ val' = [val EXCEPT ![v] = key]
        /\ wr' = [wr EXCEPT ![w] = [@ EXCEPT !.pc = "insert", !.key = key,
                                             !.new = v, !.replace = replace]]
    /\ UNCHANGED <<lockless_reads, table, md, count, need_sync, lock, readers, cbs, rd>>

\* The call returns 0 or -1: free_value
InsertFails(w) ==
    /\ val' = [val EXCEPT ![wr[w].new] = None]
    /\ wr' = [wr EXCEPT ![w] = [NoWriter EXCEPT !.pc = "locked"]]
    /\ UNCHANGED <<lockless_reads, table, md, count, need_sync, lock, readers, cbs, rd>>

Found(w) == Hits(table[md], wr[w].key)
Room(w) == Vacant(table[md], wr[w].key)
Slot(w, is) == Probe(table[md], KeyHash[wr[w].key])[CHOOSE i \in is : \A h \in is : i <= h]

\* ossl_ht_insert_locked: the key is there and may not be replaced
InsertDuplicate(w) ==
    /\ WriterAt(w, "insert")
    /\ Found(w) # {} /\ ~wr[w].replace
    /\ InsertFails(w)

\* ossl_ht_insert_locked: stores the hash, of the entry to replace or to fill
InsertHash(w) ==
    /\ WriterAt(w, "insert")
    /\ \/ Found(w) # {} /\ wr[w].replace
       \/ Found(w) = {} /\ Room(w) # {}
    /\ LET s == Slot(w, IF Found(w) # {} THEN Found(w) ELSE Room(w))
       IN  /\ table' = [table EXCEPT ![md] = [@ EXCEPT ![s].hash = KeyHash[wr[w].key]]]
           /\ wr' = [wr EXCEPT ![w].pc = "store", ![w].slot = s]
    /\ UNCHANGED <<lockless_reads, md, val, count, need_sync, lock, readers, cbs, rd>>

\* ossl_rcu_assign_ptr of the new value, in a replacement before the old one
\* is given to ossl_rcu_call
InsertValue(w) ==
    LET s == wr[w].slot
        old == table[md][s].value
    IN  /\ WriterAt(w, "store")
        /\ table' = [table EXCEPT ![md] = [@ EXCEPT ![s].value = wr[w].new]]
        /\ count' = IF old = None THEN count + 1 ELSE count
        /\ wr' = [wr EXCEPT ![w] =
                    IF old = None THEN [NoWriter EXCEPT !.pc = "locked"]
                    ELSE [NoWriter EXCEPT !.pc = "retire",
                                          !.cb = {[fn |-> "free_old_ht_value", arg |-> old]}]]
        /\ UNCHANGED <<lockless_reads, md, val, need_sync, lock, readers, cbs>>
        /\ NoteChange

MaxGrows == 4

\* grow_hashtable: a table of twice the size is published
Grow(w) ==
    /\ WriterAt(w, "insert")
    /\ Found(w) = {} /\ Room(w) = {}
    /\ wr[w].grows < MaxGrows /\ ~lockless_reads
    /\ LET n == 2 * Neighborhoods(table[md])
       IN  /\ n <= MaxNeigh
           /\ \E t \in Tables :
                /\ table[t] = NoTable
                /\ table' = [table EXCEPT ![t] = Rehash(table[md], n)]
                /\ md' = t
    /\ wr' = [wr EXCEPT ![w].pc = "retire", ![w].grows = @ + 1,
                        ![w].cb = {[fn |-> "free_old_neigh_table", arg |-> md]}]
    /\ UNCHANGED <<lockless_reads, val, count, need_sync, lock, readers, cbs>>
    /\ NoteChange

\* The neighborhood is full and the table cannot grow (any more)
InsertNoSpace(w) ==
    /\ WriterAt(w, "insert")
    /\ Found(w) = {} /\ Room(w) = {}
    /\ InsertFails(w)

\* ossl_ht_delete: takes the hash away, then the value
DeleteHash(w, key) ==
    /\ WriterAt(w, "locked")
    /\ ~lockless_reads
    /\ LET hit == Hits(table[md], key)
           s == Probe(table[md], KeyHash[key])[CHOOSE i \in hit : \A h \in hit : i <= h]
       IN  /\ hit # {}
           /\ table' = [table EXCEPT ![md] = [@ EXCEPT ![s].hash = 0]]
           /\ wr' = [wr EXCEPT ![w].pc = "unlink", ![w].slot = s]
    /\ UNCHANGED <<lockless_reads, md, val, count, need_sync, lock, readers, cbs>>
    /\ NoteChange

DeleteValue(w) ==
    LET s == wr[w].slot
    IN  /\ WriterAt(w, "unlink")
        /\ table' = [table EXCEPT ![md] = [@ EXCEPT ![s].value = None]]
        /\ count' = count - 1
        /\ wr' = [wr EXCEPT ![w] = [NoWriter EXCEPT !.pc = "retire",
                    !.cb = {[fn |-> "free_old_entry", arg |-> table[md][s].value]}]]
        /\ UNCHANGED <<lockless_reads, md, val, need_sync, lock, readers, cbs>>
        /\ NoteChange

\* ossl_ht_flush_internal
Flush(w) ==
    /\ WriterAt(w, "locked")
    /\ ~lockless_reads
    /\ \E t \in Tables :
        /\ table[t] = NoTable
        /\ table' = [table EXCEPT ![t] = NewList(DefaultNeigh)]
        /\ md' = t
    /\ count' = 0
    /\ wr' = [wr EXCEPT ![w] = [NoWriter EXCEPT !.pc = "retire",
                                                !.cb = {[fn |-> "free_oldmd", arg |-> md]}]]
    /\ UNCHANGED <<lockless_reads, val, need_sync, lock, readers, cbs>>
    /\ NoteChange

\* ossl_rcu_call, and need_sync for the unlock
Retire(w) ==
    /\ WriterAt(w, "retire")
    /\ cbs' = cbs \cup wr[w].cb
    /\ need_sync' = TRUE
    /\ wr' = [wr EXCEPT ![w].pc = IF wr[w].new = None THEN "locked" ELSE "insert",
                        ![w].cb = {}]
    /\ UNCHANGED <<lockless_reads, table, md, val, count, lock, readers, rd>>

\* ossl_ht_free by the owner when nobody else uses the table: flush, the
\* synchronization of the unlock and of ossl_rcu_lock_free, then the table
HtFree ==
    /\ md # None
    /\ \A w \in Writers : WriterAt(w, "idle")
    /\ \A r \in Readers : rd[r].pc = "out"
    /\ val' = [v \in Vals |->
                IF \/ v \in Values(table[md])
                   \/ \E cb \in cbs : v \in FreedVals(cb) THEN None ELSE val[v]]
    /\ table' = [t \in Tables |->
                IF t = md \/ \E cb \in cbs : t \in FreedTables(cb) THEN NoTable ELSE table[t]]
    /\ md' = None /\ cbs' = {} /\ count' = 0
    /\ UNCHANGED <<lockless_reads, need_sync, lock, readers, wr, rd>>

\* ossl_ht_new
HtNew ==
    /\ md = None
    /\ \E t \in Tables : table[t] = NoTable /\ md' = t
                         /\ table' = [table EXCEPT ![t] = NewList(DefaultNeigh)]
    /\ UNCHANGED <<lockless_reads, val, count, need_sync, lock, readers, cbs, wr, rd>>

----------------------------------------------------------------------------
(* Readers.                                                                *)

\* Mutant: the test of the configuration is inverted.
ReadLock_NotRcu(r) ==
    /\ rd[r].pc = "out" /\ md # None
    /\ rd' = [rd EXCEPT ![r].pc = "in"]
    /\ readers' = IF lockless_reads THEN readers \cup {r} ELSE readers
    /\ UNCHANGED <<lockless_reads, table, md, val, count, need_sync, lock, cbs, wr>>

\* ossl_ht_read_lock, which a user of a table with lockless_reads omits
ReadLock(r) ==
    /\ rd[r].pc = "out" /\ md # None
    /\ rd' = [rd EXCEPT ![r].pc = "in"]
    /\ readers' = IF lockless_reads THEN readers ELSE readers \cup {r}
    /\ UNCHANGED <<lockless_reads, table, md, val, count, need_sync, lock, cbs, wr>>

\* ossl_ht_read_unlock: the synchronizations that waited for r go on
ReadUnlock(r) ==
    /\ rd[r].pc = "in"
    /\ rd' = [rd EXCEPT ![r] = NoReader]
    /\ readers' = readers \ {r}
    /\ wr' = [w \in Writers |-> [wr[w] EXCEPT !.waits = @ \ {r}]]
    /\ UNCHANGED <<lockless_reads, table, md, val, count, need_sync, lock, cbs>>

\* ossl_ht_get: the table is dereferenced once
GetCall(r, key) ==
    /\ rd[r].pc = "in"
    /\ rd' = [rd EXCEPT ![r] = [NoReader EXCEPT !.pc = "load", !.key = key, !.md = md,
                                                !.at = 1, !.may = Map[key]]]
    /\ UNCHANGED <<lockless_reads, table, md, val, count, need_sync, lock, readers, cbs, wr>>

Visits(r) == Probe(table[rd[r].md], KeyHash[rd[r].key])
Entry(r) == table[rd[r].md][Visits(r)[rd[r].at]]

\* The call of r returns v.
Returns(r, v) == [NoReader EXCEPT !.pc = "in", !.key = rd[r].key, !.got = {v} \ {None}]

\* The loop goes on to the next entry or ends.
Continues(r) ==
    IF rd[r].at = Len(Visits(r)) THEN Returns(r, None)
    ELSE [rd[r] EXCEPT !.pc = "load", !.at = @ + 1, !.ival = None]

\* The value of the entry is loaded
GetValue(r) ==
    /\ rd[r].pc = "load"
    /\ rd' = [rd EXCEPT ![r] =
                CASE Entry(r).value # None -> [@ EXCEPT !.pc = "hash", !.ival = Entry(r).value]
                  [] Entry(r).value = None /\ lockless_reads -> Returns(r, None)
                  [] OTHER -> Continues(r)]
    /\ UNCHANGED <<lockless_reads, table, md, val, count, need_sync, lock, readers, cbs, wr>>

\* Mutant: the hash that was loaded decides alone.
GetHash_NoKey(r) ==
    /\ rd[r].pc = "hash"
    /\ rd' = [rd EXCEPT ![r] =
                IF Entry(r).hash = KeyHash[rd[r].key] THEN Returns(r, rd[r].ival)
                ELSE Continues(r)]
    /\ UNCHANGED <<lockless_reads, table, md, val, count, need_sync, lock, readers, cbs, wr>>

\* then its hash, which may by now belong to another value
GetHash(r) ==
    /\ rd[r].pc = "hash"
    /\ rd' = [rd EXCEPT ![r] =
                IF Entry(r).hash = KeyHash[rd[r].key] /\ MatchKey(val[rd[r].ival], rd[r].key)
                THEN Returns(r, rd[r].ival)
                ELSE Continues(r)]
    /\ UNCHANGED <<lockless_reads, table, md, val, count, need_sync, lock, readers, cbs, wr>>

\* ossl_ht_foreach_until and ossl_ht_filter: the table is dereferenced once and
\* its values are handed out one after the other
EachCall(r) ==
    /\ rd[r].pc = "in"
    /\ rd' = [rd EXCEPT ![r] = [NoReader EXCEPT !.pc = "each", !.md = md, !.at = 1,
                                                !.must = Kept]]
    /\ UNCHANGED <<lockless_reads, table, md, val, count, need_sync, lock, readers, cbs, wr>>

EachEntry(r) == table[rd[r].md][rd[r].at].value

\* The iteration goes on to the next entry or ends, having handed out got.
EachGoesOn(r, got) ==
    IF rd[r].at < Len(table[rd[r].md])
    THEN [rd[r] EXCEPT !.pc = "each", !.at = rd[r].at + 1, !.ival = None, !.got = got]
    ELSE [NoReader EXCEPT !.pc = "in", !.got = got, !.must = rd[r].must]

\* The callback returned 0, or the list of the filter is full: what was not
\* handed out need not be.
EachStops(r, got) == [NoReader EXCEPT !.pc = "in", !.got = got]

\* The value of the entry is loaded and compared with NULL
EachTest(r) ==
    /\ rd[r].pc = "each"
    /\ rd' = [rd EXCEPT ![r] =
                IF EachEntry(r) = None THEN EachGoesOn(r, rd[r].got)
                ELSE [rd[r] EXCEPT !.pc = "visit", !.ival = EachEntry(r)]]
    /\ UNCHANGED <<lockless_reads, table, md, val, count, need_sync, lock, readers, cbs, wr>>

\* Mutant: the entry is read through the pointer of the table.
EachVisit_Again(r) ==
    LET v == IF rd[r].at <= Len(table[md]) THEN table[md][rd[r].at].value ELSE None
    IN  /\ rd[r].pc = "visit"
        /\ rd' = [rd EXCEPT ![r] = EachGoesOn(r, rd[r].got \cup ({v} \ {None}))]
        /\ UNCHANGED <<lockless_reads, table, md, val, count, need_sync, lock, readers, cbs, wr>>

\* then loaded again for the callback: both loads are plain, and a build may
\* make one of them, as ossl_ht_filter does.  What the second load finds may be
\* another value, or NULL.
EachVisit(r) ==
    /\ rd[r].pc = "visit"
    /\ \E v \in {rd[r].ival, EachEntry(r)} :
        LET got == rd[r].got \cup ({v} \ {None})
        IN  \/ rd' = [rd EXCEPT ![r] = EachGoesOn(r, got)]
            \/ rd' = [rd EXCEPT ![r] = EachStops(r, got)]
    /\ UNCHANGED <<lockless_reads, table, md, val, count, need_sync, lock, readers, cbs, wr>>

----------------------------------------------------------------------------
Next ==
    \/ \E w \in Writers :
        \/ WriteLock(w) \/ WriteUnlock(w) \/ SyncTake(w) \/ SyncDone(w)
        \/ \E k \in Keys, replace \in BOOLEAN : InsertCall(w, k, replace)
        \/ InsertDuplicate(w) \/ InsertHash(w) \/ InsertValue(w)
        \/ Grow(w) \/ InsertNoSpace(w)
        \/ \E k \in Keys : DeleteHash(w, k)
        \/ DeleteValue(w) \/ Flush(w) \/ Retire(w)
    \/ HtFree \/ HtNew
    \/ \E r \in Readers :
        \/ ReadLock(r) \/ ReadUnlock(r)
        \/ \E k \in Keys : GetCall(r, k)
        \/ GetValue(r) \/ GetHash(r)
        \/ EachCall(r) \/ EachTest(r) \/ EachVisit(r)

Spec == Init /\ [][Next]_vars

----------------------------------------------------------------------------
(* Properties.                                                             *)

\* No lookup or iteration ever stands on freed memory: the table it walks, the
\* value it loaded and is about to compare or to hand out, and the values it returned to a
\* caller that is still inside its read section are allocated, whatever the
\* writers delete, replace, flush or grow meanwhile.
NoUseAfterFree ==
    \A r \in Readers :
        /\ rd[r].pc \in {"load", "hash", "each", "visit"} => table[rd[r].md] # NoTable
        /\ rd[r].pc \in {"hash", "visit"} => val[rd[r].ival] # None
        /\ \A v \in rd[r].got : val[v] # None

Retired == cbs \cup UNION {wr[w].cbs \cup wr[w].cb : w \in Writers}

\* Each allocated value has one owner, the table, a callback that will free it
\* or the insertion that made it, and each allocated table is the current one
\* or has one callback: nothing leaks and nothing is freed twice, over growth,
\* replacement, deletion, flush and free.  The element count that
\* ossl_ht_count reports is exact between operations.
OwnedOnce ==
    /\ \A v \in Vals :
        LET entries == IF md = None THEN {} ELSE {s \in DOMAIN table[md] : table[md][s].value = v}
            owners == {<<"entry", s>> : s \in entries}
                      \cup {<<"callback", cb>> : cb \in {c \in Retired : v \in FreedVals(c)}}
                      \cup {<<"insertion", w>> : w \in {x \in Writers : wr[x].new = v}}
        IN  IF val[v] = None THEN owners = {} ELSE Cardinality(owners) = 1
    /\ \A t \in Tables :
        LET owners == {<<"callback", cb>> : cb \in {c \in Retired : t \in FreedTables(c)}}
                      \cup {<<"current", x>> : x \in {md} \cap {t}}
        IN  IF table[t] = NoTable THEN owners = {} ELSE Cardinality(owners) = 1
    /\ md # None => count = Cardinality(Values(table[md]))

\* ossl_ht_get answers with a value of the key it was asked for.
GetOwnKey ==
    \A r \in Readers :
        rd[r].pc = "in" /\ rd[r].key # None => \A v \in rd[r].got : val[v] = rd[r].key

\* An iteration that is not stopped hands out every value that was in the table
\* from its start to its end, also when other values are deleted, replaced or
\* inserted between the two loads of an entry and when the table is grown or
\* flushed while it runs.
EachComplete ==
    \A r \in Readers : rd[r].pc = "in" => rd[r].must \subseteq rd[r].got

\* "ossl_ht_foreach_until() iterates over all elements in the hash table,
\* calling the passed callback function for each": the callback is given an
\* element, although a deletion may come between the test of an entry and the
\* load of what is passed on.
EachGetsElement ==
    \A r \in Readers : rd[r].pc = "visit" => EachEntry(r) # None

AnswerOf(r) == IF rd[r].got = {} THEN None ELSE CHOOSE v \in rd[r].got : TRUE
Lookup(r) == rd[r].pc \in {"load", "hash"}

\* What the callers of ossl_ht_get see of their lookups
Calls ==
    [r \in Readers |->
        [key |-> IF Lookup(r) THEN rd[r].key ELSE None,
         may |-> IF Lookup(r) THEN rd[r].may ELSE {},
         res |-> IF rd[r].pc = "in" /\ rd[r].key # None THEN AnswerOf(r) ELSE None]]

Abstract == INSTANCE ConcurrentMap WITH map <- Map, call <- Calls

\* Lookups are linearizable: every insertion, deletion, replacement and flush
\* takes effect at the store of one pointer, growing has no effect, and a
\* lookup answers with what its key had at some moment of the call, although it
\* reads the value and the hash of an entry at two moments.
ImplementsMap == Abstract!Spec

----------------------------------------------------------------------------
(* What the safety properties rest on.                                     *)

Entries == [hash : Nat, value : Vals \cup {None}]
Callbacks ==
    [fn : {"free_oldmd", "free_old_neigh_table"}, arg : Tables]
    \cup [fn : {"free_old_ht_value", "free_old_entry"}, arg : Vals]

\* Whole neighborhoods, at least one
IsTable(t) ==
    /\ t \in Seq(Entries)
    /\ Neighborhoods(t) \in Nat \ {0} /\ Len(t) = Neighborhoods(t) * NeighLen

Holds == {"locked", "insert", "store", "unlink", "retire"}
Writer == [pc : Holds \cup {"idle", "sync", "wait"}, key : Keys \cup {None},
           new : Vals \cup {None}, replace : BOOLEAN, slot : Nat \cup {None}, grows : Nat,
           cb : SUBSET Callbacks, cbs : SUBSET Callbacks, waits : SUBSET Readers]
Reader == [pc : {"out", "in", "load", "hash", "each", "visit"}, key : Keys \cup {None},
           md : Tables \cup {None}, at : Nat, ival : Vals \cup {None},
           may : SUBSET (Vals \cup {None}), must : SUBSET Vals, got : SUBSET Vals]

TypeOK ==
    /\ lockless_reads \in BOOLEAN /\ need_sync \in BOOLEAN /\ count \in Nat
    /\ md \in Tables \cup {None} /\ table \in [Tables -> Seq(Entries)]
    /\ \A x \in Tables : table[x] # NoTable => IsTable(table[x])
    /\ val \in [Vals -> Keys \cup {None}]
    /\ lock \in Writers \cup {None} /\ readers \subseteq Readers /\ cbs \subseteq Callbacks
    /\ wr \in [Writers -> Writer] /\ rd \in [Readers -> Reader]

\* Slot s of t is where hash belongs: among the entries that are visited for it
\* and, where a lookup stops at a free entry, before the first of them.
Home(t, s, hash) ==
    \E i \in DOMAIN Probe(t, hash) :
        /\ Probe(t, hash)[i] = s
        /\ lockless_reads => \A h \in 1 .. i - 1 : t[Probe(t, hash)[h]].value # None

\* What a writer holds at each place of its code
WriterOK(w) ==
    /\ wr[w].pc \in Holds <=> lock = w
    /\ wr[w].pc # "idle" => md # None
    /\ wr[w].new # None => /\ wr[w].pc \in {"insert", "store", "retire"}
                           /\ wr[w].key \in Keys /\ val[wr[w].new] = wr[w].key
    /\ wr[w].pc \in {"insert", "store"} => wr[w].new # None
    /\ wr[w].pc # "retire" => wr[w].cb = {}
    /\ wr[w].pc # "wait" => wr[w].cbs = {}
    /\ wr[w].pc = "store" =>
        /\ wr[w].slot \in DOMAIN table[md]
        /\ table[md][wr[w].slot].hash = KeyHash[wr[w].key]
        /\ Home(table[md], wr[w].slot, KeyHash[wr[w].key])
    /\ wr[w].pc = "unlink" => wr[w].slot \in Moved(table[md])
    /\ lockless_reads =>
        /\ wr[w].pc \notin {"unlink", "retire"} /\ ~wr[w].replace /\ wr[w].cbs = {}
        /\ wr[w].pc = "store" => table[md][wr[w].slot].value = None
WritersInv == \A w \in Writers : WriterOK(w)

\* The entries of the table are where their hashes belong.
TableInv ==
    /\ lockless_reads => cbs = {}
    /\ md # None =>
        \A s \in Moved(table[md]) : ~Deleting(s) =>
            /\ table[md][s].hash = KeyHash[val[table[md][s].value]]
            /\ Home(table[md], s, table[md][s].hash)

\* No callback is registered twice.
CallbacksInv ==
    \A w \in Writers :
        /\ cbs \cap (wr[w].cbs \cup wr[w].cb) = {}
        /\ wr[w].cbs \cap wr[w].cb = {}
        /\ \A u \in Writers \ {w} : wr[w].cbs \cap (wr[u].cbs \cup wr[u].cb) = {}

Current == IF md = None THEN {} ELSE Values(table[md])

\* OwnedOnce without counting
OwnersInv ==
    /\ md # None => /\ table[md] # NoTable
                    /\ \A s, z \in Moved(table[md]) :
                        table[md][s].value = table[md][z].value => s = z
    /\ \A v \in Vals :
        val[v] # None <=> \/ v \in Current
                          \/ \E c \in Retired : v \in FreedVals(c)
                          \/ \E w \in Writers : wr[w].new = v
    /\ \A v \in Current : /\ \A c \in Retired : v \notin FreedVals(c)
                          /\ \A w \in Writers : wr[w].new # v
    /\ \A c \in Retired : \A v \in FreedVals(c) : \A w \in Writers : wr[w].new # v
    /\ \A c, d \in Retired : FreedVals(c) \cap FreedVals(d) # {} => c = d
    /\ \A x \in Tables :
        table[x] # NoTable <=> x = md \/ \E c \in Retired : x \in FreedTables(c)
    /\ \A c \in Retired : md \notin FreedTables(c)
    /\ \A c, d \in Retired : FreedTables(c) \cap FreedTables(d) # {} => c = d
    /\ count = Cardinality(Current)

\* The values that reader r has or may come to through the table it walks
Walks(r) == rd[r].pc \in {"load", "hash", "each", "visit"}
Reach(r) ==
    (IF Walks(r) THEN Values(table[rd[r].md]) ELSE {})
    \cup (IF rd[r].pc \in {"hash", "visit"} THEN {rd[r].ival} ELSE {}) \cup rd[r].got

\* A synchronization that will free what r may come to waits for r.
ReaderOK(r) ==
    /\ rd[r].pc = "out" => rd[r] = NoReader
    /\ rd[r].pc # "out" => md # None /\ (lockless_reads \/ r \in readers)
    /\ Walks(r) =>
        /\ rd[r].md \in Tables /\ table[rd[r].md] # NoTable
        /\ lockless_reads => rd[r].md = md
        /\ \A w \in Writers : \A c \in wr[w].cbs :
            rd[r].md \in FreedTables(c) => r \in wr[w].waits
    /\ Lookup(r) => rd[r].key \in Keys /\ rd[r].at \in DOMAIN Visits(r)
    /\ Reach(r) \subseteq Vals
    /\ \A v \in Reach(r) :
        /\ val[v] # None
        /\ \A w \in Writers : wr[w].new # v
        /\ \A w \in Writers : \A c \in wr[w].cbs : v \in FreedVals(c) => r \in wr[w].waits
ReadersInv == \A r \in Readers : ReaderOK(r)

\* What an iteration must hand out it has, or is still to come to, or it has
\* loaded it and will find it again.
EachOK(r) ==
    /\ rd[r].pc \in {"each", "visit"} =>
        /\ rd[r].at \in DOMAIN table[rd[r].md]
        /\ \A v \in rd[r].must \ rd[r].got :
            \E s \in DOMAIN table[rd[r].md] :
                /\ s >= rd[r].at /\ table[rd[r].md][s].value = v
                /\ rd[r].pc = "visit" /\ s = rd[r].at => rd[r].ival = v
    /\ rd[r].pc = "in" => rd[r].must \subseteq rd[r].got
EachInv == \A r \in Readers : EachOK(r)

HashTableInv ==
    TypeOK /\ WritersInv /\ TableInv /\ CallbacksInv /\ OwnersInv /\ ReadersInv /\ EachInv

\* Different keys never match: collision_check is set, and their sizes are equal.
KeysTold == \A a, b \in Keys : MatchKey(a, b) => a = b

\* A key is in the table once, and an insertion knows where.
KeysInv ==
    md # None =>
    /\ \A s, z \in Moved(table[md]) :
        val[table[md][s].value] = val[table[md][z].value] => s = z
    /\ \A w \in Writers : wr[w].pc = "store" =>
        \A s \in Moved(table[md]) : s = wr[w].slot <=> val[table[md][s].value] = wr[w].key

\* The entry of the i-th visit of r is that of its key.
Finds(r, i) ==
    LET e == table[rd[r].md][Visits(r)[i]]
    IN  e.value # None /\ e.hash = KeyHash[rd[r].key] /\ val[e.value] = rd[r].key

\* A lookup may answer what it may come to, and it comes to its key unless the
\* key was absent at some moment of the call.
LookupOK(r) ==
    Lookup(r) =>
    /\ Map[rd[r].key] \subseteq rd[r].may
    /\ \A s \in Moved(table[rd[r].md]) :
        LET v == table[rd[r].md][s].value IN val[v] = rd[r].key => v \in rd[r].may
    /\ rd[r].pc = "hash" /\ val[rd[r].ival] = rd[r].key => rd[r].ival \in rd[r].may
    /\ None \notin rd[r].may =>
        \E i \in DOMAIN Visits(r) :
            /\ i >= rd[r].at /\ Finds(r, i)
            /\ lockless_reads =>
                \A h \in 1 .. i - 1 : table[rd[r].md][Visits(r)[h]].value # None
            /\ rd[r].pc = "hash" /\ i = rd[r].at => val[rd[r].ival] = rd[r].key
LookupsInv == \A r \in Readers : LookupOK(r)
=============================================================================
