# TLA+ models of OpenSSL

Models of parts of OpenSSL (the C sources under `src/`) in TLA+, model-checked with TLC on
small instances and, for the read-copy-update lock, the concurrent hash table, QUIC streams,
their state machines, flow control, loss recovery, key update and the threads of a QUIC domain,
proved with TLAPS for every instance.
The models are translated from the code; comments in the modules name the function each
definition stands for, and `PROJECT.json` maps every definition to source lines.

## 1. Inventory

OpenSSL is three things: `libcrypto` (algorithms, encodings, and the runtime they share:
threads, locks, hash tables, providers, error queues, BIOs), `libssl` (TLS, DTLS and a QUIC
stack), and the programs and providers around them. Most of its lines are arithmetic, parsers
and tables, where a model checker has nothing to add to test vectors and fuzzers. What
remains, and carries state that changes under concurrency, loss and reordering, is this.

| Part | State it keeps | Operations | What is hard |
|---|---|---|---|
| RCU lock (`crypto/threads_pthread.c`) | ring of reader counters, ids, queued callbacks, three mutexes and two condition variables | read lock/unlock, write lock/unlock, call, synchronize, free | readers never block, so everything rests on the order of atomic accesses; counters wrap; wakeups |
| Concurrent hash table (`crypto/hashtable`) | neighbourhoods of (hash, value) entries behind an RCU pointer | insert, delete, get, grow, flush | lockless readers during insert and growth |
| Threads and join (`crypto/thread`) | thread states, one condition variable for all joiners | start, join, clean | several joiners, failed join |
| Init, thread-stop, contexts (`crypto/init.c`, `initthread.c`) | run-once flags, handler lists per thread | init, register, stop | order of destruction |
| Provider core (`crypto/provider_core.c`) | activation counts, child callbacks, flags | activate, deactivate, find, load | several locks and a documented lock order |
| DRBG tree (`providers/.../rands/drbg.c`) | reseed counters, parent links | generate, reseed, lock | propagation of reseeds |
| Error queue, session cache, async jobs, BIO pairs | rings, hashes and lists | put/get, add/remove/expire, pause/resume, read/write | limits and ownership |
| TLS and DTLS state machines, record layers | message flow, timers, retransmission queue, epochs | handshake, alerts, retransmit | DTLS loss and reordering |
| QUIC stream buffers (`quic_sstream.c`, `quic_rstream.c`, `quic_sf_list.c`, `ring_buf.h`) | ring buffer, sets of unsent and acknowledged bytes, reassembly list | append, fin, get frame, mark sent/lost/acked; queue, read | overlap, reordering, late acknowledgement, zero-length chunks |
| QUIC integer sets (`uint_set.c`) | sorted list of ranges | insert, remove, query | merging at every boundary, wrap of 64-bit bounds |
| QUIC flow control (`quic_fc.c`) | credit, spent, retired and high-water marks per stream and connection | consume, bump; receive, retire | lost and reordered MAX frames, shared connection window |
| QUIC stream map (`quic_stream_map.c`) | state of both parts of each stream, active/accept/gc lists, flush counter | update state, reset, stop sending, notify..., gc, flush | every caller must keep a cached list current |
| QUIC packetiser, dispatcher (`quic_txp.c`, `quic_fifd.c`, `quic_txpim.c`, `quic_cfq.c`) | wanted frames, records of packets in flight, queue of control frames | generate, commit; on acked/lost/discarded | what has to be sent again, and what knows of it |
| QUIC ACK manager, congestion control | sent and received packet histories, timers, windows | on rx/tx, on ack, timeouts | PTO, three packet number spaces |
| QUIC channel, port, reactor, thread assist | handshake and termination state, timers, connection ids, notifier | tick, close, key update; block, wake | several threads blocked on one connection |

How they interact in QUIC: the application calls `quic_impl.c`, which appends to a stream's
send buffer and asks the stream map to recompute whether the stream is *active*. The
packetiser walks the active streams, takes frames from the send buffers within the credit of
the flow controllers, and records in each packet's TXPIM entry which chunks it carries. The
ACK manager later reports each packet acknowledged or lost to the dispatcher (FIFD), which
marks bytes acknowledged or unsent again, confirms or regenerates other frames, and has the
stream map recompute the stream's state. On the other side the frame handlers
(`quic_rx_depack.c`) charge the flow controllers, queue data in the reassembly list and move
the receive states; reads retire credit, which raises the credit mark, which makes the
packetiser send MAX frames. Everything runs under one mutex per connection: the interleavings
that matter are those of application calls, packets, acknowledgements and timeouts.
The RCU lock is different: true concurrency of threads between atomic accesses. It is used by
the hash table and by configuration modules.

What makes each modelled part correct:

* RCU: an object is freed only after every reader that could have seen it has left; callbacks
  run exactly once; no thread sleeps for a wakeup that has been given; grace periods end.
* Hash table: readers meet only live memory; every value has one owner; lookups answer what
  some order of the operations explains; an iteration misses nothing that stayed.
* Integer set: it is a set.
* Flow control: an obedient peer is never accused, a disobedient one is; credit is neither
  duplicated nor forgotten; the receiver's backlog is bounded; data flows.
* Streams: the reader gets the bytes written, in order and once, then the end; the sender
  keeps a byte until the receiver has it.
* Stream map: something to send implies active; states only move forward and mean what they
  say; the shutdown flush covers everything; freed streams go away.
* Loss recovery: a control frame is with one packet at a time until it is acknowledged; the
  counts of bytes in flight are exact; one window of losses costs one reduction; nothing sent
  stays unsettled for ever.
* Received packets: frames are handled once per packet; acknowledgements are not late; what
  waited for keys is taken up when they come.
* Key update: both ends agree on the generation a packet names; an honest peer is never
  accused; one update does not set off another.
* Threads: a blocked call whose data has come returns; all threads leave the notifier's two
  phases; the assist thread ends and is joined once.

`PROJECT.json` lists all components, modelled or not, and the hazards at their lines.

## 2. Plan

Order of work, most important first. All models of the plan are in place, and all but two are
proved; section 5 says what is left to TLC and why.

1. `RcuLock`, `SafeReclaim`: model, refinement, proofs. *Proved.*
2. `UintSet`: the lists behind packet numbers and byte sets. *Model-checked.*
3. `FlowControl`. *Proved.*
4. `SendStream`, `RecvStream`, `StreamDelivery`, `ByteStream`: model, refinement. *Proved.*
5. `StreamMap`. *Proved.*
6. `HashTable`, `ConcurrentMap`: the concurrent hash table over what `SafeReclaim` promises:
   model, refinement. *Proved.*
7. `LossRecovery`, `NewReno`: ACK manager (sending half), control frame queue, dispatcher and
   congestion controller. *Proved.*
8. `PacketRx`: record layer queues and the receiving half of the ACK manager. *Model-checked.*
9. `KeyUpdate`: key epochs of both ends. *Proved.*
10. `Reactor`, `ThreadJoin`, `QuicThreads`: threads of one domain. *Proved.*

Modules that compose: `StreamDelivery` = `SendStream` + `RecvStream` + network, implementing
`ByteStream`; `RcuLock` implements `SafeReclaim`, whose guarantee `HashTable` uses to implement
`ConcurrentMap`; `LossRecovery` = ACK manager + dispatcher + queue + `NewReno`; `PacketRx` uses
the set of `UintSet`; `QuicThreads` = `Reactor` + `ThreadJoin` + the assist thread.

## 3. The models

### RcuLock (`crypto/threads_pthread.c`)

State: the fields of `CRYPTO_RCU_LOCK` under their own names (`users`, `reader_idx`,
`current_alloc_idx`, `writers_alloced`, `id_ctr`, `next_to_retire`, `cb_items`, the holders
of `write_lock` and `prior_lock`); per thread a location `pc`, its quiescent point `qp`,
`curr_id`, nesting `depth`, its batch of callbacks; and the data the lock protects: a pointer
`ptr`, the allocated objects `heap`, and the references each reader holds.

Actions are the atomic accesses and the regions under a mutex: `ReadAdd`, `ReadCheck`,
`ReadSub` are the three accesses of `get_hold_current_qp` (count in, look again, undo);
`ReadUnlock`; `WriteLock`, `Publish` (assign a fresh object and queue the old one with
`ossl_rcu_call`, or keep it to free after synchronizing), `WriteUnlock`; `Synchronize` with
`TakeCallbacks`, then `UpdateQp` or `AllocWait`, `PriorLock` (wait for one's turn), `Drained`
(the counter read zero; pass the turn, broadcast), `RetireQp` (signal), `RunCallback`,
`SyncReturn`; `LockFree`/`LockFreed`/`LockNew`; `SpuriousWakeup` of `pthread_cond_wait`. Each
acts in one indivisible step on what the code holds a mutex for.
Sequential consistency is assumed: the code uses acquire/release and sequentially consistent
accesses, and weaker orders are not explored.

`SafeReclaim` is the promise: dereference, leave, publish, and *free only what is unpublished
and unreferenced*. `ImplementsSafeReclaim` maps `ptr`, `heap` and `refs` to themselves.

### UintSet (`ssl/quic/uint_set.c`)

`items` follows the list walks of the code: append to the tail, cover everything, absorb
overlapped ranges, fill a gap with merges to either side; removal trims, deletes or splits.
`contents` is the reference set. Bounds are integers modulo `Width`, so that `end + 1` wraps
at the largest value as `uint64_t` does. `fresh` notes whether only absent integers have been
inserted so far, which is how the ACK manager and the send stream use the set.

### FlowControl (`ssl/quic/quic_fc.c` and its callers)

One direction of a connection, both ends. A *target* is a stream or the connection; `tx` and
`rx` hold the controllers of the sender and the receiver. Actions: `TxPacket` (one packet with
new bytes of several streams, planned against the shared credit), `TxEnd` (FIN or
RESET_STREAM), `DeliverStream` and `DeliverReset` (any frame the sender may have sent,
repeated, recut and reordered), `ReadSome` (retires credit and may raise marks), `StopSending`,
`TxMax`, `RxMax`, `MaxAcked`, `MaxLost`, `ChunkLost`. Whether a window doubles depends on
clocks in the code and is a free choice here. Bytes are counted, not named. The lost-packet
handling is that of `on_lost`/`on_regen_notify`: MAX_DATA is remembered by a flag of the
packet, MAX_STREAM_DATA only through a chunk of the same stream (`Duplex` says on which
streams the receiver sends data of its own). `Closings` says how each stream may end.

### SendStream, RecvStream, StreamDelivery, ByteStream

`SendStream` is `QUIC_SSTREAM`: the ring buffer with head and culled tail, `new_set`,
`acked_set`, the final size, and the packets in flight. A chunk's end is computed as the code
computes it, `offset + len - 1` modulo `Width`, so the chunk of an empty stream's FIN ends at
the largest integer. The byte at offset *i* has value *i*; what the ring holds is data, and a
retransmission reads the ring at that time. `RecvStream` is the list of stream frames with its
insertion cases, and the receive states; the code's walks over the list are numbers of frames
passed (`Walk`), so that what they leave of the list is a `SubSeq` of it. `StreamDelivery` joins them over a network that
loses, delays and reorders; a packet may be declared lost although it arrives later or has
arrived. `ByteStream` is the promise to the applications.

### StreamMap (`ssl/quic/quic_stream_map.c` and its callers)

The record `Stream` has the fields of `QUIC_STREAM` that decide anything, the send buffer
reduced to whether bytes are unsent, lost or within credit and to the FIN. Transition operators
carry the names of the code's functions; actions are application calls, frames of the peer,
packets committed (`Tx`, any subset of the frames wanted in the order the packetiser writes
them), acknowledged or lost, and collection. `silent_fin` is the one field the code does not
have: it marks the FIN of a zero-length write that `ossl_quic_stream_map_update_state` has not
seen, so that `ActiveCurrent` can name the only exception it has.

### HashTable, ConcurrentMap (`crypto/hashtable/hashtable.c`)

Tables and values are addresses that are allocated, published, retired and freed; an entry is
a hash and a pointer. Writers take the write lock and then step through the code store by
store: `InsertHash`, `InsertValue`, `DeleteHash`, `DeleteValue`, `Grow` (rehash into a table of
twice the size, publish it), `Flush`, `Retire` (`ossl_rcu_call`), `WriteUnlock`, and when
something was retired `SyncTake` and `SyncDone`. Readers load table, value and hash in separate
steps (`GetCall`, `GetValue`, `GetHash`), or iterate: `ossl_ht_foreach_until` loads an entry once to
test it (`EachTest`) and once more to hand it out (`EachVisit`), where the second load may find
another value or none; both loads are plain, so a build may make one of them, as
`ossl_ht_filter` is written. A callback or a full list may stop an iteration (`EachStops`).
Both kinds of table are explored: with a read lock, and with `lockless_reads`, where probing goes on over the
neighborhoods, deletion and growth are refused by the code and, as its documentation asks,
nothing is replaced or flushed and the table is freed when nobody reads. The lock is what
`SafeReclaim` promises: callbacks run when the readers that were inside have left.
`ConcurrentMap` is the promise: a lookup answers with a value its key had at some time during
the call, or with nothing if the key was absent at some time during it; while a deletion is
under way both answers stand, because the code clears the hash before the value and a lookup
may see either.

### LossRecovery, NewReno (`quic_ackm.c`, `quic_fifd.c`, `quic_cfq.c`, `cc_newreno.c`, parts of `quic_txp.c` and `quic_channel.c`)

One endpoint, client or server, from its first Initial packet on. State: the history of
packets sent in three packet number spaces with what each carries, the counters of bytes in
flight (per space, ack-eliciting, congestion controller), loss times and the deadline, probe
requests, the control frame queue, wanted ACKs, the amplification credit. Actions: a frame is
queued; a tick in its parts (`Send` builds a datagram by archetype, staging each encryption
level, padding Initials, asking the controller); an ACK arrives, is processed space by space
(detect losses by threshold and by time, rearm the timer, tell controller and dispatcher); the
timer fires as loss time or as probe timeout; Initial and Handshake keys are discarded; a Retry
is obeyed. Time is the number of packets sent: a packet is old enough to be lost by time when
`cutoff` has passed it, and a probe timeout may fire whenever it is armed. Every packet is one
unit of bytes. `NewReno` has one operator per method of the controller.

### PacketRx (`quic_record_rx.c`, `quic_ackm.c`, ACK frames of `quic_txp.c`)

Datagrams hold coalesced packets. The record layer moves them from pending to deferred and
back, keeps per datagram which of its packets are done, and hands decrypted packets to the
channel, which asks the ACK manager whether a number was seen and records it. The set of
numbers is the list of `UintSet` (by `INSTANCE`), limited to `MaxRanges` and trimmed by a
watermark. An ACK becomes due by count, by reordering or by deadline; the frame takes
`FrameRanges` ranges; frames are acknowledged (which raises the watermark) or lost. A clock of
delays runs between ticks.

### KeyUpdate (`quic_record_shared.c`, `quic_record_rx.c`, `quic_record_tx.c`, `quic_channel.c`)

Both endpoints run the code. A key is its generation; the receiver has two slots, an epoch, a
secret for the next key and the states NORMAL, UPDATING and COOLDOWN; the sender one slot.
Actions: start an update, send a packet (with an ACK or without), receive (choose a slot by the
Key Phase bit, decrypt, notice an update), handle packets of a batch one after the other (the
channel's reaction to an update runs in between), the end of the updating and of the cooldown
period. The network delays, reorders and loses.

### Reactor, ThreadJoin, QuicThreads (`quic_reactor.c`, `quic_reactor_wait_ctx.c`, `rio/poll_immediate.c`, `quic_thread_assist.c`, `crypto/thread/arch.c`)

Threads in blocking calls, in SSL_poll and in SSL_handle_events share a reactor whose mutex is
`owner`. A tick takes datagrams from the socket and marks streams ready; if other threads are
blocked it signals the notifier and then waits until all of them have left (the two phases of
`rtor_notify_other_threads` and `leave_blocking_section`, with the sleepers on `notifier_cv`
explicit). SSL_poll reads out, enters a section per item, looks again, waits in the system's
poll, leaves the sections. The assist thread sleeps until its deadline or until told to stop;
`ThreadJoin` is the join of its handle by any number of threads, one of which performs it and
may fail. That more than one thread joins the assist thread is beyond what libssl does; the
join is written for it.

## 4. Runs

Passing runs:

| Run | Instance | Distinct states | Shows |
|---|---|---|---|
| `rcu` | 3 threads, two of which read, 2 objects, 3 quiescent points, ids mod 3, nesting 2 | 230,034 | no use after free, no lost wakeup, `IndInv`, the refinement, `GracePeriodsEnd` |
| `uint_set` | 8 integers | 1,852 | `QueryExact` |
| `flow_control` | 2 streams, windows of 1-2 bytes, 2 bytes per stream, one of them duplex and ended in every way, 1 packet with MAX per target | 958,528 | an obedient peer is never accused, bytes are charged once, credit agrees and is not forgotten |
| `stream_delivery` | 3 bytes, ring of 2, 2 packets in flight and 1 late | 39,518 | bytes, buffer, states, `ImplementsByteStream`, `FinishedStreamCompletes` |
| `stream_map` | 1 stream of each kind, 2 writes, 2 packets in flight, all operations | 347,214 | active list, flush, meaning and order of states |
| `hash_table` | 1 reader, 2 writers, 2 colliding keys, 2 values, 3 tables of 2 or 4 neighborhoods, both modes | 472,652 | no use after free, one owner per value, complete iterations, `ImplementsMap` |
| `loss_recovery` | client and server, 3 packets, 3 packets or ACKs lost, 1 control frame, 1 packet received, 1 Retry | 188,115 | exact items and counters, one reduction per window, `FramesSettled` |
| `packet_rx` | 4 datagrams with 5 packets in 2 spaces, 6 deliveries, 2 copies each, also before the first is handled, 2 ranges | 2,761,249 | no copy that is decrypted after the first was handled is passed on, acknowledged in time, nothing deferred is forgotten |
| `key_update` | 7 packets, 2 updates started by each end | 3,612,076 | epochs exact, keys meet, no false alarm, no update without end |
| `quic_threads` | 2 readers, a poller, a handler, the assist thread, 3 joiners, in three mixes | 40,960 | notifier, waiters, single join, `BlockedReturn`, `TeardownCompletes` |

Two runs expect a violation: `quic_threads_poll` and `key_update_first` (section 6).

Why the bounds are enough to be interesting. *rcu*: three quiescent points allow two
synchronizers in flight while a third thread reads or waits for a point to spare; ids wrap
after three, so the wrapped comparison is exercised all the time; two objects suffice for
every reference to be to a published or to a replaced object. Larger instances are covered by
the proofs. *uint_set*: with eight integers a list has up to four ranges, so an insertion can
absorb several, touch both neighbours, and meet both ends of the number line. *flow_control*:
windows smaller than the data, so senders block, marks rise several times, MAX frames
overtake each other, and the two streams compete for one connection window.
*stream_delivery*: the ring is smaller than the data, so its cells are
reused; chunks overlap differently on retransmission; a late packet is under way besides two in
flight. *stream_map*: streams do not interact in the code except through the flush counter and
the order of transmission, so one stream suffices; the flush is stated over all. *hash_table*:
both keys share a neighborhood of one entry until the table grows, one has the hash of an empty
entry, and the addresses of freed values and tables are reused at once. *loss_recovery*: with a
packet threshold of 2, three packets are enough for a loss by threshold, one by time and a
probe, around the discarding of the Initial space and with a window of two packets.
*packet_rx*: one datagram is half decryptable before the keys come; numbers leave a gap, so
two ranges and a trimmed one occur. *key_update*: two updates of each end take every slot
through both phases and make the phase bit ambiguous; it takes seven packets to start and
answer the second one. *quic_threads*: the mixes are those in
which threads wait for each other: reader with poller and SSL_free, two readers with a thread
that ticks, three joiners; one datagram is enough to make one of them ready through another.

Deadlock is checked for `rcu`, `uint_set` and `hash_table`. The other models stop when their
bounds are used up (everything written, sent, read or joined), which is why their
configurations switch it off.

Fairness, and why the code justifies it:

* `rcu`: a thread inside the lock's code is scheduled (weak fairness); read sections end, which
  is the documented contract (strong fairness of the outermost unlock, since nested sections
  could otherwise be entered and left for ever). Nothing is assumed about which thread gets a
  mutex or whether wakeups are spurious, so the property is that *some* synchronizer completes.
* `stream_delivery`: the engine's tick runs the packetiser whenever a stream is active
  (weak fairness); every packet is acknowledged or declared lost, since the ACK manager has a
  probe timeout (weak fairness); the oldest byte the sender still holds, or its FIN, arrives if
  it is sent again and again, and is acknowledged in time if it arrives again and again (strong
  fairness, the assumption of any retransmission protocol); the application reads. Nothing is
  assumed about the other packets.
* `loss_recovery`: a tick that has something to send runs, an armed timer fires, and the peer
  answers what has reached it (weak fairness of these together). The network loses a bounded
  number of packets. That a timer *is* armed whenever it must be is what the property is about.
* `quic_threads`: a thread in the library goes on, and one that wants the mutex gets it in the
  end (strong fairness per thread, since other threads come and go); the system's join of a
  finished thread returns (weak fairness). No timer has to fire, no datagram to arrive, no
  application to make a call.

### Further configurations

More questions can be asked of the modules than the runs ask. These configurations are kept
for them; `tlc -config <file> <module>` repeats each.

| Configuration | Module | Outcome |
|---|---|---|
| `FlowControlShared.cfg` | `MCFlowControl` | `BacklogBounded` and `DataFlows` hold for two streams that share a connection window (884 states) |
| `StreamMapLive.cfg` | `StreamMap` | `ConcludeTransmits` and `FlushCompletes` hold (5,900 states) |
| `FlowControlErrant.cfg` | `MCFlowControl` | `ErrantPeerStopped` is violated |
| `FlowControlStall.cfg` | `MCFlowControl` | `DataFlows` is violated |
| `StreamMapEmptyFin.cfg` | `StreamMap` | `ConcludeTransmits` is violated |
| `StreamMapFreed.cfg` | `StreamMap` | `FreedCollected` is violated |
| `RcuLockTurns.cfg` | `MCRcuLock` | `NoLostWakeup` and `GracePeriodsEnd` hold with 4 quiescent points, where two threads wait for their turn at once (476,064 states) |
| `HashTableSizes.cfg` | `MCHashTable` | `GetOwnKey` is violated |
| `HashTableEach.cfg` | `MCHashTable` | `EachGetsElement` is violated |
| `LossRecoveryProbe.cfg` | `LossRecovery` | `WindowRespected` is violated |
| `PacketRxDup.cfg` | `MCPacketRx` | `ProcessedOnce` is violated |
| `PacketRxRanges.cfg` | `MCPacketRx` | `FrameCoversAll` is violated |
| `KeyUpdateEarly.cfg` | `KeyUpdate` | `NoFalseAlarm` is violated |
| `StreamDeliveryRing.cfg` | `StreamDelivery` | the invariants and the refinement of `stream_delivery` hold with 2 late packets (605,342 states) |

Section 6 says what the violations mean.

## 5. Proofs

`RcuLockProofs` proves, for any finite set of threads (`Readers`, those that read, any part
of it), any set of objects, at least two
quiescent points, an id modulus not below their number (2^32 in the code, the number of
points being an `int` argument) and any nesting bound (`ConstAssumption`, the only
assumption):

| Theorem | Statement |
|---|---|
| `Inductive` | `Spec => []IndInv` |
| `TypeCorrect` | `Spec => []TypeOK` |
| `ReadersSafe` | `Spec => []NoUseAfterFree` |
| `CallbacksOnce` | `Spec => []FreedOnce` |
| `CountersExact` | `Spec => []UsersExact` |
| `SeparateQps` | `Spec => []OwnQp` |
| `FreeIsClean` | `Spec => []CleanTeardown` |
| `WakeupsKept` | `Spec => []NoLostWakeup` |
| `Refinement` | `Spec => ImplementsSafeReclaim` |

The argument. `NoUseAfterFree` is not inductive: one must know *where in the ring* a reader of
a doomed object can be. Count ids backwards from `id_ctr`: the *age* of a synchronizer is the
number of ids handed out since its own. `CountInv` says that the counters equal the numbers of
threads at the corresponding locations, in particular that the ids between `next_to_retire` and
`id_ctr` are exactly those of the waiting synchronizers, fewer than there are quiescent points,
so ages are distinct although ids wrap. `RingInv` says that a synchronizer of age *k* drains
the point *k* places behind `reader_idx`, hence different synchronizers drain different points
and none drains the current one. `ReaderInv` says that a reader past its second look sits in
the current point or in one that is being drained; this is what the recheck of
`get_hold_current_qp` buys. `HoldInv` is the heart: if a reader refers to an object that
synchronizer *w* will free, then the reader's point is being drained by a synchronizer at least
as old as *w*, and *w* has not passed its wait. Since synchronizers retire in order of age, when
*w*'s turn comes the only candidate is *w* itself, and when *w* sees zero users there is no
such reader (`DrainedEmpty`, from `UsersExact`). `LifeInv` and `HeapInv` add the life cycle of
the lock and that no object is forgotten; they are what `CleanTeardown` needs.
`NoLostWakeup` is proved with its own step argument from `IndInv`. Its second half, that nobody
sleeps when it is its turn to retire, is where the broadcast of `ossl_synchronize_rcu` counts:
with a signal in its place the run `rcu`, where at most one thread waits for its turn, would
still pass, and `RcuLockTurns` and the proof, for any number of them, would not. The refinement follows from
`DataSteps` (which actions touch `ptr`, `heap`, `refs`, and how) and `FreeSafe` (a callback that
runs frees an unpublished, unreferenced object).

`TypeOK`, `FreedOnce`, `UsersExact`, `OwnQp` and `CleanTeardown` are parts or consequences of
`IndInv`, so the run checks only that.

### FlowControlProofs

For any finite set of streams, any windows and any bounds (`FlowControlAssumption`):

| Theorem | Statement |
|---|---|
| `Inductive` | `Spec => []FlowInv` |
| `TypeCorrect` | `Spec => []TypeOK` |
| `SenderNotAccused` | `Spec => []HonestPeer` |
| `SumsExact` | `Spec => []BytesCountedOnce` |
| `CreditSafe` | `Spec => []CreditAgreed` |
| `GrantKept` | `Spec => []GrantNotForgotten` |
| `MemoryBounded` | `Spec => []BacklogBounded` |
| `NoMarkDecreases` | `Spec => MarksMonotone`, that is `[][MarksGrow]_vars` |

The argument. That the sender is not accused is a matter of the order of marks: what has been
received of a stream is at most what was sent, that is at most the sender's credit, which is at
most the receiver's. Credit stays below the receiver's because `FlowInv` adds that no MAX frame
on the wire or remembered in a packet names more than the receiver granted, and that one that
has left the wire otherwise than by loss has been heard. For the connection the same holds of
the sums, and the sums are what is delicate: `Total` counts the pairs of a stream and a byte
below its mark, and the lemmas `TotalAdd` and `TotalGrow` say that raising one stream's mark by
*n* raises the sum by exactly *n*, whichever frame, old or new, whole or overlapping, raised it.

### HashTableProofs

For any readers and writers, any keys with any hashes and sizes, any addresses, neighborhoods
and tables of any size, in both modes (`HashTableAssumption`):

| Theorem | Statement |
|---|---|
| `Inductive` | `Spec => []HashTableInv` |
| `TypeCorrect` | `Spec => []TypeOK` |
| `ReadersSafe` | `Spec => []NoUseAfterFree` |
| `OneOwner` | `Spec => []OwnedOnce` |
| `IterationsComplete` | `Spec => []EachComplete` |
| `LookupsFind` | if `KeysTold`, `Spec => [](KeysInv /\ LookupsInv)` |
| `Linearizable` | if `KeysTold`, `Spec => ImplementsMap` |

`KeysTold` says that `match_key` tells different keys apart: `collision_check` is set and the
keys are of one size. It is needed, and more than different hashes: a lookup loads the value of
an entry before its hash, so the hash it compares may belong to another value than the one it
compares keys with. Without it `GetOwnKey` fails (`HashTableSizes`); the safety theorems do not
use it.

The argument for safety. `WritersInv` has one holder of the lock and says what it holds at each
place of its code. `TableInv` says that every entry, but for one that is being deleted, has the
hash of its key and is where that hash belongs (`Home`): in its neighborhood or, where lookups
stop at a free entry, before the first free one. For `Grow` this is a counting argument: as the
number of neighborhoods doubles, entries that meet in a new neighborhood come from one old one
(`HalfMod`), so they find room (`BeforeFits`), no two get one place (`PlaceFacts`), and
`Rehash` moves every entry. `OwnersInv` is `OwnedOnce` without the counting: values and tables
are owned by the table, by a callback or by an insertion, never by two. `ReadersInv` is the
heart: whatever a reader has or may come to through the table it walks (`Reach`) is allocated
and belongs to no insertion, and a synchronization whose callbacks will free it waits for that
reader. Taking the callbacks establishes it, because every reader inside is waited for; a
reader that enters later dereferences the current table, which no callback frees. `EachInv` has
every value an iteration must hand out behind it, handed out, or still ahead of it in the table
it walks, and of the entry between whose two loads it stands says that both find it: growing and flushing replace the table and leave the old one as it was.

The argument for the refinement. `KeysInv` adds that a key is in the table once and that an
insertion between its two stores knows where; `LookupsInv` that what a lookup may come to it may
answer, and that it comes to the entry of its key unless the key was absent at some moment of
the call. The second is what a lookup of two loads makes delicate: the entry at which it stands
may be deleted, replaced or filled again between them. Then the step that maps to `Put` or
`DeleteBegins` made absence, or the new value, an answer of that lookup. The stores of
`InsertValue` and `DeleteValue` map to `Put`, `DeleteHash` to `DeleteBegins`, `Flush` and
`HtFree` to `Clear`, `GetCall` to `Call`, the returns in `GetValue` and `GetHash` to `Return`,
entering, leaving and iterating to `Forget` or nothing; locking, allocation, `InsertHash`,
`Grow`, synchronization and callbacks are not seen (`NextLinear`).

The run `hash_table` checks the consequences; `HashTableInv`, `KeysInv` and `LookupsInv` were
model-checked on the same instance before they were proved, the first also with keys of two
sizes.

### StreamDeliveryProofs

For a ring buffer of any size, any number of bytes, any width of offsets above the largest
one, and any number of packets in flight or late (`SendStreamAssumption`):

| Theorem | Statement |
|---|---|
| `Inductive` | `Spec => []DeliveryInv` |
| `Partitioned` | `Spec => []BytesPartitioned` |
| `RingIntact` | `Spec => []BufferIntact` |
| `ListStaysSorted` | `Spec => []ListSorted` |
| `ForgetsReceived` | `Spec => []ForgottenIsReceived` |
| `StatesExact` | `Spec => []RecvStatesExact` |
| `AssertionHolds` | `Spec => []FinalSizeConsistent` |
| `Implements` | `Spec => ImplementsByteStream` |

The argument goes along the way of a byte. At the sender `SendInv` has it in one place (`Placed`:
unsent, acknowledged, or in exactly one packet in flight), in its cell of the ring as long as it
is not culled; two offsets less than a ring apart have different cells (`RingPlaces`), and
`Room` keeps head and culled tail that close. So a packet, first or repeated, carries the bytes
written at its offsets (`PacketsIntact`), and so does every frame the receiver keeps
(`FramesIntact`). The hardest lemma is about `ossl_sframe_list_insert` (`InsertKeeps`): for any
sorted list and any frame, whatever they overlap, the list stays sorted by start and by end, its
frames are old ones or the new one, and it has every byte it had and those of the frame that
were not read. `ReadKeeps` says the same of dropping what was
read. A sorted list is contiguous from the reader's offset up to `Readable`, whence what is read
are the bytes written next (`ReadIntact`): the read step of `ByteStream`. The receive states
follow from `GapKnown`: SIZE_KNOWN has a gap and DATA_RECVD has none; a list without a gap
has every byte up to its end and one with a gap misses some (`NoGapComplete`, `GapMisses`). `AcksTruthful` says that
a packet that is no longer under way was received (`Arrived`), and so that an acknowledgement
tells the truth although the packet may have been declared lost, sent again, and cut anew in
between; this is what `ForgottenIsReceived` needs.

### StreamMapProofs

For any streams of any kinds, any numbers of packets in flight and of writes, and any choice of
the application's operations (`StreamMapAssumption`):

| Theorem | Statement |
|---|---|
| `Inductive` | `Spec => []MapInv` |
| `TypeCorrect` | `Spec => []TypeOK` |
| `Active` | `Spec => []ActiveCurrent` |
| `ResetAsserted` | `Spec => []ResetOnlyInResetSent` |
| `DeletedAsserted` | `Spec => []DeletedIsFinished` |
| `AckedAll` | `Spec => []DataRecvdIsAcked` |
| `Flushed` | `Spec => []FlushCoversAll` |
| `Forwards` | `Spec => StatesForward` |

The argument. A handler changes a few fields of a stream and then, mostly, has
`ossl_quic_stream_map_update_state` look at it. So the invariant of a stream has two parts:
`Sane`, which holds also between a change and the update, and `Listed` (to be active means to be
on the list), which the update establishes (`UpdateSane`) whatever was changed before. The
handlers that do not update must not change what `Listed` looks at: the proofs of `ReadFin`,
`ReadReset`, `RxStream` and of the FIN of `Write` show that they do not, and the zero-length
write is the one that does (`silent_fin`). `Sane` is not about one field either. The properties
need to know that a RESET_STREAM in a packet *in flight* belongs to a reset stream
(`ResetKnown`): otherwise its loss could want a reset again on a stream that sends data. They
also need that no step makes unacknowledged what was acknowledged: a packet carries only what was unsent
or lost, and what is declared lost was in flight. That is the hypothesis on `TotallyAcked` in `SaneLater`, the lemma by
which most steps go; from it follow `AckedKnown` and that the marks of the shutdown flush, set
once by `qc_shutdown_flush_init`, stay sufficient (`FlushKnown`). The order of the states is
kept by each transition and composed by `ForwardTwice`.

The run `stream_map` checks the consequences; `MapInv` itself was model-checked on the same
instance before it was proved.

### LossRecoveryProofs

For any frames, any numbers of packets, losses, probes and Retry packets, any packet threshold
and any windows with a minimum of at least one datagram (`NewRenoAssumption`, the only
assumption on constants that is used):

| Theorem | Statement |
|---|---|
| `Inductive` | `Spec => []LossInv` |
| `TypeCorrect` | `Spec => []TypeOK` |
| `FramesExact` | `Spec => []ItemsExact` |
| `CountersExact` | `Spec => []InFlightExact` |
| `OneCutPerWindow` | `Spec => ReducedOncePerWindow` |

The argument. The counters are sums over the history, so every step that adds or removes
packets must be shown to count each of them once (`Counted`, `Uncounted`). For that packets must
be told apart: a new packet has the next number of its space and a time later than all others
(`PacketsDistinct`), which for a datagram of up to three coalesced packets rests on their
distinct places among the committed spaces (`Places`). `ItemsExact` only counts packets per
frame; what is inductive is `FramesHeld`: the packet that holds a frame is of the frame's space.
Without the spaces, discarding one space, which releases every frame queued for it, could
release a frame that a packet of another space still holds. The controller takes one call per
acknowledged packet, so a batch is a recursive function of the number of packets told so far
(`AckedUpTo`); that it takes exactly the batch out of flight (`AckedBatch`) is an induction over
that number, written out as the least number at which it could fail (`LeastNat`), as is the
existence of the function itself. It also needs that times tell packets apart, or two packets
would be acknowledged as one (`AckedCounts`). For `OneCutPerWindow`, acknowledgements leave the
threshold alone, and a batch of losses cuts it only if its latest packet is later than the
recovery period, and that packet leaves the history in the same step (`LostBatch`,
`LostReduces`).

The run `loss_recovery` checks the consequences; `LossInv` itself was model-checked on the same
instance before it was proved.

### KeyUpdateProofs

For any numbers of packets and updates, under the hypothesis `Settled`: both handshakes are
confirmed and a 1-RTT packet of each end has been acknowledged. Both parts are needed: without
the first `NoFalseAlarm` fails (`KeyUpdateEarly`), without the second `UpdateAwaitsAck`
(`key_update_first`).

| Theorem | Statement |
|---|---|
| `Inductive` | `Settled /\ Spec => []KeyInv` |
| `TypeCorrect` | `Settled /\ Spec => []TypeOK` |
| `EpochsNamed` | `Settled /\ Spec => []EpochExact` |
| `AnswersEnd` | `Settled /\ Spec => []NoPingPong` |
| `KeysAgree` | `Settled /\ Spec => []KeysMeet` |
| `HonestPeersAgree` | `Settled /\ Spec => []NoFalseAlarm` |
| `UpdatesWait` | `Settled /\ Spec => []UpdateAwaitsAck` |

The argument. Two ends are never more than one generation apart, because an end moves on only
when its peer's acknowledgement of the current generation is there. `Slots` says which
generation each slot holds in each state, `Epochs` how the two ends' epochs and the answers owed
relate, `PacketsInv` which generations a packet under way can have, by its number, and `AcksInv`
what an acknowledgement under way proves about its sender. With these the Key Phase bit, which
tells only even from odd, names one generation of the two that can be on their way.

### QuicThreadsProofs

For any numbers of readers, pollers, handlers and joiners, any streams and datagrams, under the
hypothesis `OneItem`: an SSL_poll call names one object. With several the aborted wait of
section 6 leaves sections entered and the theorems would be false.

| Theorem | Statement |
|---|---|
| `Inductive` | `OneItem /\ Spec => []ThreadsInv` |
| `TypeCorrect` | `OneItem /\ Spec => []TypeOK` |
| `WaitersCounted` | `OneItem /\ Spec => []WaitersExact` |
| `NotifierCleared` | `OneItem /\ Spec => []NotifierWillClear` |
| `OneJoin` | `OneItem /\ Spec => []JoinedOnce` |

The argument. `SectionsExact` ties a thread's place in the code to the sections it has entered,
so the counter is the number of threads at certain places, and a step changes it by what it
changes of that set. A signalled notifier has a thread inside a section, and the last one to
leave clears it. For the join, `JoinsInv` has at most one
joiner between taking the flag and handing it back.

### Only model-checked

Liveness everywhere (`GracePeriodsEnd`, `FinishedStreamCompletes`, `FramesSettled`,
`BlockedReturn`, `TeardownCompletes`): outside the prover's reach. `UintSet`: what the list
walks compute needs induction over lists. `PacketRx` moves packets between queues of datagrams
and asks for positions in them; its invariants relate what several passes over these lists
leave behind, and rest on the set of `UintSet`, so they meet the same limit. The violations of
section 6 are single runs and stay with TLC.

## 6. Where the code and its documents disagree

Shown by the run `quic_threads_poll`: when SSL_poll, on its way to wait, finds at its second
look that an item has become ready after all, it gives the wait up by an early return
(`poll_immediate.c:235`). That item's section is left, those entered for the items before it
are not, although the wait context's cleanup asserts that all have been
(`quic_reactor_wait_ctx.c:83`): from then on the reactor counts a waiter that never leaves. SSL_poll
also returns 0, which `SSL_poll.pod:342` calls failure, although nothing failed.

Shown by the run `key_update_first`: `txku_in_progress` (`quic_channel.c:810`) takes an update
for acknowledged when `ossl_ackm_get_largest_acked` is not below the number of its first packet.
Before any 1-RTT packet has been acknowledged that function answers `QUIC_PN_INVALID`, the
largest integer, so a second update may start at once, two generations ahead of the peer, where
`quic_channel.c:966` says that the prior one has been acknowledged by then.

Shown by the further configurations:

* `FlowControlErrant`: connection-level flow control errors are computed and never read.
  `depack_do_frame_stream` asks only the stream's controller. The header asks callers to check
  both.
* `FlowControlStall`: a lost MAX_STREAM_DATA frame is regenerated only if the same packet
  has a chunk of that stream and the stream has a send buffer; for a receive-only stream the
  credit is never announced again, and the sender waits for ever.
* `StreamMapEmptyFin`: a zero-length `SSL_write_ex2` with `SSL_WRITE_FLAG_CONCLUDE` notes
  the FIN and neither moves the stream out of READY nor makes it active.
* `StreamMapFreed`: `on_acked` passes over chunks of streams without a send buffer, so the
  acknowledgement of RESET_STREAM (which frees that buffer) and of a STOP_SENDING sent with it
  goes unnoticed and the stream is never collected. Two neighbouring cases end the same way:
  `on_lost` has the same early `continue`, so a lost STOP_SENDING of such a stream is not sent
  again; and `qsm_ready_for_gc` accepts only an acknowledged STOP_SENDING for the receiving
  part, which `ossl_quic_free` does not send once everything was received.
* `HashTableSizes`: `match_key` answers 1 for keys of different sizes (`hashtable.c:562-571`),
  where the comment says that keys match "if they are both present, the same size and compare
  equal in memory". Two keys of one hash and different sizes stand for each other.
* `HashTableEach`: a deletion that stores NULL between the test of an entry and the load of what
  is passed on (`hashtable.c:393-394`, two plain loads) has the callback called with NULL, where
  `ossl_ht_new.pod:131` says that `ossl_ht_foreach_until` "iterates over all elements in the hash
  table, calling the passed callback function for each". A build that loads once hands out the
  value that is being deleted, which is not freed before the reader leaves (`NoUseAfterFree`).
* `LossRecoveryProbe`: `ossl_ackm_on_pkt_space_discarded` leaves the probe requests of the
  space pending. `txp_determine_archetype` then answers PROBE for ever, and probes pass by the
  congestion controller, which "the TXP consults" (`quic_channel.c:2704`).
* `PacketRxDup`: two copies of a datagram in one batch are both decrypted before the first is
  recorded, so the check for duplicates lets both through and the frames are handled twice
  (`quic_record_rx.c:1430-1438`; `quic_channel.c:777`: "Potential duplicates should not be
  processed.", `quic_ackm.c:217`: "We must ensure we never process a duplicate PN"). That is the
  only way: `NoLateDuplicate`, which the run `packet_rx` checks with copies that arrive at any
  time, says that nothing decrypted after the first copy was handled is passed on.
* `PacketRxRanges`: `ackm_fill_rx_ack_ranges` bounds the ranges of an ACK frame by
  `OSSL_NELEM(ackm->ack_ranges)`, the number of packet number spaces, where the array of one
  space holds 32; a frame may leave out numbers that are known.
* `KeyUpdateEarly`: a client refuses a key update before its own handshake is confirmed. A
  server may update as soon as its own is; when its packets overtake the one with
  HANDSHAKE_DONE the client closes with KEY_UPDATE_ERROR (`quic_channel.c:883-947`).

Met while modelling, without consequence for the properties checked:

* `ossl_uint_set_insert` can leave two bordering ranges when a range overlaps one element and
  ends right before the next (insert 0-0, 3-3, then 0-2), although the header of the file says
  that never happens. The users in QUIC only insert absent integers; `NoBorder` is stated for
  that use.
* `ossl_sframe_list_insert` keeps a frame that starts where a following, longer one starts, so
  a frame can lie within another, contrary to `quic_sf_list.h`. Reads are right all the same
  (`ImplementsByteStream`).
* A stream that is reset or given up keeps its unread share of the connection window: only
  reads retire connection credit. `DataFlows` is stated for connections without such streams
  (`Abandoned`).
* `ackm_process_ecn` looks the largest acknowledged packet up after it was removed from the
  history, so the congestion controller never hears of ECN.
* Packets taken back by a Retry or a version negotiation leave the ACK manager's counters and
  not the congestion controller's; `InFlightExact` takes these packets out of the comparison.
* `ackm_get_loss_time_and_space` lets a space without a loss time (zero) replace an earlier
  space's. The timer is then that of the probe timeout; `FramesSettled` holds all the same.
* Staging a packet takes the request for an ACK although the datagram may still be given up.
* A number that was received and not yet reported can fall under the watermark when an older
  packet with an ACK frame is acknowledged; it is then never reported.
* The minimum of two flush deadlines in `ackm_queue_ack` cannot be needed while PKTS_BEFORE_ACK
  is 2, and `grow_hashtable` cannot meet a neighborhood that is too small (proved: `BeforeFits`).
* `ossl_quic_thread_assist_notify_deadline_changed` "must be called to notify the assist thread
  if the channel deadline changes" (`quic_thread_assist.h:90`); its only caller is a hook for
  tests. The assist thread may sleep past a deadline; other threads' ticks are not affected.

## 7. Not modelled

Within the modelled parts: allocation failure, but for that of the hash table; resizing and
cleansing of the ring buffer; the record interface of `quic_rstream.c` (`get_record`,
`release_record`, `move_to_rbuf`), which no connection code uses; MAX_STREAMS and the accept
queue's length; the round-robin order of active streams; CRYPTO streams; round-trip
measurement and the length of timeouts (a timer may fire at any time it is armed); priorities
of control frames; packet protection and header parsing; poll descriptors and several domains
in one SSL_poll; weak memory orders in the RCU lock and the hash table; the hash table's
`no_rcu` mode, which takes no locks and is for one thread. A tick of the reactor also notifies
other threads while datagrams wait to be sent (`quic_channel.c:2778`); the model leaves that out,
as it is bounded by what the socket accepts and not by the events counted here: with a notice in
every tick for ever, a thread in the second phase of the notifier could be overtaken for ever.

Other parts of the system, with reasons in `PROJECT.json`: the QUIC port, demultiplexer and
connection id tables (lookup and I/O; nothing is rolled over without migration); closing and
draining of a channel; the TLS and DTLS state machines and record layers, the session cache,
providers and random generators, which are subjects of their own; sequential containers. Left
out for good are arithmetic and cipher code, encoders, decoders and parsers, provider tables,
programs and tests: their correctness is a matter of values, not of state and order, and they
are by far the most of the repository's lines.
