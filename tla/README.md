# A TLA+ model of DPDK's concurrent core

DPDK is a set of libraries for packet processing on dedicated cores. Most of its
three million lines are drivers, tables of registers, control-path dispatch and
examples. What decides whether an application on top of it is correct, and what
a test hardly reaches, is a small part: the code by which threads and processes
share rings, pools, tables, timers and locks. That part is modelled here, at the
level of single accesses to shared words wherever the code relies on their
order.

What follows: the parts of the system, how modules and code correspond, what the
runs check and with which bounds, the fairness, what is proved, where code and
documentation disagree, and what is left out. `PROJECT.json` has the same in a
form for tools: for every definition the lines it models, for every run its
properties, for every property a mutation of the code that breaks it, and the
hazards of the code with the properties that would catch them.

## 1. The parts and how they interact

| part | source | why it is hard | modules |
|---|---|---|---|
| ring | `lib/ring` | claims made from old values, calls that finish out of order, 32-bit wrap | `RingQueue`, `Ring` |
| staged ordered ring | `lib/ring/soring.c` | stages release out of order, one thread finalizes for others | `Soring` |
| quiescent-state RCU | `lib/rcu` | scans against readers that come and go; a result cached by one writer and used by another | `RcuQsbr` |
| RCU defer queue | `lib/rcu/rte_rcu_qsbr.c` | tokens enqueued out of order, a full queue, several threads that reclaim | `RcuDq` |
| stack | `lib/stack` | ABA, torn reads of a 128-bit head, lengths that lag behind the lists | `StackLifo`, `StackLf` |
| locks | `lib/eal/include` | wrap-around of tickets and counts, hand-over to a successor that is just arriving, fairness | `LockBase`, `McsLock`, `TicketLock`, `PfLock`, `RwLock`, `SeqLock` |
| hash table | `lib/hash/rte_cuckoo_hash.c` | lookups without a lock while keys are moved, and moved back | `Hash` |
| mempool | `lib/mempool`, `drivers/mempool/{ring,bucket}` | roll-back when one of several sources is empty | `Mempool` |
| timer | `lib/timer` | a timer reset on one lcore while it is cut from a list or runs on another | `Timer` |
| multi-process channel | `lib/eal/common/eal_common_proc.c` | replies that race timeouts; peers that exit or crash | `MpChannel` |
| distributor | `lib/distributor/rte_distributor_single.c` | a worker that leaves makes a call recurse into itself | `Distributor` |

A mempool is a cache in front of a ring or of buckets that are kept in rings; the
defer queue is a ring whose entries wait for RCU tokens; the hash table frees
positions once RCU says so; the sequence lock has a spinlock for its writers.
`RcuDq` composes the RCU protocol, step by step, with the queue that `RingQueue`
specifies; `Mempool` and `RcuDq` rely on what `Ring` is shown to implement: calls
that take effect at once and take all their elements or none.

`MCRing`, `MCSync` (the locks, and RCU with one writer), `MCReaders` (the defer queue
and the hash table), `MCRcuQsbr`, `MCHash`, `MCTimer`, `MCMpChannel` and `MCContainers`
(stack, staged ring, mempool, distributor) are the bounded instances. The ones with several
components have a variable that says which is at hand; the others stand still.

The proofs are in `RingProofs`, `SoringProofs`, `RcuProofs` (the protocol and the defer
queue), `StackProofs`, `LockProofs` (all five locks), `TimerProofs`, `MpProofs` and
`DistProofs`. A proof module extends the module it is about and little else: every
definition in sight slows the provers down, which is why the few lemmas on
remainders stand in each of the four modules that need them.

## 2. How modules and code correspond

### 2.1 Ring

`ht[s]` is `r->prod` or `r->cons`: `head` and `tail` positions and, for the relaxed
tail sync (RTS) mode, the counters `hcnt` and `tcnt` that share a word with them.
`ring` is the element table. A thread's `pc` and `loc` are its place in a call and
the locals of that call; `obj` is the table a dequeue fills.

| code | action |
|---|---|
| `rte_ring_{enqueue,dequeue}_{bulk,burst}_elem[_start]` | `Call` |
| load of `d->head`; `__rte_ring_hts_head_wait` | `LoadHead` |
| `__rte_ring_rts_head_wait` | `RtsHeadWait` |
| load of `s->tail`, room check, early return | `LoadTail` |
| the compare-and-swap of `move_head`, or the store of the single-thread form | `MoveHead`, `MoveHeadFails` |
| `__rte_ring_enqueue_elems`, `__rte_ring_dequeue_elems` | `CopyElem`, one element a step |
| `__rte_ring_update_tail`, `__rte_ring_hts_update_tail` | `UpdateTail` |
| `__rte_ring_rts_update_tail` | `RtsLoadTail`, `RtsLoadHead`, `RtsUpdateTail`, `RtsUpdateTailFails` |
| `rte_ring_{enqueue,dequeue}_elem_finish` | `PeekFinish`, `PeekSetHeadTail` |
| `rte_ring_reset` | `Reset` |

The two sides run the same code with the roles of `prod` and `cons` exchanged, as
in the source. Positions are 32-bit and wrap: the variables hold the value a word
would have without wrapping, and the code's reads go through `U32`. `NotLapped` is
the one assumption about time: no thread sleeps between loading a word and using
it for so long that the word goes nearly all the way round. The code makes that
assumption too. An element is the position at which it was enqueued, so that
loss, repetition and reordering are visible.

### 2.2 Staged ordered ring

`stg[s]` has head, tail and the try-lock `sync` of a stage, `slot` the state words.
Acquire, release and finalize are one step per access (`AcqTail`, `AcqCas`,
`AcqState`; `RelWrite`, `RelFinish`; `FinLoad` to `FinStore`); release,
the next stage's acquire and dequeue call finalize as in the code. The two ends
are in single-thread mode, where only the tail is seen by others; the other modes
are the ring's code. Metadata are a part of their element, counted in `passed`.
Positions wrap as those of the ring do, and `NotLapped` is the same assumption: a
worker is not suspended between its load of a stage's head and its
compare-and-swap until the head has gone all the way round.

### 2.3 RCU and the defer queue

`token`, `acked`, `cnt`, `bmap` and `nthr` are the fields of `struct rte_rcu_qsbr`; a
counter of 0 is `__RTE_QSBR_CNT_THR_OFFLINE`. The library protects a data structure
of its user: `live` are the objects that can be found in it, `refs[r]` what reader
`r` refers to, `freed` what was freed after a check returned 1. Looking up,
unlinking and freeing are the user's steps (`Reference`, `Remove`, `FreeObject`).
A scan is one step per word of the bitmap and one per counter (`LoadBmap`,
`LoadCnt`, `LoadCntBehind`); `LoadNum` chooses between the two forms of the check.
`Self[w]` is the thread id with which writer `w` calls `rte_rcu_qsbr_synchronize`.
`Attached` and `OfflineFirst` say how readers use the library: whether they stay
online once they are, and whether they go offline before they unregister, as the
programmer's guide asks.

`RcuDq` adds `rte_rcu_qsbr_dq_enqueue` (`DqEnqueue`, `DqStart`, `DqCount`, `DqPut`),
`_reclaim` (`DqReclaim`, `DqPeek`, `DqCheck`, `DqTake` or `DqLeave`, `DqFree`) and
`_delete`. `DqCheck` is the check of `RcuQsbr`, one step at a time. A caller whose
object was refused tries again (`DqEnqueueAgain`).

### 2.4 Stack

Both lists are `head` (a pointer and a counter), `len`, and `next` of the elements.
A push is `pop_elems` on the free list, filling in the objects, and `push_elems` on
the used list; a pop goes the other way round. The read of the 128-bit head is two
steps in either order, as the comment in the code allows for; the
compare-and-swap is one. `StackLifo` is the standard stack, one step per call.

### 2.5 Locks

Every module has the words of its lock and one step per access to them, lock,
trylock and unlock. `pc` says who is inside for reading or writing, `order` is a
history of who asked first. `TicketLock` is the recursive form, which contains the
plain one; a weak compare-and-exchange may fail without a reason. `SeqLock` has two
words of data, written and read one after the other.

### 2.6 Hash table

`sig_current`, `key_idx` and `bkt_next` are the buckets, the extendable ones behind
the others; `key_store` the keys by position, position 0 being the dummy an empty
entry refers to. A key has a primary bucket and a short signature; the
exclusive-or of both is the secondary bucket, as in the code.

| code | actions |
|---|---|
| `__rte_hash_add_key_with_hash` | `Add`, `AddFind`, `AllocSlot`, then the following |
| `rte_hash_cuckoo_insert_mw` | `InsertMw`, `Publish` |
| `rte_hash_cuckoo_make_space_mw`, from either bucket | `BfsEntry`, `BfsNode`, one entry a step, without the lock |
| `rte_hash_cuckoo_move_insert_mw` | `MoveBegin`, `Shift`, `MoveSig`, `MoveIdx`, `Place`, `Publish` |
| the extendable buckets | `InsertExt`, `LinkExt` |
| `__rte_hash_del_key_with_hash`, `search_and_remove`, `__rte_hash_compact_ll` | `Del`, `SearchAndRemove`, `ClearEntry`, `CompactSig` to `CompactLastIdx`, `Unlink` |
| `rte_hash_free_key_with_position` | `FreeKey`, once the lookups under way at the deletion have returned; `EnqueueExt`, three stores of `rte_ring_sp_enqueue_elem`; `Recycled`, `FreeSlot`; all without the lock |
| `rte_hash_reset` | `Reset` |
| `__rte_hash_lookup_with_hash_lf`, `search_one_bucket_lf` | `Lookup`, `LookupCount`, `LookupSig`, `LookupIdx`, `LookupKey`, `LookupNext`, `LookupAgain` |
| `__bulk_lookup_lf` | the same, with `BulkPrim`, `BulkSec` and the hits they collect |

A step of a writer ends at a store that a reader can see and where the lock is
taken or given back; what it only reads under the lock is read at once. `seen` is a
history: what a lookup might rightly answer. `Uses` lists how a table is created
and used, with a bound on the calls of every thread and the keys each writer adds
(`adds`); the loaded keys are those a few calls of add would leave. `free_ext_bkts` is
the ring of extendable buckets with the producer's head and tail, because a bucket
is freed by a thread that has no lock while another, under the lock, takes one.

### 2.7 Mempool

`cache` is the live part of each lcore's cache, `common` the ring of the ring
handler; of the bucket handler there are the bucket headers, the stack of full
buckets of each lcore, the shared rings of buckets and of orphans, and the
adoption rings. A call is one step per access to something shared; a failing
request undoes what it took in as many steps as the code. Which object of a pool
is taken where the code takes any from a ring is the one the ring gives. The fill
count of a bucket is a `uint8_t`, as in the code. Threads
without an lcore id, which have no cache, are not modelled.

### 2.8 Timer

`st` is the status word of a timer, `list` and `hexp` the pending list of an lcore
and the expiry in its header, `lock` its lock. A list is the sequence the skip list
holds, and `Upto` the place `timer_get_prev_entries` finds in it. `PollLcores` is the
argument of `rte_timer_alt_manage`, whose run lists stay apart until the oldest
timer of all is picked. `CallReset` and `CallStop` begin a call, `SetConfig`, `Del`, `SetPending` and
`SetStop` are its steps; `Manage` to `ManageReturns` are `rte_timer_manage` and
`rte_timer_alt_manage`: looking without the lock (`Scan`), cutting off what has
expired (`Cut`, `SetRunning`, `SkipConfigured`, `CutDone`) and running it (`Ran`,
`CbStop`, `CbAgain`, ...). A callback may call reset and stop itself.

### 2.9 Multi-process channel

`pending` is the list of pending requests under `mutex`, `inbox` and `net` are what is
under way. `SyncCall` to `SyncDone` are `rte_mp_request_sync` with one wait per peer;
`AsyncCall` is `rte_mp_request_async`, which queues an entry and an alarm per peer;
`Receive` is the message thread, `Alarm` the interrupt thread, `Trigger` the callback.
Peers answer, ask to be ignored because they are not ready, stay silent, exit and
remove their socket file, or crash and leave it behind. `Fault` covers a send or an
alarm that fails, a wait that ends early, and an alarm that comes before the deadline.

Alarms and deadlines are on two clocks, `CLOCK_MONOTONIC_RAW` (`eal_alarm.c`) and
`CLOCK_MONOTONIC` (`eal_common_proc.c`). An alarm is set for the time left, so with clocks
that agree it comes when the deadline has passed; nothing in the code makes sure of
it, and nothing in the guard of `Alarm` does. `late` says that the deadline of a call has
passed. An alarm that finds it has not is handled as the code does: the entry is
removed, the peer is not counted, and there is no second alarm. `lost` counts those
peers. It is a history variable: no action reads it.

### 2.10 Distributor

`bufs[w]` is the word through which the distributor and worker `w` talk. A worker
that leaves makes `rte_distributor_process_single` call itself through
`handle_worker_shutdown`; `frames` is the stack of these calls with the locals of
each, which is where the stale copies of section 6 are. `RequestPkt`, `PollPkt` and
`ReturnPkt` are a worker's calls; a worker that leaves does not come back (section 6 on
one that does).

## 3. What is checked

| run | instance | what it shows |
|---|---|---|
| `ring_mt` | 2 producers in RTS mode with a distance of 1, 2 consumers in MT mode, 3 of 4 slots, one call each for 1 or 2 elements | `RingInv`, the inductive invariant; `DequeuedIntact`; `FailsOnlyWithoutRoom`; `RefinesQueue`: the ring is a FIFO queue; `CallsReturn` |
| `ring_hts` | 2 producers in HTS mode, 1 consumer in ST mode, both with the peek API, requests of 0, capacity 2, reset | `RefinesQueue` with elements given back and with resets; `CallsReturn` |
| `sync_all` | 3 threads and each of five locks, all counters wrapping; RCU with 2 readers in 2 bitmap words that come and go, 1 writer that is a reader too, 2 objects | `Exclusion`, `InOrder`, `LockWords`, `PhaseFair`, `ConsistentRead`, `LockGranted`; `RcuInv`, which contains the grace period; `WaitEnds` |
| `readers_all` | Defer queue: 1 reader, 2 writers that share a queue of size 1 or 2, 2 objects. Hash: 4 keys in 4 buckets of one entry, one extendable bucket, 5 positions; one writer with 3 updates and a lookup, single or bulk; one writer with 4 updates of a full table; two writers without lookups and without extendable buckets, and with them where either each writer makes one update or the writers add different keys | `GracePeriod`; `DqConserved`: no object is lost or freed twice; `DqDrains`; `LookupRight`: a lookup answers what was true at some moment of the call; `KeysOnce`: no key has two entries, no position or bucket two uses |
| `timer_two` | 2 lcores, one with `alt_manage` on both lists, a one-shot and a periodic timer, 3 calls of reset and stop, 2 ticks | `StoppedIsFree`, `ListsSound`, `RunsOnTime`, `TimerServed`, `SyncReturns` |
| `mp_two` | primary or secondary with 2 peers, 2 requests under one name, one fault | `Accounts`, `NoDangling`, `RightReply`, `RequestsEnd` |
| `containers_all` | stack: 2 threads, 3 elements, 1 and 3 calls. Staged ring: 1 or 2 stages, 2 workers, positions wrapping. Pool: 2 lcores, 6 objects, caches of 3, ring or buckets of 2, 3 calls. Distributor: 2 workers of which one may leave, 3 packets of 2 flows, backlog 1, returns array 2 | `StackElements`, `RefinesLifo`; `SoringOrder`, `SoFlows`; `PoolObjects`, `PoolCount`; `FlowsApart`, `InputOrder`, `FlushComplete`, `ReturnsKept`; `CallsReturn` |
| `rcu_offline` | 2 readers that go offline, 2 writers | `GracePeriod` *violated*, section 6 |
| `pool_bucket` | 1 lcore, buckets, a cache as large as the pool | `PoolObjects` *violated*, section 6 |
| `dist_leave` | a worker leaves | `ReturnsAll` *violated*, section 6 |
| `hash_two` | 2 writers and a lookup | `LookupRight` *violated*, section 6 |
| `hash_ext` | 2 writers that add the same keys, an extendable bucket, one update and two | `OneEntry` *violated*, section 6 |

All bounds are in the `.cfg` files. Deadlock is checked but for `timer_two` and `mp_two`,
which end when the clock stands still and all requests have been made, and
`rcu_offline`, which is about one safety property.

`KeysOnce` is not unqualified. Three uses of the table break it, each by a defect that
section 6 describes, and the passing run leaves them out by name: two writers that add
the same key to a table with extendable buckets (`hash_ext`), a key of zeros (`ZeroKey`),
and a reset while deleted positions are not freed (`FreedFirst`).

`Accounts` and `RequestsEnd` allow for alarms that come early: what was sent is processed,
pending or `lost`, and a request ends in one call of its callback or has lost a peer.
Where no alarm is early nothing is lost and they say that all is accounted for and the
callback is called.

### Why the bounds are enough

*Ring.* Position 14 of 16 is where a ring starts, so that words wrap while calls are
under way. Four slots of which three are used let it be empty, partly full, full,
and too full for a burst but not for one element. Two threads a side is the least
with which a claim is overtaken; more are covered by the proofs.

*RCU.* Two readers in two words is the least at which a scan has a word behind it
and one before it; two objects let a second removal take its token while the check
for the first is under way. A queue of one or two entries (a ring of size 2 or 4)
is full at once, and two writers take tokens in one order and enqueue in the other.

*Hash.* The four keys are chosen so that adding the third moves both others, one of
them out of its secondary into its primary bucket, which is the direction a lookup
walks; two keys share a signature and a bucket, so that a lookup meets the wrong
key; the fourth needs the extendable bucket, which a deletion empties again.
Beyond the runs, five keys with two extendable buckets, four updates and a lookup
(4.3 million states), and buckets of two entries with four updates and a lookup,
were checked once and hold.

*Locks.* Three threads, of which one holds, one waits and one arrives; ticket words
of 4 values, phase-fair words of 4 readers, a sequence counter that starts two
steps before it wraps. The proofs cover more threads.

*Timer.* One timer of each kind and an lcore that serves the other's list are the
least at which a timer is cut off by one lcore while another configures it. Three
calls allow a reset, a stop and another reset to interleave with one run.

*Channel.* Two peers are the least at which one answers and one does not; two
requests under one name, the second of which meets late replies to the first.

*Containers.* One thread with one call on the stack against three calls lets an
element return to where a slow walk last saw it. Two workers on one stage overtake
each other, on two stages they follow each other. Requests of up to four objects
of six exceed one bucket and the cache. With three packets, a backlog of one and a
returns array of two both overflow. Beyond the runs, the distributor was checked with
three workers and four packets (14.8 million states) once, and holds.

### Fairness

Threads of DPDK poll on cores of their own. A thread inside a call keeps taking
steps (weak fairness); nothing obliges it to make a call. Beyond that:

* RCU: an online reader reports again and again, as the library asks; strong
  fairness only because a thread that is a writer too is busy in between.
* Defer queue: writers reclaim now and then; a thread that waits at the dequeue
  side of the ring is not always forestalled, since that side serves whoever comes
  first.
* Locks: threads leave their critical sections; a holder of the recursive lock does
  not take it again for ever; a weak compare-and-exchange does not fail for ever
  without a reason (strong fairness for those two).
* Timer: the clock runs and every lcore calls its manager.
* Channel: the requester's threads run and deadlines pass. Nothing is assumed of
  the peers.
* Staged ring and distributor: workers and the consumer poll.

Nothing of the hash table is fair: its properties are safety. A lookup may be made
to look again by every move, so that its end is not promised by the code either.

### Refinement

`RefinesQueue` maps the ring to what lies between the consumer head and the producer
tail; an enqueue takes effect when the tail passes it, a dequeue when it claims.
`RefinesLifo` maps the lock-free stack to the chain of the used list; both operations
take effect at their compare-and-swap of its head.

## 4. What is proved

TLAPS checks the proofs for every value of the constants that the `ASSUME`s allow.

**Ring.** `RingInv` is inductive (`InvariantHolds`), with any mix of modes on the two
sides. Assumptions: the sides are disjoint finite sets of fewer threads than there
are positions (`RingThreads`); the size divides the range of positions and the
capacity is below the size (`RingSizes`); a side in single-thread mode has one
thread (`RingSingle`). From it follow `TypeCorrect`, `HeadsStayInOrder`,
`NoEarlyPublication`, `SlotsExclusive`, `NothingTorn`, `RtsBounded` and
`FailureJustified`.

That heads and tails stay in order is not inductive: the room a call computed may
be out of date. `LoadedOK` says what survives: the opposite tail only grows, so a
claim of that size from that old head still fits, and the compare-and-swap makes
sure that the old head is the present one, given that it is less than a lap old.
`ClaimsUnpublished` and `ClaimsDisjoint` carry the claims until they are published.
In RTS mode the tail is moved by a call that need not be the oldest: `RtsCount` says
that the counters of head and tail differ by the number of calls in flight,
`RtsTailOK` and `RtsHeadOK` what the two loads of `update_tail` still imply when the
compare-and-swap succeeds. `DataInv` says what is in the slots, `ObjOK` what was
copied out.

`RingIsQueue` is the refinement: the ring implements `RingQueue`. Under `RingInv` the
queue and what a dequeue has taken are runs of consecutive element numbers (`Run`),
so that a step is right if it moves the ends of the runs as the queue's step does:
`FifoMoveHead` for the claim of a dequeue, `FifoUpdateTail` for a tail that passes one
or, in RTS mode, several enqueues, `FifoPeekEnds` for elements that are given back,
`FifoReset`; all other steps leave the queue alone (`FifoQuiet`).

**RCU.** `RcuInv` is inductive (`RcuInvariant`) under the condition `Covered`: there is
at most one writer, or the readers stay online. `GracePeriodHolds` and
`AckedTokenRight` follow; `rcu_offline` shows that the condition cannot simply be
dropped. An object that is removed and still referred to was removed after the
reader's last report (`RefsOld`), so a counter that has reached the token speaks for
the reader; `ScanOK` says that the readers a scan has passed hold neither the object
waited for nor any object whose token the scan will acknowledge. That is where a
reader that is offline when passed, and online later, needs `Covered`.

**Defer queue.** `DqSafe`: nothing is freed early and every object is in exactly one
place (`GracePeriod` and `DqConserved`), under `Covered`, for any finite set of objects and
any writers. `DqConserved` counts places and does not say whose step may come next;
`DqInv` adds to `RcuInv` that a writer's place in the calls of the queue agrees with its
place in the check (`DqWriterOK`), that the entry being checked stays the oldest because
the writer holds the dequeue side, that some writer answers for every entry of the
queue (`DqEntries`), which is what carries the token of an entry from its start to the
check that another writer makes, and that an object is in one of the six places in
one way (`Placed`), from which the cardinalities follow.

**Locks**, for any finite number of threads.

* `RwExclusive`: the reader-writer lock excludes and its counter is exact. The
  invariant `RwInv` equates the counter with four times the readers that have added
  themselves, those that will step back included, plus two for a writer inside,
  plus the wait bit; the bit is set only while some writer is on its way; and a
  writer at its compare-and-swap has seen a value without the write bit. A writer
  gets in only if the counter is what it saw, below the write bit, so that no
  reader is counted.
* `TicketExclusive`: exclusion, service in order and the owner of the recursive lock.
  `QueueInv` says that the threads in `order` hold consecutive tickets from `current`
  on, modulo the width; the queue is shorter than the number of tickets
  (`TicketSizes`), so no two of them are equal, and the thread that finds its ticket
  served is the first.
* `SeqConsistent`: a read that is not retried is of one moment. `WritersInv` relates
  the parity of the counter to the writer's place between its two stores;
  `ReaderInv` says that a reader's words are those of the number it began with as long
  as the counter is unchanged; `BudgetInv` bounds the writes, so that an equal
  wrapped number is the same number. `SnSizes` asks that all writes of a behaviour
  (`MaxWrites`) are fewer than the counter tells apart, 2^31 in the code. The code
  needs this of the writes during one read only; the theorem is about the stronger
  assumption.
* `McsExclusive`: the MCS lock excludes and serves in order. `McsInv` says that `order` is
  the queue of nodes and the lock word its end; that the first is inside or has been
  told so, while all others wait with `locked` set; and that a node's `next` is the one
  behind it unless that one has swapped itself in and not linked itself yet. Without
  the last a release that sees no successor could not be told from one that must wait.
* `PfExclusive`: the phase-fair lock excludes, its writers are served in order, and a
  reader waits for one writer at most (`PhaseFair`). `PfInv` says that the tickets of the
  writers in `order` are consecutive modulo their width; that the two reader words
  differ by the number of readers inside or waiting, modulo theirs (`PfCounts`), and the
  count that a writer waits for by the number of those that came before its phase
  (`EarlyReaders`); and that a waiting reader has the bits of the phase it met, which
  differ from those of the next (`PfPhases`). `PfSizes` asks for fewer threads than a
  word can count, and an even number of tickets, so that phases alternate over the
  wrap.

`Exclusion`, `InOrder` and the two parts of `LockWords` (`RecursiveOwner` and `RwCounter`) are
each proved in the theorem of the lock they are about; `MCSync` only puts the locks
side by side.

Most leaves cite `Zenon`; those left to SMT are about arithmetic and sequences.

**Stack**, for any finite set of threads (`StackThreads`), any capacity and any number of
objects in a call (`StackSizes`).

* `StackKeepsElements` (`StackElements`): every element is in one place, a length promises
  no more than its list has, and a call that has reserved elements finds them.
  None of these is inductive, because heads, links and lengths are read and written
  at different moments. `StackInv` says that there is some assignment of a sequence of
  elements to each place, the two lists and the calls in progress (`Spread`), that
  agrees with the heads and links (`ListOK`, `OwnOK`), with the objects filled in
  (`FillOK`), with the lengths once those calls are counted that have reserved and not
  taken, or put and not yet added (`Due`), and with what a walk has read (`WalkOK`): a
  head that was read, in two halves and perhaps torn, has a counter that is not
  ahead of the list's; and if the two heads are equal the list has not changed
  since, so that the walk has read what is there. That is the argument against ABA.
* `StackImplementsLifo` (`RefinesLifo`): the chain that `Contents` computes is the sequence
  `StackInv` speaks of, so that the successful compare-and-swap of a pop drops the first
  `num` of it, that of a push puts `num` before it, and no other step changes it.

**Staged ordered ring**, for any number of stages, workers and slots, any capacity and
any width of the words that the size divides (`SoringSizes`).

* `SoringKeepsOrder` (`SoringOrder`): elements come out in order, each after every stage,
  and a worker is given what the stage before has finished. `SoInv` gives each stage a
  region, from its tail, or from where a finalize under way has got, to its head
  (`Region`); the regions follow one another within one lap (`SoOrder`). In a region every
  batch that is acquired or released has its own positions (`ClaimsApart`,
  `BatchesOK`), and a state word that is not zero is that of such a batch (`SlotsOK`).
  The last is what makes the walk of a finalize right: it meets no state left behind
  by an earlier lap or another stage, so that it goes on only over batches of its
  own stage that are released. `LoadOK` says what an acquire may conclude from a head
  that is out of date. It uses `NotLapped`.

**Timer**, for any sets of timers, lcores and other threads, any clock and any number of
calls (`TimerParameters`; `MaxTime` and `MaxCalls` are arbitrary).

* `StoppedTimersFree` (`StoppedIsFree`), `TimerListsSound` (`ListsSound`) and `CallbacksOnTime`
  (`RunsOnTime`). `TimerInv` says where each timer is. One that is pending, or that a call has
  configured and is still to take off its list (`Waits`), is in the list of its owner
  or with the lcore that holds the lock of that list (`Placed`); one that is running is
  in a run list of its owner or being called; one that is configured otherwise is
  nowhere. The status word is the timer's lock: who has configured it is the only one
  to change it (`OpOK`). `Waits` is what makes the cut right. Between the
  compare-and-swap that configures a timer and the call of `timer_del`, which waits for
  the list lock, another lcore may cut the timer off: it finds it configured and
  drops it (`SkipConfigured`), and the later deletion looks for it in vain. The header
  may be wrong while a manager cuts (`HeadersOK`), and only then; `Scan` reads it
  without the lock, and `Expired` looks at the first timer itself once it has it.

**Distributor**, for any number of workers, tags and packets and any size of the
backlogs (`DistParameters`: the returns array has at least two places, 128 in the code;
`NoTag`, which stands for a worker whose bit of `in_flight_bitmask` is clear, is no tag).

* `DistFlows` and `DistOrder`: flows stay apart and in order, with workers that leave.
  That two workers have different flows is not inductive: a worker that leaves makes
  its flow free while packets of it wait. `FlowInv` says where every waiting packet is:
  the packets of a flow are in the backlog of the worker that has it, then in the
  innermost call, then in the calls around that, in input order throughout
  (`Backlogs`, `Calls`, `Nested`, `Before`), and none is missing (`Found`). The packet at
  hand in a call has a flow that no worker has; this is what a recursive call might
  break, and does not, because the outer call's packets come after the backlog it
  deals out, and its packet at hand has another flow than all of them.
* `DistReturns`: as long as no worker leaves, the returns array holds exactly what was
  taken back and not fetched. `ReturnInv` adds that each packet is there once and that
  workers carry packets that are not there; the copies of start and count in a call
  under way are the ones that count. With a worker that leaves it fails, section 6.

**Channel**, for any finite set of peers and any names, requests and faults
(`MpParameters`: no request has the name of the dummy, which has none).

* `MpCounts` (`Accounts`), `MpLists` (`NoDangling`) and `MpReplies` (`RightReply`). `MpInv` ties
  each entry of the list to the state of its call (`EntryOK`), says that no two entries
  ask one peer for the same name (`Distinct`), which is what `Exists` is for, and counts:
  what a synchronous request has sent is answered but for the one it waits for
  (`SyncOK`), what an asynchronous one has sent is processed, pending or lost to an early
  alarm, or it was sent to nobody and has one dummy (`AsyncOK`). No assumption ties
  alarms to deadlines. A reply on its way has the name of its request
  (`Asked`), so that it matches the entry of that request if there is one, and by
  `Distinct` no other. The message thread and the interrupt thread are never about to
  run the same callback (`TrigOK`).

Some of these are proofs by induction over data. The library's induction theorems
take an operator and are of no use here; that a set of naturals that is not empty
has a least member (`LeastNat`, from `WFMin`) takes its place: the
lemmas on `Nth` and `Chain` of the stack and on `Upto` of the timer suppose a least
counterexample.

**Only model-checked**, and why:

* all liveness properties (`CallsReturn`, `WaitEnds`, `DqDrains`, `LockGranted`, `TimerServed`,
  `SyncReturns`, `RequestsEnd`, `SoFlows`): the prover does not do fairness;
* the hash table, whose secondary bucket is an exclusive-or, which is out of the
  provers' reach, and whose `LookupRight` with two writers does not hold;
* `PoolCount` and `FlushComplete`, which compare sums that the code forms in a loop with
  what is there at the end, and the objects of the pool, for which no proof was
  attempted;
* `GracePeriod` without `Covered` and `ReturnsKept` with workers that leave, which do not
  hold (section 6).

## 5. Mutations

For every property of a passing run `PROJECT.json` names a mutation of the code that
breaks it: a dropped recheck (`RwReadAddBlind`), a comparison of the pointer without
its counter (`PopHeadPointer`), readers that are not told of a move (`InformNobody`), a
search that leaves out the secondary bucket (`FoundInFirst`), a stale header
(`CutDoneStale`). Each stands before the definition it replaces.

## 6. Where code and documentation disagree

With a run:

1. *`rcu_offline`.* A check skips a reader that is offline and stores the least counter
   of the others as `acked_token` (`rte_rcu_qsbr.h:618`). If the reader comes online
   behind the scan and refers to an object that a second writer then removes, and
   the remaining readers report that newer token before the scan reaches them, the
   token stored covers the second removal, although that reader has not reported.
   The second writer's check returns 1 at once. It takes two writers and a reader
   that comes online during a check.
2. *`pool_bucket`.* `rte_mempool_do_generic_get` takes the objects in the cache to be
   intact after a refill that failed (`rte_mempool.h:1634`). The bucket handler
   writes to the array before it fails. An object is then both in the cache and in
   the pool, and the one it overwrote is lost.
3. *`dist_leave`.* `rte_distributor_returned_pkts` is to return all packets that workers
   have finished (`packet_distrib_lib.rst:58`). The recursive call for a worker that
   leaves stores packets in the returns array; the outer call then writes its own
   copies of start and count back (`rte_distributor_single.c:195`, `:311`).
4. *`hash_two`.* The lock-free mode is said to support several writers
   (`rte_hash.h:54`). A writer that finds its path of moves invalid empties the entry
   it copied last from (`rte_cuckoo_hash.c:1173`) without incrementing
   `tbl_chng_cnt`. A lookup that passed the primary bucket before the copy and
   reaches the secondary after it misses a key that was there all the time. With one
   writer a path is never invalid.
5. *`hash_ext`.* Before it moves entries a writer checks, under the lock, whether "key
   was inserted after last check" (`rte_cuckoo_hash.c:1142`). Searching from the secondary
   bucket (line 1424) it looks there and in the primary bucket with what is linked to
   that (line 1151), not in what is linked to the secondary, where another writer has
   put the key meanwhile. With one deletion in between, which makes room, the key has
   two entries.

Found with other instances, or by reading, and without a run:

* *An asynchronous request with nobody to send to.* It queues a dummy entry to make
  sure that the callback is called (`eal_common_proc.c:1187`). `process_async_request`
  tests `reply_received == 1 && sr->reply` (line 476), which a dummy without a reply
  does not meet; when its alarm is handled after the deadline the entry is freed and
  nothing called. `RequestsEnd` leaves this case out; with it `MpChannel` with one
  call and no faults violates it.
* *Ring.* The comment at `rte_ring_c11_pvt.h:144` says that `entries` is always between 0
  and the capacity. A producer that is overtaken between its two loads computes more
  (`EntriesBounded`). Nothing follows, since its compare-and-swap fails.
* *RCU.* `rte_rcu_qsbr_thread_unregister` is documented to make ongoing checks stop
  waiting (`rte_rcu_qsbr.h:258`). `__rte_rcu_qsbr_check_all` does not look at the bitmap
  and waits for ever for a thread that did not go offline first, as the
  programmer's guide asks it to; `OfflineFirst = FALSE` shows it.
* *Reader-writer lock.* That it "does not starve either readers or writers"
  (`generic/rte_rwlock.h:19`) holds of a writer against readers. The writer that gets the lock clears the wait bit for all, and a writer
  may lose to others for ever: `LockGranted` says of this lock that some thread
  enters.
* *Defer queue.* The header says of `trigger_reclaim_limit` that reclamation begins
  when the queue has "at least these many" entries; the code compares with `>`.
* *Bucket handler.* The ring for full buckets has room for one less than a power of
  two, so that the last of a power of two of buckets does not fit at population
  (`rte_mempool_bucket.c:523`): its fill count is cleared, the enqueue fails
  (line 131), and the bucket is nowhere. The runs use three buckets. Objects of a last
  bucket that is populated in part can never be allocated.
* *Staged ring.* `soring_dequeue_start` never finalizes: what a finalize that lost its
  race left behind stays out of reach of a consumer that uses nothing else, until
  another release.
* *Channel, late replies.* A late reply is matched by name and peer only, and is given to
  a later request of the same name. `RightReply` is about names and peers and does not
  tell the two requests apart.
* *Channel, two clocks.* An alarm that comes before the deadline, which the two clocks of
  section 2.9 allow, finds no timeout: `process_async_request` (`eal_common_proc.c:504`)
  does not count the peer, the entry is freed, and the number processed never reaches
  the number sent. The callback of such a request is never called and its parameter
  is not freed. `lost` counts these peers. When `clock_gettime` fails the entry is freed
  without being taken off the list; that path is not modelled.
* *Distributor, a worker that comes back.* `handle_worker_shutdown` releases the word of
  the worker (`rte_distributor_single.c:122`) before the recursive call that moves its
  backlog (line 148), and clears the backlog after it. A worker that asks for a packet in
  between, as one of `test_distributor.c:416` may that is to "restart to pick up last
  packet", is given a packet of its old backlog that the recursive call also deals out:
  two workers have it. With an action that lets a worker that has left ask again
  `FlowsApart` fails after some fourteen thousand states. The modules leave that action
  out, and `FlowsApart`, `InputOrder` and the theorems about them are about workers that
  leave for good.
* *Bucket handler, fill count.* `fill_cnt` is a `uint8_t` and is compared with one less than
  the objects of a bucket (`rte_mempool_bucket.c:113`). With more than 256 objects in a
  bucket it wraps before it gets there, and a bucket that was taken apart is never full
  again.
* *Hash, all-zero key.* `search_and_update` (`rte_cuckoo_hash.c:1022`) has no test for an
  empty entry, unlike search and remove. A key of zeros whose short signature is 0
  matches an empty entry, whose position is the dummy; the result, -1, also means
  "not found", and the search of that bucket ends there. The key is stored again
  although it is in a later entry. `ZeroKey` equal to such a key violates `KeysOnce`.
* *Hash, reset.* `rte_hash_reset` does not clear `ext_bkt_to_free`. A position deleted
  and not freed before a reset frees its old extendable bucket when it is freed the
  next time (`FreedFirst = FALSE` violates `KeysOnce`).
* *Hash, freeing.* `rte_hash_free_key_with_position` is safe for several threads if the
  table was created so (`rte_hash.h:411`). It takes no lock, and gives an extendable
  bucket back with the single-producer enqueue (`rte_cuckoo_hash.c:2204`): two threads
  that do so at once may store to one place of the ring. `EnqueueExt` has the steps; it
  takes two extendable buckets, which the instances do not have.
* *Hash, no extendable bucket left.* The failure at `rte_cuckoo_hash.c:1495` does not give
  the position back.

## 7. What is not modelled

The modelled files are a few thousand of three million lines, well below one
percent. A share of the whole is no useful aim for this system: drivers and base
code of devices make up most of it, their behaviour depends on hardware that the
source does not describe, and they are sequential configuration code where they
are not a descriptor ring with that hardware. Of the files that are modelled most
of the code that changes shared state is covered.

* *Weak memory.* Every access to a shared word is a step, and the steps of a thread
  happen in program order. Whether the acquire and release annotations suffice on a
  weakly ordered machine is a question for other tools.
* *Width.* Tokens of RCU (64-bit), the counters of the stack's heads and the change
  counter of the hash table do not wrap. Ring and staged ring positions, tickets,
  phase-fair words and sequence numbers do.
* *Memory.* Failures to allocate, creation and freeing of objects, lookup by name,
  memzones: sequential code over EAL services.
* *Ring*: the element sizes; the zero-copy API claims and releases as the peek API
  does. *Staged ring*: multi-thread ends. *Hash*: readers that take the lock,
  transactional memory, the integrated RCU (its parts are `RcuQsbr` and `RcuDq`), data
  pointers, bulk lookups of several keys (each key is looked up as one is; only
  the repetition is common), iteration. *Mempool*: population, iteration, cookies, the
  handlers over a stack and over hardware. *Timer*: the skip list's levels,
  `rte_timer_stop_all`, instances. *Channel*: registration of actions, messages without
  a reply. *Distributor*: the burst mode, whose tags are compared by vector
  instructions; a worker that asks for a packet again before the recursive call for
  its leaving has ended.
* *Not modelled at all*: service cores, lcore launch, hotplug, malloc, reorder, LPM and
  FIB, the device libraries, the drivers (the Napatech ones included), applications
  and examples; for the reasons `PROJECT.json` gives.
