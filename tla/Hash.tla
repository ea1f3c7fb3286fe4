-------------------------------- MODULE Hash --------------------------------
(* The hash table of rte_cuckoo_hash.c with lock-free readers              *)
(* (RTE_HASH_EXTRA_FLAGS_RW_CONCURRENCY_LF): cuckoo displacement, the      *)
(* extendable buckets, and positions that the application frees once no    *)
(* reader can refer to them.  A key has a primary bucket and a short        *)
(* signature, whose exclusive-or with the primary index is the secondary.  *)
(* The application's data pointer, one word per position, is left out.     *)
EXTENDS Naturals, Sequences, FiniteSets, Bitwise
LOCAL INSTANCE FiniteSetsExt
LOCAL INSTANCE SequencesExt

CONSTANTS
  HKeys,
  Prim,              \* the primary bucket of each key
  Sig,               \* its short signature
  ZeroKey,           \* what an untouched position of the key store holds
  HashBuckets,       \* a power of two
  Entries,           \* RTE_HASH_BUCKET_ENTRIES
  NumExt,            \* extendable buckets: the code has HashBuckets of them
  NumSlots,          \* positions of the key store, without the dummy 0
  BfsMax,            \* RTE_HASH_BFS_QUEUE_MAX_LEN
  CacheSize,         \* LCORE_CACHE_SIZE
  HWriters, HReaders,
  Sought,            \* the keys that readers look up
  FreedFirst,        \* rte_hash_reset only once every deleted position is freed
  Uses               \* how a table is created and used: its flags, the kind of lookup,
                     \* the keys that are in it at first, those that each writer adds,
                     \* and a bound on the calls of each writer and each reader

\* Several writers need RTE_HASH_EXTRA_FLAGS_MULTI_WRITER_ADD, which also gives
\* each lcore a cache of free positions.
ASSUME HashSizes ==
  /\ HashBuckets \in Nat \ {0} /\ Entries \in Nat \ {0} /\ CacheSize \in Nat \ {0}
  /\ Prim \in [HKeys -> 0 .. HashBuckets - 1] /\ Sig \in [HKeys -> Nat]
  /\ NumExt \in 1 .. HashBuckets
  /\ Uses \subseteq [ext_table_support : BOOLEAN, use_local_cache : BOOLEAN, bulk : BOOLEAN,
                      loaded : UNION {[B -> HKeys] : B \in SUBSET (0 .. HashBuckets - 1)},
                      adds : [HWriters -> SUBSET HKeys], writes : [HWriters -> Nat], reads : [HReaders -> Nat]]
  /\ \A u \in Uses : u.use_local_cache \/ Cardinality({w \in HWriters : u.writes[w] > 0}) = 1

VARIABLES
  h,                            \* the use at hand
  sig_current, key_idx,         \* struct rte_hash_bucket: those of h->buckets, then
  bkt_next,                     \* those of h->buckets_ext
  key_store,
  tbl_chng_cnt,
  free_slots, local_free_slots, \* the ring, and the cache of each writer's lcore
  free_ext_bkts,                \* the ring of extendable buckets, with its two ends
  ext_bkt_to_free,              \* the one to be freed with a position, or 0
  readwrite_lock,               \* the writer that holds it, or none
  wr,                           \* what each writer is doing
  rd,                           \* what each reader is doing
  unfreed,                      \* positions not freed yet, with the readers that may refer to them
  writes, reads,                \* calls that each may still make
  seen                          \* what a lookup may answer: where the key has been since it began

EMPTY_SLOT == 0
NULL_SIGNATURE == 0
NoOne == "none"

Slots == 1 .. Entries
Bkts == 0 .. HashBuckets + NumExt - 1
Nil == HashBuckets + NumExt
ExtBkt(id) == HashBuckets + id - 1   \* &h->buckets_ext[id - 1]
ExtRing == 2 * HashBuckets           \* rte_align32pow2(num_buckets + 1)

table == <<sig_current, key_idx, bkt_next>>
pools == <<free_slots, local_free_slots, free_ext_bkts, ext_bkt_to_free>>
bounds == <<h, writes, reads>>
hashvars == <<table, key_store, tbl_chng_cnt, pools, readwrite_lock, wr, rd, unfreed, bounds, seen>>

\* The fields are used by: a call; the breadth-first search; the moves; the
\* entry being written; a deletion, or the bucket and the place being enqueued.
WriterIdle ==
  [at |-> "idle", key |-> ZeroKey, slot |-> 0,
   home |-> 0, second |-> FALSE, queue |-> <<>>, tail |-> 1, i |-> 1,
   node |-> 1, cslot |-> 1,
   bkt |-> 0, pos |-> 1,
   start |-> 0, last |-> 0, j |-> 1]
ReaderIdle == [at |-> "idle", key |-> ZeroKey, cnt_b |-> 0, bkt |-> 0, first |-> TRUE, i |-> 1, idx |-> 0, hits |-> <<>>]

Ascending(n) == [i \in 1 .. n |-> i]

\* A ring that holds all the extendable buckets; 0 is none of them.
AllExtBkts ==
  [ring |-> [n \in 0 .. ExtRing - 1 |-> IF n < NumExt THEN n + 1 ELSE 0],
   prod_head |-> NumExt, prod_tail |-> NumExt, cons |-> 0]

\* A loaded key has the position that is one more than its bucket.
At(b, i) == b \in DOMAIN h.loaded /\ i = 1

HashInit ==
  /\ h \in Uses /\ writes = h.writes /\ reads = h.reads
  /\ sig_current = [b \in Bkts |-> [i \in Slots |-> IF At(b, i) THEN Sig[h.loaded[b]] ELSE NULL_SIGNATURE]]
  /\ key_idx = [b \in Bkts |-> [i \in Slots |-> IF At(b, i) THEN b + 1 ELSE EMPTY_SLOT]]
  /\ bkt_next = [b \in Bkts |-> Nil]
  /\ key_store = [p \in 0 .. NumSlots |-> IF p - 1 \in DOMAIN h.loaded THEN h.loaded[p - 1] ELSE ZeroKey]
  /\ tbl_chng_cnt = 0
  /\ free_slots = SetToSortSeq({p \in 1 .. NumSlots : p - 1 \notin DOMAIN h.loaded}, <)
  /\ local_free_slots = [w \in HWriters |-> <<>>]
  /\ free_ext_bkts = AllExtBkts
  /\ ext_bkt_to_free = [p \in 1 .. NumSlots |-> 0]
  /\ readwrite_lock = NoOne
  /\ wr = [w \in HWriters |-> WriterIdle]
  /\ rd = [r \in HReaders |-> ReaderIdle]
  /\ unfreed = {}
  /\ seen = [r \in HReaders |-> {}]

-----------------------------------------------------------------------------
get_alt_bucket_index(b, sig) == (b ^^ sig) % HashBuckets

Sec(k) == get_alt_bucket_index(Prim[k], Sig[k])

\* The buckets FOR_EACH_BUCKET visits, from the first: at most all of them.
Chain(b) ==
  LET walk[n \in 1 .. NumExt + 1] == IF n = 1 THEN b ELSE IF walk[n - 1] = Nil THEN Nil ELSE bkt_next[walk[n - 1]]
      len == Cardinality({n \in 1 .. NumExt + 1 : walk[n] # Nil})
  IN [n \in 1 .. len |-> walk[n]]

LastBkt(b) == Chain(b)[Len(Chain(b))]

\* search_and_update: the position of the key in bucket b, 0 when it has none.
\* The first entry whose signature matches and whose position holds the key
\* decides, and an empty entry refers to the dummy position 0.
SearchAndUpdate(k, b) ==
  LET match == {i \in Slots : sig_current[b][i] = Sig[k] /\ key_store[key_idx[b][i]] = k}
  IN IF match = {} THEN 0 ELSE key_idx[b][Min(match)]

\* Mutant: only bucket b is searched.
FoundInFirst(k, b, alt) == SearchAndUpdate(k, b) # 0

\* The key is in bucket b, or in alt or an extendable bucket linked to that.
Found(k, b, alt) ==
  SearchAndUpdate(k, b) # 0 \/ \E n \in DOMAIN Chain(alt) : SearchAndUpdate(k, Chain(alt)[n]) # 0

Exists(k) == Found(k, Prim[k], Sec(k))

Empty(b) == {i \in Slots : key_idx[b][i] = EMPTY_SLOT}

Go(w, at) == wr' = [wr EXCEPT ![w].at = at]
Return(w) == wr' = [wr EXCEPT ![w] = WriterIdle]
Unlocked == readwrite_lock = NoOne
Unlock == readwrite_lock' = NoOne

\* Mutant: the readers are not told of a move.
InformNobody == UNCHANGED tbl_chng_cnt

\* Lookups that miss look again when the table has changed since they began.
Inform == tbl_chng_cnt' = tbl_chng_cnt + 1

SetSig(b, i, s) == sig_current' = [sig_current EXCEPT ![b][i] = s]
SetIdx(b, i, p) == key_idx' = [key_idx EXCEPT ![b][i] = p]

\* enqueue_slot_back: a position that was not used after all.
EnqueueSlotBack(w, p) ==
  /\ local_free_slots' = IF h.use_local_cache
                           THEN [local_free_slots EXCEPT ![w] = Append(@, p)] ELSE local_free_slots
  /\ free_slots' = IF h.use_local_cache THEN free_slots ELSE Append(free_slots, p)

-----------------------------------------------------------------------------
(* rte_hash_add_key.  A step ends at a store that a reader can see, and     *)
(* where the lock is taken or given back.                                   *)

Add(w, k) ==
  /\ wr[w].at = "idle" /\ writes[w] > 0 /\ k \in h.adds[w]
  /\ writes' = [writes EXCEPT ![w] = @ - 1]
  /\ wr' = [wr EXCEPT ![w].at = "find", ![w].key = k]
  /\ UNCHANGED <<table, key_store, tbl_chng_cnt, pools, readwrite_lock, rd, unfreed, h, reads>>

\* Look for the key in both its places, under the lock.
AddFind(w) ==
  /\ wr[w].at = "find" /\ Unlocked
  /\ IF Exists(wr[w].key) THEN Return(w) ELSE Go(w, "alloc")
  /\ UNCHANGED <<table, key_store, tbl_chng_cnt, pools, readwrite_lock, rd, unfreed, bounds>>

\* alloc_slot, and the copy of the key to the position it gave.
AllocSlot(w) ==
  LET n == Min({CacheSize, Len(free_slots)})
      refill == h.use_local_cache /\ local_free_slots[w] = <<>>
      objs == IF refill THEN SubSeq(free_slots, 1, n) ELSE local_free_slots[w]
      slot == IF h.use_local_cache THEN objs[Len(objs)] ELSE free_slots[1]
  IN /\ wr[w].at = "alloc"
     /\ IF (IF h.use_local_cache THEN objs ELSE free_slots) = <<>>
          THEN Return(w) /\ UNCHANGED <<key_store, pools>>
          ELSE /\ wr' = [wr EXCEPT ![w].at = "insert", ![w].slot = slot]
               /\ key_store' = [key_store EXCEPT ![slot] = wr[w].key]
               /\ free_slots' = IF refill THEN SubSeq(free_slots, n + 1, Len(free_slots))
                                ELSE IF h.use_local_cache THEN free_slots ELSE Tail(free_slots)
               /\ local_free_slots' =
                    IF h.use_local_cache
                      THEN [local_free_slots EXCEPT ![w] = SubSeq(objs, 1, Len(objs) - 1)]
                      ELSE local_free_slots
               /\ UNCHANGED <<free_ext_bkts, ext_bkt_to_free>>
     /\ UNCHANGED <<table, tbl_chng_cnt, readwrite_lock, rd, unfreed, bounds>>

\* Another writer has added the key meanwhile: the position is not needed.
Duplicate(w) ==
  /\ EnqueueSlotBack(w, wr[w].slot)
  /\ Return(w)
  /\ UNCHANGED <<table, free_ext_bkts, ext_bkt_to_free, readwrite_lock>>

\* The signature goes into entry i of bucket b; the lock is kept for Publish.
Fill(w, b, i) ==
  /\ SetSig(b, i, Sig[wr[w].key])
  /\ wr' = [wr EXCEPT ![w].at = "publish", ![w].bkt = b, ![w].pos = i]
  /\ readwrite_lock' = w
  /\ UNCHANGED <<key_idx, bkt_next, pools>>

\* The search starts from bucket b, the primary or the second one.
SearchFrom(w, b, second) ==
  wr' = [wr EXCEPT ![w].at = "bfs", ![w].home = b, ![w].second = second, ![w].tail = 1, ![w].i = 1,
                   ![w].queue = <<[bkt |-> b, prev |-> 0, prev_slot |-> 1]>>]

\* rte_hash_cuckoo_insert_mw.
InsertMw(w) ==
  LET k == wr[w].key
      prim == Prim[k]
  IN /\ wr[w].at = "insert" /\ Unlocked
     /\ \/ Exists(k) /\ Duplicate(w)
        \/ ~Exists(k) /\ Empty(prim) # {} /\ Fill(w, prim, Min(Empty(prim)))
        \/ ~Exists(k) /\ Empty(prim) = {} /\ SearchFrom(w, prim, FALSE) /\ UNCHANGED <<table, pools, readwrite_lock>>
     /\ UNCHANGED <<key_store, tbl_chng_cnt, rd, unfreed, bounds>>

\* The position goes into the entry that was filled: readers find the key.
Publish(w) ==
  /\ wr[w].at = "publish"
  /\ SetIdx(wr[w].bkt, wr[w].pos, wr[w].slot)
  /\ Unlock /\ Return(w)
  /\ UNCHANGED <<sig_current, bkt_next, key_store, tbl_chng_cnt, pools, rd, unfreed, bounds>>

-----------------------------------------------------------------------------
(* rte_hash_cuckoo_make_space_mw: a breadth-first search, without the lock,  *)
(* for an empty entry; then the entries on the path to it move one by one.   *)

\* What follows a search that found no way: the same from the secondary
\* bucket, and then the extendable buckets or, without them, failure.
SearchFails(w) ==
  LET k == wr[w].key
  IN \/ ~wr[w].second /\ SearchFrom(w, Sec(k), TRUE) /\ UNCHANGED pools
     \/ wr[w].second /\ h.ext_table_support /\ Go(w, "ext") /\ UNCHANGED pools
     \/ wr[w].second /\ ~h.ext_table_support /\ EnqueueSlotBack(w, wr[w].slot) /\ Return(w)
        /\ UNCHANGED <<free_ext_bkts, ext_bkt_to_free>>

\* One entry of the bucket at the tail of the queue.
BfsEntry(w) ==
  LET queue == wr[w].queue
  IN /\ wr[w].at = "bfs"
     /\ IF wr[w].i = 1 /\ ~(wr[w].tail <= Len(queue) /\ Len(queue) < BfsMax - Entries)
          THEN SearchFails(w)
          ELSE /\ Go(w, IF key_idx[queue[wr[w].tail].bkt][wr[w].i] = EMPTY_SLOT THEN "move" ELSE "node")
               /\ UNCHANGED pools
     /\ UNCHANGED <<table, key_store, tbl_chng_cnt, readwrite_lock, rd, unfreed, bounds>>

\* The entry could move to its other bucket: enqueue that.
BfsNode(w) ==
  LET l == wr[w]
      b == l.queue[l.tail].bkt
      node == [bkt |-> get_alt_bucket_index(b, sig_current[b][l.i]), prev |-> l.tail, prev_slot |-> l.i]
  IN /\ l.at = "node"
     /\ wr' = [wr EXCEPT ![w].at = "bfs", ![w].queue = Append(@, node),
                         ![w].i = IF l.i = Entries THEN 1 ELSE @ + 1,
                         ![w].tail = IF l.i = Entries THEN @ + 1 ELSE @]
     /\ UNCHANGED <<table, key_store, tbl_chng_cnt, pools, readwrite_lock, rd, unfreed, bounds>>

\* rte_hash_cuckoo_move_insert_mw, up to its loop: the entry is taken by
\* another writer, or the key is there, or the moves begin.  The secondary
\* and the primary bucket trade places when the search began at the former.
MoveBegin(w) ==
  LET l == wr[w]
      other == IF l.second THEN Prim[l.key] ELSE Sec(l.key)
      taken == key_idx[l.queue[l.tail].bkt][l.i] # EMPTY_SLOT
      there == Found(l.key, l.home, other)
  IN /\ l.at = "move" /\ Unlocked
     /\ \/ taken /\ Go(w, "node") /\ UNCHANGED <<table, pools, readwrite_lock>>
        \/ ~taken /\ there /\ Duplicate(w)
        \/ /\ ~taken /\ ~there
           /\ wr' = [wr EXCEPT ![w].at = "shift", ![w].node = l.tail, ![w].cslot = l.i]
           /\ readwrite_lock' = w
           /\ UNCHANGED <<table, pools>>
     /\ UNCHANGED <<key_store, tbl_chng_cnt, rd, unfreed, bounds>>

\* The node before the current one: its bucket, and the entry to be moved.
Prev(l) == l.queue[l.queue[l.node].prev]
PrevSlot(l) == l.queue[l.node].prev_slot

\* The head of the loop: the readers are informed of the previous move, unless
\* the entry to be moved has changed since the search.
Shift(w) ==
  LET l == wr[w]
      curr == l.queue[l.node].bkt
      done == l.queue[l.node].prev = 0
      valid == IF done THEN TRUE
               ELSE get_alt_bucket_index(Prev(l).bkt, sig_current[Prev(l).bkt][PrevSlot(l)]) = curr
  IN /\ l.at = "shift"
     /\ \/ /\ valid
           /\ Inform
           /\ Go(w, IF done THEN "place" ELSE "movesig")
           /\ UNCHANGED <<key_idx, readwrite_lock>>
        \/ /\ ~valid
           /\ SetIdx(curr, l.cslot, EMPTY_SLOT)
           /\ Unlock /\ Go(w, "node")
           /\ UNCHANGED tbl_chng_cnt
     /\ UNCHANGED <<sig_current, bkt_next, key_store, pools, rd, unfreed, bounds>>

MoveSig(w) ==
  LET l == wr[w]
  IN /\ l.at = "movesig"
     /\ SetSig(l.queue[l.node].bkt, l.cslot, sig_current[Prev(l).bkt][PrevSlot(l)])
     /\ Go(w, "moveidx")
     /\ UNCHANGED <<key_idx, bkt_next, key_store, tbl_chng_cnt, pools, readwrite_lock, rd, unfreed, bounds>>

MoveIdx(w) ==
  LET l == wr[w]
  IN /\ l.at = "moveidx"
     /\ SetIdx(l.queue[l.node].bkt, l.cslot, key_idx[Prev(l).bkt][PrevSlot(l)])
     /\ wr' = [wr EXCEPT ![w].at = "shift", ![w].node = l.queue[l.node].prev, ![w].cslot = PrevSlot(l)]
     /\ UNCHANGED <<sig_current, bkt_next, key_store, tbl_chng_cnt, pools, readwrite_lock, rd, unfreed, bounds>>

\* The head of the path is free for the new key.
Place(w) ==
  /\ wr[w].at = "place"
  /\ Fill(w, wr[w].queue[wr[w].node].bkt, wr[w].cslot)
  /\ UNCHANGED <<key_store, tbl_chng_cnt, rd, unfreed, bounds>>

\* rte_ring_sc_dequeue_elem, under the lock: the oldest of the free buckets or 0.
FirstExt ==
  IF free_ext_bkts.cons = free_ext_bkts.prod_tail THEN 0
  ELSE free_ext_bkts.ring[free_ext_bkts.cons % ExtRing]

DequeueExt ==
  free_ext_bkts' = IF free_ext_bkts.cons = free_ext_bkts.prod_tail THEN free_ext_bkts
                   ELSE [free_ext_bkts EXCEPT !.cons = @ + 1]

\* The extendable buckets: an empty entry in the secondary bucket or one linked
\* to it, or a bucket from the free ones, which is filled and then linked.
InsertExt(w) ==
  LET l == wr[w]
      chain == Chain(Sec(l.key))
      room == {n \in DOMAIN chain : Empty(chain[n]) # {}}
      b == chain[Min(room)]
      ext == ExtBkt(FirstExt)
  IN /\ l.at = "ext" /\ Unlocked
     /\ \/ Exists(l.key) /\ Duplicate(w)
        \/ ~Exists(l.key) /\ room # {} /\ Fill(w, b, Min(Empty(b)))
        \/ /\ ~Exists(l.key) /\ room = {} /\ FirstExt = 0
           /\ DequeueExt
           /\ Return(w)
           /\ UNCHANGED <<table, free_slots, local_free_slots, ext_bkt_to_free, readwrite_lock>>
        \/ /\ ~Exists(l.key) /\ room = {} /\ FirstExt # 0
           /\ DequeueExt
           /\ SetSig(ext, 1, Sig[l.key]) /\ SetIdx(ext, 1, l.slot)
           /\ wr' = [wr EXCEPT ![w].at = "link", ![w].bkt = ext]
           /\ readwrite_lock' = w
           /\ UNCHANGED <<bkt_next, free_slots, local_free_slots, ext_bkt_to_free>>
     /\ UNCHANGED <<key_store, tbl_chng_cnt, rd, unfreed, bounds>>

LinkExt(w) ==
  /\ wr[w].at = "link"
  /\ bkt_next' = [bkt_next EXCEPT ![LastBkt(Sec(wr[w].key))] = wr[w].bkt]
  /\ Unlock /\ Return(w)
  /\ UNCHANGED <<sig_current, key_idx, key_store, tbl_chng_cnt, pools, rd, unfreed, bounds>>

-----------------------------------------------------------------------------
(* rte_hash_del_key.                                                        *)

Del(w, k) ==
  /\ wr[w].at = "idle" /\ writes[w] > 0
  /\ writes' = [writes EXCEPT ![w] = @ - 1]
  /\ wr' = [wr EXCEPT ![w].at = "remove", ![w].key = k]
  /\ UNCHANGED <<table, key_store, tbl_chng_cnt, pools, readwrite_lock, rd, unfreed, h, reads>>

\* Where search_and_remove finds the key in bucket b.
Holding(k, b) ==
  {i \in Slots : /\ sig_current[b][i] = Sig[k] /\ key_idx[b][i] # EMPTY_SLOT
                 /\ key_store[key_idx[b][i]] = k}

\* Readers no longer match the entry; start is the bucket its list begins with.
SearchAndRemove(w) ==
  LET k == wr[w].key
      homes == <<Prim[k]>> \o Chain(Sec(k))
      at == {n \in DOMAIN homes : Holding(k, homes[n]) # {}}
      n == Min(at)
      b == homes[n]
      i == Min(Holding(k, b))
  IN /\ wr[w].at = "remove" /\ Unlocked
     /\ \/ at = {} /\ Return(w) /\ UNCHANGED <<sig_current, readwrite_lock>>
        \/ /\ at # {}
           /\ SetSig(b, i, NULL_SIGNATURE)
           /\ wr' = [wr EXCEPT ![w].at = "clear", ![w].bkt = b, ![w].pos = i, ![w].slot = key_idx[b][i],
                               ![w].start = IF n = 1 THEN b ELSE Sec(k)]
           /\ readwrite_lock' = w
     /\ UNCHANGED <<key_idx, bkt_next, key_store, tbl_chng_cnt, pools, rd, unfreed, bounds>>

ClearEntry(w) ==
  LET l == wr[w]
      last == LastBkt(l.bkt)
      full == Slots \ Empty(last)
  IN /\ l.at = "clear"
     /\ SetIdx(l.bkt, l.pos, EMPTY_SLOT)
     /\ IF bkt_next[l.bkt] # Nil /\ full # {}
          THEN wr' = [wr EXCEPT ![w].at = "compact", ![w].last = last, ![w].j = Max(full)]
          ELSE Go(w, "unlink")
     /\ UNCHANGED <<sig_current, bkt_next, key_store, tbl_chng_cnt, pools, readwrite_lock, rd, unfreed, bounds>>

\* __rte_hash_compact_ll: the last entry of the list moves to the empty one.
CompactSig(w) ==
  LET l == wr[w]
  IN /\ l.at = "compact"
     /\ SetSig(l.bkt, l.pos, sig_current[l.last][l.j])
     /\ Go(w, "compactidx")
     /\ UNCHANGED <<key_idx, bkt_next, key_store, tbl_chng_cnt, pools, readwrite_lock, rd, unfreed, bounds>>

CompactIdx(w) ==
  LET l == wr[w]
  IN /\ l.at = "compactidx"
     /\ SetIdx(l.bkt, l.pos, key_idx[l.last][l.j])
     /\ Go(w, "inform")
     /\ UNCHANGED <<sig_current, bkt_next, key_store, tbl_chng_cnt, pools, readwrite_lock, rd, unfreed, bounds>>

CompactInform(w) ==
  /\ wr[w].at = "inform"
  /\ Inform
  /\ Go(w, "lastsig")
  /\ UNCHANGED <<table, key_store, pools, readwrite_lock, rd, unfreed, bounds>>

CompactLastSig(w) ==
  /\ wr[w].at = "lastsig"
  /\ SetSig(wr[w].last, wr[w].j, NULL_SIGNATURE)
  /\ Go(w, "lastidx")
  /\ UNCHANGED <<key_idx, bkt_next, key_store, tbl_chng_cnt, pools, readwrite_lock, rd, unfreed, bounds>>

CompactLastIdx(w) ==
  /\ wr[w].at = "lastidx"
  /\ SetIdx(wr[w].last, wr[w].j, EMPTY_SLOT)
  /\ Go(w, "unlink")
  /\ UNCHANGED <<sig_current, bkt_next, key_store, tbl_chng_cnt, pools, readwrite_lock, rd, unfreed, bounds>>

Busy == {r \in HReaders : rd[r].at # "idle"}

\* return_bkt: an extendable bucket that has become empty leaves its list, to be
\* freed together with the position, which the call returns.
Unlink(w) ==
  LET l == wr[w]
      chain == Chain(l.start)
      last == chain[Len(chain)]
      recycle == Len(chain) > 1 /\ Empty(last) = Slots
  IN /\ l.at = "unlink"
     /\ bkt_next' = IF recycle THEN [bkt_next EXCEPT ![chain[Len(chain) - 1]] = Nil] ELSE bkt_next
     /\ ext_bkt_to_free' =
          IF recycle THEN [ext_bkt_to_free EXCEPT ![l.slot] = last - HashBuckets + 1] ELSE ext_bkt_to_free
     /\ unfreed' = unfreed \cup {[pos |-> l.slot, readers |-> Busy]}
     /\ Unlock /\ Return(w)
     /\ UNCHANGED <<sig_current, key_idx, key_store, tbl_chng_cnt, free_slots, local_free_slots,
                    free_ext_bkts, rd, bounds>>

-----------------------------------------------------------------------------
(* rte_hash_free_key_with_position, which the application calls when the     *)
(* lookups that were under way at the deletion have returned.  It takes no   *)
(* lock.                                                                     *)

\* Is an extendable bucket to be freed as well?  If so, rte_ring_sp_enqueue_elem
\* has read prod.head; the ring has room for all of them.
FreeKey(w, d) ==
  LET e == IF h.ext_table_support THEN ext_bkt_to_free[d.pos] ELSE 0
  IN /\ wr[w].at = "idle" /\ h.writes[w] > 0
     /\ d.readers = {}
     /\ wr' = IF e = 0 THEN [wr EXCEPT ![w].at = "free", ![w].slot = d.pos]
              ELSE [wr EXCEPT ![w].at = "head", ![w].slot = d.pos, ![w].bkt = e,
                              ![w].last = free_ext_bkts.prod_head]
     /\ unfreed' = unfreed \ {d}
     /\ UNCHANGED <<table, key_store, tbl_chng_cnt, pools, readwrite_lock, rd, bounds>>

\* Its stores, which nothing keeps apart from those of another thread: the head,
\* the element and the tail.
EnqueueExt(w) ==
  LET l == wr[w]
  IN /\ \/ l.at = "head" /\ Go(w, "elem") /\ free_ext_bkts' = [free_ext_bkts EXCEPT !.prod_head = l.last + 1]
        \/ l.at = "elem" /\ Go(w, "tail") /\ free_ext_bkts' = [free_ext_bkts EXCEPT !.ring[l.last % ExtRing] = l.bkt]
        \/ l.at = "tail" /\ Go(w, "recycled") /\ free_ext_bkts' = [free_ext_bkts EXCEPT !.prod_tail = l.last + 1]
     /\ UNCHANGED <<table, key_store, tbl_chng_cnt, free_slots, local_free_slots, ext_bkt_to_free,
                    readwrite_lock, rd, unfreed, bounds>>

\* The bucket may be in use again before the entry that named it is cleared.
Recycled(w) ==
  /\ wr[w].at = "recycled"
  /\ ext_bkt_to_free' = [ext_bkt_to_free EXCEPT ![wr[w].slot] = 0]
  /\ Go(w, "free")
  /\ UNCHANGED <<table, key_store, tbl_chng_cnt, free_slots, local_free_slots, free_ext_bkts,
                 readwrite_lock, rd, unfreed, bounds>>

\* free_slot: a cache that is full is emptied into the ring first.
FreeSlot(w) ==
  LET full == h.use_local_cache /\ Len(local_free_slots[w]) = CacheSize
      p == wr[w].slot
  IN /\ wr[w].at = "free"
     /\ free_slots' = IF full THEN free_slots \o local_free_slots[w]
                      ELSE IF h.use_local_cache THEN free_slots ELSE Append(free_slots, p)
     /\ local_free_slots' =
          IF h.use_local_cache
            THEN [local_free_slots EXCEPT ![w] = Append(IF full THEN <<>> ELSE @, p)]
            ELSE local_free_slots
     /\ Return(w)
     /\ UNCHANGED <<table, key_store, tbl_chng_cnt, free_ext_bkts, ext_bkt_to_free, readwrite_lock,
                    rd, unfreed, bounds>>

\* rte_hash_reset, which the application calls while no one uses the table.
Reset(w) ==
  /\ Busy = {} /\ \A v \in HWriters : wr[v].at = "idle"
  /\ FreedFirst => unfreed = {}
  /\ writes[w] > 0
  /\ writes' = [writes EXCEPT ![w] = @ - 1]
  /\ sig_current' = [b \in Bkts |-> [i \in Slots |-> NULL_SIGNATURE]]
  /\ key_idx' = [b \in Bkts |-> [i \in Slots |-> EMPTY_SLOT]]
  /\ bkt_next' = [b \in Bkts |-> Nil]
  /\ key_store' = [p \in 0 .. NumSlots |-> ZeroKey]
  /\ tbl_chng_cnt' = 0
  /\ free_slots' = Ascending(NumSlots)
  /\ local_free_slots' = [v \in HWriters |-> <<>>]
  /\ free_ext_bkts' = AllExtBkts
  /\ unfreed' = {}
  /\ UNCHANGED <<ext_bkt_to_free, readwrite_lock, wr, rd, h, reads>>

-----------------------------------------------------------------------------
(* rte_hash_lookup, without a lock: __rte_hash_lookup_with_hash_lf, or       *)
(* __bulk_lookup_lf for one key.                                             *)

Lookup(r, k) ==
  /\ rd[r].at = "idle" /\ reads[r] > 0
  /\ reads' = [reads EXCEPT ![r] = @ - 1]
  /\ rd' = [rd EXCEPT ![r].at = "count", ![r].key = k]
  /\ UNCHANGED <<table, key_store, tbl_chng_cnt, pools, readwrite_lock, wr, unfreed, h, writes>>

\* cnt_b, and the primary bucket.
LookupCount(r) ==
  /\ rd[r].at = "count"
  /\ rd' = [rd EXCEPT ![r].at = IF h.bulk THEN "sigs" ELSE "sig", ![r].cnt_b = tbl_chng_cnt, ![r].bkt = Prim[rd[r].key],
                      ![r].first = TRUE, ![r].i = 1]

\* __bulk_lookup_lf first collects the entries of both buckets with the right
\* signature, and then looks into these.
Hits(k, b) == SetToSortSeq({<<b, i>> : i \in {j \in Slots : sig_current[b][j] = Sig[k]}}, LAMBDA x, y : x[2] < y[2])

NextHit(r, hits) ==
  rd' = IF hits = <<>>
          THEN [rd EXCEPT ![r].at = "next", ![r].bkt = Sec(rd[r].key), ![r].first = FALSE, ![r].i = 1]
          ELSE [rd EXCEPT ![r].at = "idx", ![r].bkt = Head(hits)[1], ![r].i = Head(hits)[2],
                          ![r].hits = Tail(hits)]

BulkPrim(r) ==
  /\ rd[r].at = "sigs"
  /\ rd' = [rd EXCEPT ![r].at = "sigs2", ![r].hits = Hits(rd[r].key, Prim[rd[r].key])]

BulkSec(r) ==
  /\ rd[r].at = "sigs2"
  /\ NextHit(r, rd[r].hits \o Hits(rd[r].key, Sec(rd[r].key)))

\* The next entry of the bucket, or what follows the last one.
NextEntry(r) ==
  rd' = [rd EXCEPT ![r].at = IF rd[r].i < Entries THEN "sig" ELSE "next",
                   ![r].i = IF rd[r].i < Entries THEN @ + 1 ELSE 1]

\* What follows an entry with the right signature that has another key.
AfterMiss(r) == IF h.bulk /\ rd[r].first THEN NextHit(r, rd[r].hits) ELSE NextEntry(r)

\* search_one_bucket_lf: the signature, then the position, then the key.
LookupSig(r) ==
  /\ rd[r].at = "sig"
  /\ IF sig_current[rd[r].bkt][rd[r].i] = Sig[rd[r].key]
       THEN rd' = [rd EXCEPT ![r].at = "idx"]
       ELSE NextEntry(r)

LookupIdx(r) ==
  LET p == key_idx[rd[r].bkt][rd[r].i]
  IN /\ rd[r].at = "idx"
     /\ IF p # EMPTY_SLOT
          THEN rd' = [rd EXCEPT ![r].at = "key", ![r].idx = p]
          ELSE AfterMiss(r)

LookupKey(r) ==
  /\ rd[r].at = "key"
  /\ IF key_store[rd[r].idx] = rd[r].key
       THEN rd' = [rd EXCEPT ![r].at = "answer"]
       ELSE AfterMiss(r)

\* The secondary bucket after the primary one, then those linked to it.
LookupNext(r) ==
  LET l == rd[r]
      b == IF l.first THEN Sec(l.key) ELSE bkt_next[l.bkt]
  IN /\ l.at = "next"
     /\ rd' = [rd EXCEPT ![r].at = IF b = Nil THEN "again" ELSE "sig",
                         ![r].bkt = IF b = Nil THEN @ ELSE b, ![r].first = FALSE]

\* cnt_a: the search is repeated when the table has changed.
LookupAgain(r) ==
  /\ rd[r].at = "again"
  /\ rd' = IF tbl_chng_cnt = rd[r].cnt_b
             THEN [rd EXCEPT ![r].at = "answer", ![r].idx = 0]
             ELSE [rd EXCEPT ![r].at = "count"]

\* The call has returned idx, 0 for -ENOENT, and the reader forgets it.
LookupReturn(r) ==
  /\ rd[r].at = "answer"
  /\ rd' = [rd EXCEPT ![r] = ReaderIdle]
  /\ unfreed' = {[d EXCEPT !.readers = @ \ {r}] : d \in unfreed}
  /\ UNCHANGED <<table, key_store, tbl_chng_cnt, pools, readwrite_lock, wr, bounds>>

ReaderStep(r) ==
  \/ /\ LookupCount(r) \/ BulkPrim(r) \/ BulkSec(r)
        \/ LookupSig(r) \/ LookupIdx(r) \/ LookupKey(r) \/ LookupNext(r) \/ LookupAgain(r)
     /\ UNCHANGED <<table, key_store, tbl_chng_cnt, pools, readwrite_lock, wr, unfreed, bounds>>
  \/ LookupReturn(r)

WriterStep(w) ==
  \/ AddFind(w) \/ AllocSlot(w) \/ InsertMw(w) \/ Publish(w)
  \/ BfsEntry(w) \/ BfsNode(w) \/ MoveBegin(w) \/ Shift(w) \/ MoveSig(w) \/ MoveIdx(w) \/ Place(w)
  \/ InsertExt(w) \/ LinkExt(w)
  \/ SearchAndRemove(w) \/ ClearEntry(w) \/ Unlink(w)
  \/ CompactSig(w) \/ CompactIdx(w) \/ CompactInform(w) \/ CompactLastSig(w) \/ CompactLastIdx(w)
  \/ EnqueueExt(w) \/ Recycled(w) \/ FreeSlot(w)

\* The positions at which a search of the table as it is finds key k.
Positions(k) ==
  LET b == {Prim[k]} \cup {Chain(Sec(k))[n] : n \in DOMAIN Chain(Sec(k))}
  IN UNION {{key_idx[x][i] : i \in Holding(k, x)} : x \in b}

Answers(r) == IF Positions(rd[r].key) = {} THEN {0} ELSE Positions(rd[r].key)

\* The history variable: what has been the right answer so far.
Watch == seen' = [r \in HReaders |-> IF rd'[r].at = "idle" THEN {} ELSE seen[r] \cup Answers(r)']

Updates(w) == (\E k \in HKeys : Add(w, k) \/ Del(w, k)) \/ (\E d \in unfreed : FreeKey(w, d)) \/ Reset(w)

HashNext ==
  /\ \/ \E w \in HWriters : Updates(w) \/ WriterStep(w)
     \/ \E r \in HReaders : (\E k \in Sought : Lookup(r, k)) \/ ReaderStep(r)
  /\ Watch

HashSpec == HashInit /\ [][HashNext]_hashvars

-----------------------------------------------------------------------------
\* A lookup answers what was true at some moment of the call: the position
\* where the key was then, or that it was not in the table.  A key that is in
\* the table all the time is found, however it is moved meanwhile.
LookupRight == \A r \in HReaders : rd[r].at = "answer" => rd[r].idx \in seen[r]

Everywhere == {<<b, i>> \in Bkts \X Slots : key_idx[b][i] # EMPTY_SLOT}
Count(s, x) == Cardinality({n \in DOMAIN s : s[n] = x})

\* "This value is unique for this key": no key has two entries.  It is looked at
\* between the calls that hold the lock.
OneEntry ==
  Unlocked =>
    \A x, y \in Everywhere : key_store[key_idx[x[1]][x[2]]] = key_store[key_idx[y[1]][y[2]]] => x = y

\* The positions whose entry of ext_bkt_to_free is about to be cleared.
Clearing == {wr[w].slot : w \in {v \in HWriters : wr[v].at = "recycled"}}
FreeExtBkts == free_ext_bkts.cons .. free_ext_bkts.prod_tail - 1

\* No key has two entries, and no position and no extendable bucket two uses,
\* freed ones and those that a call is about to free included, in the uses that
\* Uses names.  Three others are left out, for the code does not promise it
\* there: a key of zeros whose signature is 0, which matches every empty entry
\* (ZeroKey is no key); a reset before all deleted positions are freed
\* (FreedFirst); and writers that add the same key to a table with extendable
\* buckets while another deletes (UsesExt of MCHash, which OneEntry is about).
KeysOnce ==
  /\ OneEntry
  /\ Unlocked =>
       /\ \A p \in 1 .. NumSlots :
            Cardinality({x \in Everywhere : key_idx[x[1]][x[2]] = p}) + Count(free_slots, p)
            + MapThenSumSet(LAMBDA w : Count(local_free_slots[w], p), HWriters)
            + Cardinality({d \in unfreed : d.pos = p})
            + Cardinality({w \in HWriters : wr[w].slot = p}) <= 1
       /\ \A e \in 1 .. NumExt :
            Cardinality({b \in Bkts : bkt_next[b] = ExtBkt(e)})
            + Cardinality({n \in FreeExtBkts : free_ext_bkts.ring[n % ExtRing] = e})
            + Cardinality({p \in (1 .. NumSlots) \ Clearing : ext_bkt_to_free[p] = e}) <= 1
=============================================================================
