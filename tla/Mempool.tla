------------------------------ MODULE Mempool ------------------------------
(***************************************************************************)
(* The object cache that every lcore keeps in front of a memory pool       *)
(* (lib/mempool/rte_mempool.h) and two of the handlers behind it: a ring   *)
(* of objects (drivers/mempool/ring), and buckets of contiguous objects    *)
(* (drivers/mempool/bucket).  A cache belongs to its lcore; the lcores     *)
(* meet in the rings, whose operations are atomic and take all of their    *)
(* objects or none (module Ring).                                          *)
(***************************************************************************)
EXTENDS Integers, Sequences, FiniteSets, SequencesExt, FiniteSetsExt

CONSTANTS
  Lcores, LCORE_ID_ANY,
  Handlers,      \* those to check, of "ring" and "bucket"
  CacheSize,     \* cache->size
  NumBuckets,    \* the pool has room for this many buckets ...
  ObjPerBucket,  \* ... of this many objects
  MaxReq,        \* the largest request
  MaxPoolCalls   \* calls altogether

ASSUME PoolSizes ==
  /\ Handlers \subseteq {"ring", "bucket"}
  /\ LCORE_ID_ANY \notin Lcores
  /\ {NumBuckets, ObjPerBucket, MaxReq} \subseteq Nat \ {0}
  /\ CacheSize \in 0 .. NumBuckets * ObjPerBucket
  /\ MaxPoolCalls \in Nat

Half == CacheSize \div 2
NumObjs == NumBuckets * ObjPerBucket
PoolObj == 1 .. NumObjs
Bucket == 1 .. NumBuckets
BucketOf(o) == (o - 1) \div ObjPerBucket + 1
ObjsOf(b) == [i \in 1 .. ObjPerBucket |-> (b - 1) * ObjPerBucket + i]

VARIABLES
  handler,
  app,       \* the objects the application holds, on whichever lcore
  cache,     \* by lcore: the first len entries of cache->objs
  common,    \* ring handler: the objects in the ring
  hdr,       \* bucket handler, by bucket: lcore_id and fill_cnt, a uint8_t
  stack,     \* by lcore: buckets[lcore_id]
  bring,     \* shared_bucket_ring
  orphans,   \* shared_orphan_ring
  adoption,  \* by lcore: adoption_buffer_rings[lcore_id]
  at, me,    \* by lcore: where it is, and its local variables
  poolCalls

shared == <<common, hdr, stack, bring, orphans, adoption>>
poolvars == <<handler, app, cache, shared, at, me, poolCalls>>

\* n, remaining and obj_table of a get; into is the array the handler writes
\* to, want how much it is asked for, got what it has written there, index by
\* index; put is what is still to be enqueued, and top the depth of the stack
\* seen by dequeue_contig_blocks.
AtRest == [n |-> 0, remaining |-> 0, table |-> <<>>, into |-> "table", want |-> 0,
         got |-> <<>>, put |-> <<>>, top |-> 0]

\* rte_align32pow2, and what rte_ring_create leaves usable of it.
BucketRingSize ==
  LET least == (NumObjs + 1) \div ObjPerBucket
  IN  Min({2 ^ k : k \in {k \in 0 .. least : 2 ^ k >= least}})

\* bucket_populate: every object is enqueued under LCORE_ID_ANY, so each full
\* bucket goes to the shared ring if there is room.
PoolInit ==
  /\ handler \in Handlers
  /\ app = {}
  /\ cache = [l \in Lcores |-> <<>>]
  /\ common = IF handler = "ring" THEN [o \in PoolObj |-> o] ELSE <<>>
  /\ hdr = [b \in Bucket |-> [lcore |-> LCORE_ID_ANY, fill |-> 0]]
  /\ stack = [l \in Lcores |-> <<>>]
  /\ bring = IF handler = "ring" THEN <<>>
             ELSE [b \in 1 .. Min({NumBuckets, BucketRingSize - 1}) |-> b]
  /\ orphans = <<>>
  /\ adoption = [l \in Lcores |-> <<>>]
  /\ at = [l \in Lcores |-> "idle"]
  /\ me = [l \in Lcores |-> AtRest]
  /\ poolCalls = 0

Go(l, where, rec) == at' = [at EXCEPT ![l] = where] /\ me' = [me EXCEPT ![l] = rec]
Rest(l) == Go(l, "idle", AtRest)

NewCall(l) ==
  /\ at[l] = "idle" /\ poolCalls < MaxPoolCalls
  /\ poolCalls' = poolCalls + 1
  /\ UNCHANGED handler

Keep == UNCHANGED <<handler, poolCalls>>

-----------------------------------------------------------------------------
\* Putting objects into the pool.

\* rte_mempool_do_generic_put, as far as the cache goes; what is flushed from
\* the bottom of the cache, or does not fit in it, goes to the handler.
Put(c, objs) ==
  CASE Len(c) + Len(objs) <= CacheSize -> [cache |-> c \o objs, out |-> <<>>]
    [] Len(c) + Len(objs) > CacheSize /\ Len(objs) <= Half ->
         [cache |-> SubSeq(c, Half + 1, Len(c)) \o objs, out |-> SubSeq(c, 1, Half)]
    [] Len(c) + Len(objs) > CacheSize /\ Len(objs) > Half -> [cache |-> c, out |-> objs]

\* rte_mempool_generic_put of any objects, wherever they were obtained.
PutCall(l, objs) ==
  LET after == Put(cache[l], objs)
  IN  /\ NewCall(l)
      /\ app' = app \ Range(objs)
      /\ cache' = [cache EXCEPT ![l] = after.cache]
      /\ IF after.out = <<>> THEN Rest(l) ELSE Go(l, "enqueue", [AtRest EXCEPT !.put = after.out])
      /\ UNCHANGED shared

\* rte_mempool_cache_flush.
FlushCall(l) ==
  /\ NewCall(l)
  /\ cache[l] # <<>>
  /\ cache' = [cache EXCEPT ![l] = <<>>]
  /\ Go(l, "enqueue", [AtRest EXCEPT !.put = cache[l]])
  /\ UNCHANGED <<app, shared>>

\* common_ring_mp_enqueue: the ring holds every object of the pool.
RingEnqueue(l) ==
  /\ handler = "ring" /\ at[l] = "enqueue"
  /\ common' = common \o me[l].put
  /\ Rest(l)
  /\ Keep /\ UNCHANGED <<app, cache, hdr, stack, bring, orphans, adoption>>

\* bucket_enqueue_single on lcore l: the object goes to its bucket, which moves
\* to the lcore's stack when this was its last object, or to the lcore that
\* owns the bucket.  After bucket_populate no bucket in use is under
\* LCORE_ID_ANY.
Single(l, o, h, s, a) ==
  LET b == BucketOf(o)
      full == h[b].fill >= ObjPerBucket - 1
  IN  IF h[b].lcore # l
        THEN [hdr |-> h, stack |-> s, adoption |-> [a EXCEPT ![h[b].lcore] = Append(@, o)]]
        ELSE [hdr |-> [h EXCEPT ![b].fill = IF full THEN 0 ELSE (@ + 1) % 2 ^ 8],
              stack |-> IF full THEN [s EXCEPT ![l] = Append(@, b)] ELSE s, adoption |-> a]

EnqueueSingle(l, o) ==
  LET r == Single(l, o, hdr, stack, adoption)
  IN  hdr' = r.hdr /\ stack' = r.stack /\ adoption' = r.adoption

\* One round of bucket_enqueue.  The stack never outgrows bucket_stack_thresh,
\* which is at least the number of buckets.
BucketEnqueue(l) ==
  /\ handler = "bucket" /\ at[l] = "enqueue"
  /\ EnqueueSingle(l, Head(me[l].put))
  /\ IF Len(me[l].put) = 1 THEN Rest(l) ELSE Go(l, "enqueue", [me[l] EXCEPT !.put = Tail(@)])
  /\ Keep /\ UNCHANGED <<app, cache, common, bring, orphans>>

-----------------------------------------------------------------------------
\* Getting objects from the pool.

\* rte_mempool_do_generic_get: from the cache if that has enough.  Otherwise
\* the cache is emptied into obj_table (cache->objs keeps its contents, which
\* the variable still shows), and the rest is asked of the handler: Half
\* objects for the cache, or what remains for obj_table.
GetCached(l, n) ==
  /\ NewCall(l)
  /\ n <= Len(cache[l])
  /\ app' = app \union Range(SubSeq(cache[l], Len(cache[l]) - n + 1, Len(cache[l])))
  /\ cache' = [cache EXCEPT ![l] = SubSeq(@, 1, Len(@) - n)]
  /\ UNCHANGED <<shared, at, me>>

Request(l, n, into, want) ==
  Go(l, IF handler = "ring" THEN "dequeue" ELSE "adopt",
     [AtRest EXCEPT !.n = n, !.remaining = n - Len(cache[l]), !.table = Reverse(cache[l]),
                    !.into = into, !.want = want])

GetMore(l, n) ==
  LET remaining == n - Len(cache[l])
  IN  /\ NewCall(l)
      /\ n > Len(cache[l])
      /\ IF remaining > Half THEN Request(l, n, "table", remaining) ELSE Request(l, n, "cache", Half)
      /\ UNCHANGED <<app, cache, shared>>

\* The handler delivered objs, which the get returns with those it had; what
\* remains of a refill stays in the cache.
Delivered(l, objs) ==
  LET left == IF me[l].into = "cache" THEN Half - me[l].remaining ELSE 0
  IN  /\ app' = app \union Range(me[l].table) \union Range(SubSeq(objs, left + 1, Len(objs)))
      /\ cache' = [cache EXCEPT ![l] = SubSeq(objs, 1, left)]
      /\ Rest(l)

\* The handler failed after it had written me[l].got.  A refill that fails is
\* followed by a request for what remains only; when that fails too, the cache
\* gets its length back.
Scribbled(c, got) == [i \in DOMAIN c |-> IF i \in DOMAIN got THEN got[i] ELSE c[i]]

RefusedForgets(l, got) ==
  IF me[l].into = "cache"
    THEN /\ cache' = [cache EXCEPT ![l] = Scribbled(@, got)]
         /\ Go(l, IF handler = "ring" THEN "dequeue" ELSE "adopt",
               [me[l] EXCEPT !.into = "table", !.want = me[l].remaining, !.got = <<>>])
    ELSE cache' = [cache EXCEPT ![l] = <<>>] /\ Rest(l)

Refused(l, got) ==
  IF me[l].into = "cache"
    THEN /\ cache' = [cache EXCEPT ![l] = Scribbled(@, got)]
         /\ Go(l, IF handler = "ring" THEN "dequeue" ELSE "adopt",
               [me[l] EXCEPT !.into = "table", !.want = me[l].remaining, !.got = <<>>])
    ELSE UNCHANGED cache /\ Rest(l)

\* common_ring_mc_dequeue.
RingDequeue(l) ==
  /\ handler = "ring" /\ at[l] = "dequeue"
  /\ Len(common) >= me[l].want
  /\ common' = SubSeq(common, me[l].want + 1, Len(common))
  /\ Delivered(l, SubSeq(common, 1, me[l].want))
  /\ Keep /\ UNCHANGED <<hdr, stack, bring, orphans, adoption>>

RingShort(l) ==
  /\ handler = "ring" /\ at[l] = "dequeue"
  /\ Len(common) < me[l].want
  /\ Refused(l, <<>>)
  /\ Keep /\ UNCHANGED <<app, shared>>

-----------------------------------------------------------------------------
\* The bucket handler's dequeue.

Whole(l) == me[l].want \div ObjPerBucket
Odd(l) == me[l].want % ObjPerBucket

\* got with the objects objs written from index i on.
Written(got, i, objs) == [k \in i .. i + Len(objs) - 1 |-> objs[k - i + 1]] @@ got

\* bucket_adopt_orphans takes back the objects that other lcores freed.
Adopt(l) ==
  LET r == Single(l, Head(adoption[l]), hdr, stack, [adoption EXCEPT ![l] = Tail(@)])
  IN  /\ at[l] = "adopt" /\ adoption[l] # <<>>
      /\ hdr' = r.hdr /\ stack' = r.stack /\ adoption' = r.adoption
      /\ Keep /\ UNCHANGED <<app, cache, common, bring, orphans, at, me>>

AdoptDone(l) ==
  /\ at[l] = "adopt" /\ adoption[l] = <<>>
  /\ at' = [at EXCEPT ![l] = CASE me[l].into = "blocks" -> "blocks"
                               [] me[l].into # "blocks" /\ Odd(l) > 0 -> "orphans"
                               [] me[l].into # "blocks" /\ Odd(l) = 0 -> "buckets"]
  /\ Keep /\ UNCHANGED <<app, cache, shared, me>>

\* bucket_dequeue once the objects that fill no bucket are there.
OddDone(l, got) ==
  IF Whole(l) > 0 THEN Go(l, "buckets", [me[l] EXCEPT !.got = got, !.put = <<>>]) /\ UNCHANGED <<app, cache>>
  ELSE Delivered(l, got)

\* bucket_dequeue_orphans: from the shared ring of orphans ...
Orphans(l) ==
  /\ at[l] = "orphans" /\ Len(orphans) >= Odd(l)
  /\ orphans' = SubSeq(orphans, Odd(l) + 1, Len(orphans))
  /\ OddDone(l, Written(me[l].got, Whole(l) * ObjPerBucket + 1, SubSeq(orphans, 1, Odd(l))))
  /\ Keep /\ UNCHANGED <<common, hdr, stack, bring, adoption>>

NoOrphans(l) ==
  /\ at[l] = "orphans" /\ Len(orphans) < Odd(l)
  /\ Go(l, "split", me[l])
  /\ Keep /\ UNCHANGED <<app, cache, shared>>

\* ... or from a bucket, of the lcore's own or a shared one, whose other
\* objects become orphans.
Split(l) ==
  LET own == stack[l] # <<>>
      b == IF own THEN Last(stack[l]) ELSE Head(bring)
      objs == ObjsOf(b)
  IN  /\ at[l] = "split" /\ (own \/ bring # <<>>)
      /\ stack' = IF own THEN [stack EXCEPT ![l] = Front(@)] ELSE stack
      /\ bring' = IF own THEN bring ELSE Tail(bring)
      /\ hdr' = [hdr EXCEPT ![b] = [lcore |-> l, fill |-> 0]]
      /\ Go(l, "spill",
            [me[l] EXCEPT !.got = Written(@, Whole(l) * ObjPerBucket + 1, SubSeq(objs, 1, Odd(l))),
                          !.put = SubSeq(objs, Odd(l) + 1, ObjPerBucket)])
      /\ Keep /\ UNCHANGED <<app, cache, common, orphans, adoption>>

NoBucket(l) ==
  /\ at[l] = "split" /\ stack[l] = <<>> /\ bring = <<>>
  /\ Refused(l, me[l].got)
  /\ Keep /\ UNCHANGED <<app, shared>>

Spill(l) ==
  /\ at[l] = "spill"
  /\ orphans' = Append(orphans, Head(me[l].put))
  /\ IF Len(me[l].put) = 1 THEN OddDone(l, me[l].got)
     ELSE Go(l, "spill", [me[l] EXCEPT !.put = Tail(@)]) /\ UNCHANGED <<app, cache>>
  /\ Keep /\ UNCHANGED <<common, hdr, stack, bring, adoption>>

\* bucket_dequeue_buckets: those of the lcore's own stack, top first, and one
\* after the other those of the shared ring.
OwnBuckets(l) ==
  LET k == Min({Whole(l), Len(stack[l])})
      objs == FlattenSeq([i \in 1 .. k |-> ObjsOf(stack[l][Len(stack[l]) - i + 1])])
      got == Written(me[l].got, 1, objs)
  IN  /\ at[l] = "buckets"
      /\ stack' = [stack EXCEPT ![l] = SubSeq(@, 1, Len(@) - k)]
      /\ IF k = Whole(l) THEN Delivered(l, got)
         ELSE Go(l, "shared", [me[l] EXCEPT !.got = got, !.top = k]) /\ UNCHANGED <<app, cache>>
      /\ Keep /\ UNCHANGED <<common, hdr, bring, orphans, adoption>>

SharedBucket(l) ==
  LET k == me[l].top
      got == Written(me[l].got, k * ObjPerBucket + 1, ObjsOf(Head(bring)))
  IN  /\ at[l] = "shared" /\ bring # <<>>
      /\ bring' = Tail(bring)
      /\ hdr' = [hdr EXCEPT ![Head(bring)].lcore = l]
      /\ IF k + 1 = Whole(l) THEN Delivered(l, got)
         ELSE Go(l, "shared", [me[l] EXCEPT !.got = got, !.top = k + 1]) /\ UNCHANGED <<app, cache>>
      /\ Keep /\ UNCHANGED <<common, stack, orphans, adoption>>

\* Too few buckets: the objects of those that were there are enqueued again,
\* which only changes headers and the stack of this lcore, and the objects
\* that fill no bucket become orphans.
NoShared(l) ==
  LET back == [i \in 1 .. me[l].top * ObjPerBucket |-> me[l].got[i]]
      r == FoldLeft(LAMBDA acc, o : Single(l, o, acc.hdr, acc.stack, acc.adoption),
                    [hdr |-> hdr, stack |-> stack, adoption |-> adoption], back)
  IN  /\ at[l] = "shared" /\ bring = <<>>
      /\ hdr' = r.hdr /\ stack' = r.stack /\ adoption' = r.adoption
      /\ IF Odd(l) > 0 THEN Go(l, "undo", me[l]) /\ UNCHANGED cache ELSE Refused(l, me[l].got)
      /\ Keep /\ UNCHANGED <<app, common, bring, orphans>>

Undo(l) ==
  /\ at[l] = "undo"
  /\ orphans' = orphans \o [i \in 1 .. Odd(l) |-> me[l].got[Whole(l) * ObjPerBucket + i]]
  /\ Refused(l, me[l].got)
  /\ Keep /\ UNCHANGED <<app, common, hdr, stack, bring, adoption>>

\* bucket_dequeue_contig_blocks: n whole buckets.  How many the lcore's stack
\* can give is settled before it adopts.
BlocksCall(l, n) ==
  /\ handler = "bucket"
  /\ NewCall(l)
  /\ Go(l, "adopt", [AtRest EXCEPT !.into = "blocks", !.want = n, !.top = Min({n, Len(stack[l])})])
  /\ UNCHANGED <<app, cache, shared>>

Blocks(l) ==
  LET k == me[l].top
      more == me[l].want - k
      taken == SubSeq(stack[l], Len(stack[l]) - k + 1, Len(stack[l])) \o SubSeq(bring, 1, more)
  IN  /\ at[l] = "blocks" /\ Len(bring) >= more
      /\ stack' = [stack EXCEPT ![l] = SubSeq(@, 1, Len(@) - k)]
      /\ bring' = SubSeq(bring, more + 1, Len(bring))
      /\ hdr' = [b \in Bucket |-> IF b \in Range(SubSeq(bring, 1, more)) THEN [hdr[b] EXCEPT !.lcore = l]
                                  ELSE hdr[b]]
      /\ app' = app \union {o \in PoolObj : BucketOf(o) \in Range(taken)}
      /\ Rest(l)
      /\ Keep /\ UNCHANGED <<cache, common, orphans, adoption>>

NoBlocks(l) ==
  /\ at[l] = "blocks" /\ Len(bring) < me[l].want - me[l].top
  /\ Rest(l)
  /\ Keep /\ UNCHANGED <<app, cache, shared>>

-----------------------------------------------------------------------------
Puttable == {SetToSortSeq(S, <) : S \in {S \in SUBSET app : Cardinality(S) \in 1 .. MaxReq}}

PoolStep(l) ==
  \/ RingEnqueue(l) \/ BucketEnqueue(l)
  \/ RingDequeue(l) \/ RingShort(l)
  \/ Adopt(l) \/ AdoptDone(l) \/ Orphans(l) \/ NoOrphans(l) \/ Split(l) \/ NoBucket(l) \/ Spill(l)
  \/ OwnBuckets(l) \/ SharedBucket(l) \/ NoShared(l) \/ Undo(l) \/ Blocks(l) \/ NoBlocks(l)

PoolCalls(l) ==
  \/ \E objs \in Puttable : PutCall(l, objs)
  \/ FlushCall(l)
  \/ \E n \in 1 .. MaxReq : GetCached(l, n) \/ GetMore(l, n)
  \/ \E n \in 1 .. NumBuckets : BlocksCall(l, n)

PoolNext == \E l \in Lcores : PoolCalls(l) \/ PoolStep(l)

PoolSpec == PoolInit /\ [][PoolNext]_poolvars

-----------------------------------------------------------------------------
\* What lcore l has of the pool between two steps: the live part of its cache
\* and, inside a call, what it took from there and from the handler (but not
\* what it has given back already).
Live(l) == IF me[l].n = 0 THEN cache[l] ELSE <<>>
Holds(l) ==
  {<<"cache", i, Live(l)[i]>> : i \in DOMAIN Live(l)}
  \union {<<"table", i, me[l].table[i]>> : i \in DOMAIN me[l].table}
  \union {<<"put", i, me[l].put[i]>> : i \in DOMAIN me[l].put}
  \union {<<"got", i, me[l].got[i]>> :
            i \in {i \in DOMAIN me[l].got : at[l] = "undo" => i > Whole(l) * ObjPerBucket}}
  \union {<<"adopt", i, adoption[l][i]>> : i \in DOMAIN adoption[l]}

\* The places an object is in, one by one; a bucket's own count is not one.
Places(o) ==
  UNION {{<<l, x>> : x \in {x \in Holds(l) : x[3] = o}} : l \in Lcores}
  \union {<<"common", i>> : i \in {i \in DOMAIN common : common[i] = o}}
  \union {<<"orphan", i>> : i \in {i \in DOMAIN orphans : orphans[i] = o}}
  \union {<<"app">> : x \in {o} \intersect app}

\* The places a full bucket is in.
Shelved(b) ==
  UNION {{<<l, i>> : i \in {i \in DOMAIN stack[l] : stack[l][i] = b}} : l \in Lcores}
  \union {<<"shared", i>> : i \in {i \in DOMAIN bring : bring[i] = b}}

\* No object is lost and none is in two places, in whatever order the lcores
\* get, put, flush and fail: with the ring each object is in one place; with
\* buckets it is in one place or counted by its bucket's fill_cnt, and a bucket
\* that can be handed out has all of its objects.
PoolConserved ==
  IF handler = "ring" THEN \A o \in PoolObj : Cardinality(Places(o)) = 1
  ELSE \A b \in Bucket :
         LET objs == Range(ObjsOf(b))
             home == {o \in objs : Places(o) = {}}
         IN  /\ \A o \in objs : Cardinality(Places(o)) <= 1
             /\ IF Shelved(b) = {} THEN hdr[b].fill = Cardinality(home)
                ELSE Cardinality(Shelved(b)) = 1 /\ hdr[b].fill = 0 /\ home = objs

\* A cache never holds more than its size ("__rte_assume(cache->len <=
\* cache->size)"): the array behind it has no room for more.
CacheBounded == \A l \in Lcores : Len(cache[l]) <= CacheSize

\* bucket_get_count, and rte_mempool_avail_count.
BucketCountShelved ==
  ObjPerBucket * Len(bring) + Len(orphans)
  + FoldSet(LAMBDA l, s : ObjPerBucket * Len(stack[l]) + Len(adoption[l]) + s, 0, Lcores)

BucketCount ==
  ObjPerBucket * Len(bring) + Len(orphans)
  + FoldSet(LAMBDA l, s : ObjPerBucket * Len(stack[l]) + Len(adoption[l]) + s, 0, Lcores)
  + FoldSet(LAMBDA b, s : hdr[b].fill + s, 0, Bucket)

AvailCount ==
  Min({NumObjs, (IF handler = "ring" THEN Len(common) ELSE BucketCount)
                + FoldSet(LAMBDA l, s : Len(cache[l]) + s, 0, Lcores)})

\* When no call is in progress, rte_mempool_avail_count is the number of
\* objects the application does not hold, partly filled buckets, orphans and
\* objects that wait for adoption included.
AvailExact ==
  (\A l \in Lcores : at[l] = "idle") => AvailCount + Cardinality(app) = NumObjs
=============================================================================
