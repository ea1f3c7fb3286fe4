-------------------------------- MODULE RcuDq --------------------------------
(***************************************************************************)
(* The defer queue (lib/rcu/rte_rcu_qsbr.c): removed objects wait in a ring *)
(* with the token of their removal, and whoever reclaims checks the token   *)
(* of the oldest entry and frees its object.                                *)
(*                                                                         *)
(* A composition: the tokens, readers and checks are RcuQsbr, step by step; *)
(* the ring is the queue it promises to be (RingQueue), with head/tail sync *)
(* on the dequeue side, so that one thread at a time looks at an entry and  *)
(* either takes it or leaves it.  pend of RcuQsbr says which writer answers *)
(* for a removed object; an entry that a writer looks at becomes its own.   *)
(***************************************************************************)
EXTENDS RcuQsbr, Sequences

CONSTANTS
  DqSizes,      \* values of params->size
  TriggerLimit, \* params->trigger_reclaim_limit
  MaxReclaim,   \* params->max_reclaim_size
  Amounts,      \* what the callers of rte_rcu_qsbr_dq_reclaim ask for
  MaxToken      \* bound: no more removals are tried once the token is there

NoWriter == "none"

\* The checks of rte_rcu_qsbr_dq_create.
ASSUME DqParameters ==
  /\ DqSizes \subseteq Nat \ {0} /\ TriggerLimit \in Nat /\ MaxReclaim \in Nat
  /\ \A n \in DqSizes : TriggerLimit <= n => MaxReclaim # 0
  /\ Amounts \subseteq Nat /\ MaxToken \in Nat
  /\ IsFiniteSet(Objects) /\ NoWriter \notin Writers

VARIABLES
  size,    \* dq->size
  dq,      \* the ring: entries of an object and its token
  hold,    \* the writer between dequeue_start and dequeue_finish, if any
  dpc, dl, \* where each writer is in a call of the defer queue, its locals
  kept,    \* objects whose enqueue failed: the caller has to try again
  deleted  \* rte_rcu_qsbr_dq_delete has freed the queue

dqvars == <<size, dq, hold, dpc, dl, kept, deleted>>
allvars == <<vars, dqvars>>

NoEntry == [obj |-> NoObject, tok |-> 0]
NoCall == [call |-> "none", e |-> NoEntry, n |-> 0, cnt |-> 0]

\* rte_align32pow2(size + 1), less the slot a ring leaves empty.
Pow2Above(x) == CHOOSE p \in {2 ^ k : k \in 0 .. x} : p >= x /\ p \div 2 < x
DqCapacity == Pow2Above(size + 1) - 1

DqInit ==
  /\ Init
  /\ size \in DqSizes
  /\ dq = <<>> /\ hold = NoWriter
  /\ dpc = [w \in Writers |-> "none"]
  /\ dl = [w \in Writers |-> NoCall]
  /\ kept = [w \in Writers |-> {}]
  /\ deleted = FALSE

DGoto(w, l) == dpc' = [dpc EXCEPT ![w] = l]
DReturn(w) == DGoto(w, "none") /\ dl' = [dl EXCEPT ![w] = NoCall]

\* The writer may call the defer queue: nobody is deleting it.
Ready(w) ==
  /\ dpc[w] = "none" /\ wpc[w] = "idle"
  /\ ~ deleted /\ \A x \in Writers : dl[x].call # "del"

-----------------------------------------------------------------------------
(* rte_rcu_qsbr_dq_enqueue                                                  *)

\* The writer unlinks an object and hands it to the queue, ...
DqEnqueue(w, o) ==
  /\ Ready(w)
  /\ Remove(w, o, FALSE)
  /\ DGoto(w, "start")
  /\ dl' = [dl EXCEPT ![w] = [NoCall EXCEPT !.call = "enq"]]
  /\ UNCHANGED <<dq, hold, kept, deleted, size>>

\* ... or tries again to hand over one that the queue had no room for.
DqEnqueueAgain(w, o) ==
  /\ Ready(w) /\ o \in kept[w] /\ token < MaxToken
  /\ kept' = [kept EXCEPT ![w] = @ \ {o}]
  /\ wl' = [wl EXCEPT ![w] = [NoLocal EXCEPT !.obj = o]]
  /\ WGoto(w, "start")
  /\ DGoto(w, "start")
  /\ dl' = [dl EXCEPT ![w] = [NoCall EXCEPT !.call = "enq"]]
  /\ UNCHANGED <<token, acked, cnt, bmap, nthr, rvars, pend, live, freed, dq, hold, deleted, size>>

\* Mutant: the object is handed over with the token of the previous update.
DqStartEarly(w) ==
  /\ dpc[w] = "start"
  /\ Start(w)
  /\ dl' = [dl EXCEPT ![w] = [@ EXCEPT !.e = [obj |-> wl[w].obj, tok |-> token]]]
  /\ DGoto(w, "count")
  /\ UNCHANGED <<dq, hold, kept, deleted, size>>

\* "Start the grace period"
DqStart(w) ==
  /\ dpc[w] = "start"
  /\ Start(w)
  /\ dl' = [dl EXCEPT ![w] = [@ EXCEPT !.e = [obj |-> wl[w].obj, tok |-> token + 1]]]
  /\ DGoto(w, "count")
  /\ UNCHANGED <<dq, hold, kept, deleted, size>>

\* "Reclaim resources if the queue size has hit the reclaim limit."
DqCount(w) ==
  /\ dpc[w] = "count"
  /\ dl' = [dl EXCEPT ![w] = [@ EXCEPT !.n = MaxReclaim]]
  /\ DGoto(w, IF Len(dq) > TriggerLimit /\ MaxReclaim # 0 THEN "peek" ELSE "put")
  /\ UNCHANGED <<vars, dq, hold, kept, deleted, size>>

\* "Enqueue the token and resource"; without room the token is wasted.
DqPut(w) ==
  LET e == dl[w].e
      room == Len(dq) < DqCapacity IN
  /\ dpc[w] = "put"
  /\ dq' = IF room THEN Append(dq, e) ELSE dq
  /\ kept' = IF room THEN kept ELSE [kept EXCEPT ![w] = @ \union {e.obj}]
  /\ pend' = IF room THEN pend ELSE [pend EXCEPT ![w] = @ \ {e}]
  /\ DReturn(w)
  /\ UNCHANGED <<token, acked, cnt, bmap, nthr, rvars, wpc, wl, live, freed, hold, deleted, size>>

-----------------------------------------------------------------------------
(* rte_rcu_qsbr_dq_reclaim, called by the user, by enqueue or by delete     *)

DqReclaim(w, n) ==
  /\ Ready(w) /\ n # 0
  /\ dl' = [dl EXCEPT ![w] = [NoCall EXCEPT !.call = "rec", !.n = n]]
  /\ DGoto(w, "peek")
  /\ UNCHANGED <<vars, dq, hold, kept, deleted, size>>

\* Where a reclamation goes when it ends.
AfterReclaim(w) == IF dl[w].call = "enq" THEN "put" ELSE "pending"

\* rte_ring_dequeue_bulk_elem_start: wait for the thread that looks at an entry,
\* then look at the oldest and begin a check of its token that does not wait.
DqPeek(w) ==
  LET e == Head(dq) IN
  /\ dpc[w] = "peek" /\ dl[w].cnt < dl[w].n
  /\ hold = NoWriter /\ dq # <<>>
  /\ hold' = w
  /\ pend' = [x \in Writers |-> IF x = w THEN pend[x] \union {e} ELSE pend[x] \ {e}]
  /\ wl' = [wl EXCEPT ![w] = [NoLocal EXCEPT !.obj = e.obj, !.tok = e.tok]]
  /\ WGoto(w, "acked")
  /\ DGoto(w, "check")
  /\ UNCHANGED <<token, acked, cnt, bmap, nthr, rvars, live, freed, dq, dl, kept, deleted, size>>

\* Enough was reclaimed, or the queue is empty.
DqPeekEnds(w) ==
  /\ dpc[w] = "peek"
  /\ dl[w].cnt >= dl[w].n \/ (hold = NoWriter /\ dq = <<>>)
  /\ DGoto(w, AfterReclaim(w))
  /\ UNCHANGED <<vars, dq, hold, dl, kept, deleted, size>>

\* The check, as RcuQsbr has it, step by step.
DqCheck(w) ==
  /\ dpc[w] = "check"
  /\ \/ LoadAcked(w) \/ LoadNum(w) \/ LoadBmap(w)
     \/ LoadCnt(w) \/ LoadCntBehind(w) \/ StoreAcked(w)
  /\ UNCHANGED dqvars

\* The check said 0: leave the entry where it is, and stop.
DqLeave(w) ==
  /\ dpc[w] = "check" /\ wpc[w] = "idle"
  /\ hold' = NoWriter
  /\ DGoto(w, AfterReclaim(w))
  /\ UNCHANGED <<vars, dq, dl, kept, deleted, size>>

\* Mutant: the entry is freed, and left in the queue.
DqTakeNone(w) ==
  /\ dpc[w] = "check" /\ wpc[w] = "free"
  /\ hold' = NoWriter
  /\ DGoto(w, "free")
  /\ UNCHANGED <<vars, dq, dl, kept, deleted, size>>

\* The check said 1: take the entry out, ...
DqTake(w) ==
  /\ dpc[w] = "check" /\ wpc[w] = "free"
  /\ dq' = Tail(dq) /\ hold' = NoWriter
  /\ DGoto(w, "free")
  /\ UNCHANGED <<vars, dl, kept, deleted, size>>

\* ... and call free_fn.
DqFree(w) ==
  /\ dpc[w] = "free"
  /\ FreeObject(w)
  /\ dl' = [dl EXCEPT ![w] = [@ EXCEPT !.cnt = dl[w].cnt + 1]]
  /\ DGoto(w, "peek")
  /\ UNCHANGED <<dq, hold, kept, deleted, size>>

\* What is left is reported to the caller; delete frees an empty queue.
DqPending(w) ==
  /\ dpc[w] = "pending"
  /\ deleted' = (deleted \/ (dl[w].call = "del" /\ dq = <<>>))
  /\ DReturn(w)
  /\ UNCHANGED <<vars, dq, hold, kept, size>>

\* rte_rcu_qsbr_dq_delete, by the last user of the queue.
DqDelete(w) ==
  /\ Ready(w)
  /\ \A x \in Writers : dpc[x] = "none" /\ kept[x] = {}
  /\ live = {}
  /\ dl' = [dl EXCEPT ![w] = [NoCall EXCEPT
              !.call = "del", !.n = Cardinality(Objects) + 1]]
  /\ DGoto(w, "peek")
  /\ UNCHANGED <<vars, dq, hold, kept, deleted, size>>

-----------------------------------------------------------------------------
DqStep(w) ==
  \/ DqStart(w) \/ DqCount(w) \/ DqPut(w)
  \/ DqPeek(w) \/ DqPeekEnds(w) \/ DqCheck(w) \/ DqLeave(w)
  \/ DqTake(w) \/ DqFree(w) \/ DqPending(w)

DqCall(w) ==
  \/ \E o \in Objects : DqEnqueue(w, o) \/ DqEnqueueAgain(w, o)
  \/ \E n \in Amounts : DqReclaim(w, n)
  \/ DqDelete(w)

\* Readers do as RcuQsbr says; a thread that is a writer too does one thing at
\* a time.
DqReader(r) ==
  /\ \A w \in Writers : Self[w] = r => dpc[w] = "none"
  /\ RStep(r) \/ RCall(r)
  /\ UNCHANGED dqvars

DqNext ==
  \/ \E r \in Readers : DqReader(r)
  \/ \E w \in Writers : DqStep(w) \/ DqCall(w)

DqSpec == DqInit /\ [][DqNext]_allvars

\* The readers that are writers too, and so are busy with a call now and then.
WriterReaders == {r \in Readers : \E w \in Writers : Self[w] = r}

\* Calls go on, online readers report, and writers reclaim now and then; a
\* thread that waits at the dequeue side of the ring is not always forestalled
\* (that side serves whoever comes first, see RingQueue).
DqFairSpec ==
  /\ DqSpec
  /\ \A r \in Readers : WF_allvars(RStep(r) /\ UNCHANGED dqvars)
  /\ \A r \in Readers \ WriterReaders : WF_allvars(Report(r) /\ DqReader(r))
  /\ \A r \in WriterReaders : SF_allvars(Report(r) /\ DqReader(r))
  /\ \A w \in Writers : SF_allvars(DqStep(w))
  /\ SF_allvars(\E w \in Writers, n \in Amounts : DqReclaim(w, n))

-----------------------------------------------------------------------------
(* Correctness                                                              *)

\* The enqueues an object is in, its places in the queue, the reclamations that
\* have taken it out, and the callers that have it back.
Inside(o) ==
  {w \in Writers : /\ dpc[w] \in {"start", "count", "put", "peek", "check", "free"}
                   /\ dl[w].call = "enq"
                   /\ o = IF dpc[w] = "start" THEN wl[w].obj ELSE dl[w].e.obj}
Queued(o) == {i \in 1 .. Len(dq) : dq[i].obj = o}
Leaving(o) == {w \in Writers : dpc[w] = "free" /\ wl[w].obj = o}
Back(o) == {w \in Writers : o \in kept[w]}

\* Every object that was handed to the defer queue is in exactly one place: on
\* its way in, in the queue, on its way out, back with its caller, or freed.
\* None is lost when tokens are out of order, the queue is full or several
\* writers reclaim, and none is freed twice.  rte_rcu_qsbr_dq_delete frees the
\* queue only when all have been freed ("The rest of the resources are not
\* reclaimed and the defer queue is not freed").
DqConserved ==
  LET in(b) == IF b THEN 1 ELSE 0 IN
  /\ \A o \in Objects :
       in(o \in live) + in(o \in freed) + Cardinality(Inside(o)) + Cardinality(Queued(o))
         + Cardinality(Leaving(o)) + Cardinality(Back(o)) = 1
  /\ deleted => dq = <<>> /\ freed = Objects

\* "Other than wasting tokens, it should not cause any other issues": what is
\* in the queue is reclaimed some time if callers go on reclaiming, although
\* the oldest entry may have a younger token than those behind it.
DqDrains ==
  \A o \in Objects : (\E i \in 1 .. Len(dq) : dq[i].obj = o) ~> (o \in freed)
=============================================================================
