------------------------------- MODULE Soring -------------------------------
(***************************************************************************)
(* The staged ordered ring (lib/ring/soring.c): a producer, a number of    *)
(* stages and a consumer follow each other around one ring.  Elements that *)
(* are acquired for a stage may be released in any order; finalize moves   *)
(* the stage's tail over those that are released in front, under a         *)
(* try-lock, from release, from the next stage's acquire and from dequeue. *)
(*                                                                         *)
(* Both ends are RTE_RING_SYNC_ST (module Ring has the others): only their *)
(* tails are seen by other threads, so that moving the head and copying    *)
(* the elements is one step.                                               *)
(*                                                                         *)
(* Positions are 32-bit words.  The variables hold the value the word would *)
(* have without wrapping, and what the code reads of it goes through U32.   *)
(***************************************************************************)
EXTENDS Integers, Sequences

CONSTANTS
  NbWorkers, Consumer, \* worker w serves stage w % nb_stage
  StageCounts,         \* the values of r->nb_stage
  SoSize, SoCapacity,  \* r->size, a power of two, and r->capacity below it
  SoMod,               \* one more than the largest word, 2^32 in the code
  SoBase,              \* where the ring starts
  SoMax,               \* by nb_stage: elements enqueued altogether
  SoReqs               \* by nb_stage: requests, a number and a behavior

Behavior == {"FIXED", "VARIABLE"}
Workers == 0 .. NbWorkers - 1
Users == Workers \union {Consumer}

ASSUME SoringUsers == NbWorkers \in Nat /\ Consumer \notin Workers
ASSUME SoringSizes ==
  /\ SoSize \in Nat \ {0} /\ SoCapacity \in Nat /\ SoCapacity < SoSize
  /\ SoMod \in Nat \ {0} /\ SoMod % SoSize = 0 /\ SoBase \in Nat
  /\ StageCounts \subseteq Nat \ {0}
  /\ \A nb \in StageCounts : SoReqs[nb] \subseteq Nat \X Behavior

VARIABLES
  nbStage,     \* r->nb_stage
  prod, cons,  \* head and tail
  stg,         \* by stage: head, tail and sync
  slot,        \* r->state: ftoken and stnum, split into status and number
  elem,        \* the elements: serial number and the stages passed so far
  tkr,         \* the producer: elements written and not yet published
  usr          \* by user: where it is and its local variables

sovars == <<nbStage, prod, cons, stg, slot, elem, tkr, usr>>

Stages == 0 .. nbStage - 1
Index == 0 .. SoSize - 1

U32(x) == x % SoMod
Dist(p, q) == U32(U32(q) - U32(p)) \* q - p as unsigned integers
Idx(p) == U32(p) % SoSize
Ftkn(p, s) == U32(U32(p) + s) \* SORING_FTKN_MAKE
Start(s, p, n) == [tok |-> Ftkn(p, s), st |-> "start", num |-> n]
Zero == [tok |-> 0, st |-> "none", num |-> 0]

\* pc, then the call (s, num, beh, peek: dequeue_start, retry: the second attempt), what it moved
\* (n, head, objs), and finalize (fs, maxn, ot, fn, fi; ret is the way back).
Quiet == [pc |-> "idle", peek |-> FALSE, s |-> 0, num |-> 0, beh |-> "FIXED", retry |-> FALSE, n |-> 0, head |-> 0,
          avail |-> 0, objs |-> <<>>, fs |-> 0, maxn |-> 0, ot |-> 0, fn |-> 0, fi |-> 0, ret |-> "idle"]

SoInit ==
  /\ nbStage \in StageCounts
  /\ prod = [head |-> SoBase, tail |-> SoBase]
  /\ cons = [head |-> SoBase, tail |-> SoBase]
  /\ stg = [s \in Stages |-> [head |-> SoBase, tail |-> SoBase, sync |-> 0]]
  /\ slot = [i \in Index |-> Zero]
  /\ elem = [i \in Index |-> [no |-> 0, passed |-> 0]]
  /\ tkr = 0
  /\ usr = [u \in Users |-> Quiet]

At(u, l) == usr[u].pc = l
Becomes(u, rec) == usr' = [usr EXCEPT ![u] = rec]
To(u, l) == Becomes(u, [usr[u] EXCEPT !.pc = l])

\* n elements were asked for and avail are there.
Moved(n, beh, avail) == IF n <= avail THEN n ELSE IF beh = "FIXED" THEN 0 ELSE avail

\* The elements from position p on, and the ring with objs written there.
Copy(p, n) == [i \in 1 .. n |-> elem[Idx(p + i - 1)]]
Stored(p, objs) ==
  LET here(i) == {k \in DOMAIN objs : Idx(p + k - 1) = i}
  IN  [i \in Index |-> IF here(i) # {} THEN objs[CHOOSE k \in here(i) : TRUE] ELSE elem[i]]

\* An element as it is enqueued at position p, and after k stages.
ElemAt(p, k) == [no |-> p + 1 - SoBase, passed |-> k]
Worked(objs) == [i \in DOMAIN objs |-> [objs[i] EXCEPT !.passed = objs[i].passed + 1]]

-----------------------------------------------------------------------------
\* The elements enqueued so far.
Made == prod.tail + tkr - SoBase

\* The producer: soring_enqueue, or soring_enqueue_start and
\* soring_enqueue_finish with k of the n elements.
ProdWrite(num, beh, k) ==
  LET n == Moved(num, beh, U32(SoCapacity + U32(cons.tail) - U32(prod.head)))
  IN  /\ tkr = 0 /\ Made + n <= SoMax[nbStage]
      /\ k \in 1 .. n
      /\ prod' = [prod EXCEPT !.head = prod.head + n]
      /\ elem' = Stored(prod.tail, [i \in 1 .. k |-> ElemAt(prod.tail + i - 1, 0)])
      /\ tkr' = k
      /\ UNCHANGED <<nbStage, cons, stg, slot, usr>>

ProdTail ==
  /\ tkr > 0
  /\ prod' = [head |-> prod.tail + tkr, tail |-> prod.tail + tkr]
  /\ tkr' = 0
  /\ UNCHANGED <<nbStage, cons, stg, slot, elem, usr>>

-----------------------------------------------------------------------------
\* __rte_soring_stage_finalize, by u for stage usr[u].fs.

Finalize(u, rec, s, maxn, ret) ==
  Becomes(u, [rec EXCEPT !.pc = "fload", !.fs = s, !.maxn = maxn, !.ret = ret])

\* The way back to the caller, with fi elements finalized.
Back(u, fi) ==
  Becomes(u, IF usr[u].ret = "idle" THEN Quiet
             ELSE [usr[u] EXCEPT !.pc = usr[u].ret, !.avail = U32(usr[u].avail + fi),
                                 !.fs = 0, !.maxn = 0, !.ot = 0, !.fn = 0, !.fi = 0, !.ret = "idle"])

FinLoad(u) ==
  LET t == stg[usr[u].fs]
  IN  /\ At(u, "fload")
      /\ IF t.sync # 0 THEN Back(u, 0) ELSE Becomes(u, [usr[u] EXCEPT !.pc = "fcas", !.ot = t.tail])
      /\ UNCHANGED <<nbStage, prod, cons, stg, slot, elem, tkr>>

FinCas(u) ==
  LET s == usr[u].fs
      free == stg[s].sync = 0 /\ U32(stg[s].tail) = U32(usr[u].ot)
  IN  /\ At(u, "fcas")
      /\ \/ /\ free
            /\ stg' = [stg EXCEPT ![s] = [stg[s] EXCEPT !.sync = 1]]
            /\ Becomes(u, [usr[u] EXCEPT !.pc = "fhead", !.ot = stg[s].tail])
         \/ ~ free /\ Back(u, 0) /\ UNCHANGED stg
      /\ UNCHANGED <<nbStage, prod, cons, slot, elem, tkr>>

FinHead(u) ==
  LET d == Dist(usr[u].ot, stg[usr[u].fs].head)
  IN  /\ At(u, "fhead")
      /\ Becomes(u, [usr[u] EXCEPT !.pc = "fwalk", !.fn = IF d < usr[u].maxn THEN d ELSE usr[u].maxn])
      /\ UNCHANGED <<nbStage, prod, cons, stg, slot, elem, tkr>>

\* One round of the walk: it ends at the maximum, or at a state that is not
\* FINISH with the token of this position and stage.  Nobody but the holder of
\* sync writes to a state that is FINISH, so that it is read and reset at once.
WalksOn(u) ==
  LET pos == usr[u].ot + usr[u].fi
      st == slot[Idx(pos)]
  IN  usr[u].fi < usr[u].fn /\ st.st = "finish" /\ st.tok = Ftkn(pos, usr[u].fs)

FinClear(u) ==
  LET i == Idx(usr[u].ot + usr[u].fi)
  IN  /\ At(u, "fwalk") /\ WalksOn(u)
      /\ slot' = [slot EXCEPT ![i] = Zero]
      /\ Becomes(u, [usr[u] EXCEPT !.fi = usr[u].fi + slot[i].num])
      /\ UNCHANGED <<nbStage, prod, cons, stg, elem, tkr>>

FinWalked(u) ==
  /\ At(u, "fwalk") /\ ~ WalksOn(u)
  /\ Becomes(u, [usr[u] EXCEPT !.pc = "fstore", !.fn = 0, !.maxn = 0])
  /\ UNCHANGED <<nbStage, prod, cons, stg, slot, elem, tkr>>

FinStoreLocked(u) ==
  /\ At(u, "fstore")
  /\ stg' = [stg EXCEPT ![usr[u].fs] = [stg[usr[u].fs] EXCEPT !.tail = usr[u].ot + usr[u].fi]]
  /\ Back(u, usr[u].fi)
  /\ UNCHANGED <<nbStage, prod, cons, slot, elem, tkr>>

FinStore(u) ==
  /\ At(u, "fstore")
  /\ stg' = [stg EXCEPT ![usr[u].fs] = [stg[usr[u].fs] EXCEPT
               !.tail = usr[u].ot + usr[u].fi, !.sync = 0]]
  /\ Back(u, usr[u].fi)
  /\ UNCHANGED <<nbStage, prod, cons, slot, elem, tkr>>

-----------------------------------------------------------------------------
\* soring_acquire.  Stage 0 follows the producer, stage s the one before it,
\* from which it asks for exactly num first, and then, when some of its
\* elements could be finalized, for what behavior says.
AcqCall(w, num, beh) ==
  LET s == w % nbStage
  IN  /\ At(w, "idle")
      /\ Becomes(w, [Quiet EXCEPT !.pc = "atail", !.s = s, !.num = num, !.beh = beh, !.retry = s = 0,
                                  !.head = stg[s].head])
      /\ UNCHANGED <<nbStage, prod, cons, stg, slot, elem, tkr>>

\* __rte_soring_stage_move_head, which has loaded the stage's head.
TailBefore(s) == IF s = 0 THEN prod.tail ELSE stg[s - 1].tail

AcqTail(w) ==
  LET u == usr[w]
      avail == Dist(u.head, TailBefore(u.s))
      n == Moved(u.num, IF u.retry THEN u.beh ELSE "FIXED", avail)
  IN  /\ At(w, "atail")
      /\ \/ n > 0 /\ Becomes(w, [u EXCEPT !.pc = "acas", !.n = n])
         \/ n = 0 /\ u.retry /\ Becomes(w, Quiet)
         \/ /\ n = 0 /\ ~ u.retry
            /\ Finalize(w, [u EXCEPT !.avail = avail, !.head = 0], u.s - 1, U32(2 * u.num), "again")
      /\ UNCHANGED <<nbStage, prod, cons, stg, slot, elem, tkr>>

AcqAgain(w) ==
  LET u == usr[w]
  IN  /\ At(w, "again") /\ w \in Workers
      /\ IF u.avail >= (IF u.beh = "FIXED" THEN u.num ELSE 0)
           THEN Becomes(w, [u EXCEPT !.pc = "atail", !.retry = TRUE, !.avail = 0, !.head = stg[u.s].head])
           ELSE Becomes(w, Quiet)
      /\ UNCHANGED <<nbStage, prod, cons, stg, slot, elem, tkr>>

Owns(w, u) == Becomes(w, [Quiet EXCEPT !.pc = "astate", !.s = u.s, !.head = stg[u.s].head, !.n = u.n])

\* Bound of the model: no worker is suspended between its load of the stage's
\* head and the compare-and-swap for so long that the word goes all the way round.
NotLapped(s, n) ==
  \A v \in Workers :
    usr[v].pc \in {"atail", "acas"} /\ usr[v].s = s => stg[s].head + n - usr[v].head < SoMod

AcqCas(w) ==
  LET u == usr[w]
      ok == U32(stg[u.s].head) = U32(u.head)
  IN  /\ At(w, "acas")
      /\ \/ /\ ok /\ NotLapped(u.s, u.n)
            /\ stg' = [stg EXCEPT ![u.s] = [stg[u.s] EXCEPT !.head = stg[u.s].head + u.n]]
            /\ Owns(w, u)
         \/ /\ ~ ok
            /\ Becomes(w, [u EXCEPT !.pc = "atail", !.head = stg[u.s].head, !.n = 0])
            /\ UNCHANGED stg
      /\ UNCHANGED <<nbStage, prod, cons, slot, elem, tkr>>

\* acquire_state_update; a state that is not zero is only reported.  The
\* elements are the worker's own, so that they are copied with it.
AcqState(w) ==
  LET u == usr[w]
  IN  /\ At(w, "astate")
      /\ slot' = [slot EXCEPT ![Idx(u.head)] = Start(u.s, u.head, u.n)]
      /\ Becomes(w, [u EXCEPT !.pc = "own", !.objs = Copy(u.head, u.n)])
      /\ UNCHANGED <<nbStage, prod, cons, stg, elem, tkr>>

\* soring_release, of the elements as the stage has changed them; a state other
\* than the one that acquire left is only reported.
RelWrite(w) ==
  /\ At(w, "own")
  /\ elem' = Stored(usr[w].head, Worked(usr[w].objs))
  /\ Becomes(w, [usr[w] EXCEPT !.pc = "rfinish", !.objs = <<>>])
  /\ UNCHANGED <<nbStage, prod, cons, stg, slot, tkr>>

RelFinishEarly(w) ==
  LET u == usr[w]
  IN  \/ /\ At(w, "own")
         /\ slot' = [slot EXCEPT ![Idx(u.head)] = [slot[Idx(u.head)] EXCEPT
                  !.st = "finish", !.num = u.n]]
         /\ Becomes(w, [u EXCEPT !.pc = "rlate"])
         /\ UNCHANGED <<nbStage, prod, cons, stg, elem, tkr>>
      \/ /\ At(w, "rlate")
         /\ elem' = Stored(u.head, Worked(u.objs))
         /\ Finalize(w, Quiet, u.s, SoCapacity, "idle")
         /\ UNCHANGED <<nbStage, prod, cons, stg, slot, tkr>>

RelFinish(w) ==
  LET u == usr[w]
  IN  /\ At(w, "rfinish")
      /\ slot' = [slot EXCEPT ![Idx(u.head)] = [slot[Idx(u.head)] EXCEPT
                  !.st = "finish", !.num = u.n]]
      /\ Finalize(w, Quiet, u.s, SoCapacity, "idle")
      /\ UNCHANGED <<nbStage, prod, cons, stg, elem, tkr>>

-----------------------------------------------------------------------------
\* The consumer: soring_dequeue, which also tries exactly num first and then
\* finalizes the last stage.

LastStage == nbStage - 1
Ready == Dist(cons.head, stg[LastStage].tail)

ConsMove(n, rec) ==
  /\ cons' = [cons EXCEPT !.head = cons.head + n]
  /\ Becomes(Consumer, [Quiet EXCEPT !.pc = "dtail", !.peek = rec.peek, !.objs = Copy(cons.head, n)])

DeqCall(num, beh) ==
  LET rec == [Quiet EXCEPT !.num = num, !.beh = beh, !.avail = Ready]
  IN  /\ At(Consumer, "idle")
      /\ IF num <= Ready THEN ConsMove(num, rec)
         ELSE Finalize(Consumer, rec, LastStage, U32(2 * num), "again") /\ UNCHANGED cons
      /\ UNCHANGED <<nbStage, prod, stg, slot, elem, tkr>>

DeqAgain ==
  LET u == usr[Consumer]
      n == IF u.avail >= (IF u.beh = "FIXED" THEN u.num ELSE 0) THEN Moved(u.num, u.beh, Ready) ELSE 0
  IN  /\ At(Consumer, "again")
      /\ IF n > 0 THEN ConsMove(n, u) ELSE Becomes(Consumer, Quiet) /\ UNCHANGED cons
      /\ UNCHANGED <<nbStage, prod, stg, slot, elem, tkr>>

\* soring_dequeue_start, which finalizes nothing.
DeqStart(num, beh) ==
  LET n == Moved(num, beh, Ready)
  IN  /\ At(Consumer, "idle") /\ n > 0
      /\ ConsMove(n, [Quiet EXCEPT !.peek = TRUE])
      /\ UNCHANGED <<nbStage, prod, stg, slot, elem, tkr>>

\* The tail moves over all of the elements, or, in soring_dequeue_finish, over
\* as many as the caller says (not none for ever); the head follows.
DeqTail(k) ==
  LET n == Len(usr[Consumer].objs)
  IN  /\ At(Consumer, "dtail")
      /\ k \in (IF usr[Consumer].peek THEN 1 .. n ELSE {n})
      /\ cons' = [head |-> cons.tail + k, tail |-> cons.tail + k]
      /\ Becomes(Consumer, Quiet)
      /\ UNCHANGED <<nbStage, prod, stg, slot, elem, tkr>>

-----------------------------------------------------------------------------
FinStep(u) == FinLoad(u) \/ FinCas(u) \/ FinHead(u) \/ FinClear(u) \/ FinWalked(u) \/ FinStore(u)

WorkerStep(w) ==
  \/ FinStep(w)
  \/ AcqTail(w) \/ AcqAgain(w) \/ AcqCas(w) \/ AcqState(w)
  \/ RelWrite(w) \/ RelFinish(w)

ConsStep == FinStep(Consumer) \/ DeqAgain \/ \E k \in 0 .. SoCapacity : DeqTail(k)

Enqueues == \E r \in SoReqs[nbStage], k \in 1 .. SoCapacity : ProdWrite(r[1], r[2], k)
Acquires(w) == \E r \in SoReqs[nbStage] : AcqCall(w, r[1], r[2])
Dequeues == \E r \in SoReqs[nbStage] : DeqCall(r[1], r[2])
Peeks == \E r \in SoReqs[nbStage] : DeqStart(r[1], r[2])

SoNext ==
  \/ Enqueues \/ ProdTail
  \/ \E w \in Workers : Acquires(w) \/ WorkerStep(w)
  \/ Dequeues \/ Peeks \/ ConsStep

SoSpec == SoInit /\ [][SoNext]_sovars

-----------------------------------------------------------------------------
\* The consumer, the stages and the producer never overtake each other, and
\* together never span more than the capacity, across the wrap of positions.
SoOrdered ==
  /\ cons.tail <= cons.head /\ cons.head <= stg[LastStage].tail
  /\ \A s \in Stages : stg[s].tail <= stg[s].head /\ stg[s].head <= TailBefore(s)
  /\ prod.tail <= prod.head /\ prod.head <= cons.tail + SoCapacity

\* soring_verify_state never finds anything to report ("a very serious
\* problem"): acquire finds state zero, and it is the state acquire left for
\* as long as the elements are not released.
SoVerified ==
  /\ \A w \in Workers :
       LET u == usr[w]
       IN  /\ At(w, "astate") => slot[Idx(u.head)] = Zero
           /\ u.pc \in {"own", "rfinish"} => slot[Idx(u.head)] = Start(u.s, u.head, u.n)

\* The elements of objs are those at pos and after, and have passed k stages.
Are(objs, pos, k) == \A i \in DOMAIN objs : objs[i] = ElemAt(pos + i - 1, k)

\* Elements reach every stage and the consumer in the order they were enqueued,
\* each after exactly the stages before, with what those wrote; "user can safely
\* assume that he has exclusive possession of these elems till 'release'".
SoStaged ==
  /\ \A w \in Workers :
       LET u == usr[w]
       IN  At(w, "own") => Are(u.objs, u.head, u.s) /\ u.objs = Copy(u.head, u.n)
  /\ LET objs == usr[Consumer].objs
     IN  Are(objs, cons.tail, nbStage) /\ objs = Copy(cons.tail, Len(objs))

\* The elements of the ring are where its positions and its states say.
SoringOrder == SoOrdered /\ SoStaged /\ SoVerified

\* Every element that is enqueued is dequeued in the end, here once the producer
\* has stopped: what a finalize leaves behind because another thread is at it,
\* or because the elements were released just after it looked, is picked up by
\* the next stage or by dequeue.
SoFlows == []<>(cons.tail = SoBase + Made)
=============================================================================
