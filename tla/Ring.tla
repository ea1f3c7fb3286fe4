-------------------------------- MODULE Ring --------------------------------
(***************************************************************************)
(* The rte_ring library: a bounded FIFO of fixed size elements shared by    *)
(* several producers and several consumers, in its four synchronisation     *)
(* modes (lib/ring/rte_ring_c11_pvt.h, rte_ring_gcc_pvt.h,                  *)
(* rte_ring_elem_pvt.h, rte_ring_rts_elem_pvt.h, rte_ring_hts_elem_pvt.h,   *)
(* rte_ring_peek.h and rte_ring_peek_elem_pvt.h).                           *)
(*                                                                         *)
(* As in the code, the producer side and the consumer side run the same     *)
(* move_head and update_tail on their own head/tail pair `d' and only read  *)
(* the tail of the other side `s'; what differs is the `capacity' argument. *)
(* Every load, store and compare-and-swap of a shared word is one step.     *)
(*                                                                         *)
(* Positions and RTS counters are 32-bit words in the code.  The variables  *)
(* hold the value the word would have without wrapping, and whatever the    *)
(* code reads of it, it reads through U32.                                  *)
(*                                                                         *)
(* The ring never looks at an element, so an element is represented by the  *)
(* position its producer claimed for it: slot contents p means "the object  *)
(* that was enqueued at position p".                                        *)
(***************************************************************************)
EXTENDS Integers, Sequences, FiniteSets

CONSTANTS
  Producers, Consumers, \* the threads that call enqueue, and dequeue
  Size,                 \* r->size
  Capacity,             \* r->capacity: Size - 1, or less with RING_F_EXACT_SZ
  PosMod,               \* one more than the largest position, 2^32 in the code
  Sync,                 \* sync_type of each side
  HtdMax,               \* htd_max of each side, used in RTS mode
  MaxNum,               \* the largest number of elements in a request
  UseC11Model,          \* RTE_USE_C11_MEM_MODEL
  Bases                 \* positions at which an empty ring may start

Thread == Producers \union Consumers
Side == {"prod", "cons"}

ASSUME RingThreads ==
  /\ Producers \intersect Consumers = {}
  /\ IsFiniteSet(Producers) /\ Cardinality(Producers) < PosMod
  /\ IsFiniteSet(Consumers) /\ Cardinality(Consumers) < PosMod
ASSUME RingSizes ==
  /\ Size \in Nat \ {0} /\ Capacity \in Nat /\ Capacity < Size
  /\ PosMod \in Nat \ {0} /\ PosMod % Size = 0
  /\ MaxNum \in Nat /\ Bases \subseteq Nat
ASSUME RingModes ==
  /\ Sync \in [Side -> {"ST", "MT", "RTS", "HTS"}]
  /\ HtdMax \in [Side -> Nat]
  /\ UseC11Model \in BOOLEAN
\* RING_F_SP_ENQ and RING_F_SC_DEQ promise a single thread on that side.
ASSUME RingSingle ==
  /\ Sync["prod"] = "ST" => \A t, u \in Producers : t = u
  /\ Sync["cons"] = "ST" => \A t, u \in Consumers : t = u

VARIABLES
  ht,   \* r->prod and r->cons
  ring, \* the element table behind the ring structure
  pc,   \* where each thread is inside a ring call, "idle" outside
  loc,  \* the local variables of the call
  obj   \* obj_table of a dequeue: what was copied out so far

vars == <<ht, ring, pc, loc, obj>>

-----------------------------------------------------------------------------
U32(x) == x % PosMod
Opp(s) == IF s = "prod" THEN "cons" ELSE "prod"
SideOf(t) == IF t \in Producers THEN "prod" ELSE "cons"
Cap(s) == IF s = "prod" THEN Capacity ELSE 0
Slot(p) == U32(p) % Size

HeadTail == [head : Nat, tail : Nat, hcnt : Nat, tcnt : Nat]
Label == {"idle", "head", "htd", "tail", "cas", "copy",
          "upd", "updh", "updcas", "held", "set"}
Local == [num : Nat, fixed : BOOLEAN, peek : BOOLEAN,
          old : Nat, oldc : Nat, entries : Nat, n : Nat, i : Nat, k : Nat,
          ot : Nat, otc : Nat, h : Nat, hc : Nat]

NoLocal == [num |-> 0, fixed |-> TRUE, peek |-> FALSE,
            old |-> 0, oldc |-> 0, entries |-> 0, n |-> 0, i |-> 0, k |-> 0,
            ot |-> 0, otc |-> 0, h |-> 0, hc |-> 0]

Me(t) == ht[SideOf(t)]
Other(t) == ht[Opp(SideOf(t))]
Mode(t) == Sync[SideOf(t)]
Threads(s) == IF s = "prod" THEN Producers ELSE Consumers
Peers(t) == Threads(SideOf(t))

\* The thread has read its side's head and not yet replaced it.
Loaded(t) == pc[t] \in {"htd", "tail", "cas"}
\* The thread owns the positions old .. old + n - 1.
InFlight(t) == pc[t] \in {"copy", "upd", "updh", "updcas", "held", "set"}

AtBase(b) == [head |-> b, tail |-> b, hcnt |-> b, tcnt |-> b]

\* rte_ring_init leaves all words at 0; any number of completed calls later an
\* empty ring has all of them at the same value.
Init ==
  /\ \E b \in Bases : ht = [s \in Side |-> AtBase(b)]
  /\ ring = [x \in 0 .. (Size - 1) |-> -1]
  /\ pc = [t \in Thread |-> "idle"]
  /\ loc = [t \in Thread |-> NoLocal]
  /\ obj = [t \in Thread |-> <<>>]

Goto(t, l) == pc' = [pc EXCEPT ![t] = l]

\* The call ends: its locals are gone.
Return(t) ==
  /\ Goto(t, "idle")
  /\ loc' = [loc EXCEPT ![t] = NoLocal]
  /\ obj' = [obj EXCEPT ![t] = <<>>]

-----------------------------------------------------------------------------
(* Entering a call: enqueue/dequeue, bulk (fixed) or burst, or the start    *)
(* half of the peek API, which only ST and HTS sides offer.                 *)
Call(t, num, fixed, peek) ==
  /\ pc[t] = "idle"
  /\ peek => Mode(t) \in {"ST", "HTS"}
  /\ Goto(t, "head")
  /\ loc' = [loc EXCEPT ![t] = [@ EXCEPT
               !.num = num, !.fixed = fixed, !.peek = peek]]
  /\ UNCHANGED <<ht, ring, obj>>

-----------------------------------------------------------------------------
(* move_head                                                                *)

\* Load of d->head, before the loads that depend on it.  The RTS mode reads
\* position and counter as one word; the HTS mode reads head and tail as one
\* word and spins until they are equal.
LoadHead(t) ==
  /\ pc[t] = "head"
  /\ Mode(t) = "HTS" => U32(Me(t).head) = U32(Me(t).tail)
  /\ Goto(t, IF Mode(t) = "RTS" THEN "htd" ELSE "tail")
  /\ loc' = [loc EXCEPT ![t] = [@ EXCEPT
               !.old = Me(t).head, !.oldc = Me(t).hcnt]]
  /\ UNCHANGED <<ht, ring, obj>>

\* __rte_ring_rts_head_wait: the head may lead the tail by at most htd_max;
\* otherwise pause and read the head again.
RtsHeadWait(t) ==
  /\ pc[t] = "htd"
  /\ Goto(t, IF U32(U32(loc[t].old) - U32(Me(t).tail)) > HtdMax[SideOf(t)]
             THEN "head" ELSE "tail")
  /\ UNCHANGED <<ht, ring, loc, obj>>

\* *entries = capacity + s->tail - *old_head, in 32-bit arithmetic.
Entries(t) == U32(Cap(SideOf(t)) + U32(Other(t).tail) - U32(loc[t].old))

\* Mutant: the last free place is not used.
MoveCountStrict(num, fixed, entries) ==
  IF num < entries THEN num ELSE IF fixed THEN 0 ELSE entries

\* How many elements the call moves, given what it asked for.
MoveCount(num, fixed, entries) ==
  IF num <= entries THEN num ELSE IF fixed THEN 0 ELSE entries

\* Load of s->tail and the room check; a call that cannot move returns 0.
LoadTail(t) ==
  LET n == MoveCount(loc[t].num, loc[t].fixed, Entries(t)) IN
  /\ pc[t] = "tail"
  /\ UNCHANGED <<ht, ring>>
  /\ \/ /\ n = 0
        /\ Return(t)
     \/ /\ n > 0
        /\ Goto(t, "cas")
        /\ loc' = [loc EXCEPT ![t] = [@ EXCEPT !.entries = Entries(t), !.n = n]]
        /\ UNCHANGED obj

\* Mutant: the expected and the new value are swapped.
HeadSwapped(t) ==
  Mode(t) = "ST" \/ U32(Me(t).head) = U32(loc[t].old + loc[t].n)

\* What the compare-and-swap compares: the head word, the RTS head with its
\* counter, the HTS head with its tail.  A single thread just stores.
HeadUnchanged(t) ==
  LET same == U32(Me(t).head) = U32(loc[t].old) IN
  CASE Mode(t) = "ST"  -> TRUE
    [] Mode(t) = "MT"  -> same
    [] Mode(t) = "RTS" -> same /\ U32(Me(t).hcnt) = U32(loc[t].oldc)
    [] Mode(t) = "HTS" -> same /\ U32(Me(t).tail) = U32(loc[t].old)

\* Bound of the model: no thread is suspended between its load of a 32-bit
\* word and the use of that value for so long that the word nearly goes all
\* the way round.
NotLapped(t) ==
  \A u \in Peers(t) :
    /\ Loaded(u) => Me(t).head + loc[t].n + Capacity - loc[u].old < PosMod
    /\ pc[u] \in {"updh", "updcas"} => Me(t).hcnt + 1 - loc[u].otc < PosMod

\* Where a successful claim continues: enqueue_start hands the claim to the
\* caller, everything else copies.
AfterClaim(t) ==
  IF loc[t].peek /\ t \in Producers THEN "held" ELSE "copy"

MoveHead(t) ==
  /\ pc[t] = "cas"
  /\ HeadUnchanged(t)
  /\ NotLapped(t)
  /\ LET o == IF Mode(t) = "ST" THEN loc[t].old ELSE Me(t).head
         c == IF Mode(t) = "RTS" THEN Me(t).hcnt + 1 ELSE Me(t).hcnt IN
     /\ ht' = [ht EXCEPT ![SideOf(t)] = [@ EXCEPT
                !.head = o + loc[t].n, !.hcnt = c]]
     /\ loc' = [loc EXCEPT ![t] = [@ EXCEPT !.old = o, !.i = 0]]
  /\ Goto(t, AfterClaim(t))
  /\ UNCHANGED <<ring, obj>>

\* The CAS failed.  The C11 form hands back the head it saw; the others go
\* back to the load.
MoveHeadFails(t) ==
  /\ pc[t] = "cas"
  /\ ~ HeadUnchanged(t)
  /\ \/ /\ Mode(t) = "MT" /\ UseC11Model
        /\ Goto(t, "tail")
        /\ loc' = [loc EXCEPT ![t] = [@ EXCEPT
                     !.old = Me(t).head, !.entries = 0, !.n = 0]]
     \/ /\ ~ (Mode(t) = "MT" /\ UseC11Model)
        /\ Goto(t, "head")
        /\ loc' = [loc EXCEPT ![t] = [@ EXCEPT !.entries = 0, !.n = 0]]
  /\ UNCHANGED <<ht, ring, obj>>

-----------------------------------------------------------------------------
(* Copying, one element per step                                            *)

\* A peeking enqueue copies what the caller confirmed, any other call what it
\* claimed.
ToCopy(t) == IF loc[t].peek /\ t \in Producers THEN loc[t].k ELSE loc[t].n

CopyElem(t) ==
  LET p == loc[t].old + loc[t].i
      last == loc[t].i + 1 = ToCopy(t) IN
  /\ pc[t] = "copy"
  /\ \/ /\ t \in Producers
        /\ ring' = [ring EXCEPT ![Slot(p)] = p]
        /\ UNCHANGED obj
     \/ /\ t \in Consumers
        /\ obj' = [obj EXCEPT ![t] = Append(@, ring[Slot(p)])]
        /\ UNCHANGED ring
  /\ loc' = [loc EXCEPT ![t] = [@ EXCEPT !.i = loc[t].i + 1]]
  /\ Goto(t, IF ~ last THEN "copy"
             ELSE IF ~ loc[t].peek THEN "upd"
             ELSE IF t \in Producers THEN "set" ELSE "held")
  /\ UNCHANGED ht

-----------------------------------------------------------------------------
(* update_tail                                                              *)

\* __rte_ring_update_tail, __rte_ring_hts_update_tail: publish old + n.  The
\* MT mode first waits for the calls that claimed before it.
UpdateTail(t) ==
  /\ pc[t] = "upd"
  /\ Mode(t) # "RTS"
  /\ Mode(t) = "MT" => U32(Me(t).tail) = U32(loc[t].old)
  /\ ht' = [ht EXCEPT ![SideOf(t)] = [@ EXCEPT !.tail = loc[t].old + loc[t].n]]
  /\ Return(t)
  /\ UNCHANGED ring

\* __rte_ring_rts_update_tail: load the tail word, ...
RtsLoadTail(t) ==
  /\ pc[t] = "upd"
  /\ Mode(t) = "RTS"
  /\ loc' = [loc EXCEPT ![t] = [@ EXCEPT !.ot = Me(t).tail, !.otc = Me(t).tcnt]]
  /\ Goto(t, "updh")
  /\ UNCHANGED <<ht, ring, obj>>

\* ... load the head word, ...
RtsLoadHead(t) ==
  /\ pc[t] = "updh"
  /\ loc' = [loc EXCEPT ![t] = [@ EXCEPT !.h = Me(t).head, !.hc = Me(t).hcnt]]
  /\ Goto(t, "updcas")
  /\ UNCHANGED <<ht, ring, obj>>

\* Mutant: the tail always takes the head's position.
RtsNewTailEager(t) == loc[t].h

\* ... and replace the tail word: its counter grows by one, and its position
\* becomes the head's if that makes the counters equal.
RtsNewTail(t) ==
  IF U32(loc[t].otc + 1) = U32(loc[t].hc) THEN loc[t].h ELSE loc[t].ot

\* Mutant: the counter is not compared.
RtsTailNoCount(t) == U32(Me(t).tail) = U32(loc[t].ot)

RtsTailUnchanged(t) ==
  /\ U32(Me(t).tail) = U32(loc[t].ot)
  /\ U32(Me(t).tcnt) = U32(loc[t].otc)

RtsUpdateTail(t) ==
  /\ pc[t] = "updcas"
  /\ RtsTailUnchanged(t)
  /\ ht' = [ht EXCEPT ![SideOf(t)] = [@ EXCEPT !.tail = RtsNewTail(t),
                                             !.tcnt = loc[t].otc + 1]]
  /\ Return(t)
  /\ UNCHANGED ring

RtsUpdateTailFails(t) ==
  /\ pc[t] = "updcas"
  /\ ~ RtsTailUnchanged(t)
  /\ loc' = [loc EXCEPT ![t] = [@ EXCEPT
               !.ot = Me(t).tail, !.otc = Me(t).tcnt, !.h = 0, !.hc = 0]]
  /\ Goto(t, "updh")
  /\ UNCHANGED <<ht, ring, obj>>

-----------------------------------------------------------------------------
(* The finish half of the peek API                                          *)

\* __rte_ring_st_get_tail, __rte_ring_hts_get_tail: the caller confirms k
\* elements; a k above what was claimed counts as 0.
FinishCount(t, k) == 
  IF U32(U32(Me(t).head) - U32(Me(t).tail)) >= k THEN k ELSE 0

\* Mutant: an enqueue finishes without copying.
PeekFinishNoCopy(t, k) ==
  LET m == FinishCount(t, k) IN
  /\ pc[t] = "held"
  /\ loc' = [loc EXCEPT ![t] = [@ EXCEPT !.old = Me(t).tail, !.k = m]]
  /\ Goto(t, "set")
  /\ UNCHANGED <<ht, ring, obj>>

\* rte_ring_enqueue_elem_finish and rte_ring_dequeue_elem_finish.  An enqueue
\* copies its elements in now.
PeekFinish(t, k) ==
  LET m == FinishCount(t, k) IN
  /\ pc[t] = "held"
  /\ loc' = [loc EXCEPT ![t] = [@ EXCEPT !.old = Me(t).tail, !.k = m]]
  /\ Goto(t, IF t \in Producers /\ m > 0 THEN "copy" ELSE "set")
  /\ UNCHANGED <<ht, ring, obj>>

\* __rte_ring_st_set_head_tail, __rte_ring_hts_set_head_tail: both words take
\* the value tail + num.
PeekSetHeadTail(t) ==
  LET pos == loc[t].old + loc[t].k IN
  /\ pc[t] = "set"
  /\ ht' = [ht EXCEPT ![SideOf(t)] = [@ EXCEPT !.head = pos, !.tail = pos]]
  /\ Return(t)
  /\ UNCHANGED ring

-----------------------------------------------------------------------------
\* rte_ring_reset, which may only be called on a ring that is not in use: all
\* words become 0, that is, the next multiple of PosMod.
Reset ==
  /\ \A t \in Thread : pc[t] = "idle"
  /\ LET zero == PosMod * (ht["prod"].head \div PosMod + 1) IN
     ht' = [s \in Side |-> AtBase(zero)]
  /\ UNCHANGED <<ring, pc, loc, obj>>

-----------------------------------------------------------------------------
Step(t) ==
  \/ LoadHead(t) \/ RtsHeadWait(t) \/ LoadTail(t)
  \/ MoveHead(t) \/ MoveHeadFails(t)
  \/ CopyElem(t)
  \/ UpdateTail(t)
  \/ RtsLoadTail(t) \/ RtsLoadHead(t)
  \/ RtsUpdateTail(t) \/ RtsUpdateTailFails(t)
  \/ \E k \in 0 .. MaxNum : PeekFinish(t, k)
  \/ PeekSetHeadTail(t)

AnyCall(t) ==
  \E num \in 0 .. MaxNum, fixed \in BOOLEAN, peek \in BOOLEAN :
    Call(t, num, fixed, peek)

Next == (\E t \in Thread : AnyCall(t) \/ Step(t)) \/ Reset

Spec == Init /\ [][Next]_vars

-----------------------------------------------------------------------------
(* Correctness                                                              *)

TypeOK ==
  /\ ht \in [Side -> HeadTail]
  /\ ring \in [0 .. (Size - 1) -> Int]
  /\ pc \in [Thread -> Label]
  /\ loc \in [Thread -> Local]
  /\ obj \in [Thread -> Seq(Int)]

\* The positions between the two ends of a claim belong to the call, also
\* while the zero-copy peek API hands their slots to the caller.
Owned(t) ==
  IF InFlight(t) THEN loc[t].old .. (loc[t].old + loc[t].n - 1) ELSE {}

\* On each side the tail never passes the head, the producer head never
\* leads the consumer tail by more than the capacity, and the consumer head
\* never passes the producer tail: the room checks of the move_head functions
\* are right although they use values that other threads have since changed.
HeadsInOrder ==
  \A s \in Side :
    /\ ht[s].tail <= ht[s].head
    /\ ht[s].head <= ht[Opp(s)].tail + Cap(s)

\* The update_tail functions never publish past a call that has not finished:
\* every claim still being copied lies between its side's tail and head.
ClaimsUnpublished ==
  \A t \in Thread : InFlight(t) =>
    /\ Me(t).tail <= loc[t].old
    /\ loc[t].old + loc[t].n <= Me(t).head

\* No two calls, of the same side or of different sides, ever own the same
\* slot of the element table at the same time.
SlotExclusive ==
  \A t, u \in Thread : t # u =>
    \A p \in Owned(t), q \in Owned(u) : Slot(p) # Slot(q)

\* What a dequeue copied out is, in order, what was enqueued at the positions
\* it claimed: nothing lost, repeated, torn or overwritten.
DequeuedIntact ==
  \A t \in Consumers :
    \A j \in 1 .. Len(obj[t]) : obj[t][j] = loc[t].old + j - 1

\* In RTS mode no claim starts more than htd_max past the tail; with htd_max
\* 0 the calls of a side are fully serialised.
RtsDistance ==
  \A t \in Thread : InFlight(t) /\ Mode(t) = "RTS" =>
    loc[t].old - Me(t).tail <= HtdMax[SideOf(t)]

\* A call that returns 0 was right to: when it read the opposite tail there
\* was no room (elements, for a dequeue) for what it asked, counting what the
\* claims of that moment leave, even though its own head value may be old.
FailsOnlyWithoutRoom ==
  [][\A t \in Thread :
       pc[t] = "tail" /\ pc'[t] = "idle" /\ loc[t].num > 0 =>
         Cap(SideOf(t)) + Other(t).tail - Me(t).head <
           (IF loc[t].fixed THEN loc[t].num ELSE 1)]_vars

\* The comment at the subtraction in move_head: "So 'entries' is always
\* between 0 and capacity (which is < size)."
EntriesBounded ==
  \A t \in Thread : pc[t] = "cas" => loc[t].entries \in 0 .. Capacity

\* The ring as a queue: what lies between the consumer head and the producer
\* tail, and what each dequeue took (already copied, or still in the table).
QueueView ==
  [i \in 1 .. (ht["prod"].tail - ht["cons"].head) |->
     ring[Slot(ht["cons"].head + i - 1)]]

TakenView ==
  [t \in Consumers |->
     [i \in 1 .. (IF InFlight(t) THEN loc[t].n ELSE 0) |->
        IF i <= Len(obj[t]) THEN obj[t][i] ELSE ring[Slot(loc[t].old + i - 1)]]]

Queue == INSTANCE RingQueue
           WITH queue <- QueueView, next <- ht["prod"].tail, taken <- TakenView

\* The ring implements a FIFO queue.
RefinesQueue == Queue!Spec
-----------------------------------------------------------------------------
(* The inductive invariant behind the safety properties                     *)

InCall(t) == pc[t] # "idle"
Serial(t) == Mode(t) \in {"ST", "HTS"}
Flight(s) == {t \in Threads(s) : InFlight(t)}

\* A head value that was read is at most the present head, and less than a
\* lap old; the room computed from it is still there.
LoadedOK(t) ==
  Loaded(t) =>
    /\ loc[t].old <= Me(t).head
    /\ Me(t).head + Capacity - loc[t].old < PosMod
    /\ Mode(t) = "ST" => loc[t].old = Me(t).head
    /\ Mode(t) = "HTS" => loc[t].old <= Me(t).tail
    /\ Mode(t) = "RTS" /\ pc[t] # "htd" =>
         loc[t].old - Me(t).tail <= HtdMax[SideOf(t)]
    /\ pc[t] = "cas" =>
         /\ loc[t].n >= 1
         /\ loc[t].n <= loc[t].entries
         /\ loc[t].old + loc[t].entries <= Other(t).tail + Cap(SideOf(t))

\* How far a call has got.
ControlOK(t) ==
  /\ InCall(t) /\ loc[t].peek => Serial(t)
  /\ pc[t] = "htd" => Mode(t) = "RTS"
  /\ ~ InFlight(t) => loc[t].k = 0
  /\ InFlight(t) =>
       loc[t].n >= 1 /\ loc[t].i <= loc[t].n /\ loc[t].k <= loc[t].n
  /\ pc[t] = "copy" => loc[t].i < ToCopy(t)
  /\ pc[t] \in {"upd", "updh", "updcas"} =>
       loc[t].i = loc[t].n /\ ~ loc[t].peek
  /\ pc[t] \in {"updh", "updcas"} => Mode(t) = "RTS"
  /\ pc[t] \in {"held", "set"} => loc[t].peek
  /\ pc[t] = "held" => loc[t].i = IF t \in Producers THEN 0 ELSE loc[t].n
  /\ pc[t] = "set" =>
       loc[t].i = IF t \in Producers THEN loc[t].k ELSE loc[t].n

\* The claims of a side do not overlap.
ClaimsDisjoint ==
  \A t, u \in Thread :
    t # u /\ SideOf(t) = SideOf(u) /\ InFlight(t) /\ InFlight(u) =>
      \/ loc[t].old + loc[t].n <= loc[u].old
      \/ loc[u].old + loc[u].n <= loc[t].old

\* In the serialised modes a claim is all there is between tail and head.
SerialOK(t) ==
  Serial(t) /\ InFlight(t) =>
    /\ loc[t].old = Me(t).tail
    /\ loc[t].old + loc[t].n = Me(t).head

SerialIdle ==
  \A s \in Side : Sync[s] \in {"ST", "HTS"} /\ Flight(s) = {} =>
    ht[s].head = ht[s].tail

\* The RTS counters differ by the number of unfinished calls, ...
RtsCount ==
  \A s \in Side : Sync[s] = "RTS" =>
    ht[s].hcnt = ht[s].tcnt + Cardinality(Flight(s))

\* ... the tail word a thread read is the present one if its counter is, ...
RtsTailOK(t) ==
  pc[t] \in {"updh", "updcas"} =>
    /\ loc[t].otc <= Me(t).tcnt
    /\ loc[t].otc = Me(t).tcnt => loc[t].ot = Me(t).tail
    /\ Me(t).hcnt - loc[t].otc < PosMod

\* ... and a thread about to move the tail to a head it read has no unfinished
\* call before that head.
RtsHeadOK(t) ==
  pc[t] = "updcas" =>
    /\ loc[t].otc < loc[t].hc /\ loc[t].hc <= Me(t).hcnt
    /\ loc[t].otc = Me(t).tcnt /\ loc[t].otc + 1 = loc[t].hc =>
         /\ loc[t].old + loc[t].n <= loc[t].h
         /\ loc[t].h <= Me(t).head
         /\ \A u \in Peers(t) \ {t} : InFlight(u) => loc[t].h <= loc[u].old

\* Claimed by an enqueue and not yet written.
Unwritten(p) ==
  \E t \in Producers : /\ InFlight(t)
                       /\ loc[t].old + loc[t].i <= p
                       /\ p < loc[t].old + loc[t].n

\* Everything from the consumer tail to the producer head is in its slot,
\* except what a producer has still to write.
DataInv ==
  \A p \in ht["cons"].tail .. (ht["prod"].head - 1) :
    ring[Slot(p)] = p \/ Unwritten(p)

\* What a dequeue has copied so far.
ObjOK(t) ==
  /\ Len(obj[t]) = IF t \in Consumers /\ InFlight(t) THEN loc[t].i ELSE 0
  /\ \A j \in 1 .. Len(obj[t]) : obj[t][j] = loc[t].old + j - 1

RingInv ==
  /\ TypeOK /\ HeadsInOrder /\ ClaimsUnpublished
  /\ \A t \in Thread :
       /\ LoadedOK(t) /\ ControlOK(t) /\ SerialOK(t)
       /\ RtsTailOK(t) /\ RtsHeadOK(t) /\ ObjOK(t)
  /\ ClaimsDisjoint /\ SerialIdle /\ RtsCount
  /\ DataInv /\ RtsDistance
=============================================================================
