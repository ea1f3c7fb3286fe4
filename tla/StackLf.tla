------------------------------ MODULE StackLf ------------------------------
(***************************************************************************)
(* The lock-free stack (lib/stack/rte_stack_lf.h, rte_stack_lf_c11.h,       *)
(* rte_stack_lf.c): two linked lists, `used' with the objects and `free'    *)
(* with the spare list elements.  A push moves elements from free to used,  *)
(* a pop from used to free; both are a pop_elems on one list followed by a  *)
(* push_elems on the other.  A list head is a pointer and a counter that    *)
(* change together in one 128-bit compare-and-swap; it is read as two words. *)
(***************************************************************************)
EXTENDS Integers, Sequences, FiniteSets

CONSTANTS
  Thread,
  Capacity, \* the number of list elements
  MaxNum    \* the largest number of objects in a call

ASSUME StackSizes == Capacity \in Nat /\ MaxNum \in Nat
ASSUME StackThreads == IsFiniteSet(Thread)

Elem == 1 .. Capacity
NULL == 0
List == {"used", "free"}
Op == {"push", "pop"}
Obj == Thread \X (1 .. MaxNum) \* the i-th object of a thread's obj_table
NoObj == <<>>

VARIABLES
  head, len,  \* list->head and list->len of each list
  next, data, \* the list elements
  pc, loc     \* where each thread is, and the locals of its call

vars == <<head, len, next, data, pc, loc>>

\* op and num are the call; ln, old, half, tmp, i, first, last, objs are the
\* locals of pop_elems and push_elems (half: the word of the head read last).
NoLocal == [op |-> "push", num |-> 0, ln |-> 0, old |-> [top |-> NULL, cnt |-> 0],
            half |-> "top", tmp |-> NULL, i |-> 0, first |-> NULL, last |-> NULL,
            objs |-> <<>>]

\* rte_stack_lf_init pushes the elements on the free list one by one.
Init ==
  /\ head = [l \in List |-> IF l = "free" THEN [top |-> Capacity, cnt |-> Capacity]
                            ELSE [top |-> NULL, cnt |-> 0]]
  /\ len = [l \in List |-> IF l = "free" THEN Capacity ELSE 0]
  /\ next = [e \in Elem |-> e - 1]
  /\ data = [e \in Elem |-> NoObj]
  /\ pc = [t \in Thread |-> "idle"]
  /\ loc = [t \in Thread |-> NoLocal]

Goto(t, l) == pc' = [pc EXCEPT ![t] = l]
Return(t) == Goto(t, "idle") /\ loc' = [loc EXCEPT ![t] = NoLocal]

\* The list pop_elems, and then push_elems, works on.
Src(t) == IF loc[t].op = "push" THEN "free" ELSE "used"
Dst(t) == IF loc[t].op = "push" THEN "used" ELSE "free"

\* rte_stack_push, rte_stack_pop: n = 0 returns at once.
Call(t, op, num) ==
  /\ pc[t] = "idle" /\ num > 0
  /\ loc' = [loc EXCEPT ![t] = [NoLocal EXCEPT !.op = op, !.num = num]]
  /\ Goto(t, "len")
  /\ UNCHANGED <<head, len, next, data>>

-----------------------------------------------------------------------------
(* __rte_stack_lf_pop_elems                                                 *)

LoadLen(t) ==
  /\ pc[t] = "len"
  /\ loc' = [loc EXCEPT ![t] = [loc[t] EXCEPT !.ln = len[Src(t)]]]
  /\ Goto(t, "reserve")
  /\ UNCHANGED <<head, len, next, data>>

\* "Does the list contain enough elements?"
TooFew(t) ==
  /\ pc[t] = "reserve"
  /\ loc[t].ln < loc[t].num
  /\ Return(t)
  /\ UNCHANGED <<head, len, next, data>>

\* Mutant: reserves one element whatever the call asks for.
ReserveOne(t) ==
  /\ pc[t] = "reserve"
  /\ loc[t].ln >= loc[t].num
  /\ len[Src(t)] = loc[t].ln
  /\ len' = [len EXCEPT ![Src(t)] = @ - 1]
  /\ Goto(t, "phead")
  /\ UNCHANGED <<head, next, data, loc>>

Reserve(t) ==
  /\ pc[t] = "reserve"
  /\ loc[t].ln >= loc[t].num
  /\ len[Src(t)] = loc[t].ln
  /\ len' = [len EXCEPT ![Src(t)] = @ - loc[t].num]
  /\ Goto(t, "phead")
  /\ UNCHANGED <<head, next, data, loc>>

ReserveFails(t) ==
  /\ pc[t] = "reserve"
  /\ loc[t].ln >= loc[t].num
  /\ len[Src(t)] # loc[t].ln
  /\ loc' = [loc EXCEPT ![t] = [loc[t] EXCEPT !.ln = len[Src(t)]]]
  /\ UNCHANGED <<head, len, next, data, pc>>

\* Ready to walk the list from a head that was read.
From(l, old) == [l EXCEPT !.old = old, !.tmp = old.top, !.i = 0, !.objs = <<>>]

\* One word of a head, over what was read of it before.
Word(old, half, h) ==
  IF half = "top" THEN [old EXCEPT !.top = h.top] ELSE [old EXCEPT !.cnt = h.cnt]

\* old_head = list->head, a word at a time, in either order.
PopLoadHead(t) ==
  \E half \in {"top", "cnt"} :
    /\ \/ pc[t] = "phead" /\ Goto(t, "phead2")
       \/ pc[t] = "phead2" /\ half # loc[t].half /\ Goto(t, "walk")
    /\ loc' = [loc EXCEPT ![t] = [
                 From(loc[t], Word(loc[t].old, half, head[Src(t)]))
                 EXCEPT !.half = half]]
    /\ UNCHANGED <<head, len, next, data>>

\* Where the walk over the list stands.
AtEnd(t) == loc[t].i = loc[t].num \/ loc[t].tmp = NULL

\* One element of the walk: its data, for a caller that wants objects, ...
WalkData(t) ==
  /\ pc[t] = "walk" /\ ~ AtEnd(t) /\ loc[t].op = "pop"
  /\ loc' = [loc EXCEPT ![t] = [loc[t] EXCEPT !.objs = Append(loc[t].objs, data[loc[t].tmp])]]
  /\ Goto(t, "walkn")
  /\ UNCHANGED <<head, len, next, data>>

\* ... then its successor.
WalkNext(t) ==
  /\ pc[t] = IF loc[t].op = "pop" THEN "walkn" ELSE "walk"
  /\ ~ AtEnd(t)
  /\ loc' = [loc EXCEPT ![t] = [loc[t] EXCEPT
               !.last = loc[t].tmp, !.tmp = next[loc[t].tmp], !.i = loc[t].i + 1]]
  /\ Goto(t, "walk")
  /\ UNCHANGED <<head, len, next, data>>

\* "If NULL was encountered, the list was modified while traversing it."
WalkAgain(t) ==
  /\ pc[t] = "walk" /\ AtEnd(t) /\ loc[t].i # loc[t].num
  /\ Goto(t, "phead")
  /\ UNCHANGED <<head, len, next, data, loc>>

\* Mutant: compares the pointer of the head and not its counter.
PopHeadPointer(t) ==
  /\ pc[t] = "walk" /\ loc[t].i = loc[t].num
  /\ head[Src(t)].top = loc[t].old.top
  /\ head' = [head EXCEPT ![Src(t)] =
                [top |-> loc[t].tmp, cnt |-> loc[t].old.cnt + 1]]
  /\ loc' = [loc EXCEPT ![t] = [loc[t] EXCEPT
               !.first = loc[t].old.top, !.tmp = loc[t].old.top, !.i = 0]]
  /\ Goto(t, IF loc[t].op = "push" THEN "fill" ELSE "uhead")
  /\ UNCHANGED <<len, next, data>>

\* The walk is complete and the head still the one it started from.
PopHead(t) ==
  /\ pc[t] = "walk" /\ loc[t].i = loc[t].num
  /\ head[Src(t)] = loc[t].old
  /\ head' = [head EXCEPT ![Src(t)] =
                [top |-> loc[t].tmp, cnt |-> loc[t].old.cnt + 1]]
  /\ loc' = [loc EXCEPT ![t] = [loc[t] EXCEPT
               !.first = loc[t].old.top, !.tmp = loc[t].old.top, !.i = 0]]
  /\ Goto(t, IF loc[t].op = "push" THEN "fill" ELSE "uhead")
  /\ UNCHANGED <<len, next, data>>

PopHeadFails(t) ==
  /\ pc[t] = "walk" /\ loc[t].i = loc[t].num
  /\ head[Src(t)] # loc[t].old
  /\ loc' = [loc EXCEPT ![t] = From(loc[t], head[Src(t)])]
  /\ UNCHANGED <<head, len, next, data, pc>>

-----------------------------------------------------------------------------
\* Mutant: the first object first.
FillForward(t) ==
  LET last == loc[t].i + 1 = loc[t].num IN
  /\ pc[t] = "fill"
  /\ data' = [data EXCEPT ![loc[t].tmp] = <<t, loc[t].i + 1>>]
  /\ loc' = [loc EXCEPT ![t] = [loc[t] EXCEPT !.tmp = next[loc[t].tmp], !.i = loc[t].i + 1]]
  /\ Goto(t, IF last THEN "uhead" ELSE "fill")
  /\ UNCHANGED <<head, len, next>>

(* __rte_stack_lf_push: "Construct the list elements", the last object first *)
Fill(t) ==
  LET last == loc[t].i + 1 = loc[t].num IN
  /\ pc[t] = "fill"
  /\ data' = [data EXCEPT ![loc[t].tmp] = <<t, loc[t].num - loc[t].i>>]
  /\ loc' = [loc EXCEPT ![t] = [loc[t] EXCEPT !.tmp = next[loc[t].tmp], !.i = loc[t].i + 1]]
  /\ Goto(t, IF last THEN "uhead" ELSE "fill")
  /\ UNCHANGED <<head, len, next>>

-----------------------------------------------------------------------------
(* __rte_stack_lf_push_elems                                                *)

\* old_head = list->head; the objects of a pop are kept.
PushLoadHead(t) ==
  \E half \in {"top", "cnt"} :
    /\ \/ pc[t] = "uhead" /\ Goto(t, "uhead2")
       \/ pc[t] = "uhead2" /\ half # loc[t].half /\ Goto(t, "link")
    /\ loc' = [loc EXCEPT ![t] = [loc[t] EXCEPT !.half = half,
                 !.old = Word(loc[t].old, half, head[Dst(t)])]]
    /\ UNCHANGED <<head, len, next, data>>

\* last->next = old_head.top
Link(t) ==
  /\ pc[t] = "link"
  /\ next' = [next EXCEPT ![loc[t].last] = loc[t].old.top]
  /\ Goto(t, "ucas")
  /\ UNCHANGED <<head, len, data, loc>>

PushHead(t) ==
  /\ pc[t] = "ucas"
  /\ head[Dst(t)] = loc[t].old
  /\ head' = [head EXCEPT ![Dst(t)] =
                [top |-> loc[t].first, cnt |-> loc[t].old.cnt + 1]]
  /\ Goto(t, "ulen")
  /\ UNCHANGED <<len, next, data, loc>>

PushHeadFails(t) ==
  /\ pc[t] = "ucas"
  /\ head[Dst(t)] # loc[t].old
  /\ loc' = [loc EXCEPT ![t] = [loc[t] EXCEPT !.old = head[Dst(t)]]]
  /\ Goto(t, "link")
  /\ UNCHANGED <<head, len, next, data>>

\* list->len += num, after the list has changed.
AddLen(t) ==
  /\ pc[t] = "ulen"
  /\ len' = [len EXCEPT ![Dst(t)] = @ + loc[t].num]
  /\ Return(t)
  /\ UNCHANGED <<head, next, data>>

-----------------------------------------------------------------------------
Step(t) ==
  \/ LoadLen(t) \/ TooFew(t) \/ Reserve(t) \/ ReserveFails(t)
  \/ PopLoadHead(t) \/ WalkData(t) \/ WalkNext(t) \/ WalkAgain(t)
  \/ PopHead(t) \/ PopHeadFails(t)
  \/ Fill(t)
  \/ PushLoadHead(t) \/ Link(t) \/ PushHead(t) \/ PushHeadFails(t) \/ AddLen(t)

Next == \E t \in Thread : Step(t) \/ \E op \in Op, num \in 1 .. MaxNum : Call(t, op, num)

Spec == Init /\ [][Next]_vars

-----------------------------------------------------------------------------
(* Correctness                                                              *)

\* The n-th element from p on, NULL past the end.
Nth(p) ==
  LET f[i \in 0 .. Capacity] ==
        IF i = 0 THEN p ELSE IF f[i - 1] = NULL THEN NULL ELSE next[f[i - 1]]
  IN  f

\* The elements on a list, as a sequence; a list longer than Capacity has a
\* cycle.
Chain(l) ==
  LET f == Nth(head[l].top)
      n == Cardinality({i \in 0 .. Capacity : f[i] # NULL})
  IN  [i \in 1 .. n |-> f[i - 1]]
OnList(l) == {Chain(l)[i] : i \in DOMAIN Chain(l)}

\* A call owns elements from its PopHead to its PushHead.
Owning(t) == pc[t] \in {"fill", "uhead", "uhead2", "link", "ucas"}
OwnedBy(t) ==
  IF Owning(t) THEN {Nth(loc[t].first)[i] : i \in 0 .. (loc[t].num - 1)} ELSE {}

\* Every element is in one place only, on the used list, on the free list or in
\* the hands of one call, and none is lost: the head counters keep a call from
\* installing a successor it read from an element that has moved since.
ElementsConserved ==
  /\ \A l \in List : Len(Chain(l)) = Cardinality(OnList(l)) /\ Len(Chain(l)) <= Capacity
  /\ \A t \in Thread : Owning(t) => Cardinality(OwnedBy(t) \ {NULL}) = loc[t].num
  /\ OnList("used") \intersect OnList("free") = {}
  /\ \A t \in Thread, l \in List : OwnedBy(t) \intersect OnList(l) = {}
  /\ \A t, u \in Thread : t # u => OwnedBy(t) \intersect OwnedBy(u) = {}
  /\ Elem = UNION ({OnList(l) : l \in List} \union {OwnedBy(t) : t \in Thread})

\* "the list may appear to have fewer elements than it does, but will never
\* appear to have more elements" (__rte_stack_lf_count)
CountNeverMore == \A l \in List : len[l] <= Len(Chain(l))

\* A call that has reserved its elements finds them: a walk from the present
\* head does not meet the end of the list, so only a change of the head makes
\* it start again.
ReservedArePresent ==
  \A t \in Thread :
    pc[t] = "walk" /\ head[Src(t)] = loc[t].old /\ loc[t].i < loc[t].num =>
      loc[t].tmp # NULL

\* The elements of the stack are where its calls believe them to be.
StackElements == ElementsConserved /\ CountNeverMore /\ ReservedArePresent

\* The objects on the used list and in the hands of popping calls.
Contents == [i \in DOMAIN Chain("used") |-> data[Chain("used")[i]]]
Taken ==
  [t \in Thread |->
     IF loc[t].op = "pop" /\ (Owning(t) \/ pc[t] = "ulen") THEN loc[t].objs ELSE <<>>]

Lifo == INSTANCE StackLifo WITH stack <- Contents, got <- Taken

\* The lock-free stack implements the standard one: pushes and pops take effect
\* at their compare-and-swap of the used list's head, all objects at once and
\* in order.
RefinesLifo == Lifo!Spec
=============================================================================
