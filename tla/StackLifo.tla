----------------------------- MODULE StackLifo -----------------------------
(***************************************************************************)
(* The standard stack (lib/stack/rte_stack_std.h): an array under a         *)
(* spinlock, so that each push and each pop is one step.  It is also what   *)
(* the lock-free stack promises.                                            *)
(***************************************************************************)
EXTENDS Integers, Sequences

CONSTANTS Thread, Capacity

VARIABLES
  stack, \* stack->objs, the top first
  got    \* what a thread popped and has not yet been given back

\* The n objects of a thread's obj_table, the last one first.
Table(t, n) == [i \in 1 .. n |-> <<t, n + 1 - i>>]

Init == stack = <<>> /\ got = [t \in Thread |-> <<>>]

\* __rte_stack_std_push: obj_table in order, its last object on top; nothing
\* when there is no room for all of it.
Push(t, n) ==
  /\ Len(stack) + n <= Capacity
  /\ stack' = Table(t, n) \o stack
  /\ UNCHANGED got

\* __rte_stack_std_pop: n objects from the top, or nothing.
Pop(t, n) ==
  /\ got[t] = <<>>
  /\ n <= Len(stack)
  /\ got' = [got EXCEPT ![t] = SubSeq(stack, 1, n)]
  /\ stack' = SubSeq(stack, n + 1, Len(stack))

\* The popping call returns.
Return(t) == got' = [got EXCEPT ![t] = <<>>] /\ UNCHANGED stack

Next ==
  \E t \in Thread : Return(t) \/ \E n \in 1 .. Capacity : Push(t, n) \/ Pop(t, n)

Spec == Init /\ [][Next]_<<stack, got>>
=============================================================================
