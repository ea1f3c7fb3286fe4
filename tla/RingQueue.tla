------------------------------ MODULE RingQueue ------------------------------
(***************************************************************************)
(* What a ring promises its users: a FIFO queue of at most Capacity         *)
(* elements.  Elements are numbered in the order in which they enter the    *)
(* queue, so taking them out in any other order, twice, or not at all, is   *)
(* visible.                                                                 *)
(*                                                                         *)
(* A dequeue takes elements off the front and, until it returns, may put a  *)
(* suffix of them back: rte_ring_dequeue_elem_finish with fewer elements    *)
(* than were peeked.                                                        *)
(***************************************************************************)
EXTENDS Integers, Sequences

CONSTANTS Capacity, Consumers

VARIABLES
  queue, \* the elements in the ring that no dequeue has claimed
  next,  \* the number of the next element to enter
  taken  \* what the call of each consumer has taken so far

vars == <<queue, next, taken>>

Init ==
  /\ queue = <<>>
  /\ next \in Nat
  /\ taken = [c \in Consumers |-> <<>>]

\* One or more elements become visible to consumers at once.
Enqueue(n) ==
  /\ Len(queue) + n <= Capacity
  /\ queue' = queue \o [i \in 1 .. n |-> next + i - 1]
  /\ next' = next + n
  /\ UNCHANGED taken

Dequeue(c, n) ==
  /\ taken[c] = <<>>
  /\ taken' = [taken EXCEPT ![c] = SubSeq(queue, 1, n)]
  /\ queue' = SubSeq(queue, n + 1, Len(queue))
  /\ UNCHANGED next

\* The call of c ends and keeps the first k of the elements it took.  It puts
\* the others back only if nobody took elements after it.
Finish(c, k) ==
  /\ k < Len(taken[c]) => \A d \in Consumers \ {c} : taken[d] = <<>>
  /\ queue' = SubSeq(taken[c], k + 1, Len(taken[c])) \o queue
  /\ taken' = [taken EXCEPT ![c] = <<>>]
  /\ UNCHANGED next

\* An idle ring is emptied and its numbering starts afresh.
Reset ==
  /\ \A c \in Consumers : taken[c] = <<>>
  /\ queue' = <<>>
  /\ next' \in Nat
  /\ UNCHANGED taken

Next ==
  \/ \E n \in 1 .. Capacity : Enqueue(n)
  \/ \E c \in Consumers :
       \/ \E n \in 1 .. Len(queue) : Dequeue(c, n)
       \/ \E k \in 0 .. Len(taken[c]) : Finish(c, k)
  \/ Reset

Spec == Init /\ [][Next]_vars
=============================================================================
