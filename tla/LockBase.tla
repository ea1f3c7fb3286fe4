------------------------------ MODULE LockBase ------------------------------
(***************************************************************************)
(* What the locks of lib/eal/include have in common: threads that are       *)
(* outside ("out"), inside for reading ("rd"), inside for writing ("wr"),   *)
(* or at some step of a lock or unlock call of the module at hand.          *)
(***************************************************************************)
EXTENDS Integers, Sequences, FiniteSets

CONSTANT Threads

ASSUME LockThreads == IsFiniteSet(Threads)

VARIABLES
  pc,    \* where each thread is
  order  \* history: who asked for the lock and has not released it, in order

base == <<pc, order>>

Goto(t, l) == pc' = [pc EXCEPT ![t] = l]

\* A thread takes its place in the queue of a fair lock; the first one leaves.
Join(t) == order' = Append(order, t)
Leave == order' = Tail(order)

BaseInit == pc = [t \in Threads |-> "out"] /\ order = <<>>

-----------------------------------------------------------------------------
\* A lock that is held for writing is held by nobody else.
Exclusion ==
  \A t, u \in Threads : t # u /\ pc[t] = "wr" => pc[u] \notin {"rd", "wr"}

\* A queueing lock is held by the thread that asked first.
InOrder ==
  order # <<>> => \A t \in Threads : pc[t] = "wr" => Head(order) = t
=============================================================================
