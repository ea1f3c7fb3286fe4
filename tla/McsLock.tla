------------------------------ MODULE McsLock ------------------------------
(***************************************************************************)
(* rte_mcslock.h: a queue lock in which every waiter spins on a word of its *)
(* own node.  A thread's node is named after the thread; NULL is no node.   *)
(* Every access to the lock word or to a node that others can reach is one  *)
(* step.                                                                    *)
(***************************************************************************)
EXTENDS LockBase

CONSTANT NULL
ASSUME NoNode == NULL \notin Threads

VARIABLES
  msl,        \* the lock: the last node of the queue
  mnext,      \* node->next
  mlocked,    \* node->locked
  mprev       \* the local variable prev of a lock call

mcsvars == <<msl, mnext, mlocked, mprev>>

McsInit ==
  /\ msl = NULL
  /\ mnext = [t \in Threads |-> NULL]
  /\ mlocked = [t \in Threads |-> FALSE]
  /\ mprev = [t \in Threads |-> NULL]

-----------------------------------------------------------------------------
(* rte_mcslock_lock                                                         *)

\* "Init me node": nobody else can reach the node yet.
McsNode(t) ==
  /\ pc[t] = "out"
  /\ mlocked' = [mlocked EXCEPT ![t] = TRUE]
  /\ mnext' = [mnext EXCEPT ![t] = NULL]
  /\ Goto(t, "swap")
  /\ UNCHANGED <<order, msl, mprev>>

McsExchange(t) ==
  /\ pc[t] = "swap"
  /\ msl' = t
  /\ mprev' = [mprev EXCEPT ![t] = msl]
  /\ Join(t)
  /\ Goto(t, IF msl = NULL THEN "wr" ELSE "link")
  /\ UNCHANGED <<mnext, mlocked>>

McsLink(t) ==
  /\ pc[t] = "link"
  /\ mnext' = [mnext EXCEPT ![mprev[t]] = t]
  /\ mprev' = [mprev EXCEPT ![t] = NULL]
  /\ Goto(t, "spin")
  /\ UNCHANGED <<order, msl, mlocked>>

McsSpin(t) ==
  /\ pc[t] = "spin" /\ ~ mlocked[t]
  /\ Goto(t, "wr")
  /\ UNCHANGED <<order, mcsvars>>

-----------------------------------------------------------------------------
(* rte_mcslock_trylock                                                      *)

McsTryNode(t) ==
  /\ pc[t] = "out"
  /\ mnext' = [mnext EXCEPT ![t] = NULL]
  /\ Goto(t, "trycas")
  /\ UNCHANGED <<order, msl, mlocked, mprev>>

McsTryLock(t) ==
  /\ pc[t] = "trycas"
  /\ \/ msl = NULL /\ msl' = t /\ Join(t) /\ Goto(t, "wr")
     \/ msl # NULL /\ Goto(t, "out") /\ UNCHANGED <<msl, order>>
  /\ UNCHANGED <<mnext, mlocked, mprev>>

-----------------------------------------------------------------------------
(* rte_mcslock_unlock                                                       *)

\* Is a successor queued already?
McsUnlock(t) ==
  /\ pc[t] = "wr"
  /\ Goto(t, IF mnext[t] = NULL THEN "relcas" ELSE "pass")
  /\ UNCHANGED <<order, mcsvars>>

\* Mutant: the compare-and-exchange is tried again until it succeeds.
McsReleaseAgain(t) ==
  /\ pc[t] = "relcas"
  /\ \/ msl = t /\ msl' = NULL /\ Leave /\ Goto(t, "out")
     \/ msl # t /\ UNCHANGED <<base, msl>>
  /\ UNCHANGED <<mnext, mlocked, mprev>>

\* No: take the own node off the queue, unless another one was queued meanwhile.
McsRelease(t) ==
  /\ pc[t] = "relcas"
  /\ \/ msl = t /\ msl' = NULL /\ Leave /\ Goto(t, "out")
     \/ msl # t /\ Goto(t, "succ") /\ UNCHANGED <<msl, order>>
  /\ UNCHANGED <<mnext, mlocked, mprev>>

\* Wait until the successor has linked itself.
McsSuccessor(t) ==
  /\ pc[t] = "succ" /\ mnext[t] # NULL
  /\ Goto(t, "pass")
  /\ UNCHANGED <<order, mcsvars>>

McsPass(t) ==
  /\ pc[t] = "pass"
  /\ mlocked' = [mlocked EXCEPT ![mnext[t]] = FALSE]
  /\ Leave /\ Goto(t, "out")
  /\ UNCHANGED <<msl, mnext, mprev>>

-----------------------------------------------------------------------------
McsCall(t) == McsNode(t) \/ McsTryNode(t)

\* What a thread does once it has begun: finish the call, and leave the
\* critical section it has entered.
McsStep(t) ==
  \/ McsExchange(t) \/ McsLink(t) \/ McsSpin(t) \/ McsTryLock(t)
  \/ McsUnlock(t) \/ McsRelease(t) \/ McsSuccessor(t) \/ McsPass(t)

McsNext == \E t \in Threads : McsCall(t) \/ McsStep(t)
McsSpec == BaseInit /\ McsInit /\ [][McsNext]_<<base, mcsvars>>
=============================================================================
