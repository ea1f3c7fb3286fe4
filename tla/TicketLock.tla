----------------------------- MODULE TicketLock -----------------------------
(***************************************************************************)
(* rte_ticketlock.h: the ticket lock and, around it, the recursive ticket   *)
(* lock.  Tickets are 16-bit words: they wrap at TicketMod.                 *)
(***************************************************************************)
EXTENDS LockBase

CONSTANTS
  TicketMod,   \* 2^16 in the code
  MaxDepth     \* bound: how often a thread takes a recursive lock it holds

ASSUME TicketSizes ==
  /\ TicketMod \in Nat \ {0} /\ Cardinality(Threads) <= TicketMod
  /\ MaxDepth \in Nat

VARIABLES
  current, next, \* the halves of tl->tickets
  me,            \* each thread's ticket, or the value of current it has loaded; 0
                 \* when it is not used again
  user, count    \* of the recursive lock

tkvars == <<current, next, me, user, count>>

InvalidId == "none" \* TICKET_LOCK_INVALID_ID
U16(x) == x % TicketMod

\* rte_gettid is never TICKET_LOCK_INVALID_ID, which is -1.
ASSUME TicketUsers == InvalidId \notin Threads

TkInit ==
  /\ current = 0 /\ next = 0
  /\ me = [t \in Threads |-> 0]
  /\ user = InvalidId /\ count = 0

-----------------------------------------------------------------------------
(* rte_ticketlock_recursive_lock                                            *)

\* The thread asks for the lock, for the first time or again (as trylock does,
\* if it holds the lock).
TkLock(t) ==
  /\ pc[t] \in {"out", "wr"}
  /\ \/ user # t /\ Goto(t, "take") /\ UNCHANGED count
     \/ user = t /\ count < MaxDepth /\ count' = count + 1 /\ UNCHANGED pc
  /\ UNCHANGED <<order, current, next, me, user>>

\* Mutant: two threads may draw the same ticket.
TkTakeStale(t) ==
  /\ pc[t] = "take"
  /\ me' = [me EXCEPT ![t] = next]
  /\ next' = IF next = current THEN U16(next + 1) ELSE next
  /\ Join(t) /\ Goto(t, "spin")
  /\ UNCHANGED <<current, user, count>>

\* rte_ticketlock_lock: draw a ticket, ...
TkTake(t) ==
  /\ pc[t] = "take"
  /\ me' = [me EXCEPT ![t] = next]
  /\ next' = U16(next + 1)
  /\ Join(t) /\ Goto(t, "spin")
  /\ UNCHANGED <<current, user, count>>

\* ... and wait until it is served.
TkSpin(t) ==
  /\ pc[t] = "spin" /\ current = me[t]
  /\ me' = [me EXCEPT ![t] = 0]
  /\ Goto(t, "own")
  /\ UNCHANGED <<order, current, next, user, count>>

TkOwn(t) ==
  /\ pc[t] = "own"
  /\ user' = t /\ count' = count + 1
  /\ Goto(t, "wr")
  /\ UNCHANGED <<order, current, next, me>>

-----------------------------------------------------------------------------
(* rte_ticketlock_recursive_trylock                                         *)

\* Load both halves; give up unless the lock is free.
TkTry(t) ==
  /\ pc[t] = "out" /\ user # t
  /\ next = current
  /\ me' = [me EXCEPT ![t] = next]
  /\ Goto(t, "trycas")
  /\ UNCHANGED <<order, current, next, user, count>>

TkTryCas(t) ==
  /\ pc[t] = "trycas"
  /\ \/ /\ current = me[t] /\ next = me[t]
        /\ next' = U16(me[t] + 1)
        /\ Join(t) /\ Goto(t, "own")
     \/ /\ current # me[t] \/ next # me[t]
        /\ Goto(t, "out") /\ UNCHANGED <<next, order>>
  /\ me' = [me EXCEPT ![t] = 0]
  /\ UNCHANGED <<current, user, count>>

-----------------------------------------------------------------------------
(* rte_ticketlock_recursive_unlock                                          *)

\* Mutant: the inner unlock gives the lock away.
TkUnlockInner(t) ==
  /\ pc[t] = "wr"
  /\ count' = count - 1
  /\ user' = InvalidId /\ Goto(t, "rel")
  /\ UNCHANGED <<order, current, next, me>>

TkUnlock(t) ==
  /\ pc[t] = "wr"
  /\ count' = count - 1
  /\ \/ count' = 0 /\ user' = InvalidId /\ Goto(t, "rel")
     \/ count' # 0 /\ UNCHANGED <<user, pc>>
  /\ UNCHANGED <<order, current, next, me>>

\* rte_ticketlock_unlock: load current, ...
TkRelease(t) ==
  /\ pc[t] = "rel"
  /\ me' = [me EXCEPT ![t] = current]
  /\ Goto(t, "relst")
  /\ UNCHANGED <<order, current, next, user, count>>

\* ... and store its successor; the thread was the first in the queue.
TkReleaseStore(t) ==
  /\ pc[t] = "relst"
  /\ current' = U16(me[t] + 1)
  /\ me' = [me EXCEPT ![t] = 0]
  /\ Leave /\ Goto(t, "out")
  /\ UNCHANGED <<next, user, count>>

-----------------------------------------------------------------------------
TkCall(t) == TkLock(t) \/ TkTry(t)

TkStep(t) ==
  \/ TkTake(t) \/ TkSpin(t) \/ TkOwn(t) \/ TkTryCas(t)
  \/ TkUnlock(t) \/ TkRelease(t) \/ TkReleaseStore(t)

TkNext == \E t \in Threads : TkCall(t) \/ TkStep(t)
TkSpec == BaseInit /\ TkInit /\ [][TkNext]_<<base, tkvars>>

-----------------------------------------------------------------------------
\* The recursive lock belongs to the thread that entered it until that thread
\* has unlocked it as often as it locked it: user names the thread inside, and
\* count is 0 whenever the inner lock is free or handed over.
RecursiveOwner ==
  /\ \A t \in Threads : pc[t] = "wr" => user = t /\ count > 0
  /\ (\A t \in Threads : pc[t] # "wr") => count = 0
=============================================================================
