------------------------------- MODULE RwLock -------------------------------
(***************************************************************************)
(* generic/rte_rwlock.h: the reader-writer lock in one counter.  Readers    *)
(* add READ; a writer sets WRITE while it holds the lock and WAIT while it  *)
(* waits.                                                                   *)
(***************************************************************************)
EXTENDS LockBase

WAIT == 1  \* RTE_RWLOCK_WAIT
WRITE == 2 \* RTE_RWLOCK_WRITE
READ == 4  \* RTE_RWLOCK_READ

Mask(x) == x % 4     \* x & RTE_RWLOCK_MASK
Waits(x) == x % 2 = 1 \* x & RTE_RWLOCK_WAIT

VARIABLES
  rwcnt, \* rwl->cnt
  rwx    \* the local variable x of each call, 0 when it is not used again

rwvars == <<rwcnt, rwx>>

RwInit == rwcnt = 0 /\ rwx = [t \in Threads |-> 0]

RwGoto(t, l) == Goto(t, l) /\ UNCHANGED order

-----------------------------------------------------------------------------
(* Readers.  rte_rwlock_read_trylock does what one round of read_lock does. *)

\* "Wait while writer is present or pending"
RwReadLoad(t) ==
  /\ pc[t] \in {"rload", "rtload"} /\ Mask(rwcnt) = 0
  /\ RwGoto(t, IF pc[t] = "rload" THEN "radd" ELSE "rtadd")
  /\ UNCHANGED rwvars

RwTryReadBusy(t) ==
  /\ pc[t] = "rtload" /\ Mask(rwcnt) # 0
  /\ RwGoto(t, "out")
  /\ UNCHANGED rwvars

\* Mutant: a reader that has seen no writer does not look again.
RwReadAddBlind(t) ==
  /\ pc[t] \in {"radd", "rtadd"}
  /\ rwcnt' = rwcnt + READ
  /\ RwGoto(t, "rd")
  /\ UNCHANGED rwx

RwReadAdd(t) ==
  /\ pc[t] \in {"radd", "rtadd"}
  /\ rwcnt' = rwcnt + READ
  /\ RwGoto(t, IF Mask(rwcnt') = 0 THEN "rd"
               ELSE IF pc[t] = "radd" THEN "rsub" ELSE "rtsub")
  /\ UNCHANGED rwx

\* "Lost race with writer, backout the change."
RwReadSub(t) ==
  /\ pc[t] \in {"rsub", "rtsub"}
  /\ rwcnt' = rwcnt - READ
  /\ RwGoto(t, IF pc[t] = "rsub" THEN "rload" ELSE "out")
  /\ UNCHANGED rwx

RwReadUnlock(t) ==
  /\ pc[t] = "rd"
  /\ rwcnt' = rwcnt - READ
  /\ RwGoto(t, "out")
  /\ UNCHANGED rwx

-----------------------------------------------------------------------------
(* Writers                                                                  *)

\* rte_rwlock_write_lock and write_trylock: load the counter.
RwWriteLoad(t) ==
  /\ pc[t] \in {"wload", "wtload"}
  /\ rwx' = [rwx EXCEPT ![t] = IF pc[t] = "wtload" /\ rwcnt >= WRITE THEN 0 ELSE rwcnt]
  /\ \/ rwcnt < WRITE /\ RwGoto(t, IF pc[t] = "wload" THEN "wcas" ELSE "wtcas")
     \/ rwcnt >= WRITE /\ RwGoto(t, IF pc[t] = "wload" THEN "wwait" ELSE "out")
  /\ UNCHANGED rwcnt

\* "Turn off RTE_RWLOCK_WAIT, turn on RTE_RWLOCK_WRITE"; trylock leaves WAIT.
RwWriteCas(t) ==
  /\ pc[t] \in {"wcas", "wtcas"} /\ rwcnt = rwx[t]
  /\ rwcnt' = IF pc[t] = "wcas" THEN WRITE ELSE rwx[t] + WRITE
  /\ rwx' = [rwx EXCEPT ![t] = 0]
  /\ RwGoto(t, "wr")

\* The counter has changed, or the weak compare-and-exchange fails all the same.
RwWriteCasFails(t) ==
  /\ pc[t] \in {"wcas", "wtcas"}
  /\ rwx' = [rwx EXCEPT ![t] = IF pc[t] = "wcas" THEN rwcnt ELSE 0]
  /\ RwGoto(t, IF pc[t] = "wcas" THEN "wwait" ELSE "out")
  /\ UNCHANGED rwcnt

\* "Turn on writer wait bit", unless x has it.
RwWriteWait(t) ==
  /\ pc[t] = "wwait"
  /\ rwcnt' = IF Waits(rwx[t]) \/ Waits(rwcnt) THEN rwcnt ELSE rwcnt + WAIT
  /\ rwx' = [rwx EXCEPT ![t] = 0]
  /\ RwGoto(t, "wspin")

\* "Wait until no readers before trying again"
RwWriteSpin(t) ==
  /\ pc[t] = "wspin" /\ rwcnt <= WAIT
  /\ RwGoto(t, "wload")
  /\ UNCHANGED rwvars

RwWriteUnlock(t) ==
  /\ pc[t] = "wr"
  /\ rwcnt' = rwcnt - WRITE
  /\ RwGoto(t, "out")
  /\ UNCHANGED rwx

-----------------------------------------------------------------------------
\* A thread calls one of the four lock functions.
RwCall(t) ==
  /\ pc[t] = "out"
  /\ \E l \in {"rload", "rtload", "wload", "wtload"} : RwGoto(t, l)
  /\ UNCHANGED rwvars

RwStep(t) ==
  \/ RwReadLoad(t) \/ RwTryReadBusy(t) \/ RwReadAdd(t) \/ RwReadSub(t)
  \/ RwReadUnlock(t) \/ RwWriteLoad(t) \/ RwWriteCas(t) \/ RwWriteCasFails(t)
  \/ RwWriteWait(t) \/ RwWriteSpin(t) \/ RwWriteUnlock(t)

RwNext == \E t \in Threads : RwCall(t) \/ RwStep(t)

RwSpec == BaseInit /\ RwInit /\ [][RwNext]_<<base, rwvars>>

-----------------------------------------------------------------------------
RwWaiting(t) == pc[t] \in {"rload", "radd", "rsub", "wload", "wcas", "wwait", "wspin"}
Inside(t) == pc[t] \in {"rd", "wr"}

\* The counter is what the threads have made of it: READ for every reader that
\* has added itself, WRITE for the writer, WAIT besides; when nobody is inside
\* or about to enter, nothing is left behind that would keep threads out.
RwCounter ==
  LET readers == Cardinality({t \in Threads : pc[t] \in {"rd", "rsub", "rtsub"}})
      writer == IF \E t \in Threads : pc[t] = "wr" THEN WRITE ELSE 0 IN
  /\ rwcnt - (rwcnt % 2) = READ * readers + writer
  /\ Waits(rwcnt) => \E t \in Threads : pc[t] \in {"wspin", "wload", "wcas", "wwait"}
=============================================================================
