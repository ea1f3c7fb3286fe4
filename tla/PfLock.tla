------------------------------- MODULE PfLock -------------------------------
(***************************************************************************)
(* rte_pflock.h: the phase-fair reader-writer lock.  Of the 16-bit words    *)
(* rd.in and rd.out the reader count is the part from RINC up; the two low  *)
(* bits of rd.in say whether a writer is present, and in which phase.       *)
(***************************************************************************)
EXTENDS LockBase

CONSTANTS
  PfMod,     \* the modulus of rd.in and rd.out, 2^16 in the code
  WriterMod  \* the modulus of wr.in and wr.out, 2^16 in the code

RINC == 16 \* RTE_PFLOCK_RINC
PRES == 2  \* RTE_PFLOCK_PRES

\* "The maximum number of readers is 4095"; phase ids alternate over the wrap.
ASSUME PfSizes ==
  /\ PfMod \in Nat /\ PfMod % RINC = 0 /\ Cardinality(Threads) < PfMod \div RINC
  /\ WriterMod \in Nat \ {0} /\ WriterMod % 2 = 0 /\ Cardinality(Threads) <= WriterMod

VARIABLES
  rin, rout, win, wout, \* rd.in, rd.out, wr.in, wr.out
  pfl,    \* the local ticket or writer bits of each call, 0 when not used again
  phases  \* history: write phases begun since a reader that waits arrived

pfvars == <<rin, rout, win, wout, pfl, phases>>

PHID(ticket) == ticket % 2    \* ticket & RTE_PFLOCK_PHID
WBITS(x) == x % 4             \* x & RTE_PFLOCK_WBITS
LSB(x) == x - (x % RINC)      \* x & RTE_PFLOCK_LSB

PfInit ==
  /\ rin = 0 /\ rout = 0 /\ win = 0 /\ wout = 0
  /\ pfl = [t \in Threads |-> 0]
  /\ phases = [t \in Threads |-> 0]

-----------------------------------------------------------------------------
(* Readers                                                                  *)

PfReadLock(t) ==
  /\ pc[t] = "out"
  /\ rin' = (rin + RINC) % PfMod
  /\ pfl' = [pfl EXCEPT ![t] = WBITS(rin)]
  /\ Goto(t, IF WBITS(rin) = 0 THEN "rd" ELSE "rspin")
  /\ UNCHANGED <<order, rout, win, wout, phases>>

\* "Wait for current write phase to complete."
PfReadSpin(t) ==
  /\ pc[t] = "rspin" /\ WBITS(rin) # pfl[t]
  /\ pfl' = [pfl EXCEPT ![t] = 0]
  /\ phases' = [phases EXCEPT ![t] = 0]
  /\ Goto(t, "rd")
  /\ UNCHANGED <<order, rin, rout, win, wout>>

PfReadUnlock(t) ==
  /\ pc[t] = "rd"
  /\ rout' = (rout + RINC) % PfMod
  /\ Goto(t, "out")
  /\ UNCHANGED <<order, rin, win, wout, pfl, phases>>

-----------------------------------------------------------------------------
(* Writers                                                                  *)

PfWriteLock(t) ==
  /\ pc[t] = "out"
  /\ win' = (win + 1) % WriterMod
  /\ pfl' = [pfl EXCEPT ![t] = win]
  /\ Join(t) /\ Goto(t, "wspin")
  /\ UNCHANGED <<rin, rout, wout, phases>>

PfWriteTurn(t) ==
  /\ pc[t] = "wspin" /\ wout = pfl[t]
  /\ Goto(t, "phase")
  /\ UNCHANGED <<order, pfvars>>

\* Tell the readers to come, and learn how many came before.
PfWritePhase(t) ==
  /\ pc[t] = "phase"
  /\ rin' = (rin + PRES + PHID(pfl[t])) % PfMod
  /\ pfl' = [pfl EXCEPT ![t] = rin]
  /\ Goto(t, "flush")
  /\ UNCHANGED <<order, rout, win, wout, phases>>

\* Mutant: the readers are not waited for.
PfWriteFlushNone(t) ==
  /\ pc[t] = "flush"
  /\ phases' = [u \in Threads |-> IF pc[u] = "rspin" THEN phases[u] + 1 ELSE 0]
  /\ pfl' = [pfl EXCEPT ![t] = 0]
  /\ Goto(t, "wr")
  /\ UNCHANGED <<order, rin, rout, win, wout>>

\* "Wait for any pending readers to flush."
PfWriteFlush(t) ==
  /\ pc[t] = "flush" /\ rout = pfl[t]
  /\ phases' = [u \in Threads |-> IF pc[u] = "rspin" THEN phases[u] + 1 ELSE 0]
  /\ pfl' = [pfl EXCEPT ![t] = 0]
  /\ Goto(t, "wr")
  /\ UNCHANGED <<order, rin, rout, win, wout>>

PfWriteUnlock(t) ==
  /\ pc[t] = "wr"
  /\ rin' = LSB(rin)
  /\ Goto(t, "wnext")
  /\ UNCHANGED <<order, rout, win, wout, pfl, phases>>

\* "Allow other writers to continue."
PfWriteNext(t) ==
  /\ pc[t] = "wnext"
  /\ wout' = (wout + 1) % WriterMod
  /\ Leave /\ Goto(t, "out")
  /\ UNCHANGED <<rin, rout, win, pfl, phases>>

-----------------------------------------------------------------------------
PfCall(t) == PfReadLock(t) \/ PfWriteLock(t)

PfStep(t) ==
  \/ PfReadSpin(t) \/ PfReadUnlock(t) \/ PfWriteTurn(t) \/ PfWritePhase(t)
  \/ PfWriteFlush(t) \/ PfWriteUnlock(t) \/ PfWriteNext(t)

PfNext == \E t \in Threads : PfCall(t) \/ PfStep(t)
PfSpec == BaseInit /\ PfInit /\ [][PfNext]_<<base, pfvars>>

-----------------------------------------------------------------------------
\* "In this type of lock, readers and writers alternate": a reader waits for
\* one write phase at most, however late it notices that the phase has ended.
PhaseFair == \A t \in Threads : phases[t] <= 1
=============================================================================
