------------------------------ MODULE SeqLock ------------------------------
(***************************************************************************)
(* rte_seqlock.h over rte_seqcount.h and rte_spinlock.h: writers exclude    *)
(* one another with a spinlock and make the sequence number odd while they  *)
(* write; readers read without a lock and retry if a write came between.    *)
(*                                                                         *)
(* The protected data is two words, which a writer stores one after the     *)
(* other; a write is named by the sequence number it begins with.  The      *)
(* variable sn holds the number without wrapping: the code sees U32(sn).    *)
(***************************************************************************)
EXTENDS LockBase

CONSTANTS
  SnMod,    \* one more than the largest sequence number, 2^32 in the code
  SnBase,   \* the (even) sequence number at first
  MaxWrites \* bound: the number of writes

ASSUME SnSizes ==
  /\ SnMod \in Nat /\ SnMod % 2 = 0 /\ SnBase \in Nat /\ SnBase % 2 = 0
  /\ MaxWrites \in Nat /\ 2 * MaxWrites < SnMod

VARIABLES
  sn,     \* seqlock->count.sn
  locked, \* seqlock->lock.locked
  data,   \* the two words of protected data
  begin,  \* begin_sn of each reader
  copy    \* what each reader has read

seqvars == <<sn, locked, data, begin, copy>>

SnU32(x) == x % SnMod

SeqInit ==
  /\ sn = SnBase /\ locked = FALSE
  /\ data = [i \in {1, 2} |-> SnBase]
  /\ begin = [t \in Threads |-> 0]
  /\ copy = [t \in Threads |-> <<>>]

SeqGoto(t, l) == Goto(t, l) /\ UNCHANGED order

-----------------------------------------------------------------------------
(* Writers                                                                  *)

\* rte_spinlock_lock: the compare-and-exchange that succeeds.
SpinLock(t) ==
  /\ pc[t] = "wlock" /\ ~ locked
  /\ locked' = TRUE
  /\ SeqGoto(t, "wbegin")
  /\ UNCHANGED <<sn, data, begin, copy>>

\* rte_seqcount_write_begin; only the holder of the spinlock writes sn.
SeqWriteBegin(t) ==
  /\ pc[t] = "wbegin"
  /\ sn' = sn + 1
  /\ SeqGoto(t, "wr")
  /\ UNCHANGED <<locked, data, begin, copy>>

\* The critical section stores the first word, ...
SeqStore1(t) ==
  /\ pc[t] = "wr" /\ data[1] # sn
  /\ data' = [data EXCEPT ![1] = sn]
  /\ UNCHANGED <<base, sn, locked, begin, copy>>

\* ... and then the second.
SeqStore2(t) ==
  /\ pc[t] = "wr" /\ data[1] = sn
  /\ data' = [data EXCEPT ![2] = sn]
  /\ SeqGoto(t, "wend")
  /\ UNCHANGED <<sn, locked, begin, copy>>

\* rte_seqcount_write_end
SeqWriteEnd(t) ==
  /\ pc[t] = "wend"
  /\ sn' = sn + 1
  /\ SeqGoto(t, "wunlock")
  /\ UNCHANGED <<locked, data, begin, copy>>

\* rte_spinlock_unlock
SpinUnlock(t) ==
  /\ pc[t] = "wunlock"
  /\ locked' = FALSE
  /\ SeqGoto(t, "out")
  /\ UNCHANGED <<sn, data, begin, copy>>

-----------------------------------------------------------------------------
(* Readers                                                                  *)

\* rte_seqlock_read_begin, and again after a retry.
SeqReadBegin(t) ==
  /\ pc[t] \in {"out", "rbegin"}
  /\ begin' = [begin EXCEPT ![t] = SnU32(sn)]
  /\ copy' = [copy EXCEPT ![t] = <<>>]
  /\ SeqGoto(t, "rload")
  /\ UNCHANGED <<sn, locked, data>>

\* The read section loads one word after the other.
SeqReadLoad(t) ==
  /\ pc[t] = "rload"
  /\ copy' = [copy EXCEPT ![t] = Append(@, data[Len(@) + 1])]
  /\ SeqGoto(t, IF Len(copy[t]) = 1 THEN "rretry" ELSE "rload")
  /\ UNCHANGED <<sn, locked, data, begin>>

\* What was read is dropped, or the reader may use it.
SeqRetryIf(t, retry) ==
  /\ SeqGoto(t, IF retry THEN "rbegin" ELSE "use")
  /\ begin' = [begin EXCEPT ![t] = 0]
  /\ copy' = [copy EXCEPT ![t] = IF retry THEN <<>> ELSE @]

\* Mutant: an odd number at the beginning goes unnoticed.
SeqReadRetryOdd(t) ==
  /\ pc[t] = "rretry"
  /\ SeqRetryIf(t, begin[t] # SnU32(sn))
  /\ UNCHANGED <<sn, locked, data>>

\* rte_seqlock_read_retry
SeqReadRetry(t) ==
  /\ pc[t] = "rretry"
  /\ SeqRetryIf(t, begin[t] % 2 = 1 \/ begin[t] # SnU32(sn))
  /\ UNCHANGED <<sn, locked, data>>

SeqReadDone(t) ==
  /\ pc[t] = "use"
  /\ SeqGoto(t, "out")
  /\ copy' = [copy EXCEPT ![t] = <<>>]
  /\ UNCHANGED <<sn, locked, data, begin>>

-----------------------------------------------------------------------------
\* A write begins.
SeqWriteCall(t) ==
  /\ pc[t] = "out"
  /\ sn + 2 * Cardinality({u \in Threads : pc[u] \in {"wlock", "wbegin"}})
        + Cardinality({u \in Threads : pc[u] \in {"wr", "wend"}})
       < SnBase + 2 * MaxWrites
  /\ SeqGoto(t, "wlock")
  /\ UNCHANGED seqvars

SeqCall(t) == SeqWriteCall(t) \/ (pc[t] = "out" /\ SeqReadBegin(t))

SeqStep(t) ==
  \/ SpinLock(t) \/ SeqWriteBegin(t) \/ SeqStore1(t) \/ SeqStore2(t)
  \/ SeqWriteEnd(t) \/ SpinUnlock(t)
  \/ (pc[t] = "rbegin" /\ SeqReadBegin(t))
  \/ SeqReadLoad(t) \/ SeqReadRetry(t) \/ SeqReadDone(t)

SeqNext == \E t \in Threads : SeqCall(t) \/ SeqStep(t)
SeqSpec == BaseInit /\ SeqInit /\ [][SeqNext]_<<base, seqvars>>

-----------------------------------------------------------------------------
\* A read section that rte_seqlock_read_retry accepts has read the data of one
\* write: no word of it is older or newer than the other.
ConsistentRead ==
  \A t \in Threads : pc[t] = "use" => copy[t][1] = copy[t][2]
=============================================================================
