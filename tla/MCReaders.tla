------------------------------ MODULE MCReaders ------------------------------
(* Readers that take no lock: those of objects that wait in the defer queue  *)
(* of RCU to be freed, and those of the hash table.  `kind' is the one at    *)
(* hand.                                                                     *)
EXTENDS RcuDq, MCHash

VARIABLE kind

mcvars == <<kind, allvars, hashvars>>

\* A value for Self: no writer is a reader.
NoSelf == [w \in Writers |-> NoThread]

MCInit ==
  /\ kind \in {"dq", "hash"}
  /\ DqInit /\ (kind = "dq" \/ size = CHOOSE n \in DqSizes : TRUE)
  /\ HashInit /\ (kind = "hash" \/ h = CHOOSE u \in Uses : TRUE)

\* What the other's variables do meanwhile: nothing.
OnlyDq == kind = "dq" /\ UNCHANGED <<kind, hashvars>>
OnlyHash == kind = "hash" /\ UNCHANGED <<kind, allvars>>

\* The queue may stop, when all objects are freed or the bound on tokens is reached.
DqStops == kind = "dq" /\ UNCHANGED mcvars

MCNext ==
  \/ OnlyDq /\ DqNext
  \/ DqStops
  \/ OnlyHash /\ (HashNext \/ HashFinished)

\* For the defer queue see DqFairSpec of RcuDq; nothing of the hash table is fair.
MCFairSpec ==
  /\ MCInit /\ [][MCNext]_mcvars
  /\ \A r \in Readers : WF_mcvars(OnlyDq /\ RStep(r) /\ UNCHANGED dqvars)
  /\ \A r \in Readers \ WriterReaders : WF_mcvars(OnlyDq /\ Report(r) /\ DqReader(r))
  /\ \A r \in WriterReaders : SF_mcvars(OnlyDq /\ Report(r) /\ DqReader(r))
  /\ \A w \in Writers : SF_mcvars(OnlyDq /\ DqStep(w))
  /\ SF_mcvars(OnlyDq /\ \E w \in Writers, n \in Amounts : DqReclaim(w, n))
=============================================================================
