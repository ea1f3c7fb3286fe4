------------------------------- MODULE MCSync -------------------------------
(* Threads that wait for each other: the locks, all for the same threads,    *)
(* and quiescent-state RCU with one writer.  `kind' is the one at hand.      *)
EXTENDS MCRcuQsbr, McsLock, TicketLock, PfLock, RwLock, SeqLock

VARIABLE kind

lockvars == <<base, mcsvars, tkvars, pfvars, rwvars, seqvars>>
mcvars == <<kind, vars, lockvars>>

MCInit ==
  /\ kind \in {"rcu", "mcs", "ticket", "pf", "rw", "seq"}
  /\ Init
  /\ BaseInit /\ McsInit /\ TkInit /\ PfInit /\ RwInit /\ SeqInit

\* What the variables of the others do meanwhile: nothing.
OnlyRcu == kind = "rcu" /\ UNCHANGED <<kind, lockvars>>
OnlyLocks == UNCHANGED <<kind, vars>>
OnlyMcs == kind = "mcs" /\ OnlyLocks /\ UNCHANGED <<tkvars, pfvars, rwvars, seqvars>>
OnlyTicket == kind = "ticket" /\ OnlyLocks /\ UNCHANGED <<mcsvars, pfvars, rwvars, seqvars>>
OnlyPf == kind = "pf" /\ OnlyLocks /\ UNCHANGED <<mcsvars, tkvars, rwvars, seqvars>>
OnlyRw == kind = "rw" /\ OnlyLocks /\ UNCHANGED <<mcsvars, tkvars, pfvars, seqvars>>
OnlySeq == kind = "seq" /\ OnlyLocks /\ UNCHANGED <<mcsvars, tkvars, pfvars, rwvars>>

LockCall(t) ==
  \/ OnlyMcs /\ McsCall(t)
  \/ OnlyTicket /\ TkCall(t)
  \/ OnlyPf /\ PfCall(t)
  \/ OnlyRw /\ RwCall(t)
  \/ OnlySeq /\ SeqCall(t)

LockStep(t) ==
  \/ OnlyMcs /\ McsStep(t)
  \/ OnlyTicket /\ TkStep(t)
  \/ OnlyPf /\ PfStep(t)
  \/ OnlyRw /\ RwStep(t)
  \/ OnlySeq /\ SeqStep(t)

MCNext ==
  \/ OnlyRcu /\ Next
  \/ \E t \in Threads : LockCall(t) \/ LockStep(t)

\* See FairSpec of RcuQsbr.
RcuFair ==
  /\ \A r \in Readers : WF_mcvars(OnlyRcu /\ RStep(r)) /\ SF_mcvars(OnlyRcu /\ Report(r))
  /\ \A w \in Writers : WF_mcvars(OnlyRcu /\ WStep(w))

\* Threads keep running and leave their critical sections; a thread that holds
\* a recursive lock does not take it again and again for ever, and a weak
\* compare-and-exchange does not fail for ever without a reason.
LockFair ==
  \A t \in Threads :
    /\ WF_mcvars(LockStep(t))
    /\ SF_mcvars(\/ OnlyTicket /\ count = 1 /\ TkUnlock(t)
                 \/ OnlyRw /\ RwWriteCas(t))

MCFairSpec == MCInit /\ [][MCNext]_mcvars /\ RcuFair /\ LockFair

-----------------------------------------------------------------------------
\* The words of the locks say who is inside: the recursive ticket lock belongs
\* to the thread that entered it until it is unlocked as often as it was locked,
\* and the counter of the reader-writer lock accounts for every thread and for
\* nothing else (see RecursiveOwner and RwCounter).
LockWords == (kind = "ticket" => RecursiveOwner) /\ (kind = "rw" => RwCounter)

\* A thread that waits for a queueing lock (the MCS lock, the ticket lock, the
\* phase-fair lock in either role) gets it, however often others come back.
\* The reader-writer lock promises less: while threads wait for it some thread
\* enters, with writers that wait, give up and back off included.
LockGranted ==
  /\ \A t \in Threads :
       (kind \in {"mcs", "ticket", "pf"} /\ pc[t] \in
          {"swap", "link", "spin", "take", "rspin", "wspin", "phase", "flush"})
       ~> pc[t] \in {"rd", "wr"}
  /\ (kind = "rw" /\ \E t \in Threads : RwWaiting(t)) ~> (\E t \in Threads : Inside(t))
=============================================================================
