------------------------------- MODULE MCRing -------------------------------
(* Bounded instances of Ring: every thread makes at most MaxCalls calls.    *)
EXTENDS Ring

CONSTANTS
  MaxCalls,   \* calls per thread
  Nums,       \* numbers of elements requested
  Peeks,      \* may a call use the peek API
  ResetBelow  \* rte_ring_reset is called while the positions are below this

VARIABLE calls

mcvars == <<vars, calls>>

\* Values for Sync and HtdMax.
SyncRtsMt == [s \in Side |-> IF s = "prod" THEN "RTS" ELSE "MT"]
SyncHtsSt == [s \in Side |-> IF s = "prod" THEN "HTS" ELSE "ST"]
Htd1 == [s \in Side |-> 1]

MCInit == Init /\ calls = [t \in Thread |-> 0]

MCCall(t) ==
  /\ calls[t] < MaxCalls
  /\ \E num \in Nums, fixed \in BOOLEAN, peek \in Peeks : Call(t, num, fixed, peek)
  /\ calls' = [calls EXCEPT ![t] = @ + 1]

MCStep(t) == Step(t) /\ UNCHANGED calls

MCReset ==
  /\ ht["prod"].head < ResetBelow
  /\ Reset
  /\ UNCHANGED calls

\* All calls have been made and have returned.
Finished ==
  /\ \A t \in Thread : pc[t] = "idle" /\ calls[t] = MaxCalls
  /\ UNCHANGED mcvars

MCNext ==
  \/ \E t \in Thread : MCCall(t) \/ MCStep(t)
  \/ MCReset
  \/ Finished

MCSpec == MCInit /\ [][MCNext]_mcvars

\* Every thread keeps running; nothing obliges it to make a call.
MCFairSpec == MCSpec /\ \A t \in Thread : WF_mcvars(MCStep(t))

\* Every call returns: the waits for earlier calls (MT tail, RTS distance,
\* HTS head = tail) and the retries of failed compare-and-swaps all end.
CallsReturn == \A t \in Thread : (pc[t] # "idle") ~> (pc[t] = "idle")
=============================================================================
