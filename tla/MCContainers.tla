---------------------------- MODULE MCContainers ----------------------------
(* What objects and packets pass through: the lock-free stack, the staged    *)
(* ordered ring, the memory pool and the distributor.  `container' is the    *)
(* one at hand.                                                              *)
EXTENDS StackLf, Soring, Mempool, Distributor

CONSTANTS
  Containers,
  MaxCalls    \* calls of each thread of the stack

ASSUME SameThreads == Thread = Workers /\ Thread = Wkr

VARIABLES container, calls

mcvars == <<container, vars, calls, sovars, poolvars, distvars>>

\* Requests that are met in part when they cannot be met in full, so that
\* whoever polls with them gets what there is; and how much is enqueued.
Requests == <<{<<1, "FIXED">>, <<2, "VARIABLE">>}, {<<2, "VARIABLE">>}>>
Load == <<3, 2>>

\* One thread calls the stack once while the other fills, empties and refills it.
OneAgainstThree == [t \in Thread |-> IF t = 0 THEN 1 ELSE 3]

MCInit ==
  /\ container \in Containers
  /\ Init /\ calls = [t \in Thread |-> 0]
  /\ SoInit /\ PoolInit /\ DistInit
  /\ container = "soring" \/ nbStage = Min(StageCounts)
  /\ container = "pool" \/ handler = CHOOSE h \in Handlers : TRUE
  /\ tag[1] = CHOOSE x \in Tags : TRUE   \* the flows are alike
  /\ container = "dist" \/ (leavers = {} /\ \A p \in Pkts : tag[p] = tag[1])

OnlyStack == container = "stack" /\ UNCHANGED <<container, sovars, poolvars, distvars>>
OnlySoring == container = "soring" /\ UNCHANGED <<container, vars, calls, poolvars, distvars>>
OnlyPool == container = "pool" /\ UNCHANGED <<container, vars, calls, sovars, distvars>>
OnlyDist == container = "dist" /\ UNCHANGED <<container, vars, calls, sovars, poolvars>>

MCCall(t) ==
  /\ OnlyStack
  /\ calls[t] < MaxCalls[t]
  /\ \E op \in Op, num \in 1 .. MaxNum : Call(t, op, num)
  /\ calls' = [calls EXCEPT ![t] = @ + 1]

MCStep(t) == OnlyStack /\ Step(t) /\ UNCHANGED calls

\* All calls have been made and have returned.
Finished ==
  /\ \/ container = "stack" /\ \A t \in Thread : pc[t] = "idle" /\ calls[t] = MaxCalls[t]
     \/ container = "pool" /\ \A l \in Lcores : at[l] = "idle" /\ poolCalls = MaxPoolCalls
  /\ UNCHANGED mcvars

MCNext ==
  \/ Finished
  \/ \E t \in Thread : MCCall(t) \/ MCStep(t)
  \/ OnlySoring /\ SoNext
  \/ OnlyPool /\ PoolNext
  \/ OnlyDist /\ DistNext

MCSpec == MCInit /\ [][MCNext]_mcvars

\* What thread t is in the middle of: a call of the stack, or the loop of a
\* worker of the ordered ring or of the distributor, which poll.  Nothing
\* obliges a thread to call the stack.
Runs(t) ==
  \/ MCStep(t)
  \/ OnlySoring /\ (WorkerStep(t) \/ Acquires(t))
  \/ OnlyDist /\ WorkerCall(t)

MCFairSpec ==
  /\ MCSpec
  /\ \A t \in Thread : WF_mcvars(Runs(t))
  /\ WF_mcvars((OnlySoring /\ ProdTail) \/ (OnlyDist /\ DistStep))
  /\ WF_mcvars(OnlySoring /\ (ConsStep \/ Dequeues))

-----------------------------------------------------------------------------
(* The invariants of the components, each for its own container.            *)

\* See PoolConserved, CacheBounded and AvailExact of Mempool.
PoolObjects == container = "pool" => PoolConserved /\ CacheBounded
PoolCount == container = "pool" => AvailExact

\* Every push and pop returns: a compare-and-swap fails only because another
\* one succeeded, and a walk over the list starts again only then.  So does
\* every call of the distributor, rte_distributor_flush and the recursive calls
\* included, although it polls until some worker asks for a packet.
CallsReturn == \A t \in Thread : []<>(pc[t] = "idle" /\ frames = <<>>)
=============================================================================
