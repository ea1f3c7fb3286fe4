----------------------------- MODULE Distributor -----------------------------
(***************************************************************************)
(* The packet distributor in its one-packet mode                            *)
(* (lib/distributor/rte_distributor_single.c): a distributor core hands     *)
(* packets to workers and takes them back, one word per worker, so that no  *)
(* two workers have packets of the same flow.                               *)
(*                                                                         *)
(* The word of a worker is written by the worker while its flags are clear  *)
(* and by the distributor while they are set, so one turn of a loop of the  *)
(* distributor over the workers is one action.  A worker that leaves makes  *)
(* rte_distributor_process_single call itself: `frames' is the stack of     *)
(* those calls, the innermost first, each with its locals.                  *)
(***************************************************************************)
EXTENDS Integers, Sequences, FiniteSets, FiniteSetsExt

CONSTANTS
  NumWorkers,   \* d->num_workers
  Tags,
  BacklogSize,  \* RTE_DISTRIB_BACKLOG_SIZE
  ReturnsSize,  \* RTE_DISTRIB_MAX_RETURNS
  MaxPkts,      \* bound: packets in all
  Bursts        \* bound: numbers of packets of a call

NoPkt == 0
NoTag == "none"

ASSUME DistParameters ==
  /\ NumWorkers \in Nat \ {0} /\ BacklogSize \in Nat \ {0} /\ ReturnsSize \in Nat \ {0, 1}
  /\ MaxPkts \in Nat /\ Bursts \subseteq Nat
  /\ NoTag \notin Tags

Wkr == 0 .. NumWorkers - 1
Pkts == 1 .. MaxPkts

VARIABLES
  tag,      \* mbuf->hash.usr
  bufs,     \* d->bufs[].bufptr64: the flag and the packet
  inFlight, \* d->in_flight_tags[], NoTag where the bit of the mask is clear
  backlog,  \* d->backlog[]
  returns,  \* d->returns
  frames,   \* the calls of process_single in progress, the innermost first
  flushing, \* rte_distributor_flush_single is in progress
  doing,    \* what each worker does
  has,      \* the packet each worker works on
  leavers,  \* the workers that may leave
  fresh,    \* the first packet that was not yet passed in
  given,    \* the packets that were given to a worker
  handed    \* the packets taken back from workers and not yet fetched

distvars == <<tag, bufs, inFlight, backlog, returns, frames, flushing,
              doing, has, leavers, fresh, given, handed>>
workervars == <<doing, has>>
inputvars == <<tag, leavers, fresh>>

Buf(f, p) == [flag |-> f, pkt |-> p]

\* The workers come up one by one; at least one of them never leaves.
DistInit ==
  /\ tag \in [Pkts -> Tags]
  /\ bufs = [w \in Wkr |-> Buf("none", NoPkt)]
  /\ inFlight = [w \in Wkr |-> NoTag]
  /\ backlog = [w \in Wkr |-> <<>>]
  /\ returns = [mbufs |-> [i \in 0 .. ReturnsSize - 1 |-> NoPkt], start |-> 0, count |-> 0]
  /\ frames = <<>> /\ flushing = FALSE
  /\ doing = [w \in Wkr |-> "working"] /\ has = [w \in Wkr |-> NoPkt]
  /\ leavers \in SUBSET Wkr /\ leavers # Wkr
  /\ fresh = 1 /\ given = {} /\ handed = {}

-----------------------------------------------------------------------------
(* The workers                                                              *)

\* rte_distributor_request_pkt_single; the old packet, if any, goes back.
RequestPkt(w) ==
  /\ doing[w] = "working" /\ bufs[w].flag = "none"
  /\ bufs' = [bufs EXCEPT ![w] = Buf("get", has[w])]
  /\ doing' = [doing EXCEPT ![w] = "polling"]
  /\ has' = [has EXCEPT ![w] = NoPkt]
  /\ UNCHANGED <<inputvars, inFlight, backlog, returns, frames, flushing, given, handed>>

\* rte_distributor_poll_pkt_single, when the request has been met.
PollPkt(w) ==
  /\ doing[w] = "polling"
  /\ bufs[w].flag # "get" /\ bufs[w].pkt # NoPkt
  /\ has' = [has EXCEPT ![w] = bufs[w].pkt]
  /\ doing' = [doing EXCEPT ![w] = "working"]
  /\ UNCHANGED <<inputvars, bufs, inFlight, backlog, returns, frames, flushing, given, handed>>

\* rte_distributor_return_pkt_single: the worker leaves and does not come back
\* (if it did before the recursive call of Shutdown has returned, that call
\* would find its backlog still there, and a packet could be given twice).
ReturnPkt(w) ==
  /\ w \in leavers
  /\ doing[w] = "working" /\ bufs[w].flag = "none"
  /\ bufs' = [bufs EXCEPT ![w] = Buf("ret", has[w])]
  /\ doing' = [doing EXCEPT ![w] = "gone"]
  /\ has' = [has EXCEPT ![w] = NoPkt]
  /\ UNCHANGED <<inputvars, inFlight, backlog, returns, frames, flushing, given, handed>>

-----------------------------------------------------------------------------
(* rte_distributor_process_single                                           *)

Frame(in) == [at |-> IF in = <<>> THEN "returns" ELSE "deal", in |-> in, mb |-> NoPkt, wkr |-> 0,
              start |-> returns.start, count |-> returns.count, old |-> NoPkt]

Top == Head(frames)

\* store_return: what the locals ret_start and ret_count become, and the slot.
\* When the array is full the oldest entry makes room.
Full(f, old) == old # NoPkt /\ f.count = ReturnsSize - 1

\* Mutant: a full array keeps its start.
AfterStoreStuck(f, old) ==
  [f EXCEPT !.count = IF old = NoPkt \/ Full(f, old) THEN @ ELSE @ + 1]

AfterStore(f, old) ==
  [f EXCEPT !.start = IF Full(f, old) THEN (@ + 1) % ReturnsSize ELSE @,
            !.count = IF old = NoPkt \/ Full(f, old) THEN @ ELSE @ + 1]

Store(f, old, rets) ==
  /\ returns' = [rets EXCEPT !.mbufs[(f.start + f.count) % ReturnsSize] = old]
  /\ handed' = (handed \union ({old} \ {NoPkt}))
                 \ (IF Full(f, old) THEN {returns.mbufs[f.start]} ELSE {})

\* The next turn of the loops: round and round, or once over the workers.
NextWkr(f) ==
  [f EXCEPT !.wkr = IF f.at = "deal" THEN (@ + 1) % NumWorkers ELSE @ + 1]

\* The turn ends: the old packet is stored and the next worker is looked at.
EndTurn(f, old) ==
  /\ frames' = <<NextWkr(AfterStore(f, old))>> \o Tail(frames)
  /\ Store(f, old, returns)

\* The workers that have a packet with the tag of packet p.
Match(p) == {w \in Wkr : inFlight[w] = tag[p]}

\* The top of a turn: the next packet is looked at if there is none at hand.
\* It goes to the backlog of the worker that has its flow, unless that is full.
Pull(f) ==
  LET p == Head(f.in)
      w == Min(Match(p)) IN
  IF f.mb # NoPkt \/ f.in = <<>> THEN [f |-> f, backlog |-> backlog]
  ELSE IF Match(p) = {} THEN [f |-> [f EXCEPT !.mb = p, !.in = Tail(@)], backlog |-> backlog]
  ELSE IF Len(backlog[w]) = BacklogSize THEN [f |-> f, backlog |-> backlog]
  ELSE [f |-> [f EXCEPT !.in = Tail(@)], backlog |-> [backlog EXCEPT ![w] = Append(@, p)]]

Give(w, p) ==
  /\ bufs' = [bufs EXCEPT ![w] = Buf("none", p)]
  /\ given' = given \union {p}

\* Mutant: backlog_pop leaves the packet in the backlog.
PopBacklogKeeps(f, w, bl) ==
  /\ Give(w, Head(bl[w]))
  /\ backlog' = bl
  /\ EndTurn(f, bufs[w].pkt)

\* The worker asks for a packet and its backlog has one, ...
PopBacklog(f, w, bl) ==
  /\ Give(w, Head(bl[w]))
  /\ backlog' = [bl EXCEPT ![w] = Tail(@)]
  /\ EndTurn(f, bufs[w].pkt)

Dealing == frames # <<>> /\ Top.at = "deal" /\ (Top.in # <<>> \/ Top.mb # NoPkt)

DealBacklog ==
  LET w == Top.wkr
      pull == Pull(Top) IN
  /\ Dealing
  /\ bufs[w].flag = "get" /\ pull.backlog[w] # <<>>
  /\ PopBacklog(pull.f, w, pull.backlog)
  /\ UNCHANGED <<inputvars, inFlight, flushing, workervars>>

\* ... or it gets the packet at hand, ...
DealNext ==
  LET w == Top.wkr
      pull == Pull(Top) IN
  /\ Dealing
  /\ bufs[w].flag = "get" /\ pull.backlog[w] = <<>> /\ pull.f.mb # NoPkt
  /\ Give(w, pull.f.mb)
  /\ inFlight' = [inFlight EXCEPT ![w] = tag[pull.f.mb]]
  /\ backlog' = pull.backlog
  /\ EndTurn([pull.f EXCEPT !.mb = NoPkt], bufs[w].pkt)
  /\ UNCHANGED <<inputvars, flushing, workervars>>

\* ... or there is nothing to do for it.
DealNothing ==
  LET w == Top.wkr
      pull == Pull(Top) IN
  /\ Dealing
  /\ \/ bufs[w].flag = "none"
     \/ bufs[w].flag = "get" /\ pull.backlog[w] = <<>> /\ pull.f.mb = NoPkt
  /\ backlog' = pull.backlog
  /\ EndTurn(pull.f, NoPkt)
  /\ UNCHANGED <<inputvars, bufs, inFlight, flushing, workervars, given>>

\* handle_worker_shutdown: the worker has left.  Its backlog is dealt out by a
\* recursive call, and the turn goes on when that has returned.
Shutdown(f, w, bl) ==
  LET pkts == bl[w]
      old == bufs[w].pkt IN
  /\ inFlight' = [inFlight EXCEPT ![w] = NoTag]
  /\ bufs' = [bufs EXCEPT ![w] = Buf("none", NoPkt)]
  /\ backlog' = bl
  /\ IF pkts = <<>> THEN EndTurn(f, old)
     ELSE /\ frames' = <<Frame(pkts), [f EXCEPT !.old = old]>> \o Tail(frames)
          /\ UNCHANGED <<returns, handed>>

DealShutdown ==
  LET pull == Pull(Top) IN
  /\ Dealing
  /\ bufs[Top.wkr].flag = "ret"
  /\ Shutdown(pull.f, Top.wkr, pull.backlog)
  /\ UNCHANGED <<inputvars, flushing, workervars, given>>

\* "to finish, check all workers for backlog and schedule work for them if they
\* are ready"
Dealt ==
  /\ frames # <<>> /\ Top.at = "deal" /\ Top.in = <<>> /\ Top.mb = NoPkt
  /\ frames' = <<[Top EXCEPT !.at = "last", !.wkr = 0]>> \o Tail(frames)
  /\ UNCHANGED <<inputvars, bufs, inFlight, backlog, returns, flushing, workervars, given, handed>>

DealLast ==
  LET w == Top.wkr IN
  /\ frames # <<>> /\ Top.at = "last" /\ w \in Wkr
  /\ IF backlog[w] # <<>> /\ bufs[w].flag = "get"
     THEN PopBacklog(Top, w, backlog)
     ELSE /\ frames' = <<NextWkr(Top)>> \o Tail(frames)
          /\ UNCHANGED <<bufs, backlog, given, returns, handed>>
  /\ UNCHANGED <<inputvars, inFlight, flushing, workervars>>

-----------------------------------------------------------------------------
(* process_returns                                                          *)

\* Mutant: the flow is free although the backlog had a packet of it.
ReturnsBacklogFrees ==
  LET w == Top.wkr IN
  /\ frames # <<>> /\ Top.at = "returns" /\ w \in Wkr
  /\ bufs[w].flag = "get" /\ backlog[w] # <<>>
  /\ PopBacklog(Top, w, backlog)
  /\ inFlight' = [inFlight EXCEPT ![w] = NoTag]
  /\ UNCHANGED <<inputvars, flushing, workervars>>

ReturnsBacklog ==
  LET w == Top.wkr IN
  /\ frames # <<>> /\ Top.at = "returns" /\ w \in Wkr
  /\ bufs[w].flag = "get" /\ backlog[w] # <<>>
  /\ PopBacklog(Top, w, backlog)
  /\ UNCHANGED <<inputvars, inFlight, flushing, workervars>>

\* The worker waits and has nothing to do: its flow is free.
ReturnsIdle ==
  LET w == Top.wkr IN
  /\ frames # <<>> /\ Top.at = "returns" /\ w \in Wkr
  /\ bufs[w].flag = "get" /\ backlog[w] = <<>>
  /\ bufs' = [bufs EXCEPT ![w] = Buf("get", NoPkt)]
  /\ inFlight' = [inFlight EXCEPT ![w] = NoTag]
  /\ EndTurn(Top, bufs[w].pkt)
  /\ UNCHANGED <<inputvars, backlog, flushing, workervars, given>>

ReturnsNothing ==
  /\ frames # <<>> /\ Top.at = "returns" /\ Top.wkr \in Wkr
  /\ bufs[Top.wkr].flag = "none"
  /\ EndTurn(Top, NoPkt)
  /\ UNCHANGED <<inputvars, bufs, inFlight, backlog, flushing, workervars, given>>

ReturnsShutdown ==
  /\ frames # <<>> /\ Top.at = "returns" /\ Top.wkr \in Wkr
  /\ bufs[Top.wkr].flag = "ret"
  /\ Shutdown(Top, Top.wkr, backlog)
  /\ UNCHANGED <<inputvars, flushing, workervars, given>>

-----------------------------------------------------------------------------
(* The end of a call, and the calls of the distributor core                 *)

\* Mutant: only the packets in backlogs are counted.
OutstandingQueued == FoldSet(LAMBDA w, n : n + Len(backlog[w]), 0, Wkr)

\* total_outstanding
Outstanding ==
  Cardinality({w \in Wkr : inFlight[w] # NoTag}) + FoldSet(LAMBDA w, n : n + Len(backlog[w]), 0, Wkr)

\* The locals are written back.  The call that made this one, if any, drops the
\* backlog of the worker that left and ends its turn; a flush goes on until
\* nothing is outstanding.
EndCall ==
  LET done == [returns EXCEPT !.start = Top.start, !.count = Top.count] IN
  /\ frames # <<>> /\ Top.at # "deal" /\ Top.wkr \notin Wkr
  /\ IF Len(frames) > 1
     THEN LET f == frames[2] IN
          /\ backlog' = [backlog EXCEPT ![f.wkr] = <<>>]
          /\ frames' = <<NextWkr([AfterStore(f, f.old) EXCEPT !.old = NoPkt])>> \o Tail(Tail(frames))
          /\ Store(f, f.old, done)
          /\ UNCHANGED flushing
     ELSE /\ returns' = done
          /\ flushing' = (flushing /\ Outstanding > 0)
          /\ frames' = IF flushing' THEN <<[Frame(<<>>) EXCEPT !.start = Top.start, !.count = Top.count]>>
                       ELSE <<>>
          /\ UNCHANGED <<backlog, handed>>
  /\ UNCHANGED <<inputvars, bufs, inFlight, workervars, given>>

\* rte_distributor_process_single with the next n packets, or none.
Process(n) ==
  /\ frames = <<>> /\ fresh + n <= MaxPkts + 1
  /\ frames' = <<Frame([i \in 1 .. n |-> fresh + i - 1])>>
  /\ fresh' = fresh + n
  /\ UNCHANGED <<tag, leavers, bufs, inFlight, backlog, returns, flushing, workervars, given, handed>>

\* rte_distributor_flush_single
Flush ==
  /\ frames = <<>> /\ Outstanding > 0
  /\ flushing' = TRUE
  /\ frames' = <<Frame(<<>>)>>
  /\ UNCHANGED <<inputvars, bufs, inFlight, backlog, returns, workervars, given, handed>>

\* The packets that the returns array holds.
InReturns == {returns.mbufs[(returns.start + i) % ReturnsSize] : i \in 0 .. returns.count - 1}

\* rte_distributor_returned_pkts_single, for at most n packets.
ReturnedPkts(n) ==
  LET got == Min({n, returns.count}) IN
  /\ frames = <<>> /\ got > 0
  /\ handed' = handed \ {returns.mbufs[(returns.start + i) % ReturnsSize] : i \in 0 .. got - 1}
  /\ returns' = [returns EXCEPT !.start = (@ + got) % ReturnsSize, !.count = @ - got]
  /\ UNCHANGED <<inputvars, bufs, inFlight, backlog, frames, flushing, workervars, given>>

\* rte_distributor_clear_returns_single
ClearReturns ==
  /\ frames = <<>> /\ returns.count > 0
  /\ returns' = [returns EXCEPT !.start = 0, !.count = 0]
  /\ handed' = {}
  /\ UNCHANGED <<inputvars, bufs, inFlight, backlog, frames, flushing, workervars, given>>

-----------------------------------------------------------------------------
WorkerCall(w) == RequestPkt(w) \/ PollPkt(w) \/ ReturnPkt(w)

DistStep ==
  \/ DealBacklog \/ DealNext \/ DealNothing \/ DealShutdown \/ Dealt \/ DealLast
  \/ ReturnsBacklog \/ ReturnsIdle \/ ReturnsNothing \/ ReturnsShutdown
  \/ EndCall

DistCall ==
  \/ \E n \in Bursts : Process(n) \/ ReturnedPkts(n)
  \/ Flush \/ ClearReturns

DistNext == DistStep \/ DistCall \/ \E w \in Wkr : WorkerCall(w)

DistSpec == DistInit /\ [][DistNext]_distvars

-----------------------------------------------------------------------------
(* Correctness                                                              *)

\* The packet a worker has been given and has not finished.
Works(w) ==
  IF doing[w] = "polling" /\ bufs[w].flag = "none" THEN bufs[w].pkt ELSE has[w]

\* "no two packets that have the same flow id, or tag, in the mbuf will be
\* processed on different cores at the same time", workers that leave for good
\* and the recursive calls they cause included.
FlowsApart ==
  \A v, w \in Wkr :
    v # w /\ Works(v) # NoPkt /\ Works(w) # NoPkt => tag[Works(v)] # tag[Works(w)]

\* A packet that is given to a worker was given to none before, and all those of
\* its flow that were passed in before it were.
GivesInOrder ==
  \A w \in Wkr :
    LET p == bufs'[w].pkt IN
    bufs'[w] # bufs[w] /\ bufs'[w].flag = "none" /\ p # NoPkt =>
      /\ p \notin given
      /\ \A q \in Pkts : q < p /\ tag[q] = tag[p] => q \in given

\* "all packets with the same tag are processed in input order", and none is
\* given to a second worker, although the packets of a worker that leaves pass
\* from its backlog through a recursive call while they are still in it.
InputOrder == [][GivesInOrder]_distvars

\* "Flush the distributor component, so that there are no in-flight or
\* backlogged packets awaiting processing": when it returns, every packet that
\* was passed in was given to a worker, which has finished it.
FlushComplete ==
  [][flushing /\ ~ flushing' =>
       /\ given = 1 .. fresh - 1
       /\ \A w \in Wkr : Works(w) = NoPkt]_distvars

\* "It returns to the caller all packets which have finished processing by all
\* worker cores": between calls, the packets that were taken back from workers
\* and not fetched since are all there, but for those that made room for others
\* in an array that was full.
ReturnsAll == frames = <<>> => handed = InReturns

\* ... as long as no worker leaves.
ReturnsKept == leavers = {} => ReturnsAll
=============================================================================
