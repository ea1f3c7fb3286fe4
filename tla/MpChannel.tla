------------------------------ MODULE MpChannel ------------------------------
(***************************************************************************)
(* The multi-process channel (lib/eal/common/eal_common_proc.c): a process  *)
(* sends synchronous and asynchronous requests to its peers over sockets,   *)
(* and its message thread and its alarm thread match replies and timeouts   *)
(* with the list of pending requests.                                       *)
(*                                                                         *)
(* The peers answer, tell the requester to ignore them, stay silent, exit   *)
(* or crash.  Replies carry the name of the request only; `of' is the call  *)
(* a reply was made for, which the code cannot see.                         *)
(***************************************************************************)
EXTENDS Integers, Sequences, FiniteSets

CONSTANTS
  Peers, Primary,  \* the other processes; the one a secondary talks to
  Names,           \* action names
  MaxCalls,        \* bound: requests, in all
  MaxFaults        \* bound: failures to send or to set an alarm, early wake-ups
                   \* and alarms

ASSUME MpParameters ==
  /\ IsFiniteSet(Peers) /\ Primary \in Peers
  /\ MaxCalls \in Nat /\ MaxFaults \in Nat
  /\ "none" \notin Names

Calls == 1 .. MaxCalls
NoCall == 0

VARIABLES
  role,            \* rte_eal_process_type of the requester
  peer, sock,      \* each peer, and the file of its socket
  inbox, net,      \* requests a peer has not answered; replies on their way
  pending, mutex,  \* pending_requests.requests and .lock
  call,            \* the calls of rte_mp_request_sync and _async; `lost' is a
                   \* history: peers whose alarm went off before the deadline
  trig,            \* the call whose callback a thread is about to run
  faults

mpvars == <<role, peer, sock, inbox, net, pending, mutex, call, trig, faults>>
peervars == <<peer, sock, inbox>>

NewCall == [kind |-> "none", state |-> "new", name |-> "none", todo |-> {}, sent |-> 0,
            recv |-> {}, processed |-> 0, late |-> FALSE, lost |-> 0, callbacks |-> 0]

MpInit ==
  /\ role \in {"primary", "secondary"}
  /\ peer \in [Peers -> {"init", "ready", "dead"}]
  /\ \A p \in Peers : peer[p] = "dead" <=> role = "secondary" /\ p # Primary
  /\ sock = [p \in Peers |-> IF peer[p] = "dead" THEN "gone" ELSE "bound"]
  /\ inbox = [p \in Peers |-> {}] /\ net = <<>>
  /\ pending = <<>> /\ mutex = NoCall
  /\ call = [c \in Calls |-> NewCall]
  /\ trig = [mp |-> NoCall, intr |-> NoCall]
  /\ faults = 0

Fault == faults < MaxFaults /\ faults' = faults + 1

\* Calls are numbered in the order in which they begin.
Next1(c) == call[c].state = "new" /\ \A d \in Calls : d < c => call[d].state # "new"

\* Whom a request goes to: all sockets in the directory, or the primary.
Dests == IF role = "primary" THEN {p \in Peers : sock[p] # "gone"} ELSE {Primary}

-----------------------------------------------------------------------------
(* The peers: process_msg for requests, rte_mp_reply, start-up and exit      *)

\* "we should tell the requester to ignore our existence because we're not yet
\* ready to process this request"
PeerIgnores(p, c) ==
  /\ peer[p] = "init" /\ c \in inbox[p]
  /\ inbox' = [inbox EXCEPT ![p] = @ \ {c}]
  /\ net' = Append(net, [type |-> "IGN", from |-> p, name |-> call[c].name, of |-> c])
  /\ UNCHANGED <<role, peer, sock, pending, mutex, call, trig, faults>>

\* The action of a peer answers, at once or later.
PeerReplies(p, c) ==
  /\ peer[p] = "ready" /\ c \in inbox[p]
  /\ inbox' = [inbox EXCEPT ![p] = @ \ {c}]
  /\ net' = Append(net, [type |-> "REP", from |-> p, name |-> call[c].name, of |-> c])
  /\ UNCHANGED <<role, peer, sock, pending, mutex, call, trig, faults>>

\* The peer finishes its start-up: init_complete, with its action registered.
PeerReady(p) ==
  /\ peer[p] = "init"
  /\ peer' = [peer EXCEPT ![p] = "ready"]
  /\ UNCHANGED <<role, sock, inbox, net, pending, mutex, call, trig, faults>>

\* It exits (close_socket_fd removes the file) or crashes; what it has not
\* answered is lost.
PeerEnds(p, s) ==
  /\ peer[p] # "dead"
  /\ peer' = [peer EXCEPT ![p] = "dead"]
  /\ sock' = [sock EXCEPT ![p] = s]
  /\ inbox' = [inbox EXCEPT ![p] = {}]
  /\ UNCHANGED <<role, net, pending, mutex, call, trig, faults>>

-----------------------------------------------------------------------------
(* send_msg and find_request_by_name                                        *)

Entry(k, p, n, c) == [kind |-> k, dst |-> p, name |-> n, call |-> c, got |-> 0, of |-> NoCall]

Matches(p, n) == {i \in DOMAIN pending : pending[i].dst = p /\ pending[i].name = n}

\* Mutant: nobody looks whether the same request is pending.
ExistsNever(p, n) == FALSE

Exists(p, n) == Matches(p, n) # {}

\* What sending to a peer can come to.  "refused" is the socket of a crashed
\* process: the primary unlinks it and goes on.
Sends(p) ==
  (IF sock[p] = "bound" THEN {"sent"} ELSE IF sock[p] = "stale" /\ role = "primary" THEN {"refused"} ELSE {"error"})
    \union (IF faults < MaxFaults THEN {"fault"} ELSE {})

\* A sequence without its i-th element, and the elements of a set in some order.
\* (SequencesExt has both; the proofs cannot afford all that it brings with it.)
RemoveAt(s, i) == SubSeq(s, 1, i - 1) \o SubSeq(s, i + 1, Len(s))
SetToSeq(S) ==
  LET places == 1 .. Cardinality(S) IN
  CHOOSE q \in [places -> S] : \A i, j \in places : q[i] = q[j] => i = j

\* The list without its i-th entry.
Without(i) == RemoveAt(pending, i)

-----------------------------------------------------------------------------
(* rte_mp_request_sync: asks one peer after the other, and holds the lock of *)
(* the list except while it waits                                           *)

SyncCall(c, n) ==
  /\ Next1(c) /\ mutex = NoCall
  /\ mutex' = c
  /\ call' = [call EXCEPT ![c] = [NewCall EXCEPT
                !.kind = "sync", !.state = "ask", !.name = n, !.todo = Dests]]
  /\ UNCHANGED <<role, peervars, net, pending, trig, faults>>

\* The call returns -1 and no messages.
SyncFails(c) ==
  /\ call' = [call EXCEPT ![c] = [@ EXCEPT !.state = "failed", !.todo = {}, !.sent = 0, !.recv = {}, !.late = FALSE]]
  /\ mutex' = NoCall

\* "A pending request" to the same peer exists, or the message cannot be sent.
SyncCannot(c, p) ==
  /\ call[c].state = "ask" /\ p \in call[c].todo
  /\ \/ Exists(p, call[c].name) /\ UNCHANGED faults
     \/ ~ Exists(p, call[c].name) /\ "error" \in Sends(p) /\ UNCHANGED faults
     \/ ~ Exists(p, call[c].name) /\ Fault
  /\ SyncFails(c)
  /\ UNCHANGED <<role, peervars, net, pending, trig>>

SyncRefused(c, p) ==
  /\ call[c].state = "ask" /\ p \in call[c].todo /\ ~ Exists(p, call[c].name)
  /\ "refused" \in Sends(p)
  /\ sock' = [sock EXCEPT ![p] = "gone"]
  /\ call' = [call EXCEPT ![c].todo = @ \ {p}]
  /\ UNCHANGED <<role, peer, inbox, net, pending, mutex, trig, faults>>

\* The message is sent and the wait begins, which unlocks the list.
SyncSend(c, p) ==
  /\ call[c].state = "ask" /\ p \in call[c].todo /\ ~ Exists(p, call[c].name)
  /\ "sent" \in Sends(p)
  /\ inbox' = [inbox EXCEPT ![p] = @ \union {c}]
  /\ pending' = Append(pending, Entry("sync", p, call[c].name, c))
  /\ call' = [call EXCEPT ![c] = [@ EXCEPT !.state = "wait", !.todo = call[c].todo \ {p}, !.sent = call[c].sent + 1]]
  /\ mutex' = NoCall
  /\ UNCHANGED <<role, peer, sock, net, trig, faults>>

\* Mutant: the entry of a request that timed out stays on the list.
SyncTimeoutKeeps(c, i) ==
  /\ call[c].state = "wait" /\ mutex = NoCall
  /\ pending[i].call = c /\ pending[i].got = 0
  /\ IF call[c].late THEN UNCHANGED faults ELSE Fault
  /\ SyncFails(c)
  /\ UNCHANGED <<role, peervars, net, pending, trig>>

\* Mutant: the wait has no deadline.
SyncTimeoutNever(c, i) ==
  /\ call[c].state = "wait" /\ mutex = NoCall
  /\ pending[i].call = c /\ pending[i].got = 0
  /\ Fault
  /\ pending' = Without(i)
  /\ SyncFails(c)
  /\ UNCHANGED <<role, peervars, net, trig>>

\* The wait ended without a reply: the deadline is over, or pthread_cond_timedwait
\* woke up for no reason.
SyncTimeout(c, i) ==
  /\ call[c].state = "wait" /\ mutex = NoCall
  /\ pending[i].call = c /\ pending[i].got = 0
  /\ IF call[c].late THEN UNCHANGED faults ELSE Fault
  /\ pending' = Without(i)
  /\ SyncFails(c)
  /\ UNCHANGED <<role, peervars, net, trig>>

\* It ended with one, or with the advice to ignore the peer.
SyncReply(c, i) ==
  LET e == pending[i]
      r == call[c] IN
  /\ r.state = "wait" /\ mutex = NoCall
  /\ e.call = c /\ e.got # 0
  /\ pending' = Without(i)
  /\ call' = [call EXCEPT ![c] = [r EXCEPT
       !.state = "ask",
       !.sent = IF e.got = -1 THEN r.sent - 1 ELSE r.sent,
       !.recv = IF e.got = 1 THEN r.recv \union {[from |-> e.dst, of |-> e.of]} ELSE r.recv]]
  /\ mutex' = c
  /\ UNCHANGED <<role, peervars, net, trig, faults>>

SyncDone(c) ==
  /\ call[c].state = "ask" /\ call[c].todo = {}
  /\ call' = [call EXCEPT ![c] = [@ EXCEPT !.state = "ok", !.late = FALSE]]
  /\ mutex' = NoCall
  /\ UNCHANGED <<role, peervars, net, pending, trig, faults>>

-----------------------------------------------------------------------------
(* rte_mp_request_async: one critical section sends to all                   *)

\* What can happen to each destination: as for send_msg, but also that the
\* message is sent and the alarm cannot be set.
Outcomes(n) ==
  {out \in [Dests -> {"exists", "sent", "refused", "error", "fault", "noalarm"}] :
     /\ \A p \in Dests :
          IF Exists(p, n) THEN out[p] = "exists"
          ELSE out[p] \in Sends(p) \union (IF {"sent", "fault"} \subseteq Sends(p) THEN {"noalarm"} ELSE {})
     /\ faults + Cardinality({p \in Dests : out[p] \in {"fault", "noalarm"}}) <= MaxFaults}

AsyncCall(c, n, out) ==
  LET with(o) == {p \in DOMAIN out : out[p] \in o}
      failed == with({"exists", "error", "fault", "noalarm"}) # {}
      sent == with({"sent"}) IN
  /\ Next1(c) /\ mutex = NoCall
  /\ inbox' = [p \in Peers |-> IF p \in with({"sent", "noalarm"}) THEN inbox[p] \union {c} ELSE inbox[p]]
  /\ sock' = [p \in Peers |-> IF p \in with({"refused"}) THEN "gone" ELSE sock[p]]
  /\ faults' = faults + Cardinality(with({"fault", "noalarm"}))
  /\ call' = [call EXCEPT ![c] = [NewCall EXCEPT
       !.kind = "async", !.name = n,
       !.state = IF failed THEN "failed" ELSE "open",
       !.sent = IF failed THEN 0 ELSE Cardinality(sent)]]
     \* "On partial failure, roll back all queued requests"; "if we didn't send
     \* anything, put dummy request on the queue"
  /\ pending' =
       IF failed THEN pending
       ELSE IF sent = {} THEN <<[Entry("dummy", Primary, "none", c) EXCEPT !.got = 1]>> \o pending
       ELSE pending \o [i \in 1 .. Cardinality(sent) |-> Entry("async", SetToSeq(sent)[i], n, c)]
  /\ UNCHANGED <<role, peer, net, mutex, trig>>

\* Nothing was sent and the alarm of the dummy cannot be set: "roll back the
\* changes".
AsyncNoDummy(c, n, out) ==
  /\ Next1(c) /\ mutex = NoCall
  /\ \A p \in DOMAIN out : out[p] = "refused"
  /\ Fault
  /\ sock' = [p \in Peers |-> IF p \in DOMAIN out THEN "gone" ELSE sock[p]]
  /\ call' = [call EXCEPT ![c] = [NewCall EXCEPT !.kind = "async", !.name = n, !.state = "failed"]]
  /\ UNCHANGED <<role, peer, inbox, net, pending, mutex, trig>>

\* Mutant: a timeout is not counted as processed.
AsyncHandleUncounted(e, i, th) ==
  LET c == e.call
      r == call[c]
      answered == e.got = 1 /\ e.kind = "async"
      processed == IF answered THEN r.processed + 1 ELSE r.processed
      sent == IF e.got = -1 THEN r.sent - 1 ELSE r.sent IN
  /\ pending' = Without(i)
  /\ call' = [call EXCEPT ![c] = [r EXCEPT
       !.processed = processed, !.sent = sent,
       !.lost = IF e.got = 0 /\ ~ r.late THEN r.lost + 1 ELSE r.lost,
       !.recv = IF answered THEN r.recv \union {[from |-> e.dst, of |-> e.of]} ELSE r.recv]]
  /\ trig' = IF processed = sent THEN [trig EXCEPT ![th] = c] ELSE trig

\* process_async_request and async_reply_handle_thread_unsafe: count the entry
\* and remove it; the last one triggers the callback, in the thread `th'.  An
\* entry that is neither answered nor late is removed and not counted.
AsyncHandle(e, i, th) ==
  LET c == e.call
      r == call[c]
      answered == e.got = 1 /\ e.kind = "async"
      processed == IF answered \/ (e.got # -1 /\ r.late) THEN r.processed + 1 ELSE r.processed
      sent == IF e.got = -1 THEN r.sent - 1 ELSE r.sent
      last == processed = sent IN
  /\ pending' = Without(i)
  /\ call' = [call EXCEPT ![c] = [r EXCEPT
       !.processed = processed, !.sent = sent,
       !.lost = IF e.got = 0 /\ ~ r.late THEN r.lost + 1 ELSE r.lost,
       !.recv = IF answered THEN r.recv \union {[from |-> e.dst, of |-> e.of]} ELSE r.recv]]
  /\ trig' = IF last THEN [trig EXCEPT ![th] = c] ELSE trig

\* async_reply_handle, when the alarm of an entry goes off: that of a dummy at any
\* time, that of a request after the deadline or, as alarms run by another clock
\* than deadlines (CLOCK_MONOTONIC_RAW and CLOCK_MONOTONIC), before it.
Alarm(i) ==
  LET e == pending[i] IN
  /\ mutex = NoCall /\ trig.intr = NoCall
  /\ e.kind # "sync"
  /\ IF e.kind = "dummy" \/ call[e.call].late THEN UNCHANGED faults ELSE Fault
  /\ AsyncHandle(e, i, "intr")
  /\ UNCHANGED <<role, peervars, net, mutex>>

\* trigger_async_action: run the callback, then free everything.
Trigger(th) ==
  /\ trig[th] # NoCall
  /\ call' = [call EXCEPT ![trig[th]] = [NewCall EXCEPT
       !.kind = "async", !.name = call[trig[th]].name, !.state = "done",
       !.callbacks = call[trig[th]].callbacks + 1]]
  /\ trig' = [trig EXCEPT ![th] = NoCall]
  /\ UNCHANGED <<role, peervars, net, pending, mutex, faults>>

-----------------------------------------------------------------------------
(* The message thread: process_msg for replies                              *)

\* "Drop mp reply"
ReceiveDrop ==
  /\ net # <<>> /\ mutex = NoCall /\ trig.mp = NoCall
  /\ Matches(Head(net).from, Head(net).name) = {}
  /\ net' = Tail(net)
  /\ UNCHANGED <<role, peervars, pending, mutex, call, trig, faults>>

\* The reply goes to the first pending request with its sender and its name.
Receive(i) ==
  LET msg == Head(net)
      e == [pending[i] EXCEPT !.got = IF msg.type = "REP" THEN 1 ELSE -1, !.of = msg.of] IN
  /\ net # <<>> /\ mutex = NoCall /\ trig.mp = NoCall
  /\ i \in Matches(msg.from, msg.name) /\ \A j \in Matches(msg.from, msg.name) : i <= j
  /\ net' = Tail(net)
  /\ IF e.kind = "sync"
     THEN pending' = [pending EXCEPT ![i] = e] /\ UNCHANGED <<call, trig>>
     ELSE AsyncHandle(e, i, "mp")
  /\ UNCHANGED <<role, peervars, mutex, faults>>

\* The deadline of a call passes.
Deadline(c) ==
  /\ call[c].state \in {"ask", "wait", "open"} /\ ~ call[c].late
  /\ call' = [call EXCEPT ![c].late = TRUE]
  /\ UNCHANGED <<role, peervars, net, pending, mutex, trig, faults>>

-----------------------------------------------------------------------------
SyncStep(c) ==
  \/ SyncDone(c)
  \/ \E p \in Peers : SyncCannot(c, p) \/ SyncRefused(c, p) \/ SyncSend(c, p)
  \/ \E i \in DOMAIN pending : SyncTimeout(c, i) \/ SyncReply(c, i)

Begin(c, n) ==
  /\ Next1(c) /\ mutex = NoCall
  /\ \/ SyncCall(c, n)
     \/ \E out \in Outcomes(n) : AsyncCall(c, n, out) \/ AsyncNoDummy(c, n, out)

PeerStep(p) ==
  \/ \E c \in Calls : PeerIgnores(p, c) \/ PeerReplies(p, c)
  \/ PeerReady(p) \/ \E s \in {"gone", "stale"} : PeerEnds(p, s)

MpThread == ReceiveDrop \/ (\E i \in DOMAIN pending : Receive(i)) \/ Trigger("mp")
IntrThread == (\E i \in DOMAIN pending : Alarm(i)) \/ Trigger("intr")

MpNext ==
  \/ \E c \in Calls : SyncStep(c) \/ Deadline(c) \/ \E n \in Names : Begin(c, n)
  \/ \E p \in Peers : PeerStep(p)
  \/ MpThread \/ IntrThread

MpSpec == MpInit /\ [][MpNext]_mpvars

\* The threads of the requester run and time passes; nothing is assumed of the
\* peers.
MpFairSpec ==
  /\ MpSpec
  /\ WF_mpvars(MpThread) /\ WF_mpvars(IntrThread)
  /\ \A c \in Calls : WF_mpvars(SyncStep(c)) /\ WF_mpvars(Deadline(c))

-----------------------------------------------------------------------------
(* Correctness                                                              *)

EntriesOf(c) == {i \in DOMAIN pending : pending[i].call = c}

\* What an open asynchronous request has sent is what has been processed, what is
\* pending and what was lost: replies, advice to ignore a peer and timeouts in any
\* order, from two threads, never double count a peer, and only an alarm that goes
\* off before the deadline loses one.  A synchronous request that succeeds has a
\* reply from every peer it counts as sent.
Accounts ==
  \A c \in Calls :
    /\ call[c].state = "open" /\ c \notin {trig.mp, trig.intr} /\ call[c].sent > 0 =>
         call[c].sent = call[c].processed + Cardinality(EntriesOf(c)) + call[c].lost
    /\ call[c].kind = "sync" /\ call[c].state = "ok" =>
         Cardinality({x.from : x \in call[c].recv}) = call[c].sent

\* Nothing refers to what was freed: an entry on the list belongs to a call that
\* waits for it (pending_req of mp_request_sync is on the stack of the caller),
\* and when a callback is about to run, or has run, no entry refers to its
\* parameters.  A callback runs at most once.
NoDangling ==
  /\ \A i \in DOMAIN pending : LET c == pending[i].call IN
       IF pending[i].kind = "sync" THEN call[c].state = "wait"
       ELSE call[c].state = "open" /\ c \notin {trig.mp, trig.intr}
  /\ trig.mp # NoCall => trig.mp # trig.intr
  /\ \A c \in Calls : call[c].callbacks <= 1

\* The reply that is taken off the socket goes to the entry of the request that
\* it answers, if that is on the list.
ReplyToCaller ==
  \A i \in DOMAIN pending :
    /\ Len(net') < Len(net)
    /\ pending[i].call = Head(net).of /\ pending[i].dst = Head(net).from
    => IF pending[i].kind = "sync"
       THEN pending'[i].call = pending[i].call /\ pending'[i].of = pending[i].call
       ELSE [from |-> pending[i].dst, of |-> pending[i].call] \in call'[pending[i].call].recv
            \/ Head(net).type = "IGN"

\* "The resulting response will then be delivered to the correct requestor": a
\* reply to a request that is still pending is never given to another one.
\* (When the request has timed out, it may be: names are all that is compared.)
RightReply == [][ReplyToCaller]_mpvars

\* A synchronous request returns, whatever the peers do, and the callback of an
\* asynchronous one that was sent to somebody is called, unless an alarm went off
\* before the deadline (the count of the peers then never reaches `sent').  One
\* with nobody to send it to queues a dummy entry, and when the alarm of that is
\* handled after the deadline AsyncHandle calls nothing.
RequestsEnd ==
  \A c \in Calls :
    /\ call[c].kind = "sync" ~> call[c].state \in {"ok", "failed"}
    /\ call[c].state = "open" /\ call[c].sent > 0 ~> call[c].callbacks = 1 \/ call[c].lost > 0
=============================================================================
