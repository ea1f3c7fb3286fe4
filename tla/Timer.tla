-------------------------------- MODULE Timer --------------------------------
(***************************************************************************)
(* The timer library (lib/timer/rte_timer.c): a pending list per lcore, a   *)
(* status word per timer that serves as its lock, and the managers that     *)
(* take expired timers off a list and run their callbacks.                  *)
(*                                                                         *)
(* One action is one access to a status word or one critical section of a   *)
(* list lock.  timer_set_config_state and timer_set_running_state are       *)
(* compare-and-swap loops whose outcome is that of their last access, so    *)
(* each is one action.  The skip list is the ordered sequence it holds.     *)
(***************************************************************************)
EXTENDS Integers, Sequences

CONSTANTS
  Lcores,     \* the lcores, which manage timers
  AltLcores,  \* those of them that use rte_timer_alt_manage
  PollLcores, \* its poll_lcores: the lcores whose lists it looks at
  Others,     \* threads without an lcore id
  Timers,
  NoTimer, NoOwner,
  Ticks,      \* values of the ticks argument
  Periodic,   \* the timers that are periodic when reset
  MaxTime,    \* bound: the clock stops here
  MaxCalls    \* bound: calls of reset and stop, in all

ASSUME TimerParameters ==
  /\ AltLcores \subseteq Lcores /\ Periodic \subseteq Timers
  /\ PollLcores \in Seq(Lcores)
  /\ NoTimer \notin Timers /\ NoOwner \notin Lcores \union Others
  /\ Ticks \subseteq Nat /\ MaxTime \in Nat /\ MaxCalls \in Nat

Threads == Lcores \union Others

VARIABLES
  now,               \* rte_get_timer_cycles
  st,                \* tim->status: state and owner
  expire, period,    \* tim->expire, tim->period
  list, hexp, lock,  \* pending_head.sl_next, pending_head.expire, list_lock
  updated, running,  \* priv_timer[].updated, running_tim
  mpc, m,            \* where each lcore is in a manager, and its locals
  op,                \* the call of reset or stop of each thread
  calls, runs        \* calls so far; callbacks run since the last reset

tvars == <<now, st, expire, period, list, hexp, lock, updated, running, mpc, m, op, calls, runs>>
timvars == <<expire, period, runs>>
listvars == <<list, hexp>>
corevars == <<updated, running>>

Status(s, o) == [state |-> s, owner |-> o]
Stopped == Status("STOP", NoOwner)
NoOp == [call |-> "none", step |-> "none", sync |-> FALSE, tim |-> NoTimer,
         ticks |-> 0, expire |-> 0, period |-> 0, dest |-> NoOwner, from |-> NoOwner]
NoManage == [polls |-> <<>>, cur |-> 0, cut |-> <<>>, run |-> <<>>, tim |-> NoTimer]

TimerInit ==
  /\ now = 0
  /\ st = [t \in Timers |-> Stopped]
  /\ expire = [t \in Timers |-> 0] /\ period = [t \in Timers |-> 0]
  /\ list = [l \in Lcores |-> <<>>] /\ hexp = [l \in Lcores |-> 0]
  /\ lock = [l \in Lcores |-> NoOwner]
  /\ updated = [l \in Lcores |-> FALSE] /\ running = [l \in Lcores |-> NoTimer]
  /\ mpc = [l \in Lcores |-> "idle"] /\ m = [l \in Lcores |-> NoManage]
  /\ op = [p \in Threads |-> NoOp]
  /\ calls = 0 /\ runs = [t \in Timers |-> 0]

Tick ==
  /\ now < MaxTime
  /\ now' = now + 1
  /\ UNCHANGED <<st, timvars, listvars, lock, corevars, mpc, m, op, calls>>

-----------------------------------------------------------------------------
(* The pending lists                                                        *)

\* Where timer_get_prev_entries stops: behind everything that expires no later.
Upto(s, exp, time) ==
  CHOOSE k \in 0 .. Len(s) :
    /\ \A i \in 1 .. k : exp[s[i]] <= time
    /\ k < Len(s) => exp[s[k + 1]] > time

First(s, k) == SubSeq(s, 1, k)
Rest(s, k) == SubSeq(s, k + 1, Len(s))
In(s, t) == \E i \in DOMAIN s : s[i] = t

FirstExpire(s, exp) == IF s = <<>> THEN 0 ELSE exp[Head(s)]

\* timer_del: the header is written only when the first entry goes; a timer
\* that is not in the list any more is looked for in vain.
Delete(l, t) ==
  LET s == list[l]
      i == CHOOSE i \in DOMAIN s : s[i] = t
  IN  IF In(s, t)
      THEN /\ list' = [list EXCEPT ![l] = First(s, i - 1) \o Rest(s, i)]
           /\ hexp' = IF i = 1 THEN [hexp EXCEPT ![l] = FirstExpire(Tail(s), expire)] ELSE hexp
      ELSE UNCHANGED listvars

\* timer_add, with the new expiry time.
Add(l, t, e) ==
  LET s == list[l]
      k == Upto(s, expire, e)
      added == First(s, k) \o <<t>> \o Rest(s, k)
  IN  /\ expire' = [expire EXCEPT ![t] = e]
      /\ list' = [list EXCEPT ![l] = added]
      /\ hexp' = [hexp EXCEPT ![l] = expire'[Head(added)]]

\* Mutant: any timer that runs on this lcore may be configured, the one whose
\* callback is being called or not.
CanConfigOwned(p, t) ==
  /\ st[t].state # "CONFIG"
  /\ st[t].state = "RUNNING" => st[t].owner = p

\* timer_set_config_state: "timer is running on another core or ready to run on
\* local core, exit"; "timer is being configured on another core".
CanConfig(p, t) ==
  /\ st[t].state # "CONFIG"
  /\ st[t].state = "RUNNING" => st[t].owner = p /\ running[p] = t

-----------------------------------------------------------------------------
(* rte_timer_reset, rte_timer_stop and their _sync variants, called by any  *)
(* thread and from callbacks                                                *)

MayCall(p, sync) ==
  /\ op[p] = NoOp /\ calls < MaxCalls
  /\ p \in Lcores => mpc[p] = "idle" \/ (mpc[p] = "cb" /\ ~ sync)

\* tim_lcore is any lcore: a given one, or the next in turn for LCORE_ID_ANY.
CallReset(p, t, dest, ticks, sync) ==
  /\ MayCall(p, sync)
  /\ calls' = calls + 1
  /\ op' = [op EXCEPT ![p] = [NoOp EXCEPT
       !.call = "reset", !.step = "config", !.sync = sync, !.tim = t, !.ticks = ticks,
       !.expire = now + ticks, !.period = IF t \in Periodic THEN ticks ELSE 0, !.dest = dest]]
  /\ UNCHANGED <<now, st, timvars, listvars, lock, corevars, mpc, m>>

CallStop(p, t, sync) ==
  /\ MayCall(p, sync)
  /\ calls' = calls + 1
  /\ op' = [op EXCEPT ![p] = [NoOp EXCEPT
       !.call = "stop", !.step = "config", !.sync = sync, !.tim = t]]
  /\ UNCHANGED <<now, st, timvars, listvars, lock, corevars, mpc, m>>

\* timer_set_config_state succeeds.
SetConfig(p) ==
  LET o == op[p] IN
  /\ o.step = "config" /\ CanConfig(p, o.tim)
  /\ st' = [st EXCEPT ![o.tim] = Status("CONFIG", p)]
  /\ updated' = IF st[o.tim].state = "RUNNING" THEN [updated EXCEPT ![p] = TRUE] ELSE updated
  /\ op' = [op EXCEPT ![p] = IF st[o.tim].state = "PENDING"
                             THEN [o EXCEPT !.step = "del", !.from = st[o.tim].owner]
                             ELSE [o EXCEPT !.step = "set"]]
  /\ UNCHANGED <<now, timvars, listvars, lock, running, mpc, m, calls>>

\* It fails: the call returns -1, or a _sync call begins again.
ConfigFails(p) ==
  LET o == op[p] IN
  /\ o.step = "config" /\ ~ CanConfig(p, o.tim)
  /\ op' = [op EXCEPT ![p] =
       IF o.sync THEN [o EXCEPT !.expire = IF o.call = "reset" THEN now + o.ticks ELSE 0] ELSE NoOp]
  /\ UNCHANGED <<now, st, timvars, listvars, lock, corevars, mpc, m, calls>>

\* timer_del, under the lock of the list the timer was pending on.
Del(p) ==
  LET o == op[p] IN
  /\ o.step = "del" /\ lock[o.from] = NoOwner
  /\ Delete(o.from, o.tim)
  /\ op' = [op EXCEPT ![p] = [o EXCEPT !.step = "set", !.from = NoOwner]]
  /\ UNCHANGED <<now, st, timvars, lock, corevars, mpc, m, calls>>

\* timer_add and the new status, under the lock of the destination.
SetPending(p) ==
  LET o == op[p] IN
  /\ o.step = "set" /\ o.call = "reset" /\ lock[o.dest] = NoOwner
  /\ Add(o.dest, o.tim, o.expire)
  /\ period' = [period EXCEPT ![o.tim] = o.period]
  /\ runs' = [runs EXCEPT ![o.tim] = 0]
  /\ st' = [st EXCEPT ![o.tim] = Status("PENDING", o.dest)]
  /\ op' = [op EXCEPT ![p] = NoOp]
  /\ UNCHANGED <<now, lock, corevars, mpc, m, calls>>

SetStop(p) ==
  LET o == op[p] IN
  /\ o.step = "set" /\ o.call = "stop"
  /\ st' = [st EXCEPT ![o.tim] = Stopped]
  /\ op' = [op EXCEPT ![p] = NoOp]
  /\ UNCHANGED <<now, timvars, listvars, lock, corevars, mpc, m, calls>>

-----------------------------------------------------------------------------
(* rte_timer_manage and rte_timer_alt_manage                                *)

Polls(l) == IF l \in AltLcores THEN PollLcores ELSE <<l>>

MGoto(l, pc) == mpc' = [mpc EXCEPT ![l] = pc]
MBecomes(l, rec) == m' = [m EXCEPT ![l] = rec]

Manage(l) ==
  /\ mpc[l] = "idle" /\ op[l] = NoOp
  /\ MBecomes(l, [NoManage EXCEPT !.polls = Polls(l)])
  /\ MGoto(l, "scan")
  /\ UNCHANGED <<now, st, timvars, listvars, lock, corevars, op, calls>>

\* "optimize for the case where per-cpu list is empty"; "quick check here
\* outside the lock".
ScanSkip(l) ==
  /\ mpc[l] = "scan" /\ m[l].polls # <<>>
  /\ LET q == Head(m[l].polls) IN list[q] = <<>> \/ hexp[q] > now
  /\ MBecomes(l, [m[l] EXCEPT !.polls = Tail(m[l].polls)])
  /\ UNCHANGED <<now, st, timvars, listvars, lock, corevars, mpc, op, calls>>

Scan(l) ==
  /\ mpc[l] = "scan" /\ m[l].polls # <<>>
  /\ LET q == Head(m[l].polls) IN list[q] # <<>> /\ hexp[q] <= now
  /\ MBecomes(l, [m[l] EXCEPT !.cur = now])
  /\ MGoto(l, "lock")
  /\ UNCHANGED <<now, st, timvars, listvars, lock, corevars, op, calls>>

Expired(q, time) == list[q] # <<>> /\ expire[Head(list[q])] <= time

\* "if nothing to do just unlock and return"
LockNothing(l) ==
  LET q == Head(m[l].polls) IN
  /\ mpc[l] = "lock" /\ lock[q] = NoOwner
  /\ ~ Expired(q, m[l].cur)
  /\ MBecomes(l, [m[l] EXCEPT !.polls = Tail(m[l].polls), !.cur = 0])
  /\ MGoto(l, "scan")
  /\ UNCHANGED <<now, st, timvars, listvars, lock, corevars, op, calls>>

\* Mutant: the list is broken one tick too late.
CutLate(l) ==
  LET q == Head(m[l].polls)
      k == Upto(list[q], expire, m[l].cur + 1) IN
  /\ mpc[l] = "lock" /\ lock[q] = NoOwner
  /\ Expired(q, m[l].cur)
  /\ lock' = [lock EXCEPT ![q] = l]
  /\ list' = [list EXCEPT ![q] = Rest(list[q], k)]
  /\ MBecomes(l, [m[l] EXCEPT !.cut = First(list[q], k), !.run = Append(m[l].run, <<>>)])
  /\ MGoto(l, "cut")
  /\ UNCHANGED <<now, st, timvars, hexp, corevars, op, calls>>

\* "break the existing list at current time point"
Cut(l) ==
  LET q == Head(m[l].polls)
      k == Upto(list[q], expire, m[l].cur) IN
  /\ mpc[l] = "lock" /\ lock[q] = NoOwner
  /\ Expired(q, m[l].cur)
  /\ lock' = [lock EXCEPT ![q] = l]
  /\ list' = [list EXCEPT ![q] = Rest(list[q], k)]
  /\ MBecomes(l, [m[l] EXCEPT !.cut = First(list[q], k), !.run = Append(m[l].run, <<>>)])
  /\ MGoto(l, "cut")
  /\ UNCHANGED <<now, st, timvars, hexp, corevars, op, calls>>

\* timer_set_running_state of the next timer of the expired list.
SetRunning(l) ==
  LET t == Head(m[l].cut)
      run == m[l].run
      n == Len(run) IN
  /\ mpc[l] = "cut" /\ m[l].cut # <<>> /\ st[t].state = "PENDING"
  /\ st' = [st EXCEPT ![t] = Status("RUNNING", l)]
  /\ MBecomes(l, [m[l] EXCEPT !.cut = Tail(m[l].cut), !.run = [run EXCEPT ![n] = Append(run[n], t)]])
  /\ UNCHANGED <<now, timvars, listvars, lock, corevars, mpc, op, calls>>

\* "another core is trying to re-config this one, remove it from local expired
\* list"
SkipConfigured(l) ==
  /\ mpc[l] = "cut" /\ m[l].cut # <<>> /\ st[Head(m[l].cut)].state # "PENDING"
  /\ MBecomes(l, [m[l] EXCEPT !.cut = Tail(m[l].cut)])
  /\ UNCHANGED <<now, st, timvars, listvars, lock, corevars, mpc, op, calls>>

\* Mutant: the header gets a time that the clock does not reach, whatever timers
\* are left in the list.
CutDoneStale(l) ==
  LET q == Head(m[l].polls) IN
  /\ mpc[l] = "cut" /\ m[l].cut = <<>>
  /\ hexp' = [hexp EXCEPT ![q] = MaxTime + 1]
  /\ lock' = [lock EXCEPT ![q] = NoOwner]
  /\ MBecomes(l, [m[l] EXCEPT !.polls = Tail(m[l].polls), !.cur = 0])
  /\ MGoto(l, "scan")
  /\ UNCHANGED <<now, st, timvars, list, corevars, op, calls>>

\* "update the next to expire timer value" and unlock.
CutDone(l) ==
  LET q == Head(m[l].polls) IN
  /\ mpc[l] = "cut" /\ m[l].cut = <<>>
  /\ hexp' = [hexp EXCEPT ![q] = FirstExpire(list[q], expire)]
  /\ lock' = [lock EXCEPT ![q] = NoOwner]
  /\ MBecomes(l, [m[l] EXCEPT !.polls = Tail(m[l].polls), !.cur = 0])
  /\ MGoto(l, "scan")
  /\ UNCHANGED <<now, st, timvars, list, corevars, op, calls>>

\* The first run list whose head expires first: "Find the next oldest timer".
Left(run) == {i \in DOMAIN run : run[i] # <<>>}
Oldest(run) ==
  CHOOSE i \in Left(run) : \A j \in Left(run) :
    \/ expire[Head(run[i])] < expire[Head(run[j])]
    \/ expire[Head(run[i])] = expire[Head(run[j])] /\ i <= j

Ran(l) == m[l].polls = <<>> /\ Left(m[l].run) = {}

\* The callback of a timer begins, with the list unlocked.
Pick(l) ==
  LET run == m[l].run
      i == Oldest(run)
      t == Head(run[i]) IN
  /\ mpc[l] = "scan" /\ m[l].polls = <<>> /\ ~ Ran(l)
  /\ MBecomes(l, [m[l] EXCEPT !.run = [run EXCEPT ![i] = Tail(run[i])], !.tim = t])
  /\ updated' = [updated EXCEPT ![l] = FALSE]
  /\ running' = [running EXCEPT ![l] = t]
  /\ runs' = [runs EXCEPT ![t] = runs[t] + 1]
  /\ MGoto(l, "cb")
  /\ UNCHANGED <<now, st, expire, period, listvars, lock, op, calls>>

\* Everything that expired was run; only rte_timer_manage forgets the running
\* timer here.
ManageReturns(l) ==
  /\ mpc[l] = "scan" /\ Ran(l)
  /\ MBecomes(l, NoManage)
  /\ running' = IF l \in AltLcores THEN running ELSE [running EXCEPT ![l] = NoTimer]
  /\ MGoto(l, "idle")
  /\ UNCHANGED <<now, st, timvars, listvars, lock, updated, op, calls>>

\* The callback returned.
Returned(l) == mpc[l] = "cb" /\ op[l] = NoOp

\* rte_timer_alt_manage forgets the running timer after each one.
Forget(l) == running' = IF l \in AltLcores THEN [running EXCEPT ![l] = NoTimer] ELSE running

\* "the timer was stopped or reloaded by the callback function, we have nothing
\* to do here"
CbUpdated(l) ==
  /\ Returned(l) /\ updated[l]
  /\ MBecomes(l, [m[l] EXCEPT !.tim = NoTimer])
  /\ MGoto(l, "scan")
  /\ UNCHANGED <<now, st, timvars, listvars, lock, corevars, op, calls>>

\* Mutant: the timer stays in the running state.
CbStopRunning(l) ==
  /\ Returned(l) /\ ~ updated[l] /\ period[m[l].tim] = 0
  /\ MBecomes(l, [m[l] EXCEPT !.tim = NoTimer])
  /\ Forget(l)
  /\ MGoto(l, "scan")
  /\ UNCHANGED <<now, st, timvars, listvars, lock, updated, op, calls>>

\* "remove from done list and mark timer as stopped"
CbStop(l) ==
  /\ Returned(l) /\ ~ updated[l] /\ period[m[l].tim] = 0
  /\ st' = [st EXCEPT ![m[l].tim] = Stopped]
  /\ MBecomes(l, [m[l] EXCEPT !.tim = NoTimer])
  /\ Forget(l)
  /\ MGoto(l, "scan")
  /\ UNCHANGED <<now, timvars, listvars, lock, updated, op, calls>>

\* "keep it in list and mark timer as pending": it is pending, and in no list,
\* until the reset that follows, under the lock of this lcore's list.
CbAgain(l) ==
  /\ Returned(l) /\ ~ updated[l] /\ period[m[l].tim] # 0 /\ lock[l] = NoOwner
  /\ lock' = [lock EXCEPT ![l] = l]
  /\ st' = [st EXCEPT ![m[l].tim] = Status("PENDING", l)]
  /\ MGoto(l, "again")
  /\ UNCHANGED <<now, timvars, listvars, corevars, m, op, calls>>

\* That reset: timer_set_config_state, ...
AgainConfig(l) ==
  /\ mpc[l] = "again" /\ CanConfig(l, m[l].tim)
  /\ st' = [st EXCEPT ![m[l].tim] = Status("CONFIG", l)]
  /\ MGoto(l, "add")
  /\ UNCHANGED <<now, timvars, listvars, lock, corevars, m, op, calls>>

\* ... which fails when another thread was faster, ...
AgainFails(l) ==
  /\ mpc[l] = "again" /\ ~ CanConfig(l, m[l].tim)
  /\ lock' = [lock EXCEPT ![l] = NoOwner]
  /\ MBecomes(l, [m[l] EXCEPT !.tim = NoTimer])
  /\ Forget(l)
  /\ MGoto(l, "scan")
  /\ UNCHANGED <<now, st, timvars, listvars, updated, op, calls>>

\* ... and timer_add, one period later.
AgainAdd(l) ==
  LET t == m[l].tim IN
  /\ mpc[l] = "add"
  /\ Add(l, t, expire[t] + period[t])
  /\ st' = [st EXCEPT ![t] = Status("PENDING", l)]
  /\ lock' = [lock EXCEPT ![l] = NoOwner]
  /\ MBecomes(l, [m[l] EXCEPT !.tim = NoTimer])
  /\ Forget(l)
  /\ MGoto(l, "scan")
  /\ UNCHANGED <<now, period, runs, updated, op, calls>>

-----------------------------------------------------------------------------
CallStep(p) ==
  SetConfig(p) \/ ConfigFails(p) \/ Del(p) \/ SetPending(p) \/ SetStop(p)

ManageStep(l) ==
  \/ Manage(l) \/ ScanSkip(l) \/ Scan(l) \/ LockNothing(l) \/ Cut(l)
  \/ SetRunning(l) \/ SkipConfigured(l) \/ CutDone(l) \/ Pick(l) \/ ManageReturns(l)
  \/ CbUpdated(l) \/ CbStop(l) \/ CbAgain(l) \/ AgainConfig(l) \/ AgainFails(l) \/ AgainAdd(l)

TimerNext ==
  \/ Tick
  \/ \E p \in Threads :
       \/ CallStep(p)
       \/ \E t \in Timers, sync \in BOOLEAN :
            \/ CallStop(p, t, sync)
            \/ \E d \in Lcores, n \in Ticks : CallReset(p, t, d, n, sync)
  \/ \E l \in Lcores : ManageStep(l)

TimerSpec == TimerInit /\ [][TimerNext]_tvars

\* The clock runs, calls and managers go on, and every lcore calls its manager
\* from its main loop.
TimerFairSpec ==
  /\ TimerSpec
  /\ WF_tvars(Tick)
  /\ \A p \in Threads : WF_tvars(CallStep(p))
  /\ \A l \in Lcores : WF_tvars(ManageStep(l))

-----------------------------------------------------------------------------
(* Correctness                                                              *)

\* The timers some lcore still has in its run lists or has cut off.
InRun(l, t) ==
  In(m[l].cut, t) \/ \E i \in DOMAIN m[l].run : In(m[l].run[i], t)

\* "If it succeeds, the timer is not referenced anymore by the timer library and
\* the timer structure can be freed (even in the callback function)": a stopped
\* timer is in no list and in no run list, and a manager that runs its callback
\* has been told not to touch it afterwards.
StoppedIsFree ==
  \A t \in Timers : st[t].state = "STOP" =>
    \A l \in Lcores :
      /\ ~ In(list[l], t) /\ ~ InRun(l, t)
      /\ m[l].tim = t => mpc[l] = "cb" /\ updated[l]

\* Every list is in the order of expiry, its header is the expiry time of the
\* first entry whenever the lock is free, and a timer is in the list of its
\* owner if it is pending (unless a manager, under the lock, is about to put it
\* there or is about to run it).  What a manager runs or is about to run is its
\* own until the callback reconfigures it, and what a thread configures is its
\* own: the status word is the lock of the timer.
ListsSound ==
  /\ \A l \in Lcores :
       /\ \A i, j \in DOMAIN list[l] :
            i < j => expire[list[l][i]] <= expire[list[l][j]] /\ list[l][i] # list[l][j]
       /\ lock[l] = NoOwner => hexp[l] = FirstExpire(list[l], expire)
  /\ \A t \in Timers, l \in Lcores : st[t] = Status("PENDING", l) =>
       In(list[l], t) \/ (lock[l] # NoOwner /\ (m[lock[l]].tim = t \/ InRun(lock[l], t)))
  /\ \A l \in Lcores, t \in Timers :
       /\ (\E i \in DOMAIN m[l].run : In(m[l].run[i], t)) => st[t] = Status("RUNNING", l)
       /\ (mpc[l] = "cb" /\ ~ updated[l] /\ m[l].tim = t) => st[t] = Status("RUNNING", l)
  /\ \A p \in Threads : op[p].step \in {"del", "set"} => st[op[p].tim] = Status("CONFIG", p)

\* A callback never runs early, nor a second time for one reset of a timer that
\* is not periodic.
RunsOnTime ==
  /\ \A t \in Timers : period[t] = 0 => runs[t] <= 1
  /\ \A l \in Lcores : mpc[l] = "cb" /\ ~ updated[l] => expire[m[l].tim] <= now

\* A timer whose time comes is run or reconfigured: no interleaving of resets,
\* stops and managers leaves it pending in a list nobody looks at, running for
\* ever, or configured for ever.
TimerServed ==
  \A t \in Timers :
    (st[t].state # "STOP" /\ (st[t].state = "PENDING" => expire[t] <= MaxTime))
      ~> (st[t].state = "STOP" \/ (st[t].state = "PENDING" /\ expire[t] > MaxTime))

\* rte_timer_reset_sync and rte_timer_stop_sync return, outside of callbacks.
SyncReturns == \A p \in Threads : op[p].sync ~> ~ op[p].sync
=============================================================================
