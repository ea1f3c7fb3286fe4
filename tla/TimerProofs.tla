---------------------------- MODULE TimerProofs -----------------------------
(***************************************************************************)
(* Proofs about the timers, for any number of timers, lcores and threads.   *)
(* A timer that is pending, or whose call of timer_del is still to come, is *)
(* in one place: the list of its owner, or with the holder of that list's   *)
(* lock.  One that is running is with the lcore that runs it, and one that  *)
(* is configured otherwise is nowhere, so that its status is its lock.      *)
(***************************************************************************)
EXTENDS Timer, WellFoundedInduction, TLAPS

-----------------------------------------------------------------------------
(* The inductive invariant                                                  *)

States == {"STOP", "CONFIG", "PENDING", "RUNNING"}
Labels == {"idle", "scan", "lock", "cut", "cb", "again", "add"}
Manages == [polls : Seq(Lcores), cur : Nat, cut : Seq(Timers), run : Seq(Seq(Timers)),
            tim : Timers \union {NoTimer}]
Ops == [call : {"none", "reset", "stop"}, step : {"none", "config", "del", "set"}, sync : BOOLEAN,
        tim : Timers \union {NoTimer}, ticks : Nat, expire : Nat, period : Nat,
        dest : Lcores \union {NoOwner}, from : Lcores \union {NoOwner}]

TimerType ==
  /\ now \in Nat /\ calls \in Nat
  /\ st \in [Timers -> [state : States, owner : Threads \union {NoOwner}]]
  /\ expire \in [Timers -> Nat] /\ period \in [Timers -> Nat] /\ runs \in [Timers -> Nat]
  /\ list \in [Lcores -> Seq(Timers)] /\ hexp \in [Lcores -> Nat]
  /\ lock \in [Lcores -> Lcores \union {NoOwner}]
  /\ updated \in [Lcores -> BOOLEAN] /\ running \in [Lcores -> Timers \union {NoTimer}]
  /\ mpc \in [Lcores -> Labels] /\ m \in [Lcores -> Manages]
  /\ op \in [Threads -> Ops]

\* The state functions are parameters below: s the status words, o the calls,
\* e the expiry times, ls the lists.

Is(x, state, owner) == x.state = state /\ x.owner = owner

\* A call: who configures a timer owns it.
OpOK(p, c, s) ==
  /\ c.step = "none" => c = NoOp
  /\ c.step # "none" => c.tim \in Timers /\ c.call \in {"reset", "stop"}
  /\ c.call = "reset" => c.dest \in Lcores
  /\ c.step = "del" => c.from \in Lcores
  /\ c.step \in {"del", "set"} => Is(s[c.tim], "CONFIG", p)

\* The locals of a manager on lcore l: pc and r, the call c, the running timer.
LocalOK(pc, r, c, ru) ==
  /\ pc = "idle" => r = NoManage
  /\ pc \in {"lock", "cut"} => r.polls # <<>>
  /\ pc = "cut" => r.run # <<>>
  /\ pc # "cut" => r.cut = <<>>
  /\ IF pc \in {"cb", "again", "add"} THEN r.tim \in Timers ELSE r.tim = NoTimer
  /\ pc = "cb" => ru = r.tim
  /\ c # NoOp => pc \in {"idle", "cb"}

Holds(l, pc, r, q) == (pc = "cut" /\ Head(r.polls) = q) \/ (pc \in {"again", "add"} /\ l = q)

\* The timer is pending on q, or was until the call that is about to take it
\* off the list.
Deleting(s, o, t, q) ==
  /\ s[t].state = "CONFIG" /\ s[t].owner \in Threads
  /\ LET c == o[s[t].owner] IN c.step = "del" /\ c.tim = t /\ c.from = q
Waits(s, o, t, q) == Is(s[t], "PENDING", q) \/ Deleting(s, o, t, q)

Distinct(s) == \A i, j \in 1 .. Len(s) : s[i] = s[j] => i = j
Sorted(s, e) == \A i, j \in 1 .. Len(s) : i < j => e[s[i]] <= e[s[j]]
InRuns(run, t) == \E i \in DOMAIN run : In(run[i], t)
Once(run) ==
  /\ \A i \in DOMAIN run : Distinct(run[i])
  /\ \A i, j \in DOMAIN run : \A t \in Timers : In(run[i], t) /\ In(run[j], t) => i = j

\* What a manager holds is its own.
CutOK(r, ls, s, o, e, n) ==
  /\ Distinct(r.cut)
  /\ \A t \in Timers : In(r.cut, t) =>
       Waits(s, o, t, Head(r.polls)) /\ ~ In(ls[Head(r.polls)], t) /\ e[t] <= n
RunsOK(l, r, s, e, pd, rn, n) ==
  /\ Once(r.run)
  /\ \A t \in Timers : InRuns(r.run, t) =>
       Is(s[t], "RUNNING", l) /\ e[t] <= n /\ (pd[t] = 0 => rn[t] = 0)
OneOK(l, pc, r, up, ls, s, o, e, pd, n) ==
  /\ pc = "cb" => ~ InRuns(r.run, r.tim)
  /\ pc = "cb" /\ ~ up => Is(s[r.tim], "RUNNING", l) /\ e[r.tim] <= n
  /\ pc = "again" => Waits(s, o, r.tim, l) /\ ~ In(ls[l], r.tim)
  /\ pc = "add" => Is(s[r.tim], "CONFIG", l)
  /\ pc \in {"again", "add"} => pd[r.tim] # 0

LcoreOK(l, pc, r, up, ru, ls, s, o, e, pd, rn, n) ==
  /\ LocalOK(pc, r, o[l], ru) /\ r.cur <= n
  /\ CutOK(r, ls, s, o, e, n) /\ RunsOK(l, r, s, e, pd, rn, n)
  /\ OneOK(l, pc, r, up, ls, s, o, e, pd, n)

\* A pending list.
ListOK(l, ls, s, o, e) ==
  /\ Distinct(ls[l]) /\ Sorted(ls[l], e)
  /\ \A t \in Timers : In(ls[l], t) => Waits(s, o, t, l)
HeaderOK(l, ls, lk, pcs, hx, e) ==
  lk[l] = NoOwner \/ pcs[lk[l]] \in {"again", "add"} => hx[l] = FirstExpire(ls[l], e)

\* Where a pending timer is.
Placed(ls, lk, pcs, ms, t, q) ==
  \/ In(ls[q], t)
  \/ /\ lk[q] # NoOwner
     /\ In(ms[lk[q]].cut, t) \/ (pcs[lk[q]] = "again" /\ ms[lk[q]].tim = t)
PendingOK(t, s, ls, lk, pcs, ms, pd, rn) ==
  /\ s[t].state = "PENDING" =>
       /\ s[t].owner \in Lcores /\ Placed(ls, lk, pcs, ms, t, s[t].owner)
       /\ pd[t] = 0 => rn[t] = 0
  /\ pd[t] = 0 => rn[t] <= 1

OpsOK == \A p \in Threads : OpOK(p, op[p], st)
LocksOK == \A l, q \in Lcores : Holds(l, mpc[l], m[l], q) <=> lock[q] = l
LcoresOK == \A l \in Lcores :
  LcoreOK(l, mpc[l], m[l], updated[l], running[l], list, st, op, expire, period, runs, now)
PendListsOK == \A l \in Lcores : ListOK(l, list, st, op, expire)
HeadersOK == \A l \in Lcores : HeaderOK(l, list, lock, mpc, hexp, expire)
PendingsOK == \A t \in Timers : PendingOK(t, st, list, lock, mpc, m, period, runs)

TimerInv ==
  /\ TimerType /\ OpsOK /\ LocksOK /\ LcoresOK /\ PendListsOK /\ HeadersOK /\ PendingsOK

-----------------------------------------------------------------------------
(* Lists                                                                    *)

LEMMA LeastNat ==
  ASSUME NEW S, S \subseteq Nat, S # {}
  PROVE  \E x \in S : \A k \in S : x <= k
<1>1. PICK x \in S : \A k \in S : ~ (<<k, x>> \in OpToRel(<, Nat))
  BY NatLessThanWellFounded, WFMin, Zenon
<1>2. ASSUME NEW k \in S PROVE x <= k
  <2>1. x \in Nat /\ k \in Nat
    BY Zenon
  <2>2. ~ (k < x)
    BY <1>1, <2>1, Zenon DEF OpToRel
  <2> QED  BY <2>1, <2>2, SMT
<1> QED  BY <1>2, Zenon

LEMMA FirstFacts ==
  ASSUME NEW S, NEW s \in Seq(S), NEW k \in 0 .. Len(s)
  PROVE  /\ First(s, k) \in Seq(S) /\ Len(First(s, k)) = k /\ DOMAIN First(s, k) = 1 .. k
         /\ \A i \in 1 .. k : First(s, k)[i] = s[i]
BY SMT DEF First

LEMMA RestFacts ==
  ASSUME NEW S, NEW s \in Seq(S), NEW k \in 0 .. Len(s)
  PROVE  /\ Rest(s, k) \in Seq(S) /\ Len(Rest(s, k)) = Len(s) - k /\ DOMAIN Rest(s, k) = 1 .. Len(s) - k
         /\ \A i \in 1 .. Len(s) - k : Rest(s, k)[i] = s[k + i]
BY SMT DEF Rest

Joined(a, f, r) ==
  /\ a \in Seq(Timers) /\ Len(a) = Len(f) + Len(r)
  /\ \A i \in 1 .. Len(f) : a[i] = f[i]
  /\ \A i \in 1 .. Len(r) : a[Len(f) + i] = r[i]

LEMMA JoinFacts ==
  ASSUME NEW f \in Seq(Timers), NEW r \in Seq(Timers)
  PROVE  Joined(f \o r, f, r)
BY SMT DEF Joined

\* The members of a list, by their indices.
LEMMA InIs ==
  ASSUME NEW S, NEW s \in Seq(S), NEW t
  PROVE  In(s, t) <=> \E i \in 1 .. Len(s) : s[i] = t
<1>1. DOMAIN s = 1 .. Len(s)
  BY SMT
<1> QED  BY <1>1, Zenon DEF In

LEMMA InEmpty ==
  ASSUME NEW t PROVE ~ In(<<>>, t)
<1>1. DOMAIN <<>> = {}
  BY SMT
<1> QED  BY <1>1, Zenon DEF In

\* The walk stops somewhere.
LEMMA UptoIs ==
  ASSUME NEW s \in Seq(Timers), NEW e \in [Timers -> Nat], NEW time \in Nat
  PROVE  /\ Upto(s, e, time) \in 0 .. Len(s)
         /\ \A i \in 1 .. Upto(s, e, time) : e[s[i]] <= time
         /\ Upto(s, e, time) < Len(s) => e[s[Upto(s, e, time) + 1]] > time
<1>1. \A i \in 1 .. Len(s) : s[i] \in Timers /\ e[s[i]] \in Nat
  BY SMT
<1>2. PICK S : S = {i \in 1 .. Len(s) : e[s[i]] > time}
  BY Zenon
<1>3. Len(s) \in Nat /\ S \subseteq Nat
  BY <1>2, SMT
<1>4. \E k \in 0 .. Len(s) : (\A i \in 1 .. k : e[s[i]] <= time) /\ (k < Len(s) => e[s[k + 1]] > time)
  <2>1. CASE S = {}
    <3>1. Len(s) \in 0 .. Len(s) /\ ~ (Len(s) < Len(s))
      BY <1>3, SMT
    <3>2. \A i \in 1 .. Len(s) : ~ (e[s[i]] > time)
      BY <1>2, <2>1, Zenon
    <3>3. \A i \in 1 .. Len(s) : e[s[i]] <= time
      BY <1>1, <3>2, SMT
    <3> QED  BY <3>1, <3>3, Zenon
  <2>2. CASE S # {}
    <3>1. PICK x \in S : \A k \in S : x <= k
      BY <1>3, <2>2, LeastNat, Zenon
    <3>2. x \in 1 .. Len(s) /\ e[s[x]] > time
      BY <1>2, <3>1, Zenon
    <3>3. x - 1 \in 0 .. Len(s) /\ (x - 1) + 1 = x
      BY <1>3, <3>2, SMT
    <3>4. ASSUME NEW i \in 1 .. x - 1 PROVE e[s[i]] <= time
      <4>1. i \in 1 .. Len(s) /\ ~ (x <= i)
        BY <1>3, <3>2, SMT
      <4>2. ~ (e[s[i]] > time)
        BY <1>2, <3>1, <4>1, Zenon
      <4> QED  BY <1>1, <4>1, <4>2, SMT
    <3> QED  BY <3>2, <3>3, <3>4, Zenon
  <2> QED  BY <2>1, <2>2, Zenon
<1> QED  BY <1>4, Zenon DEF Upto

\* The list a is s with t behind its first k, or s without its k-th.
Inserted(a, s, k, t) ==
  /\ a \in Seq(Timers) /\ Len(a) = Len(s) + 1 /\ a[k + 1] = t
  /\ \A i \in 1 .. k : a[i] = s[i]
  /\ \A i \in k + 2 .. Len(s) + 1 : a[i] = s[i - 1]
Removed(a, s, k) ==
  /\ a \in Seq(Timers) /\ Len(a) = Len(s) - 1
  /\ \A i \in 1 .. k - 1 : a[i] = s[i]
  /\ \A i \in k .. Len(s) - 1 : a[i] = s[i + 1]

LEMMA AddedIs ==
  ASSUME NEW s \in Seq(Timers), NEW k \in 0 .. Len(s), NEW t \in Timers
  PROVE  Inserted(First(s, k) \o <<t>> \o Rest(s, k), s, k, t)
<1>0. PICK a : a = First(s, k) \o <<t>> \o Rest(s, k)
  BY Zenon
<1>1. PICK f : f = First(s, k)
  BY Zenon
<1>2. PICK r : r = Rest(s, k)
  BY Zenon
<1>3. f \in Seq(Timers) /\ Len(f) = k /\ \A i \in 1 .. k : f[i] = s[i]
  BY <1>1, FirstFacts, Zenon
<1>4. r \in Seq(Timers) /\ Len(r) = Len(s) - k /\ \A i \in 1 .. Len(s) - k : r[i] = s[k + i]
  BY <1>2, RestFacts, Zenon
<1>5. a = (f \o <<t>>) \o r
  BY <1>0, <1>1, <1>2, Zenon
<1>6. PICK b : b = f \o <<t>>
  BY Zenon
<1>7. b \in Seq(Timers) /\ Len(b) = k + 1 /\ b[k + 1] = t /\ \A i \in 1 .. k : b[i] = s[i]
  BY <1>3, <1>6, SMT
<1>8. a = b \o r
  BY <1>5, <1>6, Zenon
<1>9. /\ a \in Seq(Timers) /\ Len(a) = Len(b) + Len(r)
      /\ \A i \in 1 .. Len(b) : a[i] = b[i]
      /\ \A i \in 1 .. Len(r) : a[Len(b) + i] = r[i]
  <2>1. b \in Seq(Timers) /\ r \in Seq(Timers)
    BY <1>4, <1>7, Zenon
  <2>2. Joined(b \o r, b, r)
    BY <2>1, JoinFacts, Zenon
  <2> QED  BY <1>8, <2>2, Zenon DEF Joined
<1>10. k \in Nat /\ Len(s) \in Nat /\ k <= Len(s) /\ k + 1 \in 1 .. k + 1 /\ \A i \in 1 .. k : i \in 1 .. k + 1
  BY SMT
<1>11. Len(a) = Len(s) + 1
  BY <1>4, <1>7, <1>9, <1>10, SMT
<1>12. ASSUME NEW i \in k + 2 .. Len(s) + 1 PROVE a[i] = s[i - 1]
  <2>1. PICK j : j = i - (k + 1)
    BY Zenon
  <2>2. j \in 1 .. Len(s) - k /\ (k + 1) + j = i /\ k + j = i - 1
    BY <1>10, <2>1, SMT
  <2>3. a[i] = r[j] /\ r[j] = s[i - 1]
    BY <1>4, <1>7, <1>9, <2>2, Zenon
  <2> QED  BY <2>3, Zenon
<1>13. a[k + 1] = t /\ \A i \in 1 .. k : a[i] = s[i]
  BY <1>7, <1>9, <1>10, Zenon
<1>14. Inserted(a, s, k, t)
  BY <1>9, <1>11, <1>12, <1>13, Zenon DEF Inserted
<1> QED  BY <1>0, <1>14, Zenon

LEMMA DeletedIs ==
  ASSUME NEW s \in Seq(Timers), NEW k \in 1 .. Len(s)
  PROVE  Removed(First(s, k - 1) \o Rest(s, k), s, k)
<1>0. PICK a : a = First(s, k - 1) \o Rest(s, k)
  BY Zenon
<1>1. PICK f : f = First(s, k - 1)
  BY Zenon
<1>2. PICK r : r = Rest(s, k)
  BY Zenon
<1>3. k \in 0 .. Len(s) /\ k - 1 \in 0 .. Len(s)
  BY SMT
<1>4. f \in Seq(Timers) /\ Len(f) = k - 1 /\ \A i \in 1 .. k - 1 : f[i] = s[i]
  BY <1>1, <1>3, FirstFacts, Zenon
<1>5. r \in Seq(Timers) /\ Len(r) = Len(s) - k /\ \A i \in 1 .. Len(s) - k : r[i] = s[k + i]
  BY <1>2, <1>3, RestFacts, Zenon
<1>6. a = f \o r
  BY <1>0, <1>1, <1>2, Zenon
<1>7. /\ a \in Seq(Timers) /\ Len(a) = Len(f) + Len(r)
      /\ \A i \in 1 .. Len(f) : a[i] = f[i]
      /\ \A i \in 1 .. Len(r) : a[Len(f) + i] = r[i]
  <2>1. f \in Seq(Timers) /\ r \in Seq(Timers)
    BY <1>4, <1>5, Zenon
  <2>2. Joined(f \o r, f, r)
    BY <2>1, JoinFacts, Zenon
  <2> QED  BY <1>6, <2>2, Zenon DEF Joined
<1>8. Len(s) \in Nat
  BY SMT
<1>9. Len(a) = Len(s) - 1
  <2>1. Len(a) = (k - 1) + (Len(s) - k)
    BY <1>4, <1>5, <1>7, Zenon
  <2> QED  BY <1>8, <2>1, SMT
<1>10. ASSUME NEW i \in k .. Len(s) - 1 PROVE a[i] = s[i + 1]
  <2>1. PICK j : j = i - (k - 1)
    BY Zenon
  <2>2. j \in 1 .. Len(s) - k /\ (k - 1) + j = i /\ k + j = i + 1
    BY <1>8, <2>1, SMT
  <2>3. a[i] = r[j] /\ r[j] = s[i + 1]
    BY <1>4, <1>5, <1>7, <2>2, Zenon
  <2> QED  BY <2>3, Zenon
<1>11. Removed(a, s, k)
  BY <1>4, <1>7, <1>9, <1>10, Zenon DEF Removed
<1> QED  BY <1>0, <1>11, Zenon


\* What timer_add and timer_del do to a list.
AddOK(a, s, t, e) ==
  /\ a \in Seq(Timers) /\ Distinct(a) /\ Sorted(a, e)
  /\ \A x \in Timers : In(a, x) <=> In(s, x) \/ x = t
  /\ FirstExpire(a, e) = e[Head(a)]
DeleteOK(a, s, t, e, k) ==
  /\ a \in Seq(Timers) /\ Distinct(a) /\ Sorted(a, e)
  /\ \A x \in Timers : In(a, x) <=> In(s, x) /\ x # t
  /\ FirstExpire(a, e) = IF k = 1 THEN FirstExpire(Tail(s), e) ELSE FirstExpire(s, e)

\* timer_add keeps the order: the new timer is behind everything that expires no
\* later, and what comes behind it expires later.
LEMMA InsertedFacts ==
  ASSUME NEW s \in Seq(Timers), NEW e \in [Timers -> Nat], NEW t \in Timers, NEW w \in Nat,
         NEW k \in 0 .. Len(s), \A i \in 1 .. k : e[s[i]] <= w, k < Len(s) => e[s[k + 1]] > w,
         NEW a, Inserted(a, s, k, t),
         NEW e2, e2[t] = w, \A x \in Timers : x # t => e2[x] = e[x],
         Distinct(s), Sorted(s, e), ~ In(s, t)
  PROVE  AddOK(a, s, t, e2)
<1>2. /\ a \in Seq(Timers) /\ Len(a) = Len(s) + 1 /\ a[k + 1] = t
      /\ \A i \in 1 .. k : a[i] = s[i]
      /\ \A i \in k + 2 .. Len(s) + 1 : a[i] = s[i - 1]
  BY Zenon DEF Inserted
<1>1. Len(a) = Len(s) + 1
  BY <1>2, Zenon
<1>3. Len(s) \in Nat /\ k \in Nat /\ k <= Len(s)
  BY SMT
<1>4. \A i \in 1 .. Len(s) : s[i] \in Timers /\ e[s[i]] \in Nat
  BY SMT
<1>5. \A i \in 1 .. Len(s) : s[i] # t /\ e2[s[i]] = e[s[i]]
  BY <1>4, InIs, Zenon
<1> DEFINE g(i) == IF i <= k THEN i ELSE i - 1
<1>7. ASSUME NEW i \in 1 .. Len(a), i # k + 1
      PROVE  g(i) \in 1 .. Len(s) /\ a[i] = s[g(i)] /\ (i <= k <=> g(i) <= k)
  <2>1. CASE i <= k
    <3>1. i \in 1 .. k /\ i \in 1 .. Len(s)
      BY <1>1, <1>3, <2>1, SMT
    <3> QED  BY <1>2, <2>1, <3>1, Zenon
  <2>2. CASE ~ (i <= k)
    <3>1. i \in k + 2 .. Len(s) + 1 /\ i - 1 \in 1 .. Len(s) /\ ~ (i - 1 <= k)
      BY <1>1, <1>3, <1>7, <2>2, SMT
    <3> QED  BY <1>2, <2>2, <3>1, Zenon
  <2> QED  BY <2>1, <2>2, Zenon
<1>8. ASSUME NEW i \in 1 .. Len(a), NEW j \in 1 .. Len(a), i # k + 1, j # k + 1
      PROVE  (i < j => g(i) < g(j)) /\ (g(i) = g(j) => i = j)
  BY <1>1, <1>3, <1>8, SMT
<1> HIDE DEF g
<1>9. ASSUME NEW i \in 1 .. Len(s), k < i PROVE w <= e[s[i]]
  <2>1. k < Len(s) /\ k + 1 \in 1 .. Len(s) /\ (k + 1 = i \/ k + 1 < i)
    BY <1>3, <1>9, SMT
  <2>2. e[s[k + 1]] <= e[s[i]] \/ k + 1 = i
    BY <2>1, Zenon DEF Sorted
  <2>3. e[s[k + 1]] > w /\ e[s[k + 1]] \in Nat /\ e[s[i]] \in Nat
    BY <1>4, <2>1, Zenon
  <2>4. CASE k + 1 = i
    BY <2>3, <2>4, SMT
  <2>5. CASE e[s[k + 1]] <= e[s[i]]
    BY <2>3, <2>5, SMT
  <2> QED  BY <2>2, <2>4, <2>5, Zenon
<1>10. Distinct(a)
  <2> SUFFICES ASSUME NEW i \in 1 .. Len(a), NEW j \in 1 .. Len(a), a[i] = a[j] PROVE i = j
    BY Zenon DEF Distinct
  <2>1. CASE i = k + 1 \/ j = k + 1
    <3>1. ASSUME NEW x \in 1 .. Len(a), x # k + 1 PROVE a[x] # a[k + 1]
      <4>1. g(x) \in 1 .. Len(s) /\ a[x] = s[g(x)]
        BY <1>7, <3>1, Zenon
      <4>2. s[g(x)] # t /\ a[k + 1] = t
        BY <1>2, <1>5, <4>1, Zenon
      <4> QED  BY <4>1, <4>2, Zenon
    <3> QED  BY <2>1, <3>1, Zenon
  <2>2. CASE i # k + 1 /\ j # k + 1
    <3>1. g(i) \in 1 .. Len(s) /\ g(j) \in 1 .. Len(s) /\ a[i] = s[g(i)] /\ a[j] = s[g(j)]
      BY <1>7, <2>2, Zenon
    <3>2. s[g(i)] = s[g(j)]
      BY <3>1, Zenon
    <3>3. g(i) = g(j)
      BY <3>1, <3>2, Zenon DEF Distinct
    <3> QED  BY <1>8, <2>2, <3>3, Zenon
  <2> QED  BY <2>1, <2>2, Zenon
<1>11. Sorted(a, e2)
  <2> SUFFICES ASSUME NEW i \in 1 .. Len(a), NEW j \in 1 .. Len(a), i < j PROVE e2[a[i]] <= e2[a[j]]
    BY Zenon DEF Sorted
  <2>1. CASE i = k + 1
    <3>1. j # k + 1 /\ ~ (j <= k)
      BY <1>1, <1>3, <2>1, SMT
    <3>2. g(j) \in 1 .. Len(s) /\ a[j] = s[g(j)] /\ ~ (g(j) <= k)
      BY <1>7, <3>1, Zenon
    <3>3. k < g(j)
      BY <1>3, <3>2, SMT
    <3> QED  BY <1>2, <1>5, <1>9, <2>1, <3>2, <3>3, Zenon
  <2>2. CASE j = k + 1
    <3>1. i # k + 1 /\ i \in 1 .. k /\ i \in 1 .. Len(s)
      BY <1>1, <1>3, <2>2, SMT
    <3>2. a[i] = s[i] /\ e[s[i]] <= w
      BY <1>2, <3>1, Zenon
    <3> QED  BY <1>2, <1>5, <2>2, <3>1, <3>2, Zenon
  <2>3. CASE i # k + 1 /\ j # k + 1
    <3>1. g(i) \in 1 .. Len(s) /\ g(j) \in 1 .. Len(s) /\ a[i] = s[g(i)] /\ a[j] = s[g(j)] /\ g(i) < g(j)
      BY <1>7, <1>8, <2>3, Zenon
    <3> QED  BY <1>5, <3>1, Zenon DEF Sorted
  <2> QED  BY <2>1, <2>2, <2>3, Zenon
<1>12. ASSUME NEW x \in Timers PROVE In(a, x) <=> In(s, x) \/ x = t
  <2>1. In(a, x) <=> \E i \in 1 .. Len(a) : a[i] = x
    <3>1. a \in Seq(Timers)
      BY <1>2, Zenon
    <3> QED  BY <3>1, InIs, Zenon
  <2>2. In(s, x) <=> \E i \in 1 .. Len(s) : s[i] = x
    BY InIs, Zenon
  <2>3. k + 1 \in 1 .. Len(a)
    BY <1>1, <1>3, SMT
  <2>4. ASSUME NEW i \in 1 .. Len(s) PROVE \E j \in 1 .. Len(a) : a[j] = s[i]
    <3>1. CASE i <= k
      <4>1. i \in 1 .. k /\ i \in 1 .. Len(a)
        BY <1>1, <1>3, <3>1, SMT
      <4> QED  BY <1>2, <4>1, Zenon
    <3>2. CASE ~ (i <= k)
      <4>1. i + 1 \in k + 2 .. Len(s) + 1 /\ (i + 1) - 1 = i /\ i + 1 \in 1 .. Len(a)
        BY <1>1, <1>3, <3>2, SMT
      <4>2. a[i + 1] = s[i]
        BY <1>2, <4>1, Zenon
      <4> QED  BY <4>1, <4>2, Zenon
    <3> QED  BY <3>1, <3>2, Zenon
  <2>5. ASSUME NEW i \in 1 .. Len(a), a[i] = x PROVE x = t \/ \E j \in 1 .. Len(s) : s[j] = x
    BY <1>2, <1>7, <2>5, Zenon
  <2> QED  BY <1>2, <2>1, <2>2, <2>3, <2>4, <2>5, Zenon
<1>13. a # <<>>
  BY <1>1, <1>3, SMT
<1> QED  BY <1>2, <1>10, <1>11, <1>12, <1>13, Zenon DEF FirstExpire, AddOK

LEMMA AddedFacts ==
  ASSUME NEW s \in Seq(Timers), NEW e \in [Timers -> Nat], NEW t \in Timers, NEW w \in Nat,
         NEW k, k = Upto(s, e, w), NEW a, a = First(s, k) \o <<t>> \o Rest(s, k),
         NEW e2, e2 = [e EXCEPT ![t] = w],
         Distinct(s), Sorted(s, e), ~ In(s, t)
  PROVE  AddOK(a, s, t, e2)
<1>1. /\ k \in 0 .. Len(s) /\ (\A i \in 1 .. k : e[s[i]] <= w) /\ (k < Len(s) => e[s[k + 1]] > w)
  BY UptoIs, Zenon
<1>2. Inserted(First(s, k) \o <<t>> \o Rest(s, k), s, k, t)
  BY <1>1, AddedIs, Zenon
<1>3. Inserted(a, s, k, t)
  BY <1>2, Zenon
<1>4. e2 \in [Timers -> Nat] /\ e2[t] = w /\ \A x \in Timers : x # t => e2[x] = e[x]
  BY Zenon
<1> QED  BY <1>1, <1>3, <1>4, InsertedFacts, Zenon

\* timer_del takes one timer out.
LEMMA RemovedFacts ==
  ASSUME NEW s \in Seq(Timers), NEW e \in [Timers -> Nat], NEW t \in Timers,
         NEW k \in 1 .. Len(s), s[k] = t, NEW a, Removed(a, s, k), Distinct(s), Sorted(s, e)
  PROVE  DeleteOK(a, s, t, e, k)
<1>1. Len(s) \in Nat
  BY SMT
<1>2. Len(a) = Len(s) - 1
  BY Zenon DEF Removed
<1>3. /\ a \in Seq(Timers) /\ Len(a) = Len(s) - 1
      /\ \A i \in 1 .. k - 1 : a[i] = s[i]
      /\ \A i \in k .. Len(s) - 1 : a[i] = s[i + 1]
  BY Zenon DEF Removed
<1>4. k \in Nat /\ 1 <= k /\ k <= Len(s)
  BY <1>1, SMT
<1> DEFINE g(i) == IF i < k THEN i ELSE i + 1
<1>5. ASSUME NEW i \in 1 .. Len(a)
      PROVE  g(i) \in 1 .. Len(s) /\ a[i] = s[g(i)] /\ g(i) # k
  <2>1. CASE i < k
    <3>1. i \in 1 .. k - 1 /\ i \in 1 .. Len(s) /\ i # k
      BY <1>1, <1>2, <1>4, <2>1, SMT
    <3> QED  BY <1>3, <2>1, <3>1, Zenon
  <2>2. CASE ~ (i < k)
    <3>1. i \in k .. Len(s) - 1 /\ i + 1 \in 1 .. Len(s) /\ i + 1 # k
      BY <1>1, <1>2, <1>4, <2>2, SMT
    <3> QED  BY <1>3, <2>2, <3>1, Zenon
  <2> QED  BY <2>1, <2>2, Zenon
<1>6. ASSUME NEW i \in 1 .. Len(a), NEW j \in 1 .. Len(a)
      PROVE  (i < j => g(i) < g(j)) /\ (g(i) = g(j) => i = j)
  BY <1>1, <1>2, <1>4, SMT
<1> HIDE DEF g
<1>7. Distinct(a)
  <2> SUFFICES ASSUME NEW i \in 1 .. Len(a), NEW j \in 1 .. Len(a), a[i] = a[j] PROVE i = j
    BY Zenon DEF Distinct
  <2> QED  BY <1>5, <1>6, Zenon DEF Distinct
<1>8. Sorted(a, e)
  <2> SUFFICES ASSUME NEW i \in 1 .. Len(a), NEW j \in 1 .. Len(a), i < j PROVE e[a[i]] <= e[a[j]]
    BY Zenon DEF Sorted
  <2>1. g(i) \in 1 .. Len(s) /\ g(j) \in 1 .. Len(s) /\ a[i] = s[g(i)] /\ a[j] = s[g(j)] /\ g(i) < g(j)
    BY <1>5, <1>6, Zenon
  <2> QED  BY <2>1, Zenon DEF Sorted
<1>9. ASSUME NEW x \in Timers PROVE In(a, x) <=> In(s, x) /\ x # t
  <2>1. In(a, x) <=> \E i \in 1 .. Len(a) : a[i] = x
    BY <1>3, InIs, Zenon
  <2>2. In(s, x) <=> \E i \in 1 .. Len(s) : s[i] = x
    BY InIs, Zenon
  <2>3. ASSUME NEW i \in 1 .. Len(s), i # k PROVE \E j \in 1 .. Len(a) : a[j] = s[i]
    <3>1. CASE i < k
      <4>1. i \in 1 .. k - 1 /\ i \in 1 .. Len(a)
        BY <1>1, <1>2, <1>4, <3>1, SMT
      <4> QED  BY <1>3, <4>1, Zenon
    <3>2. CASE ~ (i < k)
      <4>1. i - 1 \in k .. Len(s) - 1 /\ (i - 1) + 1 = i /\ i - 1 \in 1 .. Len(a)
        BY <1>1, <1>2, <1>4, <2>3, <3>2, SMT
      <4>2. a[i - 1] = s[i]
        BY <1>3, <4>1, Zenon
      <4> QED  BY <4>1, <4>2, Zenon
    <3> QED  BY <3>1, <3>2, Zenon
  <2>4. ASSUME NEW i \in 1 .. Len(a), a[i] = x PROVE x # t /\ \E j \in 1 .. Len(s) : s[j] = x
    BY <1>5, <2>4, Zenon DEF Distinct
  <2> QED  BY <2>1, <2>2, <2>3, <2>4, Zenon
<1>10. CASE k = 1
  <2>1. Tail(s) \in Seq(Timers) /\ Len(Tail(s)) = Len(s) - 1 /\ (\A i \in 1 .. Len(s) - 1 : Tail(s)[i] = s[i + 1])
    BY <1>1, <1>4, SMT
  <2>2. \A i \in 1 .. Len(s) - 1 : a[i] = s[i + 1]
    BY <1>3, <1>10, Zenon
  <2>3. a \in Seq(Timers) /\ Len(a) = Len(Tail(s)) /\ \A i \in 1 .. Len(a) : a[i] = Tail(s)[i]
    BY <1>2, <1>3, <2>1, <2>2, Zenon
  <2>4. a = Tail(s)
    BY <2>1, <2>3, SMT
  <2> QED  BY <1>3, <1>7, <1>8, <1>9, <1>10, <2>4, Zenon DEF DeleteOK
<1>11. CASE k # 1
  <2>1. 1 \in 1 .. k - 1 /\ Len(s) # 0 /\ Len(s) - 1 # 0
    BY <1>1, <1>4, <1>11, SMT
  <2>2. a[1] = s[1]
    BY <1>3, <2>1, Zenon
  <2>3. a # <<>> /\ s # <<>> /\ Head(a) = a[1] /\ Head(s) = s[1]
    BY <1>1, <1>2, <2>1, SMT
  <2>4. FirstExpire(a, e) = FirstExpire(s, e)
    BY <2>2, <2>3, Zenon DEF FirstExpire
  <2> QED  BY <1>3, <1>7, <1>8, <1>9, <1>11, <2>4, Zenon DEF DeleteOK
<1> QED  BY <1>10, <1>11, Zenon

LEMMA DeletedFacts ==
  ASSUME NEW s \in Seq(Timers), NEW e \in [Timers -> Nat], NEW t \in Timers, In(s, t),
         NEW k, k = CHOOSE i \in DOMAIN s : s[i] = t, NEW a, a = First(s, k - 1) \o Rest(s, k),
         Distinct(s), Sorted(s, e)
  PROVE  DeleteOK(a, s, t, e, k)
<1>1. DOMAIN s = 1 .. Len(s) /\ Len(s) \in Nat
  BY SMT
<1>2. k \in 1 .. Len(s) /\ s[k] = t
  BY <1>1, Zenon DEF In
<1>3. Removed(First(s, k - 1) \o Rest(s, k), s, k)
  BY <1>2, DeletedIs, Zenon
<1>4. Removed(a, s, k)
  BY <1>3, Zenon
<1> QED  BY <1>2, <1>4, RemovedFacts, Zenon


\* What a manager breaks off has expired, and is off the list.
BreakOK(f, r, s, e, w) ==
  /\ f \in Seq(Timers) /\ r \in Seq(Timers) /\ Distinct(f) /\ Distinct(r) /\ Sorted(r, e)
  /\ \A x \in Timers : In(f, x) => In(s, x) /\ ~ In(r, x) /\ e[x] <= w
  /\ \A x \in Timers : In(r, x) => In(s, x)
  /\ \A x \in Timers : In(s, x) => In(f, x) \/ In(r, x)

LEMMA BreakFacts ==
  ASSUME NEW s \in Seq(Timers), NEW e \in [Timers -> Nat], NEW w \in Nat, Distinct(s), Sorted(s, e)
  PROVE  BreakOK(First(s, Upto(s, e, w)), Rest(s, Upto(s, e, w)), s, e, w)
<1>1. PICK k : k = Upto(s, e, w)
  BY Zenon
<1>2. k \in 0 .. Len(s) /\ \A i \in 1 .. k : e[s[i]] <= w
  BY <1>1, UptoIs, Zenon
<1>3. PICK f : f = First(s, k)
  BY Zenon
<1>4. PICK r : r = Rest(s, k)
  BY Zenon
<1>5. f \in Seq(Timers) /\ Len(f) = k /\ (\A i \in 1 .. k : f[i] = s[i])
  BY <1>2, <1>3, FirstFacts, Zenon
<1>6. r \in Seq(Timers) /\ Len(r) = Len(s) - k /\ (\A i \in 1 .. Len(s) - k : r[i] = s[k + i])
  BY <1>2, <1>4, RestFacts, Zenon
<1>7. Len(s) \in Nat /\ k \in Nat /\ k <= Len(s) /\ Len(f) = k /\ Len(r) = Len(s) - k
  BY <1>2, <1>5, <1>6, SMT
<1>8. ASSUME NEW i \in 1 .. Len(f) PROVE i \in 1 .. Len(s) /\ f[i] = s[i] /\ e[f[i]] <= w
  <2>1. i \in 1 .. k /\ i \in 1 .. Len(s)
    BY <1>7, SMT
  <2> QED  BY <1>2, <1>5, <2>1, Zenon
<1>9. ASSUME NEW i \in 1 .. Len(r) PROVE k + i \in 1 .. Len(s) /\ r[i] = s[k + i]
  <2>1. i \in 1 .. Len(s) - k /\ k + i \in 1 .. Len(s)
    BY <1>7, SMT
  <2> QED  BY <1>6, <2>1, Zenon
<1>10. Distinct(f)
  <2> SUFFICES ASSUME NEW i \in 1 .. Len(f), NEW j \in 1 .. Len(f), f[i] = f[j] PROVE i = j
    BY Zenon DEF Distinct
  <2> QED  BY <1>8, Zenon DEF Distinct
<1>11. Distinct(r)
  <2> SUFFICES ASSUME NEW i \in 1 .. Len(r), NEW j \in 1 .. Len(r), r[i] = r[j] PROVE i = j
    BY Zenon DEF Distinct
  <2>1. k + i = k + j
    <3>1. k + i \in 1 .. Len(s) /\ k + j \in 1 .. Len(s) /\ s[k + i] = s[k + j]
      BY <1>9, Zenon
    <3> QED  BY <3>1, Zenon DEF Distinct
  <2> QED  BY <1>7, <2>1, SMT
<1>12. Sorted(r, e)
  <2> SUFFICES ASSUME NEW i \in 1 .. Len(r), NEW j \in 1 .. Len(r), i < j PROVE e[r[i]] <= e[r[j]]
    BY Zenon DEF Sorted
  <2>1. k + i < k + j
    BY <1>7, SMT
  <2>2. k + i \in 1 .. Len(s) /\ k + j \in 1 .. Len(s) /\ r[i] = s[k + i] /\ r[j] = s[k + j]
    BY <1>9, Zenon
  <2> QED  BY <2>1, <2>2, Zenon DEF Sorted
<1>13. ASSUME NEW x \in Timers
       PROVE  /\ In(f, x) <=> \E i \in 1 .. Len(f) : f[i] = x
              /\ In(r, x) <=> \E i \in 1 .. Len(r) : r[i] = x
              /\ In(s, x) <=> \E i \in 1 .. Len(s) : s[i] = x
  <2>1. f \in Seq(Timers) /\ r \in Seq(Timers)
    BY <1>5, <1>6, Zenon
  <2> QED  BY <2>1, InIs, Zenon
<1>14. ASSUME NEW x \in Timers, In(f, x) PROVE In(s, x) /\ ~ In(r, x) /\ e[x] <= w
  <2>1. PICK i \in 1 .. Len(f) : f[i] = x
    BY <1>13, <1>14, Zenon
  <2>2. i \in 1 .. Len(s) /\ s[i] = x /\ e[x] <= w
    BY <1>8, <2>1, Zenon
  <2>3. ASSUME NEW j \in 1 .. Len(r), r[j] = x PROVE FALSE
    <3>1. k + j \in 1 .. Len(s) /\ s[k + j] = x
      BY <1>9, <2>3, Zenon
    <3>2. k + j = i
      BY <2>2, <3>1, Zenon DEF Distinct
    <3> QED  BY <1>7, <3>2, SMT
  <2> QED  BY <1>13, <2>2, <2>3, Zenon
<1>15. ASSUME NEW x \in Timers, In(r, x) PROVE In(s, x)
  BY <1>9, <1>13, <1>15, Zenon
<1>16. ASSUME NEW x \in Timers, In(s, x) PROVE In(f, x) \/ In(r, x)
  <2>1. PICK i \in 1 .. Len(s) : s[i] = x
    BY <1>13, <1>16, Zenon
  <2>2. CASE i <= k
    <3>1. i \in 1 .. Len(f)
      BY <1>7, <2>2, SMT
    <3> QED  BY <1>8, <1>13, <2>1, <3>1, Zenon
  <2>3. CASE ~ (i <= k)
    <3>1. i - k \in 1 .. Len(r) /\ k + (i - k) = i
      BY <1>7, <2>3, SMT
    <3>2. r[i - k] = x
      BY <1>9, <2>1, <3>1, Zenon
    <3> QED  BY <1>13, <3>1, <3>2, Zenon
  <2> QED  BY <2>2, <2>3, Zenon
<1>17. BreakOK(f, r, s, e, w)
  BY <1>5, <1>6, <1>10, <1>11, <1>12, <1>14, <1>15, <1>16, Zenon DEF BreakOK
<1> QED  BY <1>1, <1>3, <1>4, <1>17, Zenon

\* The next one off a list, and one more at its end.
TailOK(r, s, t) ==
  /\ t \in Timers /\ r \in Seq(Timers)
  /\ \A x \in Timers : In(s, x) <=> In(r, x) \/ x = t
  /\ Distinct(s) => Distinct(r) /\ ~ In(r, t)

LEMMA TailFacts ==
  ASSUME NEW s \in Seq(Timers), s # <<>> PROVE TailOK(Tail(s), s, Head(s))
<1>1. PICK r : r = Tail(s)
  BY Zenon
<1>2. PICK t : t = Head(s)
  BY Zenon
<1>3. Len(s) \in Nat /\ 1 \in 1 .. Len(s) /\ s[1] = t /\ t \in Timers
  BY <1>2, SMT
<1>4. r \in Seq(Timers) /\ Len(r) = Len(s) - 1 /\ \A i \in 1 .. Len(s) - 1 : r[i] = s[i + 1]
  BY <1>1, SMT
<1>5. Len(r) = Len(s) - 1 /\ r \in Seq(Timers)
  BY <1>4, Zenon
<1>6. ASSUME NEW i \in 1 .. Len(r) PROVE i + 1 \in 1 .. Len(s) /\ i + 1 # 1 /\ r[i] = s[i + 1]
  <2>1. i \in 1 .. Len(s) - 1 /\ i + 1 \in 1 .. Len(s) /\ i + 1 # 1
    BY <1>3, <1>5, SMT
  <2> QED  BY <1>4, <2>1, Zenon
<1>7. ASSUME NEW x \in Timers
      PROVE  /\ In(r, x) <=> \E i \in 1 .. Len(r) : r[i] = x
             /\ In(s, x) <=> \E i \in 1 .. Len(s) : s[i] = x
  BY <1>5, InIs, Zenon
<1>8. ASSUME NEW x \in Timers PROVE In(s, x) <=> In(r, x) \/ x = t
  <2>1. ASSUME NEW i \in 1 .. Len(s), i # 1 PROVE i - 1 \in 1 .. Len(r) /\ r[i - 1] = s[i]
    <3>1. i - 1 \in 1 .. Len(r) /\ (i - 1) + 1 = i
      BY <1>3, <1>5, <2>1, SMT
    <3> QED  BY <1>6, <3>1, Zenon
  <2> QED  BY <1>3, <1>6, <1>7, <2>1, Zenon
<1>9. ASSUME Distinct(s) PROVE Distinct(r) /\ ~ In(r, t)
  <2>1. ASSUME NEW i \in 1 .. Len(r), NEW j \in 1 .. Len(r), r[i] = r[j] PROVE i = j
    <3>1. i + 1 \in 1 .. Len(s) /\ j + 1 \in 1 .. Len(s) /\ s[i + 1] = s[j + 1]
      BY <1>6, <2>1, Zenon
    <3>2. i + 1 = j + 1
      BY <1>9, <3>1, Zenon DEF Distinct
    <3> QED  BY <1>3, <1>5, <3>2, SMT
  <2>2. ASSUME NEW i \in 1 .. Len(r), r[i] = t PROVE FALSE
    BY <1>3, <1>6, <1>9, <2>2, Zenon DEF Distinct
  <2>3. Distinct(r)
    BY <2>1, Zenon DEF Distinct
  <2> QED  BY <1>3, <1>7, <2>2, <2>3, Zenon
<1>10. TailOK(r, s, t)
  BY <1>3, <1>5, <1>8, <1>9, Zenon DEF TailOK
<1> QED  BY <1>1, <1>2, <1>10, Zenon

AppendOK(a, s, t) ==
  /\ a \in Seq(Timers) /\ a # <<>>
  /\ \A x \in Timers : In(a, x) <=> In(s, x) \/ x = t
  /\ Distinct(s) /\ ~ In(s, t) => Distinct(a)

LEMMA AppendFacts ==
  ASSUME NEW s \in Seq(Timers), NEW t \in Timers PROVE AppendOK(Append(s, t), s, t)
<1>1. PICK a : a = Append(s, t)
  BY Zenon
<1>2. /\ a \in Seq(Timers) /\ Len(a) = Len(s) + 1 /\ a[Len(s) + 1] = t /\ Len(s) \in Nat
      /\ \A i \in 1 .. Len(s) : a[i] = s[i]
  BY <1>1, SMT
<1>3. a \in Seq(Timers) /\ Len(a) = Len(s) + 1 /\ Len(s) \in Nat /\ a # <<>>
  <2>1. a \in Seq(Timers) /\ Len(a) = Len(s) + 1 /\ Len(s) \in Nat
    BY <1>2, Zenon
  <2> QED  BY <2>1, SMT
<1>4. ASSUME NEW i \in 1 .. Len(a), i # Len(a) PROVE i \in 1 .. Len(s) /\ a[i] = s[i]
  <2>1. i \in 1 .. Len(s)
    BY <1>3, <1>4, SMT
  <2> QED  BY <1>2, <2>1, Zenon
<1>5. Len(a) \in 1 .. Len(a) /\ (\A i \in 1 .. Len(s) : i \in 1 .. Len(a)) /\ Len(a) \notin 1 .. Len(s)
  BY <1>3, SMT
<1>6. a[Len(a)] = t
  BY <1>2, Zenon
<1>7. ASSUME NEW x \in Timers
      PROVE  /\ In(a, x) <=> \E i \in 1 .. Len(a) : a[i] = x
             /\ In(s, x) <=> \E i \in 1 .. Len(s) : s[i] = x
  BY <1>3, InIs, Zenon
<1>8. ASSUME NEW x \in Timers PROVE In(a, x) <=> In(s, x) \/ x = t
  <2>1. ASSUME In(a, x) PROVE In(s, x) \/ x = t
    BY <1>4, <1>6, <1>7, <2>1, Zenon
  <2>2. ASSUME In(s, x) PROVE In(a, x)
    BY <1>2, <1>5, <1>7, <2>2, Zenon
  <2>3. ASSUME x = t PROVE In(a, x)
    BY <1>5, <1>6, <1>7, <2>3, Zenon
  <2> QED  BY <2>1, <2>2, <2>3, Zenon
<1>9. ASSUME Distinct(s), ~ In(s, t) PROVE Distinct(a)
  <2> SUFFICES ASSUME NEW i \in 1 .. Len(a), NEW j \in 1 .. Len(a), a[i] = a[j] PROVE i = j
    BY Zenon DEF Distinct
  <2>1. ASSUME NEW x \in 1 .. Len(a), x # Len(a) PROVE a[x] # a[Len(a)]
    BY <1>4, <1>6, <1>7, <1>9, <2>1, Zenon
  <2>2. CASE i # Len(a) /\ j # Len(a)
    BY <1>4, <1>9, <2>2, Zenon DEF Distinct
  <2> QED  BY <2>1, <2>2, Zenon
<1>10. AppendOK(a, s, t)
  BY <1>3, <1>8, <1>9, Zenon DEF AppendOK
<1> QED  BY <1>1, <1>10, Zenon


-----------------------------------------------------------------------------
(* Run lists                                                                *)

LEMMA RunsType ==
  ASSUME NEW run \in Seq(Seq(Timers))
  PROVE  /\ DOMAIN run = 1 .. Len(run) /\ Len(run) \in Nat
         /\ \A i \in DOMAIN run : run[i] \in Seq(Timers)
BY SMT

\* A new, empty run list.
NewOK(a, run) ==
  /\ a \in Seq(Seq(Timers)) /\ a # <<>> /\ (Once(run) => Once(a))
  /\ \A x \in Timers : InRuns(a, x) <=> InRuns(run, x)

LEMMA NewFacts ==
  ASSUME NEW run \in Seq(Seq(Timers)) PROVE NewOK(Append(run, <<>>), run)
<1>1. PICK a : a = Append(run, <<>>)
  BY Zenon
<1>2. PICK n : n = Len(run) + 1
  BY Zenon
<1>3. <<>> \in Seq(Timers) /\ Len(<<>>) = 0
  BY SMT
<1>4. a \in Seq(Seq(Timers)) /\ a # <<>> /\ DOMAIN a = 1 .. n /\ a[n] = <<>> /\ \A i \in 1 .. Len(run) : a[i] = run[i]
  BY <1>1, <1>2, <1>3, SMT
<1>5. DOMAIN run = 1 .. Len(run) /\ Len(run) \in Nat
  BY RunsType, Zenon
<1>6. n \in 1 .. n /\ (\A i \in 1 .. n : i # n => i \in 1 .. Len(run)) /\ \A i \in 1 .. Len(run) : i \in 1 .. n
  BY <1>2, <1>5, SMT
<1>7. \A x : ~ In(a[n], x)
  BY <1>4, InEmpty, Zenon
<1>8. ASSUME NEW x \in Timers PROVE InRuns(a, x) <=> InRuns(run, x)
  BY <1>4, <1>5, <1>6, <1>7, Zenon DEF InRuns
<1>9. ASSUME Once(run) PROVE Once(a)
  <2>1. Distinct(a[n])
    <3>1. \A i \in 1 .. 0 : FALSE
      BY SMT
    <3> QED  BY <1>3, <1>4, <3>1, Zenon DEF Distinct
  <2>2. ASSUME NEW i \in DOMAIN a PROVE Distinct(a[i])
    BY <1>4, <1>5, <1>6, <1>9, <2>1, Zenon DEF Once
  <2>3. ASSUME NEW i \in DOMAIN a, NEW j \in DOMAIN a, NEW x \in Timers, In(a[i], x), In(a[j], x) PROVE i = j
    <3>1. i # n /\ j # n
      BY <1>7, <2>3, Zenon
    <3>2. i \in DOMAIN run /\ j \in DOMAIN run /\ a[i] = run[i] /\ a[j] = run[j]
      BY <1>4, <1>5, <1>6, <3>1, Zenon
    <3> QED  BY <1>9, <2>3, <3>2, Zenon DEF Once
  <2> QED  BY <2>2, <2>3, Zenon DEF Once
<1>10. NewOK(a, run)
  BY <1>4, <1>8, <1>9, Zenon DEF NewOK
<1> QED  BY <1>1, <1>10, Zenon

\* One run list changes.
Changed(a, run, n, s) ==
  /\ a \in Seq(Seq(Timers)) /\ DOMAIN a = DOMAIN run /\ Len(a) = Len(run) /\ a[n] = s
  /\ \A i \in DOMAIN run : i # n => a[i] = run[i]

LEMMA RunChanges ==
  ASSUME NEW run \in Seq(Seq(Timers)), NEW n \in DOMAIN run, NEW s \in Seq(Timers)
  PROVE  Changed([run EXCEPT ![n] = s], run, n, s)
<1>1. [run EXCEPT ![n] = s] \in Seq(Seq(Timers)) /\ Len([run EXCEPT ![n] = s]) = Len(run)
  BY SMT
<1> QED  BY <1>1, Zenon DEF Changed

\* A timer at the end of a run list.
MoreOK(a, run, t) ==
  /\ a \in Seq(Seq(Timers)) /\ a # <<>> /\ (Once(run) /\ ~ InRuns(run, t) => Once(a))
  /\ \A x \in Timers : InRuns(a, x) <=> InRuns(run, x) \/ x = t

LEMMA MoreFacts ==
  ASSUME NEW run \in Seq(Seq(Timers)), NEW n \in DOMAIN run, NEW t \in Timers
  PROVE  MoreOK([run EXCEPT ![n] = Append(run[n], t)], run, t)
<1>1. PICK s : s = Append(run[n], t)
  BY Zenon
<1>2. PICK a : a = [run EXCEPT ![n] = s]
  BY Zenon
<1>3. DOMAIN run = 1 .. Len(run) /\ Len(run) \in Nat /\ run[n] \in Seq(Timers)
  BY RunsType, Zenon
<1>4. AppendOK(s, run[n], t)
  BY <1>1, <1>3, AppendFacts, Zenon
<1>5. s \in Seq(Timers)
  BY <1>4, Zenon DEF AppendOK
<1>6. /\ a \in Seq(Seq(Timers)) /\ DOMAIN a = DOMAIN run /\ Len(a) = Len(run) /\ a[n] = s
      /\ \A i \in DOMAIN run : i # n => a[i] = run[i]
  <2>1. Changed([run EXCEPT ![n] = s], run, n, s)
    BY <1>5, RunChanges, Zenon
  <2> QED  BY <1>2, <2>1, Zenon DEF Changed
<1>7. a # <<>>
  <2>1. Len(a) = Len(run) /\ n \in 1 .. Len(run)
    BY <1>3, <1>6, Zenon
  <2> QED  BY <1>3, <2>1, SMT
<1>8. ASSUME NEW x \in Timers PROVE InRuns(a, x) <=> InRuns(run, x) \/ x = t
  <2>1. In(a[n], x) <=> In(run[n], x) \/ x = t
    BY <1>4, <1>6, Zenon DEF AppendOK
  <2> QED  BY <1>6, <2>1, Zenon DEF InRuns
<1>9. ASSUME Once(run), ~ InRuns(run, t) PROVE Once(a)
  <2>1. Distinct(a[n])
    BY <1>4, <1>6, <1>9, Zenon DEF AppendOK, Once, InRuns
  <2>2. ASSUME NEW i \in DOMAIN a PROVE Distinct(a[i])
    BY <1>6, <1>9, <2>1, Zenon DEF Once
  <2>3. ASSUME NEW i \in DOMAIN a, NEW x \in Timers, In(a[i], x) PROVE In(run[i], x) \/ (i = n /\ x = t)
    BY <1>4, <1>6, <2>3, Zenon DEF AppendOK
  <2>4. ASSUME NEW i \in DOMAIN a, NEW j \in DOMAIN a, NEW x \in Timers, In(a[i], x), In(a[j], x) PROVE i = j
    <3>1. i \in DOMAIN run /\ j \in DOMAIN run
      BY <1>6, Zenon
    <3>2. ~ In(run[i], t) /\ ~ In(run[j], t)
      BY <1>9, <3>1, Zenon DEF InRuns
    <3>3. CASE x = t
      BY <2>3, <2>4, <3>2, <3>3, Zenon
    <3>4. CASE x # t
      <4>1. In(run[i], x) /\ In(run[j], x)
        BY <2>3, <2>4, <3>4, Zenon
      <4> QED  BY <1>9, <3>1, <4>1, Zenon DEF Once
    <3> QED  BY <3>3, <3>4, Zenon
  <2> QED  BY <2>2, <2>4, Zenon DEF Once
<1>10. MoreOK(a, run, t)
  BY <1>6, <1>7, <1>8, <1>9, Zenon DEF MoreOK
<1> QED  BY <1>1, <1>2, <1>10, Zenon

\* The head of a run list is taken.
LessOK(a, run, t) ==
  /\ t \in Timers /\ InRuns(run, t)
  /\ a \in Seq(Seq(Timers)) /\ (Once(run) => Once(a) /\ ~ InRuns(a, t))
  /\ \A x \in Timers : InRuns(a, x) => InRuns(run, x)

LEMMA LessFacts ==
  ASSUME NEW run \in Seq(Seq(Timers)), NEW n \in DOMAIN run, run[n] # <<>>
  PROVE  LessOK([run EXCEPT ![n] = Tail(run[n])], run, Head(run[n]))
<1>1. PICK s : s = Tail(run[n])
  BY Zenon
<1>2. PICK t : t = Head(run[n])
  BY Zenon
<1>3. PICK a : a = [run EXCEPT ![n] = s]
  BY Zenon
<1>4. run[n] \in Seq(Timers)
  BY RunsType, Zenon
<1>5. TailOK(s, run[n], t)
  BY <1>1, <1>2, <1>4, TailFacts, Zenon
<1>6. s \in Seq(Timers) /\ t \in Timers /\ (\A x \in Timers : In(run[n], x) <=> In(s, x) \/ x = t)
  BY <1>5, Zenon DEF TailOK
<1>7. /\ a \in Seq(Seq(Timers)) /\ DOMAIN a = DOMAIN run /\ Len(a) = Len(run) /\ a[n] = s
      /\ \A i \in DOMAIN run : i # n => a[i] = run[i]
  <2>1. Changed([run EXCEPT ![n] = s], run, n, s)
    BY <1>6, RunChanges, Zenon
  <2> QED  BY <1>3, <2>1, Zenon DEF Changed
<1>8. InRuns(run, t)
  BY <1>6, Zenon DEF InRuns
<1>9. ASSUME NEW i \in DOMAIN a, NEW x \in Timers, In(a[i], x) PROVE i \in DOMAIN run /\ In(run[i], x)
  BY <1>6, <1>7, <1>9, Zenon
<1>10. ASSUME NEW x \in Timers, InRuns(a, x) PROVE InRuns(run, x)
  BY <1>9, <1>10, Zenon DEF InRuns
<1>11. ASSUME Once(run) PROVE Once(a) /\ ~ InRuns(a, t)
  <2>1. Distinct(a[n]) /\ ~ In(a[n], t)
    BY <1>5, <1>7, <1>11, Zenon DEF TailOK, Once
  <2>2. ASSUME NEW i \in DOMAIN a PROVE Distinct(a[i])
    BY <1>7, <1>11, <2>1, Zenon DEF Once
  <2>3. ASSUME NEW i \in DOMAIN a, NEW j \in DOMAIN a, NEW x \in Timers, In(a[i], x), In(a[j], x) PROVE i = j
    BY <1>9, <1>11, <2>3, Zenon DEF Once
  <2>4. ASSUME NEW i \in DOMAIN a, In(a[i], t) PROVE FALSE
    <3>1. i \in DOMAIN run /\ In(run[i], t) /\ In(run[n], t)
      BY <1>6, <1>9, <2>4, Zenon
    <3>2. i = n
      BY <1>6, <1>11, <3>1, Zenon DEF Once
    <3> QED  BY <2>1, <2>4, <3>2, Zenon
  <2> QED  BY <2>2, <2>3, <2>4, Zenon DEF Once, InRuns
<1>12. LessOK(a, run, t)
  BY <1>6, <1>7, <1>8, <1>10, <1>11, Zenon DEF LessOK
<1> QED  BY <1>1, <1>2, <1>3, <1>12, Zenon

\* There is an oldest one.
LEMMA OldestIs ==
  ASSUME NEW run \in Seq(Seq(Timers)), expire \in [Timers -> Nat], Left(run) # {}
  PROVE  Oldest(run) \in DOMAIN run /\ run[Oldest(run)] # <<>>
<1>1. DOMAIN run = 1 .. Len(run) /\ Len(run) \in Nat /\ \A i \in DOMAIN run : run[i] \in Seq(Timers)
  BY RunsType, Zenon
<1>2. \A i \in Left(run) : i \in DOMAIN run /\ run[i] # <<>> /\ i \in Nat
  <2>1. \A i \in 1 .. Len(run) : i \in Nat
    BY <1>1, SMT
  <2> QED  BY <1>1, <2>1, Zenon DEF Left
<1> DEFINE x(i) == expire[Head(run[i])]
<1>3. ASSUME NEW i \in Left(run) PROVE x(i) \in Nat
  <2>1. TailOK(Tail(run[i]), run[i], Head(run[i]))
    BY <1>1, <1>2, TailFacts, Zenon
  <2> QED  BY <2>1, Zenon DEF TailOK
<1> HIDE DEF x
<1>4. PICK V : V = {v \in Nat : \E i \in Left(run) : x(i) = v}
  BY Zenon
<1>5. PICK v \in V : \A k \in V : v <= k
  <2>1. V \subseteq Nat /\ V # {}
    BY <1>3, <1>4, Zenon
  <2> QED  BY <2>1, LeastNat, Zenon
<1>6. PICK W : W = {i \in Left(run) : x(i) = v}
  BY Zenon
<1>7. PICK w \in W : \A k \in W : w <= k
  <2>1. W \subseteq Nat /\ W # {}
    BY <1>2, <1>4, <1>5, <1>6, Zenon
  <2> QED  BY <2>1, LeastNat, Zenon
<1>8. ASSUME NEW j \in Left(run) PROVE x(w) < x(j) \/ (x(w) = x(j) /\ w <= j)
  <2>1. w \in Left(run) /\ x(w) = v /\ v <= x(j) /\ x(j) \in Nat /\ v \in Nat
    BY <1>3, <1>4, <1>5, <1>6, <1>7, Zenon
  <2>2. CASE x(j) = v
    BY <1>6, <1>7, <2>1, <2>2, Zenon
  <2>3. CASE x(j) # v
    <3>1. v < x(j)
      BY <2>1, <2>3, SMT
    <3> QED  BY <2>1, <3>1, Zenon
  <2> QED  BY <2>2, <2>3, Zenon
<1>9. w \in Left(run)
  BY <1>6, <1>7, Zenon
<1>10. Oldest(run) \in Left(run)
  BY <1>8, <1>9, Zenon DEF Oldest, x
<1> QED  BY <1>2, <1>10, Zenon


-----------------------------------------------------------------------------
(* Where a timer is                                                         *)

LEMMA StatusIs ==
  /\ \A s, o : Is(Status(s, o), s, o)
  /\ Is(Stopped, "STOP", NoOwner)
BY Zenon DEF Is, Status, Stopped

LEMMA NoManageIs ==
  /\ NoManage.polls = <<>> /\ NoManage.cur = 0 /\ NoManage.cut = <<>> /\ NoManage.run = <<>>
  /\ NoManage.tim = NoTimer
BY Zenon DEF NoManage

LEMMA PollsHead ==
  ASSUME NEW s \in Seq(Lcores), s # <<>> PROVE Head(s) \in Lcores /\ Tail(s) \in Seq(Lcores)
BY SMT

LEMMA LocalTypes ==
  ASSUME TimerType, NEW l \in Lcores
  PROVE  /\ m[l] \in Manages
         /\ m[l].polls \in Seq(Lcores) /\ m[l].cur \in Nat /\ m[l].cut \in Seq(Timers)
         /\ m[l].run \in Seq(Seq(Timers)) /\ m[l].tim \in Timers \union {NoTimer}
         /\ l \in Threads /\ op[l] \in Ops
<1>1. m[l] \in Manages /\ l \in Threads /\ op[l] \in Ops
  BY Zenon DEF TimerType, Threads
<1> QED  BY <1>1, Zenon DEF Manages

LEMMA WaitsOne ==
  ASSUME NEW s, NEW o, NEW t, NEW q, NEW q2, Waits(s, o, t, q), Waits(s, o, t, q2) PROVE q = q2
<1>1. CASE Is(s[t], "PENDING", q)
  <2>1. s[t].state # "CONFIG"
    BY <1>1, Zenon DEF Is
  <2> QED  BY <1>1, <2>1, Zenon DEF Waits, Deleting, Is
<1>2. CASE Deleting(s, o, t, q)
  <2>1. ~ Is(s[t], "PENDING", q2)
    BY <1>2, Zenon DEF Deleting, Is
  <2> QED  BY <1>2, <2>1, Zenon DEF Waits, Deleting
<1> QED  BY <1>1, <1>2, Zenon DEF Waits

\* The manager with label pc and locals r still has something to do with t, unless
\* its callback updated it.
Ref(pc, r, up, t) ==
  \/ In(r.cut, t) \/ InRuns(r.run, t)
  \/ pc \in {"again", "add"} /\ r.tim = t
  \/ pc = "cb" /\ ~ up /\ r.tim = t

\* Then the manager holds the lock of the list the timer waits on, or the timer
\* is its own.
LEMMA RefIs ==
  ASSUME TimerInv, NEW l \in Lcores, NEW t \in Timers, Ref(mpc[l], m[l], updated[l], t)
  PROVE  \/ \E q \in Lcores : Waits(st, op, t, q) /\ lock[q] = l /\ ~ In(list[q], t)
         \/ Is(st[t], "RUNNING", l)
         \/ Is(st[t], "CONFIG", l) /\ op[l] = NoOp
<1>1. /\ LocalOK(mpc[l], m[l], op[l], running[l]) /\ CutOK(m[l], list, st, op, expire, now)
      /\ RunsOK(l, m[l], st, expire, period, runs, now) /\ TimerType
      /\ OneOK(l, mpc[l], m[l], updated[l], list, st, op, expire, period, now)
      /\ \A q \in Lcores : Holds(l, mpc[l], m[l], q) <=> lock[q] = l
  BY Zenon DEF TimerInv, LcoresOK, LcoreOK, LocksOK
<1>2. CASE In(m[l].cut, t)
  <2>1. mpc[l] = "cut"
    BY <1>1, <1>2, InEmpty, Zenon DEF LocalOK
  <2>2. Head(m[l].polls) \in Lcores
    BY <1>1, <2>1, LocalTypes, PollsHead, Zenon DEF LocalOK
  <2> QED  BY <1>1, <1>2, <2>1, <2>2, Zenon DEF CutOK, Holds
<1>3. CASE InRuns(m[l].run, t)
  BY <1>1, <1>3, Zenon DEF RunsOK
<1>4. CASE mpc[l] \in {"again", "add"} /\ m[l].tim = t
  <2>1. CASE mpc[l] = "again"
    BY <1>1, <1>4, <2>1, Zenon DEF OneOK, Holds
  <2>2. CASE mpc[l] = "add"
    <3>1. op[l] = NoOp
      BY <1>1, <2>2, Zenon DEF LocalOK
    <3> QED  BY <1>1, <1>4, <2>2, <3>1, Zenon DEF OneOK
  <2> QED  BY <1>4, <2>1, <2>2, Zenon
<1>5. CASE mpc[l] = "cb" /\ ~ updated[l] /\ m[l].tim = t
  BY <1>1, <1>5, Zenon DEF OneOK
<1> QED  BY <1>2, <1>3, <1>4, <1>5, Zenon DEF Ref

\* A timer whose call is about to set it, or to delete it from an unlocked list,
\* is in nobody's hands.
LEMMA NoOpIs == NoOp.step = "none" /\ NoOp.call = "none" /\ NoOp.tim = NoTimer /\ NoOp.sync = FALSE
BY Zenon DEF NoOp

LEMMA NotWaiting ==
  ASSUME NEW p, NEW t, Is(st[t], "CONFIG", p), op[p].step # "del" \/ op[p].tim # t, NEW q
  PROVE  ~ Waits(st, op, t, q)
BY Zenon DEF Waits, Deleting, Is

LEMMA SetIsFree ==
  ASSUME TimerInv, NEW p \in Threads, op[p].step = "set"
  PROVE  /\ op[p].tim \in Timers /\ Is(st[op[p].tim], "CONFIG", p)
         /\ \A q \in Lcores : ~ In(list[q], op[p].tim)
         /\ \A l \in Lcores : ~ Ref(mpc[l], m[l], updated[l], op[p].tim)
<1>1. PICK t : t = op[p].tim
  BY Zenon
<1>2. t \in Timers /\ Is(st[t], "CONFIG", p)
  BY <1>1, Zenon DEF TimerInv, OpsOK, OpOK
<1>3. \A q : ~ Waits(st, op, t, q)
  BY <1>2, NotWaiting, Zenon
<1>4. \A q \in Lcores : ~ In(list[q], t)
  BY <1>2, <1>3, Zenon DEF TimerInv, PendListsOK, ListOK
<1>5. ASSUME NEW l \in Lcores, Ref(mpc[l], m[l], updated[l], t) PROVE FALSE
  <2>1. ~ Is(st[t], "RUNNING", l)
    BY <1>2, Zenon DEF Is
  <2>2. Is(st[t], "CONFIG", l) /\ op[l] = NoOp
    BY <1>2, <1>3, <1>5, <2>1, RefIs, Zenon
  <2>3. l = p
    BY <1>2, <2>2, Zenon DEF Is
  <2> QED  BY <2>2, <2>3, NoOpIs, Zenon
<1> QED  BY <1>1, <1>2, <1>4, <1>5, Zenon

LEMMA DelIsFree ==
  ASSUME TimerInv, NEW p \in Threads, op[p].step = "del", lock[op[p].from] = NoOwner
  PROVE  /\ op[p].tim \in Timers /\ op[p].from \in Lcores /\ Is(st[op[p].tim], "CONFIG", p)
         /\ \A q \in Lcores : In(list[q], op[p].tim) => q = op[p].from
         /\ \A l \in Lcores : ~ Ref(mpc[l], m[l], updated[l], op[p].tim)
<1>1. PICK t : t = op[p].tim
  BY Zenon
<1>2. PICK q : q = op[p].from
  BY Zenon
<1>3. t \in Timers /\ q \in Lcores /\ Is(st[t], "CONFIG", p)
  BY <1>1, <1>2, Zenon DEF TimerInv, OpsOK, OpOK
<1>4. Waits(st, op, t, q)
  BY <1>1, <1>2, <1>3, Zenon DEF Waits, Deleting, Is
<1>5. \A q2 \in Lcores : In(list[q2], t) => q2 = q
  BY <1>3, <1>4, WaitsOne, Zenon DEF TimerInv, PendListsOK, ListOK
<1>6. ASSUME NEW l \in Lcores, Ref(mpc[l], m[l], updated[l], t) PROVE FALSE
  <2>1. ~ Is(st[t], "RUNNING", l)
    BY <1>3, Zenon DEF Is
  <2>2. CASE \E q2 \in Lcores : Waits(st, op, t, q2) /\ lock[q2] = l
    <3>1. lock[q] = l
      BY <1>4, <2>2, WaitsOne, Zenon
    <3> QED  BY <1>2, <3>1, TimerParameters, Zenon
  <2>3. CASE Is(st[t], "CONFIG", l) /\ op[l] = NoOp
    <3>1. l = p
      BY <1>3, <2>3, Zenon DEF Is
    <3> QED  BY <2>3, <3>1, NoOpIs, Zenon
  <2> QED  BY <1>3, <1>6, <2>1, <2>2, <2>3, RefIs, Zenon
<1> QED  BY <1>1, <1>2, <1>3, <1>5, <1>6, Zenon

\* No two managers have to do with the same timer, and none with one in a list.
LEMMA RefOne ==
  ASSUME TimerInv, NEW t \in Timers, NEW l \in Lcores, NEW l2 \in Lcores,
         Ref(mpc[l], m[l], updated[l], t), Ref(mpc[l2], m[l2], updated[l2], t)
  PROVE  l = l2
<1>1. \/ \E q \in Lcores : Waits(st, op, t, q) /\ lock[q] = l
      \/ Is(st[t], "RUNNING", l)
      \/ Is(st[t], "CONFIG", l) /\ op[l] = NoOp
  BY RefIs, Zenon
<1>2. \/ \E q \in Lcores : Waits(st, op, t, q) /\ lock[q] = l2
      \/ Is(st[t], "RUNNING", l2)
      \/ Is(st[t], "CONFIG", l2) /\ op[l2] = NoOp
  BY RefIs, Zenon
<1>3. CASE \E q \in Lcores : Waits(st, op, t, q)
  <2>1. \A x : ~ Is(st[t], "RUNNING", x)
    BY <1>3, Zenon DEF Waits, Deleting, Is
  <2>2. \A x : ~ (Is(st[t], "CONFIG", x) /\ op[x] = NoOp)
    BY <1>3, NotWaiting, NoOpIs, Zenon
  <2> QED  BY <1>1, <1>2, <2>1, <2>2, WaitsOne, Zenon
<1>4. CASE ~ \E q \in Lcores : Waits(st, op, t, q)
  BY <1>1, <1>2, <1>4, Zenon DEF Is
<1> QED  BY <1>3, <1>4, Zenon

LEMMA ListedFree ==
  ASSUME TimerInv, NEW t \in Timers, NEW q \in Lcores, In(list[q], t)
  PROVE  /\ \A l \in Lcores : ~ Ref(mpc[l], m[l], updated[l], t)
         /\ \A q2 \in Lcores : In(list[q2], t) => q2 = q
<1>1. \A q2 \in Lcores : In(list[q2], t) => Waits(st, op, t, q2)
  BY Zenon DEF TimerInv, PendListsOK, ListOK
<1>2. \A q2 \in Lcores : In(list[q2], t) => q2 = q
  BY <1>1, WaitsOne, Zenon
<1>3. ASSUME NEW l \in Lcores, Ref(mpc[l], m[l], updated[l], t) PROVE FALSE
  <2>1. \A x : ~ Is(st[t], "RUNNING", x)
    BY <1>1, Zenon DEF Waits, Deleting, Is
  <2>2. \A x : ~ (Is(st[t], "CONFIG", x) /\ op[x] = NoOp)
    BY <1>1, NotWaiting, NoOpIs, Zenon
  <2>3. PICK q2 \in Lcores : Waits(st, op, t, q2) /\ ~ In(list[q2], t)
    BY <1>3, <2>1, <2>2, RefIs, Zenon
  <2> QED  BY <1>1, <2>3, WaitsOne, Zenon
<1> QED  BY <1>2, <1>3, Zenon


-----------------------------------------------------------------------------
(* What a step leaves alone                                                 *)

\* The step does nothing to timer x that a manager which has to do with it would
\* notice.
Unmoved(x) ==
  /\ st'[x] = st[x] \/ st[x].state = "PENDING"
  /\ \A q \in Lcores :
       (Waits(st, op, x, q) => Waits(st', op', x, q)) /\ (In(list'[q], x) => In(list[q], x))
  /\ expire'[x] = expire[x] /\ period'[x] = period[x] /\ runs'[x] = runs[x]

LEMMA LcoreKept ==
  ASSUME TimerInv, TimerType', NEW l \in Lcores,
         m'[l] = m[l], mpc'[l] = mpc[l], running'[l] = running[l], updated[l] => updated'[l],
         op'[l] = NoOp \/ mpc[l] \in {"idle", "cb"}, now <= now',
         \A x \in Timers : Ref(mpc[l], m[l], updated'[l], x) => Unmoved(x)
  PROVE  LcoreOK(l, mpc[l], m[l], updated[l], running[l], list, st, op, expire, period, runs, now)'
<1>0. /\ LcoreOK(l, mpc[l], m[l], updated[l], running[l], list, st, op, expire, period, runs, now)
      /\ m[l] \in Manages /\ expire \in [Timers -> Nat] /\ now \in Nat /\ now' \in Nat
  BY Zenon DEF TimerInv, TimerType, LcoresOK
<1>1. /\ LocalOK(mpc[l], m[l], op[l], running[l]) /\ m[l].cur <= now /\ CutOK(m[l], list, st, op, expire, now)
      /\ RunsOK(l, m[l], st, expire, period, runs, now) /\ OneOK(l, mpc[l], m[l], updated[l], list, st, op, expire, period, now)
  BY <1>0, Zenon DEF LcoreOK
<1>2. m[l].polls \in Seq(Lcores) /\ m[l].cur \in Nat
  BY <1>0, Zenon DEF Manages
<1>3. LocalOK(mpc[l], m[l], op'[l], running[l])
  BY <1>1, Zenon DEF LocalOK
<1>4. m[l].cur <= now'
  <2>1. m[l].cur <= now
    BY <1>1, Zenon
  <2> QED  BY <1>0, <1>2, <2>1, SMT
<1>5. ASSUME NEW x \in Timers, expire[x] <= now, expire'[x] = expire[x] PROVE expire'[x] <= now'
  <2>1. expire[x] \in Nat
    BY <1>0, Zenon
  <2> QED  BY <1>0, <1>5, <2>1, SMT
<1>6. CutOK(m[l], list', st', op', expire', now')
  <2>1. ASSUME NEW t \in Timers, In(m[l].cut, t)
        PROVE Waits(st', op', t, Head(m[l].polls)) /\ ~ In(list'[Head(m[l].polls)], t) /\ expire'[t] <= now'
    <3>1. mpc[l] = "cut"
      BY <1>1, <2>1, InEmpty, Zenon DEF LocalOK
    <3>2. Head(m[l].polls) \in Lcores
      BY <1>1, <1>2, <3>1, PollsHead, Zenon DEF LocalOK
    <3>3. Unmoved(t)
      BY <2>1, Zenon DEF Ref
    <3> QED  BY <1>1, <1>5, <2>1, <3>2, <3>3, Zenon DEF CutOK, Unmoved
  <2> QED  BY <1>1, <2>1, Zenon DEF CutOK
<1>7. RunsOK(l, m[l], st', expire', period', runs', now')
  <2>1. ASSUME NEW t \in Timers, InRuns(m[l].run, t)
        PROVE Is(st'[t], "RUNNING", l) /\ expire'[t] <= now' /\ (period'[t] = 0 => runs'[t] = 0)
    <3>1. Unmoved(t)
      BY <2>1, Zenon DEF Ref
    <3>2. Is(st[t], "RUNNING", l) /\ expire[t] <= now /\ (period[t] = 0 => runs[t] = 0)
      BY <1>1, <2>1, Zenon DEF RunsOK
    <3> QED  BY <1>5, <3>1, <3>2, Zenon DEF Unmoved, Is
  <2> QED  BY <1>1, <2>1, Zenon DEF RunsOK
<1>8. OneOK(l, mpc[l], m[l], updated'[l], list', st', op', expire', period', now')
  <2>1. mpc[l] = "cb" => ~ InRuns(m[l].run, m[l].tim)
    BY <1>1, Zenon DEF OneOK
  <2>2. ASSUME mpc[l] = "cb", ~ updated'[l] PROVE Is(st'[m[l].tim], "RUNNING", l) /\ expire'[m[l].tim] <= now'
    <3>1. m[l].tim \in Timers
      BY <1>1, <2>2, Zenon DEF LocalOK
    <3>2. Unmoved(m[l].tim)
      BY <2>2, <3>1, Zenon DEF Ref
    <3>3. Is(st[m[l].tim], "RUNNING", l) /\ expire[m[l].tim] <= now
      BY <1>1, <2>2, Zenon DEF OneOK
    <3> QED  BY <1>5, <3>1, <3>2, <3>3, Zenon DEF Unmoved, Is
  <2>3. ASSUME mpc[l] \in {"again", "add"}
        PROVE  /\ mpc[l] = "again" => Waits(st', op', m[l].tim, l) /\ ~ In(list'[l], m[l].tim)
               /\ mpc[l] = "add" => Is(st'[m[l].tim], "CONFIG", l)
               /\ period'[m[l].tim] # 0
    <3>1. m[l].tim \in Timers
      BY <1>1, <2>3, Zenon DEF LocalOK
    <3>2. Unmoved(m[l].tim)
      BY <2>3, <3>1, Zenon DEF Ref
    <3>3. /\ mpc[l] = "again" => Waits(st, op, m[l].tim, l) /\ ~ In(list[l], m[l].tim)
          /\ mpc[l] = "add" => Is(st[m[l].tim], "CONFIG", l)
          /\ period[m[l].tim] # 0
      BY <1>1, <2>3, Zenon DEF OneOK
    <3> QED  BY <2>3, <3>2, <3>3, Zenon DEF Unmoved, Is
  <2> QED  BY <2>1, <2>2, <2>3, Zenon DEF OneOK
<1> QED  BY <1>3, <1>4, <1>6, <1>7, <1>8, Zenon DEF LcoreOK

LEMMA ListKept ==
  ASSUME TimerInv, NEW l \in Lcores, list'[l] = list[l],
         \A x \in Timers : In(list[l], x) =>
            (Waits(st, op, x, l) => Waits(st', op', x, l)) /\ expire'[x] = expire[x]
  PROVE  ListOK(l, list, st, op, expire)' /\ FirstExpire(list'[l], expire') = FirstExpire(list[l], expire)
<1>0. ListOK(l, list, st, op, expire) /\ list[l] \in Seq(Timers)
  BY Zenon DEF TimerInv, TimerType, PendListsOK
<1>1. \A i \in 1 .. Len(list[l]) : list[l][i] \in Timers /\ In(list[l], list[l][i])
  <2>1. DOMAIN list[l] = 1 .. Len(list[l]) /\ \A i \in 1 .. Len(list[l]) : list[l][i] \in Timers
    BY <1>0, SMT
  <2> QED  BY <2>1, Zenon DEF In
<1>2. \A i \in 1 .. Len(list[l]) : expire'[list[l][i]] = expire[list[l][i]]
  BY <1>1, Zenon
<1>3. Sorted(list'[l], expire')
  BY <1>0, <1>2, Zenon DEF Sorted, ListOK
<1>4. FirstExpire(list'[l], expire') = FirstExpire(list[l], expire)
  <2>1. CASE list[l] = <<>>
    BY <2>1, Zenon DEF FirstExpire
  <2>2. CASE list[l] # <<>>
    <3>1. Head(list[l]) = list[l][1] /\ 1 \in 1 .. Len(list[l])
      BY <1>0, <2>2, SMT
    <3>2. expire'[Head(list[l])] = expire[Head(list[l])]
      BY <1>2, <3>1, Zenon
    <3> QED  BY <2>2, <3>2, Zenon DEF FirstExpire
  <2> QED  BY <2>1, <2>2, Zenon
<1>5. \A x \in Timers : In(list'[l], x) => Waits(st', op', x, l)
  BY <1>0, Zenon DEF ListOK
<1> QED  BY <1>0, <1>3, <1>4, <1>5, Zenon DEF ListOK

\* A call changes; it was not about to delete x.
LEMMA WaitsKept ==
  ASSUME NEW x, NEW s, NEW s2, s2[x] = s[x], NEW o \in [Threads -> Ops], NEW o2, NEW p,
         \A y \in Threads : y # p => o2[y] = o[y],
         o[p].step # "del" \/ o[p].tim # x, NEW q, Waits(s, o, x, q)
  PROVE  Waits(s2, o2, x, q)
BY Zenon DEF Waits, Deleting, Is

-----------------------------------------------------------------------------
(* Calls                                                                    *)

\* A call begins, begins again or returns without having configured its timer.
LEMMA CallKept ==
  ASSUME TimerInv, NEW p \in Threads, NEW c \in Ops, op' = [op EXCEPT ![p] = c],
         op[p].step \in {"none", "config"}, OpOK(p, c, st),
         p \in Lcores => c = NoOp \/ mpc[p] \in {"idle", "cb"}, calls' \in Nat,
         now' = now, st' = st, expire' = expire, period' = period, runs' = runs, list' = list,
         hexp' = hexp, lock' = lock, updated' = updated, running' = running, mpc' = mpc, m' = m
  PROVE  TimerInv'
<1>1. TimerType
  BY Zenon DEF TimerInv
<1>2. /\ op \in [Threads -> Ops] /\ op' \in [Threads -> Ops] /\ op'[p] = c
      /\ \A y \in Threads : y # p => op'[y] = op[y]
  BY <1>1, Zenon DEF TimerType
<1>3. TimerType'
  BY <1>1, <1>2, Zenon DEF TimerType
<1>4. OpsOK'
  <2> SUFFICES ASSUME NEW y \in Threads PROVE OpOK(y, op'[y], st')
    BY Zenon DEF OpsOK
  <2> QED  BY <1>2, Zenon DEF TimerInv, OpsOK
<1>5. LocksOK' /\ HeadersOK' /\ PendingsOK'
  BY Zenon DEF TimerInv, LocksOK, HeadersOK, PendingsOK
<1>6. ASSUME NEW x \in Timers, NEW q, Waits(st, op, x, q) PROVE Waits(st', op', x, q)
  <2>1. op[p].step # "del" /\ st'[x] = st[x]
    BY Zenon
  <2> QED  BY <1>2, <1>6, <2>1, WaitsKept, Zenon
<1>7. LcoresOK'
  <2> SUFFICES ASSUME NEW l \in Lcores
               PROVE  LcoreOK(l, mpc[l], m[l], updated[l], running[l], list, st, op, expire, period, runs, now)'
    BY Zenon DEF LcoresOK
  <2>1. LcoreOK(l, mpc[l], m[l], updated[l], running[l], list, st, op, expire, period, runs, now)
    BY Zenon DEF TimerInv, LcoresOK
  <2>2. op'[l] = NoOp \/ mpc[l] \in {"idle", "cb"}
    BY <1>2, <2>1, Zenon DEF LcoreOK, LocalOK, Threads
  <2>3. \A x \in Timers : Unmoved(x)
    BY <1>6, Zenon DEF Unmoved
  <2>4. now <= now'
    <3>1. now \in Nat
      BY <1>1, Zenon DEF TimerType
    <3> QED  BY <3>1, SMT
  <2> QED  BY <1>3, <2>2, <2>3, <2>4, LcoreKept, Zenon
<1>8. PendListsOK'
  <2> SUFFICES ASSUME NEW l \in Lcores PROVE ListOK(l, list, st, op', expire)
    BY Zenon DEF PendListsOK
  <2>1. ListOK(l, list, st, op, expire)
    BY Zenon DEF TimerInv, PendListsOK
  <2>2. \A x \in Timers : In(list[l], x) => Waits(st, op', x, l)
    BY <1>6, <2>1, Zenon DEF ListOK
  <2> QED  BY <2>1, <2>2, Zenon DEF ListOK
<1> QED  BY <1>3, <1>4, <1>5, <1>7, <1>8, Zenon DEF TimerInv

LEMMA CallResetInv ==
  ASSUME TimerInv, NEW p \in Threads, NEW t \in Timers, NEW d \in Lcores, NEW n \in Ticks,
         NEW sync \in BOOLEAN, CallReset(p, t, d, n, sync)
  PROVE  TimerInv'
<1>1. PICK c : c = [NoOp EXCEPT
         !.call = "reset", !.step = "config", !.sync = sync, !.tim = t, !.ticks = n,
         !.expire = now + n, !.period = IF t \in Periodic THEN n ELSE 0, !.dest = d]
  BY Zenon
<1>2. now \in Nat /\ n \in Nat /\ calls \in Nat
  BY TimerParameters, Zenon DEF TimerInv, TimerType
<1>3. now + n \in Nat /\ calls + 1 \in Nat /\ 0 \in Nat
  BY <1>2, SMT
<1>4. c \in Ops
  BY <1>1, <1>2, <1>3, Zenon DEF NoOp, Ops
<1>5. c.step = "config" /\ c.call = "reset" /\ c.tim = t /\ c.dest = d
  BY <1>1, Zenon DEF NoOp
<1>6. OpOK(p, c, st)
  BY <1>5, Zenon DEF OpOK
<1>7. op[p].step = "none" /\ (p \in Lcores => mpc[p] \in {"idle", "cb"})
  BY NoOpIs, Zenon DEF CallReset, MayCall
<1>8. /\ op' = [op EXCEPT ![p] = c] /\ calls' = calls + 1
      /\ now' = now /\ st' = st /\ expire' = expire /\ period' = period /\ runs' = runs /\ list' = list
      /\ hexp' = hexp /\ lock' = lock /\ updated' = updated /\ running' = running /\ mpc' = mpc /\ m' = m
  BY <1>1, Zenon DEF CallReset, timvars, listvars, corevars
<1> QED  BY <1>3, <1>4, <1>6, <1>7, <1>8, CallKept, Zenon

LEMMA CallStopInv ==
  ASSUME TimerInv, NEW p \in Threads, NEW t \in Timers, NEW sync \in BOOLEAN, CallStop(p, t, sync)
  PROVE  TimerInv'
<1>1. PICK c : c = [NoOp EXCEPT !.call = "stop", !.step = "config", !.sync = sync, !.tim = t]
  BY Zenon
<1>2. calls \in Nat
  BY Zenon DEF TimerInv, TimerType
<1>3. calls + 1 \in Nat /\ 0 \in Nat
  BY <1>2, SMT
<1>4. c \in Ops
  BY <1>1, <1>3, Zenon DEF NoOp, Ops
<1>5. c.step = "config" /\ c.call = "stop" /\ c.tim = t
  BY <1>1, Zenon DEF NoOp
<1>6. OpOK(p, c, st)
  BY <1>5, Zenon DEF OpOK
<1>7. op[p].step = "none" /\ (p \in Lcores => mpc[p] \in {"idle", "cb"})
  BY NoOpIs, Zenon DEF CallStop, MayCall
<1>8. /\ op' = [op EXCEPT ![p] = c] /\ calls' = calls + 1
      /\ now' = now /\ st' = st /\ expire' = expire /\ period' = period /\ runs' = runs /\ list' = list
      /\ hexp' = hexp /\ lock' = lock /\ updated' = updated /\ running' = running /\ mpc' = mpc /\ m' = m
  BY <1>1, Zenon DEF CallStop, timvars, listvars, corevars
<1> QED  BY <1>3, <1>4, <1>6, <1>7, <1>8, CallKept, Zenon

LEMMA OpTypes ==
  ASSUME NEW c \in Ops
  PROVE  /\ c.call \in {"none", "reset", "stop"} /\ c.step \in {"none", "config", "del", "set"}
         /\ c.tim \in Timers \union {NoTimer} /\ c.ticks \in Nat /\ c.expire \in Nat /\ c.period \in Nat
         /\ c.dest \in Lcores \union {NoOwner} /\ c.from \in Lcores \union {NoOwner}
BY Zenon DEF Ops

LEMMA ConfigFailsInv ==
  ASSUME TimerInv, NEW p \in Threads, ConfigFails(p)
  PROVE  TimerInv'
<1>1. PICK o : o = op[p]
  BY Zenon
<1>2. PICK c : c = IF o.sync THEN [o EXCEPT !.expire = IF o.call = "reset" THEN now + o.ticks ELSE 0] ELSE NoOp
  BY Zenon
<1>3. o \in Ops /\ now \in Nat /\ o.ticks \in Nat /\ calls \in Nat /\ o.step = "config" /\ OpOK(p, o, st)
  BY <1>1, OpTypes, Zenon DEF TimerInv, TimerType, OpsOK, ConfigFails
<1>4. now + o.ticks \in Nat /\ 0 \in Nat
  BY <1>3, SMT
<1>5. NoOp \in Ops
  BY <1>4, Zenon DEF NoOp, Ops
<1>6. c \in Ops
  <2>1. CASE o.sync
    BY <1>2, <1>3, <1>4, <2>1, Zenon DEF Ops
  <2>2. CASE ~ o.sync
    BY <1>2, <1>5, <2>2, Zenon
  <2> QED  BY <2>1, <2>2, Zenon
<1>7. OpOK(p, c, st)
  <2>1. CASE o.sync
    <3>1. c.step = o.step /\ c.call = o.call /\ c.tim = o.tim /\ c.dest = o.dest /\ c.from = o.from
      BY <1>2, <1>3, <2>1, Zenon DEF Ops
    <3> QED  BY <1>3, <3>1, Zenon DEF OpOK
  <2>2. CASE ~ o.sync
    BY <1>2, <2>2, NoOpIs, Zenon DEF OpOK
  <2> QED  BY <2>1, <2>2, Zenon
<1>8. p \in Lcores => mpc[p] \in {"idle", "cb"}
  <2>1. op[p] # NoOp
    BY <1>1, <1>3, NoOpIs, Zenon
  <2> QED  BY <2>1, Zenon DEF TimerInv, LcoresOK, LcoreOK, LocalOK
<1>9. /\ op' = [op EXCEPT ![p] = c] /\ calls' = calls
      /\ now' = now /\ st' = st /\ expire' = expire /\ period' = period /\ runs' = runs /\ list' = list
      /\ hexp' = hexp /\ lock' = lock /\ updated' = updated /\ running' = running /\ mpc' = mpc /\ m' = m
  BY <1>1, <1>2, Zenon DEF ConfigFails, timvars, listvars, corevars
<1>10. op[p].step \in {"none", "config"} /\ calls' \in Nat
  BY <1>1, <1>3, <1>9, Zenon
<1> QED  BY <1>6, <1>7, <1>8, <1>9, <1>10, CallKept, Zenon


LEMMA TickInv ==
  ASSUME TimerInv, Tick
  PROVE  TimerInv'
<1>1. /\ now' = now + 1 /\ calls' = calls
      /\ st' = st /\ expire' = expire /\ period' = period /\ runs' = runs /\ list' = list /\ hexp' = hexp
      /\ lock' = lock /\ updated' = updated /\ running' = running /\ mpc' = mpc /\ m' = m /\ op' = op
  BY Zenon DEF Tick, timvars, listvars, corevars
<1>2. TimerType /\ now \in Nat
  BY Zenon DEF TimerInv, TimerType
<1>3. now' \in Nat /\ now <= now'
  BY <1>1, <1>2, SMT
<1>4. TimerType'
  BY <1>1, <1>2, <1>3, Zenon DEF TimerType
<1>5. OpsOK' /\ LocksOK' /\ PendListsOK' /\ HeadersOK' /\ PendingsOK'
  BY <1>1, Zenon DEF TimerInv, OpsOK, LocksOK, PendListsOK, HeadersOK, PendingsOK
<1>6. LcoresOK'
  <2> SUFFICES ASSUME NEW l \in Lcores
               PROVE  LcoreOK(l, mpc[l], m[l], updated[l], running[l], list, st, op, expire, period, runs, now)'
    BY Zenon DEF LcoresOK
  <2>1. LcoreOK(l, mpc[l], m[l], updated[l], running[l], list, st, op, expire, period, runs, now)
    BY Zenon DEF TimerInv, LcoresOK
  <2>2. op'[l] = NoOp \/ mpc[l] \in {"idle", "cb"}
    BY <1>1, <2>1, Zenon DEF LcoreOK, LocalOK
  <2>3. \A x \in Timers : Unmoved(x)
    BY <1>1, Zenon DEF Unmoved
  <2> QED  BY <1>1, <1>3, <1>4, <2>2, <2>3, LcoreKept, Zenon
<1> QED  BY <1>4, <1>5, <1>6, Zenon DEF TimerInv

\* The lcore of a call is idle or in a callback.
LEMMA CallerIs ==
  ASSUME TimerInv, NEW p \in Threads, op[p].step # "none"
  PROVE  p \in Lcores => mpc[p] \in {"idle", "cb"}
<1>1. op[p] # NoOp
  BY NoOpIs, Zenon
<1> QED  BY <1>1, Zenon DEF TimerInv, LcoresOK, LcoreOK, LocalOK

\* Other calls own other timers.
LEMMA OtherOps ==
  ASSUME TimerInv, NEW p \in Threads, NEW t,
         \A y \in Threads : y # p => op'[y] = op[y] /\ ~ Is(st[t], "CONFIG", y),
         \A x \in Timers : x # t => st'[x] = st[x],
         OpOK(p, op'[p], st')
  PROVE  OpsOK'
<1> SUFFICES ASSUME NEW y \in Threads PROVE OpOK(y, op'[y], st')
  BY Zenon DEF OpsOK
<1>1. CASE y = p
  BY <1>1, Zenon
<1>2. CASE y # p
  <2>1. OpOK(y, op[y], st) /\ op'[y] = op[y]
    BY <1>2, Zenon DEF TimerInv, OpsOK
  <2>2. op[y].step \in {"del", "set"} => Is(st'[op[y].tim], "CONFIG", y)
    BY <1>2, <2>1, Zenon DEF OpOK
  <2> QED  BY <2>1, <2>2, Zenon DEF OpOK
<1> QED  BY <1>1, <1>2, Zenon

LEMMA SetConfigInv ==
  ASSUME TimerInv, NEW p \in Threads, SetConfig(p)
  PROVE  TimerInv'
<1>1. PICK o : o = op[p]
  BY Zenon
<1>2. PICK t : t = o.tim
  BY Zenon
<1>3. /\ o.step = "config" /\ CanConfig(p, t) /\ calls' = calls
      /\ st' = [st EXCEPT ![t] = Status("CONFIG", p)]
      /\ updated' = IF st[t].state = "RUNNING" THEN [updated EXCEPT ![p] = TRUE] ELSE updated
      /\ op' = [op EXCEPT ![p] = IF st[t].state = "PENDING"
                                 THEN [o EXCEPT !.step = "del", !.from = st[t].owner]
                                 ELSE [o EXCEPT !.step = "set"]]
      /\ now' = now /\ expire' = expire /\ period' = period /\ runs' = runs /\ list' = list
      /\ hexp' = hexp /\ lock' = lock /\ running' = running /\ mpc' = mpc /\ m' = m
  BY <1>1, <1>2, Zenon DEF SetConfig, timvars, listvars
<1>4. TimerType /\ o \in Ops /\ OpOK(p, o, st) /\ t \in Timers /\ now \in Nat
  BY <1>1, <1>2, <1>3, Zenon DEF TimerInv, TimerType, OpsOK, OpOK
<1>5. st[t].state = "PENDING" => st[t].owner \in Lcores
  BY <1>4, Zenon DEF TimerInv, PendingsOK, PendingOK
<1>6. PICK c : c = IF st[t].state = "PENDING" THEN [o EXCEPT !.step = "del", !.from = st[t].owner]
                   ELSE [o EXCEPT !.step = "set"]
  BY Zenon
<1>7. c \in Ops
  <2>1. CASE st[t].state = "PENDING"
    BY <1>4, <1>5, <1>6, <2>1, Zenon DEF Ops
  <2>2. CASE st[t].state # "PENDING"
    BY <1>4, <1>6, <2>2, Zenon DEF Ops
  <2> QED  BY <2>1, <2>2, Zenon
<1>8. /\ c.tim = t /\ c.call = o.call /\ c.dest = o.dest
      /\ st[t].state = "PENDING" => c.step = "del" /\ c.from = st[t].owner
      /\ st[t].state # "PENDING" => c.step = "set"
  <2>1. CASE st[t].state = "PENDING"
    BY <1>2, <1>4, <1>6, <2>1, Zenon DEF Ops
  <2>2. CASE st[t].state # "PENDING"
    BY <1>2, <1>4, <1>6, <2>2, Zenon DEF Ops
  <2> QED  BY <2>1, <2>2, Zenon
<1>9. /\ op \in [Threads -> Ops] /\ op' \in [Threads -> Ops] /\ op'[p] = c
      /\ \A y \in Threads : y # p => op'[y] = op[y]
  BY <1>3, <1>4, <1>6, <1>7, Zenon DEF TimerType
<1>10. /\ st' \in [Timers -> [state : States, owner : Threads \union {NoOwner}]]
       /\ Is(st'[t], "CONFIG", p) /\ \A x \in Timers : x # t => st'[x] = st[x]
  <2>1. Status("CONFIG", p) \in [state : States, owner : Threads \union {NoOwner}]
    BY Zenon DEF Status, States
  <2> QED  BY <1>3, <1>4, <2>1, StatusIs, Zenon DEF TimerType
<1>11. updated' \in [Lcores -> BOOLEAN] /\ (\A l \in Lcores : updated[l] => updated'[l])
       /\ (\A l \in Lcores : l # p \/ st[t].state # "RUNNING" => updated'[l] = updated[l])
       /\ (p \in Lcores /\ st[t].state = "RUNNING" => updated'[p])
  BY <1>3, <1>4, Zenon DEF TimerType
<1>12. TimerType'
  BY <1>3, <1>4, <1>9, <1>10, <1>11, Zenon DEF TimerType
<1>13. st[t].state # "CONFIG"
  BY <1>3, Zenon DEF CanConfig
<1>14. OpsOK'
  <2>1. OpOK(p, c, st')
    <3>1. c.step \in {"del", "set"} /\ (c.step = "del" => c.from \in Lcores)
      BY <1>5, <1>8, Zenon
    <3>2. o.step # "none" /\ (o.call = "reset" => o.dest \in Lcores) /\ o.call \in {"reset", "stop"}
      BY <1>3, <1>4, Zenon DEF OpOK
    <3> QED  BY <1>4, <1>8, <1>10, <3>1, <3>2, Zenon DEF OpOK
  <2>2. \A y \in Threads : ~ Is(st[t], "CONFIG", y)
    BY <1>13, Zenon DEF Is
  <2> QED  BY <1>9, <1>10, <2>1, <2>2, OtherOps, Zenon
<1>15. ASSUME NEW x \in Timers, NEW q, Waits(st, op, x, q) PROVE Waits(st', op', x, q)
  <2>1. CASE x # t
    <3>1. op[p].step # "del" /\ st'[x] = st[x]
      BY <1>1, <1>3, <1>10, <2>1, Zenon
    <3> QED  BY <1>9, <1>15, <3>1, WaitsKept, Zenon
  <2>2. CASE x = t
    <3>1. Is(st[t], "PENDING", q)
      BY <1>13, <1>15, <2>2, Zenon DEF Waits, Deleting
    <3>2. op'[p].step = "del" /\ op'[p].from = q /\ op'[p].tim = t
      BY <1>8, <1>9, <3>1, Zenon DEF Is
    <3> QED  BY <1>10, <2>2, <3>2, Zenon DEF Waits, Deleting, Is
  <2> QED  BY <2>1, <2>2, Zenon
<1>16. ASSUME NEW x \in Timers, x # t \/ st[t].state = "PENDING" PROVE Unmoved(x)
  BY <1>3, <1>10, <1>15, <1>16, Zenon DEF Unmoved
<1>17. now <= now'
  BY <1>3, <1>4, SMT
<1>18. p \in Lcores => mpc[p] \in {"idle", "cb"}
  BY <1>1, <1>3, CallerIs, Zenon
<1>19. LcoresOK'
  <2> SUFFICES ASSUME NEW l \in Lcores
               PROVE  LcoreOK(l, mpc[l], m[l], updated[l], running[l], list, st, op, expire, period, runs, now)'
    BY Zenon DEF LcoresOK
  <2>1. LcoreOK(l, mpc[l], m[l], updated[l], running[l], list, st, op, expire, period, runs, now)
    BY Zenon DEF TimerInv, LcoresOK
  <2>2. op'[l] = NoOp \/ mpc[l] \in {"idle", "cb"}
    BY <1>9, <1>18, <2>1, Zenon DEF LcoreOK, LocalOK, Threads
  <2>3. ASSUME Ref(mpc[l], m[l], updated'[l], t), st[t].state # "PENDING" PROVE FALSE
    <3>1. Ref(mpc[l], m[l], updated[l], t)
      BY <1>11, <2>3, Zenon DEF Ref
    <3>2. Is(st[t], "RUNNING", l)
      <4>1. \A q : ~ Waits(st, op, t, q)
        BY <1>13, <2>3, Zenon DEF Waits, Deleting, Is
      <4> QED  BY <1>4, <1>13, <3>1, <4>1, RefIs, Zenon DEF Is
    <3>3. l = p /\ running[p] = t
      BY <1>3, <3>2, Zenon DEF CanConfig, Is
    <3>4. updated'[l]
      BY <1>11, <3>2, <3>3, Zenon DEF Is
    <3>5. LocalOK(mpc[l], m[l], op[l], running[l]) /\ OneOK(l, mpc[l], m[l], updated[l], list, st, op, expire, period, now)
      BY <2>1, Zenon DEF LcoreOK
    <3>6. mpc[l] \in {"idle", "cb"} /\ m[l].cut = <<>>
      BY <1>18, <3>3, <3>5, Zenon DEF LocalOK
    <3>7. InRuns(m[l].run, t)
      BY <2>3, <3>4, <3>6, InEmpty, Zenon DEF Ref
    <3>8. CASE mpc[l] = "cb"
      BY <3>3, <3>5, <3>7, <3>8, Zenon DEF LocalOK, OneOK
    <3>9. CASE mpc[l] = "idle"
      <4>1. m[l].run = <<>>
        BY <3>5, <3>9, NoManageIs, Zenon DEF LocalOK
      <4>2. DOMAIN <<>> = {}
        BY SMT
      <4> QED  BY <3>7, <4>1, <4>2, Zenon DEF InRuns
    <3> QED  BY <3>6, <3>8, <3>9, Zenon
  <2>4. \A x \in Timers : Ref(mpc[l], m[l], updated'[l], x) => Unmoved(x)
    BY <1>16, <2>3, Zenon
  <2> QED  BY <1>3, <1>11, <1>12, <1>17, <2>2, <2>4, LcoreKept, Zenon
<1>20. PendListsOK'
  <2> SUFFICES ASSUME NEW l \in Lcores PROVE ListOK(l, list, st', op', expire)
    BY <1>3, Zenon DEF PendListsOK
  <2>1. ListOK(l, list, st, op, expire)
    BY Zenon DEF TimerInv, PendListsOK
  <2>2. \A x \in Timers : In(list[l], x) => Waits(st', op', x, l)
    BY <1>15, <2>1, Zenon DEF ListOK
  <2> QED  BY <2>1, <2>2, Zenon DEF ListOK
<1>21. LocksOK' /\ HeadersOK'
  BY <1>3, Zenon DEF TimerInv, LocksOK, HeadersOK
<1>22. PendingsOK'
  <2> SUFFICES ASSUME NEW x \in Timers PROVE PendingOK(x, st', list, lock, mpc, m, period, runs)
    BY <1>3, Zenon DEF PendingsOK
  <2>1. PendingOK(x, st, list, lock, mpc, m, period, runs)
    BY Zenon DEF TimerInv, PendingsOK
  <2>2. CASE x # t
    BY <1>10, <2>1, <2>2, Zenon DEF PendingOK
  <2>3. CASE x = t
    BY <1>10, <2>1, <2>3, Zenon DEF PendingOK, Is
  <2> QED  BY <2>2, <2>3, Zenon
<1> QED  BY <1>12, <1>14, <1>19, <1>20, <1>21, <1>22, Zenon DEF TimerInv


LEMMA DeleteStep ==
  ASSUME TimerType, NEW q \in Lcores, NEW t \in Timers, Delete(q, t),
         Distinct(list[q]), Sorted(list[q], expire)
  PROVE  /\ list' \in [Lcores -> Seq(Timers)] /\ hexp' \in [Lcores -> Nat]
         /\ Distinct(list'[q]) /\ Sorted(list'[q], expire)
         /\ \A x \in Timers : In(list'[q], x) <=> In(list[q], x) /\ x # t
         /\ \A l \in Lcores : l # q => list'[l] = list[l] /\ hexp'[l] = hexp[l]
         /\ hexp[q] = FirstExpire(list[q], expire) => hexp'[q] = FirstExpire(list'[q], expire)
<1>1. /\ list \in [Lcores -> Seq(Timers)] /\ hexp \in [Lcores -> Nat] /\ list[q] \in Seq(Timers)
      /\ expire \in [Timers -> Nat]
  BY Zenon DEF TimerType
<1>2. CASE ~ In(list[q], t)
  <2>1. list' = list /\ hexp' = hexp
    BY <1>2, Zenon DEF Delete, listvars
  <2>2. \A x \in Timers : In(list'[q], x) <=> In(list[q], x) /\ x # t
    BY <1>2, <2>1, Zenon
  <2> QED  BY <1>1, <2>1, <2>2, Zenon
<1>3. CASE In(list[q], t)
  <2>1. PICK s : s = list[q]
    BY Zenon
  <2>2. PICK i : i = CHOOSE j \in DOMAIN s : s[j] = t
    BY Zenon
  <2>3. PICK a : a = First(s, i - 1) \o Rest(s, i)
    BY Zenon
  <2>4. /\ list' = [list EXCEPT ![q] = a]
        /\ hexp' = IF i = 1 THEN [hexp EXCEPT ![q] = FirstExpire(Tail(s), expire)] ELSE hexp
    <3>1. i = CHOOSE j \in DOMAIN list[q] : list[q][j] = t
      BY <2>1, <2>2, Zenon
    <3>2. /\ list' = [list EXCEPT ![q] = First(list[q], i - 1) \o Rest(list[q], i)]
          /\ hexp' = IF i = 1 THEN [hexp EXCEPT ![q] = FirstExpire(Tail(list[q]), expire)] ELSE hexp
      BY <1>3, <3>1, Zenon DEF Delete
    <3> QED  BY <2>1, <2>3, <3>2, Zenon
  <2>5. s \in Seq(Timers) /\ In(s, t) /\ Distinct(s) /\ Sorted(s, expire)
    BY <1>1, <1>3, <2>1, Zenon
  <2>6. DeleteOK(a, s, t, expire, i)
    BY <1>1, <2>2, <2>3, <2>5, DeletedFacts, Zenon
  <2>7. /\ a \in Seq(Timers) /\ Distinct(a) /\ Sorted(a, expire)
        /\ \A x \in Timers : In(a, x) <=> In(s, x) /\ x # t
        /\ FirstExpire(a, expire) = IF i = 1 THEN FirstExpire(Tail(s), expire) ELSE FirstExpire(s, expire)
    BY <2>6, Zenon DEF DeleteOK
  <2>8. FirstExpire(Tail(s), expire) \in Nat
    <3>1. s # <<>>
      BY <2>5, InEmpty, Zenon
    <3>2. Tail(s) \in Seq(Timers) /\ (Tail(s) # <<>> => Head(Tail(s)) \in Timers) /\ 0 \in Nat
      BY <2>5, <3>1, SMT
    <3> QED  BY <1>1, <3>2, Zenon DEF FirstExpire
  <2>9. list'[q] = a /\ list' \in [Lcores -> Seq(Timers)] /\ \A l \in Lcores : l # q => list'[l] = list[l]
    BY <1>1, <2>4, <2>7, Zenon
  <2>10. hexp' \in [Lcores -> Nat] /\ \A l \in Lcores : l # q => hexp'[l] = hexp[l]
    BY <1>1, <2>4, <2>8, Zenon
  <2>11. hexp[q] = FirstExpire(list[q], expire) => hexp'[q] = FirstExpire(list'[q], expire)
    BY <1>1, <2>1, <2>4, <2>7, <2>9, Zenon
  <2> QED  BY <2>1, <2>7, <2>9, <2>10, <2>11, Zenon
<1> QED  BY <1>2, <1>3, Zenon

LEMMA AddStep ==
  ASSUME TimerType, NEW q \in Lcores, NEW t \in Timers, NEW w \in Nat, Add(q, t, w),
         Distinct(list[q]), Sorted(list[q], expire), ~ In(list[q], t)
  PROVE  /\ list' \in [Lcores -> Seq(Timers)] /\ hexp' \in [Lcores -> Nat] /\ expire' \in [Timers -> Nat]
         /\ Distinct(list'[q]) /\ Sorted(list'[q], expire')
         /\ \A x \in Timers : In(list'[q], x) <=> In(list[q], x) \/ x = t
         /\ \A l \in Lcores : l # q => list'[l] = list[l] /\ hexp'[l] = hexp[l]
         /\ hexp'[q] = FirstExpire(list'[q], expire')
         /\ \A x \in Timers : x # t => expire'[x] = expire[x]
<1>1. /\ list \in [Lcores -> Seq(Timers)] /\ hexp \in [Lcores -> Nat] /\ list[q] \in Seq(Timers)
      /\ expire \in [Timers -> Nat]
  BY Zenon DEF TimerType
<1>2. PICK s : s = list[q]
  BY Zenon
<1>3. PICK k : k = Upto(s, expire, w)
  BY Zenon
<1>4. PICK a : a = First(s, k) \o <<t>> \o Rest(s, k)
  BY Zenon
<1>5. /\ expire' = [expire EXCEPT ![t] = w] /\ list' = [list EXCEPT ![q] = a]
      /\ hexp' = [hexp EXCEPT ![q] = expire'[Head(a)]]
  BY <1>2, <1>3, <1>4, Zenon DEF Add
<1>6. s \in Seq(Timers) /\ ~ In(s, t) /\ Distinct(s) /\ Sorted(s, expire)
  BY <1>1, <1>2, Zenon
<1>7. PICK e2 : e2 = [expire EXCEPT ![t] = w]
  BY Zenon
<1>8. AddOK(a, s, t, e2)
  BY <1>1, <1>3, <1>4, <1>6, <1>7, AddedFacts, Zenon
<1>9. expire' = e2 /\ e2 \in [Timers -> Nat] /\ \A x \in Timers : x # t => e2[x] = expire[x]
  BY <1>1, <1>5, <1>7, Zenon
<1>10. /\ a \in Seq(Timers) /\ Distinct(a) /\ Sorted(a, expire')
       /\ \A x \in Timers : In(a, x) <=> In(s, x) \/ x = t
       /\ FirstExpire(a, expire') = expire'[Head(a)]
  BY <1>8, <1>9, Zenon DEF AddOK
<1>11. a # <<>>
  <2>1. In(a, t)
    BY <1>10, Zenon
  <2> QED  BY <2>1, InEmpty, Zenon
<1>12. expire'[Head(a)] \in Nat
  <2>1. a \in Seq(Timers)
    BY <1>10, Zenon
  <2>2. Head(a) \in Timers
    BY <1>11, <2>1, SMT
  <2> QED  BY <1>9, <2>2, Zenon
<1>13. list'[q] = a /\ list' \in [Lcores -> Seq(Timers)] /\ \A l \in Lcores : l # q => list'[l] = list[l]
  BY <1>1, <1>5, <1>10, Zenon
<1>14. PICK h : h = expire'[Head(a)]
  BY Zenon
<1>15. hexp' = [hexp EXCEPT ![q] = h] /\ h \in Nat
  BY <1>5, <1>12, <1>14, Zenon
<1>16. hexp' \in [Lcores -> Nat] /\ hexp'[q] = h /\ \A l \in Lcores : l # q => hexp'[l] = hexp[l]
  BY <1>1, <1>15, Zenon
<1>17. hexp'[q] = FirstExpire(list'[q], expire')
  BY <1>10, <1>13, <1>14, <1>16, Zenon
<1> QED  BY <1>2, <1>9, <1>10, <1>13, <1>16, <1>17, Zenon


LEMMA DelInv ==
  ASSUME TimerInv, NEW p \in Threads, Del(p)
  PROVE  TimerInv'
<1>1. PICK o : o = op[p]
  BY Zenon
<1>2. PICK t : t = o.tim
  BY Zenon
<1>3. PICK q : q = o.from
  BY Zenon
<1>4. PICK c : c = [o EXCEPT !.step = "set", !.from = NoOwner]
  BY Zenon
<1>5. /\ o.step = "del" /\ lock[q] = NoOwner /\ Delete(q, t) /\ op' = [op EXCEPT ![p] = c] /\ calls' = calls
      /\ now' = now /\ st' = st /\ expire' = expire /\ period' = period /\ runs' = runs
      /\ lock' = lock /\ updated' = updated /\ running' = running /\ mpc' = mpc /\ m' = m
  BY <1>1, <1>2, <1>3, <1>4, Zenon DEF Del, timvars, corevars
<1>6. TimerType /\ o \in Ops /\ OpOK(p, o, st) /\ now \in Nat
  BY <1>1, Zenon DEF TimerInv, TimerType, OpsOK
<1>7. /\ t \in Timers /\ q \in Lcores /\ Is(st[t], "CONFIG", p)
      /\ \A l \in Lcores : In(list[l], t) => l = q
      /\ \A l \in Lcores : ~ Ref(mpc[l], m[l], updated[l], t)
  BY <1>1, <1>2, <1>3, <1>5, DelIsFree, Zenon
<1>8. c \in Ops /\ c.step = "set" /\ c.tim = t /\ c.call = o.call /\ c.dest = o.dest
  BY <1>2, <1>4, <1>6, Zenon DEF Ops
<1>9. /\ op \in [Threads -> Ops] /\ op' \in [Threads -> Ops] /\ op'[p] = c
      /\ \A y \in Threads : y # p => op'[y] = op[y]
  BY <1>5, <1>6, <1>8, Zenon DEF TimerType
<1>10. ListOK(q, list, st, op, expire)
  BY <1>7, Zenon DEF TimerInv, PendListsOK
<1>11. /\ list' \in [Lcores -> Seq(Timers)] /\ hexp' \in [Lcores -> Nat]
       /\ Distinct(list'[q]) /\ Sorted(list'[q], expire)
       /\ \A x \in Timers : In(list'[q], x) <=> In(list[q], x) /\ x # t
       /\ \A l \in Lcores : l # q => list'[l] = list[l] /\ hexp'[l] = hexp[l]
       /\ hexp[q] = FirstExpire(list[q], expire) => hexp'[q] = FirstExpire(list'[q], expire)
  BY <1>5, <1>6, <1>7, <1>10, DeleteStep, Zenon DEF ListOK
<1>12. TimerType'
  BY <1>5, <1>6, <1>9, <1>11, Zenon DEF TimerType
<1>13. OpsOK'
  <2>1. OpOK(p, c, st')
    BY <1>5, <1>6, <1>7, <1>8, Zenon DEF OpOK
  <2>2. \A y \in Threads : y # p => ~ Is(st[t], "CONFIG", y)
    BY <1>7, Zenon DEF Is
  <2>3. \A x \in Timers : st'[x] = st[x]
    BY <1>5, Zenon
  <2> QED  BY <1>9, <2>1, <2>2, <2>3, OtherOps, Zenon
<1>14. ASSUME NEW x \in Timers, x # t, NEW k, Waits(st, op, x, k) PROVE Waits(st', op', x, k)
  <2>1. op[p].tim # x /\ st'[x] = st[x]
    BY <1>1, <1>2, <1>5, <1>14, Zenon
  <2> QED  BY <1>9, <1>14, <2>1, WaitsKept, Zenon
<1>15. ASSUME NEW l \in Lcores, NEW x \in Timers
       PROVE  (In(list'[l], x) => In(list[l], x) /\ x # t) /\ (In(list[l], x) /\ x # t => In(list'[l], x))
  BY <1>7, <1>11, Zenon
<1>16. ASSUME NEW x \in Timers, x # t PROVE Unmoved(x)
  BY <1>5, <1>14, <1>15, <1>16, Zenon DEF Unmoved
<1>17. now <= now'
  BY <1>5, <1>6, SMT
<1>18. p \in Lcores => mpc[p] \in {"idle", "cb"}
  <2>1. op[p].step # "none"
    BY <1>1, <1>5, Zenon
  <2> QED  BY <2>1, CallerIs, Zenon
<1>19. LcoresOK'
  <2> SUFFICES ASSUME NEW l \in Lcores
               PROVE  LcoreOK(l, mpc[l], m[l], updated[l], running[l], list, st, op, expire, period, runs, now)'
    BY Zenon DEF LcoresOK
  <2>1. LcoreOK(l, mpc[l], m[l], updated[l], running[l], list, st, op, expire, period, runs, now)
    BY Zenon DEF TimerInv, LcoresOK
  <2>2. op'[l] = NoOp \/ mpc[l] \in {"idle", "cb"}
    BY <1>9, <1>18, <2>1, Zenon DEF LcoreOK, LocalOK, Threads
  <2>3. \A x \in Timers : Ref(mpc[l], m[l], updated'[l], x) => Unmoved(x)
    BY <1>5, <1>7, <1>16, Zenon
  <2> QED  BY <1>5, <1>12, <1>17, <2>2, <2>3, LcoreKept, Zenon
<1>20. PendListsOK'
  <2> SUFFICES ASSUME NEW l \in Lcores PROVE ListOK(l, list', st', op', expire')
    BY Zenon DEF PendListsOK
  <2>1. ListOK(l, list, st, op, expire)
    BY Zenon DEF TimerInv, PendListsOK
  <2>2. \A x \in Timers : In(list'[l], x) => Waits(st', op', x, l)
    BY <1>14, <1>15, <2>1, Zenon DEF ListOK
  <2>3. Distinct(list'[l]) /\ Sorted(list'[l], expire')
    <3>1. CASE l = q
      BY <1>5, <1>11, <3>1, Zenon
    <3>2. CASE l # q
      BY <1>5, <1>11, <2>1, <3>2, Zenon DEF ListOK
    <3> QED  BY <3>1, <3>2, Zenon
  <2> QED  BY <2>2, <2>3, Zenon DEF ListOK
<1>21. LocksOK'
  BY <1>5, Zenon DEF TimerInv, LocksOK
<1>22. HeadersOK'
  <2> SUFFICES ASSUME NEW l \in Lcores PROVE HeaderOK(l, list', lock', mpc', hexp', expire')
    BY Zenon DEF HeadersOK
  <2>1. HeaderOK(l, list, lock, mpc, hexp, expire)
    BY Zenon DEF TimerInv, HeadersOK
  <2>2. CASE l = q
    BY <1>5, <1>11, <2>1, <2>2, Zenon DEF HeaderOK
  <2>3. CASE l # q
    <3>1. list'[l] = list[l] /\ hexp'[l] = hexp[l]
      BY <1>11, <2>3, Zenon
    <3> QED  BY <1>5, <2>1, <3>1, Zenon DEF HeaderOK
  <2> QED  BY <2>2, <2>3, Zenon
<1>23. PendingsOK'
  <2> SUFFICES ASSUME NEW x \in Timers PROVE PendingOK(x, st', list', lock', mpc', m', period', runs')
    BY Zenon DEF PendingsOK
  <2>1. PendingOK(x, st, list, lock, mpc, m, period, runs)
    BY Zenon DEF TimerInv, PendingsOK
  <2>2. ASSUME st[x].state = "PENDING" PROVE Placed(list', lock', mpc', m', x, st[x].owner)
    <3>1. x # t /\ st[x].owner \in Lcores /\ Placed(list, lock, mpc, m, x, st[x].owner)
      BY <1>7, <2>1, <2>2, Zenon DEF PendingOK, Is
    <3> QED  BY <1>5, <1>15, <3>1, Zenon DEF Placed
  <2> QED  BY <1>5, <2>1, <2>2, Zenon DEF PendingOK
<1> QED  BY <1>12, <1>13, <1>19, <1>20, <1>21, <1>22, <1>23, Zenon DEF TimerInv


LEMMA NoOpType == NoOp \in Ops
<1>1. 0 \in Nat
  BY SMT
<1> QED  BY <1>1, Zenon DEF NoOp, Ops

LEMMA SetPendingInv ==
  ASSUME TimerInv, NEW p \in Threads, SetPending(p)
  PROVE  TimerInv'
<1>1. PICK o : o = op[p]
  BY Zenon
<1>2. PICK t : t = o.tim
  BY Zenon
<1>3. PICK q : q = o.dest
  BY Zenon
<1>4. /\ o.step = "set" /\ o.call = "reset" /\ lock[q] = NoOwner /\ Add(q, t, o.expire)
      /\ period' = [period EXCEPT ![t] = o.period] /\ runs' = [runs EXCEPT ![t] = 0]
      /\ st' = [st EXCEPT ![t] = Status("PENDING", q)]
      /\ op' = [op EXCEPT ![p] = NoOp] /\ calls' = calls /\ now' = now
      /\ lock' = lock /\ updated' = updated /\ running' = running /\ mpc' = mpc /\ m' = m
  BY <1>1, <1>2, <1>3, Zenon DEF SetPending, corevars
<1>5. /\ TimerType /\ o \in Ops /\ OpOK(p, o, st) /\ now \in Nat /\ o.expire \in Nat /\ o.period \in Nat
      /\ q \in Lcores
  BY <1>1, <1>3, <1>4, OpTypes, Zenon DEF TimerInv, TimerType, OpsOK, OpOK
<1>6. /\ t \in Timers /\ Is(st[t], "CONFIG", p)
      /\ \A l \in Lcores : ~ In(list[l], t)
      /\ \A l \in Lcores : ~ Ref(mpc[l], m[l], updated[l], t)
  BY <1>1, <1>2, <1>4, SetIsFree, Zenon
<1>7. /\ op \in [Threads -> Ops] /\ op' \in [Threads -> Ops] /\ op'[p] = NoOp
      /\ \A y \in Threads : y # p => op'[y] = op[y]
  BY <1>4, <1>5, NoOpType, Zenon DEF TimerType
<1>8. ListOK(q, list, st, op, expire)
  BY <1>5, Zenon DEF TimerInv, PendListsOK
<1>9. /\ list' \in [Lcores -> Seq(Timers)] /\ hexp' \in [Lcores -> Nat] /\ expire' \in [Timers -> Nat]
      /\ Distinct(list'[q]) /\ Sorted(list'[q], expire')
      /\ \A x \in Timers : In(list'[q], x) <=> In(list[q], x) \/ x = t
      /\ \A l \in Lcores : l # q => list'[l] = list[l] /\ hexp'[l] = hexp[l]
      /\ hexp'[q] = FirstExpire(list'[q], expire')
      /\ \A x \in Timers : x # t => expire'[x] = expire[x]
  <2>1. Distinct(list[q]) /\ Sorted(list[q], expire) /\ ~ In(list[q], t) /\ Add(q, t, o.expire)
    BY <1>4, <1>5, <1>6, <1>8, Zenon DEF ListOK
  <2> QED  BY <1>5, <1>6, <2>1, AddStep, Zenon
<1>10. /\ st' \in [Timers -> [state : States, owner : Threads \union {NoOwner}]]
       /\ Is(st'[t], "PENDING", q) /\ \A x \in Timers : x # t => st'[x] = st[x]
  <2>1. Status("PENDING", q) \in [state : States, owner : Threads \union {NoOwner}]
    BY <1>5, Zenon DEF Status, States, Threads
  <2> QED  BY <1>4, <1>5, <1>6, <2>1, StatusIs, Zenon DEF TimerType
<1>11. 0 \in Nat /\ now <= now' /\ 0 <= 1
  BY <1>4, <1>5, SMT
<1>12. /\ period' \in [Timers -> Nat] /\ runs' \in [Timers -> Nat] /\ runs'[t] = 0
       /\ \A x \in Timers : x # t => period'[x] = period[x] /\ runs'[x] = runs[x]
  BY <1>4, <1>5, <1>6, <1>11, Zenon DEF TimerType
<1>13. TimerType'
  BY <1>4, <1>5, <1>7, <1>9, <1>10, <1>12, Zenon DEF TimerType
<1>14. OpsOK'
  <2>1. OpOK(p, NoOp, st')
    BY NoOpIs, Zenon DEF OpOK
  <2>2. \A y \in Threads : y # p => ~ Is(st[t], "CONFIG", y)
    BY <1>6, Zenon DEF Is
  <2> QED  BY <1>7, <1>10, <2>1, <2>2, OtherOps, Zenon
<1>15. ASSUME NEW x \in Timers, x # t, NEW k, Waits(st, op, x, k) PROVE Waits(st', op', x, k)
  <2>1. op[p].step # "del" /\ st'[x] = st[x]
    BY <1>1, <1>4, <1>10, <1>15, Zenon
  <2> QED  BY <1>7, <1>15, <2>1, WaitsKept, Zenon
<1>16. ASSUME NEW l \in Lcores, NEW x \in Timers, x # t PROVE In(list'[l], x) <=> In(list[l], x)
  BY <1>9, <1>16, Zenon
<1>17. ASSUME NEW x \in Timers, x # t PROVE Unmoved(x)
  BY <1>9, <1>10, <1>12, <1>15, <1>16, <1>17, Zenon DEF Unmoved
<1>18. LcoresOK'
  <2> SUFFICES ASSUME NEW l \in Lcores
               PROVE  LcoreOK(l, mpc[l], m[l], updated[l], running[l], list, st, op, expire, period, runs, now)'
    BY Zenon DEF LcoresOK
  <2>1. LcoreOK(l, mpc[l], m[l], updated[l], running[l], list, st, op, expire, period, runs, now)
    BY Zenon DEF TimerInv, LcoresOK
  <2>2. op'[l] = NoOp \/ mpc[l] \in {"idle", "cb"}
    BY <1>7, <2>1, Zenon DEF LcoreOK, LocalOK, Threads
  <2>3. \A x \in Timers : Ref(mpc[l], m[l], updated'[l], x) => Unmoved(x)
    BY <1>4, <1>6, <1>17, Zenon
  <2> QED  BY <1>4, <1>11, <1>13, <2>2, <2>3, LcoreKept, Zenon
<1>19. ASSUME NEW l \in Lcores, l # q
       PROVE  ListOK(l, list', st', op', expire') /\ FirstExpire(list'[l], expire') = FirstExpire(list[l], expire)
  <2>1. list'[l] = list[l]
    BY <1>9, <1>19, Zenon
  <2>2. \A x \in Timers : In(list[l], x) =>
          (Waits(st, op, x, l) => Waits(st', op', x, l)) /\ expire'[x] = expire[x]
    BY <1>6, <1>9, <1>15, Zenon
  <2> QED  BY <2>1, <2>2, ListKept, Zenon
<1>20. ListOK(q, list', st', op', expire')
  <2>1. \A x \in Timers : In(list'[q], x) => Waits(st', op', x, q)
    <3>1. Waits(st', op', t, q)
      BY <1>10, Zenon DEF Waits
    <3> QED  BY <1>5, <1>8, <1>9, <1>15, <3>1, Zenon DEF ListOK
  <2> QED  BY <1>9, <2>1, Zenon DEF ListOK
<1>21. PendListsOK'
  BY <1>19, <1>20, Zenon DEF PendListsOK
<1>22. LocksOK'
  BY <1>4, Zenon DEF TimerInv, LocksOK
<1>23. HeadersOK'
  <2> SUFFICES ASSUME NEW l \in Lcores PROVE HeaderOK(l, list', lock', mpc', hexp', expire')
    BY Zenon DEF HeadersOK
  <2>1. HeaderOK(l, list, lock, mpc, hexp, expire)
    BY Zenon DEF TimerInv, HeadersOK
  <2>2. CASE l = q
    BY <1>9, <2>2, Zenon DEF HeaderOK
  <2>3. CASE l # q
    <3>1. hexp'[l] = hexp[l] /\ FirstExpire(list'[l], expire') = FirstExpire(list[l], expire)
      BY <1>9, <1>19, <2>3, Zenon
    <3> QED  BY <1>4, <2>1, <3>1, Zenon DEF HeaderOK
  <2> QED  BY <2>2, <2>3, Zenon
<1>24. PendingsOK'
  <2> SUFFICES ASSUME NEW x \in Timers PROVE PendingOK(x, st', list', lock', mpc', m', period', runs')
    BY Zenon DEF PendingsOK
  <2>1. PendingOK(x, st, list, lock, mpc, m, period, runs)
    BY Zenon DEF TimerInv, PendingsOK
  <2>2. CASE x # t
    <3>1. ASSUME st[x].state = "PENDING" PROVE Placed(list', lock', mpc', m', x, st[x].owner)
      <4>1. st[x].owner \in Lcores /\ Placed(list, lock, mpc, m, x, st[x].owner)
        BY <2>1, <3>1, Zenon DEF PendingOK
      <4> QED  BY <1>4, <1>16, <2>2, <4>1, Zenon DEF Placed
    <3> QED  BY <1>10, <1>12, <2>1, <2>2, <3>1, Zenon DEF PendingOK
  <2>3. CASE x = t
    <3>1. Placed(list', lock', mpc', m', x, q)
      BY <1>6, <1>9, <2>3, Zenon DEF Placed
    <3> QED  BY <1>5, <1>10, <1>11, <1>12, <2>3, <3>1, Zenon DEF PendingOK, Is
  <2> QED  BY <2>2, <2>3, Zenon
<1> QED  BY <1>13, <1>14, <1>18, <1>21, <1>22, <1>23, <1>24, Zenon DEF TimerInv

LEMMA SetStopInv ==
  ASSUME TimerInv, NEW p \in Threads, SetStop(p)
  PROVE  TimerInv'
<1>1. PICK o : o = op[p]
  BY Zenon
<1>2. PICK t : t = o.tim
  BY Zenon
<1>3. /\ o.step = "set" /\ st' = [st EXCEPT ![t] = Stopped]
      /\ op' = [op EXCEPT ![p] = NoOp] /\ calls' = calls /\ now' = now
      /\ expire' = expire /\ period' = period /\ runs' = runs /\ list' = list /\ hexp' = hexp
      /\ lock' = lock /\ updated' = updated /\ running' = running /\ mpc' = mpc /\ m' = m
  BY <1>1, <1>2, Zenon DEF SetStop, timvars, listvars, corevars
<1>4. TimerType /\ now \in Nat
  BY Zenon DEF TimerInv, TimerType
<1>5. /\ t \in Timers /\ Is(st[t], "CONFIG", p)
      /\ \A l \in Lcores : ~ In(list[l], t)
      /\ \A l \in Lcores : ~ Ref(mpc[l], m[l], updated[l], t)
  BY <1>1, <1>2, <1>3, SetIsFree, Zenon
<1>6. /\ op \in [Threads -> Ops] /\ op' \in [Threads -> Ops] /\ op'[p] = NoOp
      /\ \A y \in Threads : y # p => op'[y] = op[y]
  BY <1>3, <1>4, NoOpType, Zenon DEF TimerType
<1>7. /\ st' \in [Timers -> [state : States, owner : Threads \union {NoOwner}]]
      /\ Is(st'[t], "STOP", NoOwner) /\ \A x \in Timers : x # t => st'[x] = st[x]
  <2>1. Stopped \in [state : States, owner : Threads \union {NoOwner}]
    BY Zenon DEF Stopped, Status, States
  <2> QED  BY <1>3, <1>4, <1>5, <2>1, StatusIs, Zenon DEF TimerType
<1>8. TimerType'
  BY <1>3, <1>4, <1>6, <1>7, Zenon DEF TimerType
<1>9. OpsOK'
  <2>1. OpOK(p, NoOp, st')
    BY NoOpIs, Zenon DEF OpOK
  <2>2. \A y \in Threads : y # p => ~ Is(st[t], "CONFIG", y)
    BY <1>5, Zenon DEF Is
  <2> QED  BY <1>6, <1>7, <2>1, <2>2, OtherOps, Zenon
<1>10. ASSUME NEW x \in Timers, x # t, NEW k, Waits(st, op, x, k) PROVE Waits(st', op', x, k)
  <2>1. op[p].step # "del" /\ st'[x] = st[x]
    BY <1>1, <1>3, <1>7, <1>10, Zenon
  <2> QED  BY <1>6, <1>10, <2>1, WaitsKept, Zenon
<1>11. ASSUME NEW x \in Timers, x # t PROVE Unmoved(x)
  BY <1>3, <1>7, <1>10, <1>11, Zenon DEF Unmoved
<1>12. now <= now'
  BY <1>3, <1>4, SMT
<1>13. LcoresOK'
  <2> SUFFICES ASSUME NEW l \in Lcores
               PROVE  LcoreOK(l, mpc[l], m[l], updated[l], running[l], list, st, op, expire, period, runs, now)'
    BY Zenon DEF LcoresOK
  <2>1. LcoreOK(l, mpc[l], m[l], updated[l], running[l], list, st, op, expire, period, runs, now)
    BY Zenon DEF TimerInv, LcoresOK
  <2>2. op'[l] = NoOp \/ mpc[l] \in {"idle", "cb"}
    BY <1>6, <2>1, Zenon DEF LcoreOK, LocalOK, Threads
  <2>3. \A x \in Timers : Ref(mpc[l], m[l], updated'[l], x) => Unmoved(x)
    BY <1>3, <1>5, <1>11, Zenon
  <2> QED  BY <1>3, <1>8, <1>12, <2>2, <2>3, LcoreKept, Zenon
<1>14. PendListsOK'
  <2> SUFFICES ASSUME NEW l \in Lcores PROVE ListOK(l, list, st', op', expire)
    BY <1>3, Zenon DEF PendListsOK
  <2>1. ListOK(l, list, st, op, expire)
    BY Zenon DEF TimerInv, PendListsOK
  <2>2. \A x \in Timers : In(list[l], x) => Waits(st', op', x, l)
    BY <1>5, <1>10, <2>1, Zenon DEF ListOK
  <2> QED  BY <2>1, <2>2, Zenon DEF ListOK
<1>15. LocksOK' /\ HeadersOK'
  BY <1>3, Zenon DEF TimerInv, LocksOK, HeadersOK
<1>16. PendingsOK'
  <2> SUFFICES ASSUME NEW x \in Timers PROVE PendingOK(x, st', list, lock, mpc, m, period, runs)
    BY <1>3, Zenon DEF PendingsOK
  <2>1. PendingOK(x, st, list, lock, mpc, m, period, runs)
    BY Zenon DEF TimerInv, PendingsOK
  <2>2. CASE x # t
    BY <1>7, <2>1, <2>2, Zenon DEF PendingOK
  <2>3. CASE x = t
    BY <1>7, <2>1, <2>3, Zenon DEF PendingOK, Is
  <2> QED  BY <2>2, <2>3, Zenon
<1> QED  BY <1>8, <1>9, <1>13, <1>14, <1>15, <1>16, Zenon DEF TimerInv


-----------------------------------------------------------------------------
(* Managers                                                                 *)

\* The step of a manager on lcore l changes nothing of the other lcores, and
\* moves no timer but one that l has to do with.
LEMMA OtherLcores ==
  ASSUME TimerInv, TimerType', NEW l \in Lcores, op' = op, now' = now,
         \A k \in Lcores : k # l =>
            m'[k] = m[k] /\ mpc'[k] = mpc[k] /\ running'[k] = running[k] /\ updated'[k] = updated[k],
         \A x \in Timers : Unmoved(x) \/ Ref(mpc[l], m[l], updated[l], x),
         LcoreOK(l, mpc[l], m[l], updated[l], running[l], list, st, op, expire, period, runs, now)'
  PROVE  LcoresOK'
<1> SUFFICES ASSUME NEW k \in Lcores, k # l
             PROVE  LcoreOK(k, mpc[k], m[k], updated[k], running[k], list, st, op, expire, period, runs, now)'
  BY Zenon DEF LcoresOK
<1>1. op'[k] = NoOp \/ mpc[k] \in {"idle", "cb"}
  BY Zenon DEF TimerInv, LcoresOK, LcoreOK, LocalOK
<1>2. now <= now'
  <2>1. now \in Nat
    BY Zenon DEF TimerInv, TimerType
  <2> QED  BY <2>1, SMT
<1>3. ASSUME NEW x \in Timers, Ref(mpc[k], m[k], updated'[k], x) PROVE Unmoved(x)
  <2>1. Ref(mpc[k], m[k], updated[k], x)
    BY <1>3, Zenon
  <2> QED  BY <2>1, RefOne, Zenon
<1> QED  BY <1>1, <1>2, <1>3, LcoreKept, Zenon

LEMMA OtherLocks ==
  ASSUME TimerInv, NEW l \in Lcores,
         \A k \in Lcores : k # l => m'[k] = m[k] /\ mpc'[k] = mpc[k],
         \A q \in Lcores : lock'[q] = lock[q] \/ (lock[q] \in {NoOwner, l} /\ lock'[q] \in {NoOwner, l}),
         \A q \in Lcores : Holds(l, mpc'[l], m'[l], q) <=> lock'[q] = l
  PROVE  LocksOK'
<1> SUFFICES ASSUME NEW k \in Lcores, NEW q \in Lcores PROVE Holds(k, mpc'[k], m'[k], q) <=> lock'[q] = k
  BY Zenon DEF LocksOK
<1>1. CASE k = l
  BY <1>1, Zenon
<1>2. CASE k # l
  <2>1. Holds(k, mpc[k], m[k], q) <=> lock[q] = k
    BY Zenon DEF TimerInv, LocksOK
  <2>2. k # NoOwner
    BY TimerParameters, Zenon
  <2> QED  BY <1>2, <2>1, <2>2, Zenon
<1> QED  BY <1>1, <1>2, Zenon

\* Whose call has configured a timer still owns it.
LEMMA OpsKept ==
  ASSUME TimerInv, op' = op,
         \A x \in Timers : st'[x] = st[x] \/ \A y \in Threads : Is(st[x], "CONFIG", y) => op[y].step \notin {"del", "set"}
  PROVE  OpsOK'
<1> SUFFICES ASSUME NEW y \in Threads PROVE OpOK(y, op[y], st')
  BY Zenon DEF OpsOK
<1>1. OpOK(y, op[y], st)
  BY Zenon DEF TimerInv, OpsOK
<1>2. op[y].step \in {"del", "set"} => Is(st'[op[y].tim], "CONFIG", y)
  BY <1>1, Zenon DEF OpOK
<1> QED  BY <1>1, <1>2, Zenon DEF OpOK

LEMMA SameWaits ==
  ASSUME op' = op, NEW x, st'[x] = st[x], NEW q, Waits(st, op, x, q) PROVE Waits(st', op', x, q)
BY Zenon DEF Waits, Deleting

LEMMA ListsKept ==
  ASSUME TimerInv, op' = op, list' = list, expire' = expire,
         \A l \in Lcores : \A x \in Timers : In(list[l], x) => st'[x] = st[x]
  PROVE  PendListsOK'
<1> SUFFICES ASSUME NEW l \in Lcores PROVE ListOK(l, list, st', op', expire)
  BY Zenon DEF PendListsOK
<1>1. ListOK(l, list, st, op, expire)
  BY Zenon DEF TimerInv, PendListsOK
<1>2. \A x \in Timers : In(list[l], x) => Waits(st', op', x, l)
  BY <1>1, SameWaits, Zenon DEF ListOK
<1> QED  BY <1>1, <1>2, Zenon DEF ListOK

\* A timer stays where it is.
StaysPut(x) ==
  /\ st'[x] = st[x] /\ period'[x] = period[x] /\ runs'[x] = runs[x]
  /\ \A q \in Lcores : Is(st[x], "PENDING", q) /\ Placed(list, lock, mpc, m, x, q)
                         => Placed(list', lock', mpc', m', x, q)

LEMMA PendingsKept ==
  ASSUME TimerInv,
         \A x \in Timers : StaysPut(x) \/ PendingOK(x, st', list', lock', mpc', m', period', runs')
  PROVE  PendingsOK'
<1> SUFFICES ASSUME NEW x \in Timers, StaysPut(x) PROVE PendingOK(x, st', list', lock', mpc', m', period', runs')
  BY Zenon DEF PendingsOK
<1>1. PendingOK(x, st, list, lock, mpc, m, period, runs)
  BY Zenon DEF TimerInv, PendingsOK
<1>2. st[x].state = "PENDING" =>
        st[x].owner \in Lcores /\ Placed(list', lock', mpc', m', x, st[x].owner)
  BY <1>1, Zenon DEF PendingOK, StaysPut, Is
<1> QED  BY <1>1, <1>2, Zenon DEF PendingOK, StaysPut

\* A manager that holds no lock, and takes none, with no timer in its hands but
\* the ones it is still to run.
Quiet(l, pc, r, ru) ==
  /\ mpc[l] \in {"idle", "scan", "lock", "cb"} /\ op[l] = NoOp
  /\ pc \in {"idle", "scan", "lock"} /\ r \in Manages /\ ru \in Timers \union {NoTimer}
  /\ mpc' = [mpc EXCEPT ![l] = pc] /\ m' = [m EXCEPT ![l] = r] /\ running' = [running EXCEPT ![l] = ru]
  /\ r.cut = <<>> /\ r.tim = NoTimer /\ r.run \in {m[l].run, <<>>} /\ r.cur <= now
  /\ pc = "idle" => r = NoManage
  /\ pc = "lock" => r.polls # <<>>
  /\ now' = now /\ st' = st /\ expire' = expire /\ period' = period /\ runs' = runs /\ list' = list
  /\ hexp' = hexp /\ lock' = lock /\ updated' = updated /\ op' = op /\ calls' = calls

LEMMA QuietStep ==
  ASSUME TimerInv, NEW l \in Lcores, NEW pc, NEW r, NEW ru, Quiet(l, pc, r, ru)
  PROVE  TimerInv'
<1> USE DEF Quiet
<1>1. TimerType
  BY Zenon DEF TimerInv
<1>2. /\ mpc'[l] = pc /\ m'[l] = r /\ running'[l] = ru
      /\ mpc' \in [Lcores -> Labels] /\ m' \in [Lcores -> Manages]
      /\ running' \in [Lcores -> Timers \union {NoTimer}]
      /\ \A k \in Lcores : k # l =>
            m'[k] = m[k] /\ mpc'[k] = mpc[k] /\ running'[k] = running[k] /\ updated'[k] = updated[k]
  BY <1>1, Zenon DEF TimerType, Labels
<1>3. TimerType'
  BY <1>1, <1>2, Zenon DEF TimerType
<1>4. OpsOK'
  BY OpsKept, Zenon
<1>5. PendListsOK'
  BY ListsKept, Zenon
<1>6. \A q \in Lcores : lock[q] # l
  BY Zenon DEF TimerInv, LocksOK, Holds
<1>7. LocksOK'
  <2>1. \A q \in Lcores : Holds(l, mpc'[l], m'[l], q) <=> lock'[q] = l
    BY <1>2, <1>6, Zenon DEF Holds
  <2> QED  BY <1>2, <2>1, OtherLocks, Zenon
<1>8. \A x \in Timers : Unmoved(x)
  BY SameWaits, Zenon DEF Unmoved
<1>9. LcoreOK(l, pc, r, updated[l], ru, list, st, op, expire, period, runs, now)
  <2>1. LocalOK(pc, r, op[l], ru)
    BY Zenon DEF LocalOK
  <2>2. CutOK(r, list, st, op, expire, now)
    <3>1. Distinct(<<>>)
      <4>1. \A i \in 1 .. Len(<<>>) : FALSE
        BY SMT
      <4> QED  BY <4>1, Zenon DEF Distinct
    <3> QED  BY <3>1, InEmpty, Zenon DEF CutOK
  <2>3. RunsOK(l, r, st, expire, period, runs, now)
    <3>1. CASE r.run = m[l].run
      BY <3>1, Zenon DEF TimerInv, LcoresOK, LcoreOK, RunsOK
    <3>2. CASE r.run = <<>>
      <4>1. DOMAIN <<>> = {}
        BY SMT
      <4> QED  BY <3>2, <4>1, Zenon DEF RunsOK, Once, InRuns
    <3> QED  BY <3>1, <3>2, Zenon
  <2>4. OneOK(l, pc, r, updated[l], list, st, op, expire, period, now)
    BY Zenon DEF OneOK
  <2> QED  BY <2>1, <2>2, <2>3, <2>4, Zenon DEF LcoreOK
<1>10. LcoresOK'
  BY <1>2, <1>3, <1>8, <1>9, OtherLcores, Zenon
<1>11. HeadersOK'
  <2> SUFFICES ASSUME NEW q \in Lcores PROVE HeaderOK(q, list', lock', mpc', hexp', expire')
    BY Zenon DEF HeadersOK
  <2>1. HeaderOK(q, list, lock, mpc, hexp, expire) /\ lock[q] \in Lcores \union {NoOwner}
    BY <1>1, Zenon DEF TimerInv, HeadersOK, TimerType
  <2> QED  BY <1>2, <1>6, <2>1, Zenon DEF HeaderOK
<1>12. PendingsOK'
  <2>1. ASSUME NEW x \in Timers, NEW q \in Lcores, Placed(list, lock, mpc, m, x, q)
        PROVE  Placed(list', lock', mpc', m', x, q)
    <3>1. lock[q] \in Lcores \union {NoOwner}
      BY <1>1, Zenon DEF TimerType
    <3> QED  BY <1>2, <1>6, <2>1, <3>1, Zenon DEF Placed
  <2>2. \A x \in Timers : StaysPut(x)
    BY <2>1, Zenon DEF StaysPut
  <2> QED  BY <2>2, PendingsKept, Zenon
<1> QED  BY <1>3, <1>4, <1>5, <1>7, <1>10, <1>11, <1>12, Zenon DEF TimerInv


LEMMA SameAt ==
  ASSUME NEW S, NEW T, NEW f \in [S -> T], NEW x \in S PROVE f = [f EXCEPT ![x] = f[x]]
BY SMT

\* What is known of the lcore of a manager.
LEMMA LcoreIs ==
  ASSUME TimerInv, NEW l \in Lcores
  PROVE  /\ LocalOK(mpc[l], m[l], op[l], running[l]) /\ m[l].cur <= now
         /\ CutOK(m[l], list, st, op, expire, now) /\ RunsOK(l, m[l], st, expire, period, runs, now)
         /\ OneOK(l, mpc[l], m[l], updated[l], list, st, op, expire, period, now)
         /\ TimerType /\ m[l] \in Manages /\ running[l] \in Timers \union {NoTimer}
         /\ running = [running EXCEPT ![l] = running[l]] /\ mpc = [mpc EXCEPT ![l] = mpc[l]]
         /\ mpc[l] \notin {"idle", "cb"} => op[l] = NoOp
         /\ 0 <= now /\ now <= now
<1>1. LcoreOK(l, mpc[l], m[l], updated[l], running[l], list, st, op, expire, period, runs, now) /\ TimerType
  BY Zenon DEF TimerInv, LcoresOK
<1>2. running \in [Lcores -> Timers \union {NoTimer}] /\ mpc \in [Lcores -> Labels] /\ now \in Nat /\ m[l] \in Manages
  BY <1>1, Zenon DEF TimerType
<1>3. running = [running EXCEPT ![l] = running[l]] /\ mpc = [mpc EXCEPT ![l] = mpc[l]]
  BY <1>2, SameAt, Zenon
<1>4. 0 <= now /\ now <= now
  BY <1>2, SMT
<1> QED  BY <1>1, <1>2, <1>3, <1>4, Zenon DEF LcoreOK, LocalOK

LEMMA ManageInv ==
  ASSUME TimerInv, NEW l \in Lcores, Manage(l)
  PROVE  TimerInv'
<1>1. PICK r : r = [NoManage EXCEPT !.polls = Polls(l)]
  BY Zenon
<1>2. /\ mpc[l] = "idle" /\ op[l] = NoOp /\ mpc' = [mpc EXCEPT ![l] = "scan"] /\ m' = [m EXCEPT ![l] = r]
      /\ now' = now /\ st' = st /\ expire' = expire /\ period' = period /\ runs' = runs /\ list' = list
      /\ hexp' = hexp /\ lock' = lock /\ updated' = updated /\ running' = running /\ op' = op /\ calls' = calls
  BY <1>1, Zenon DEF Manage, MGoto, MBecomes, timvars, listvars, corevars
<1>3. Polls(l) \in Seq(Lcores)
  <2>1. <<l>> \in Seq(Lcores)
    BY SMT
  <2> QED  BY <2>1, TimerParameters, Zenon DEF Polls
<1>4. r \in Manages
  <2>1. <<>> \in Seq(Timers) /\ <<>> \in Seq(Seq(Timers)) /\ 0 \in Nat
    BY SMT
  <2> QED  BY <1>1, <1>3, <2>1, Zenon DEF NoManage, Manages
<1>5. r.cut = <<>> /\ r.tim = NoTimer /\ r.run = <<>> /\ r.cur = 0
  BY <1>1, Zenon DEF NoManage
<1>6. r.cur <= now /\ running[l] \in Timers \union {NoTimer} /\ running' = [running EXCEPT ![l] = running[l]]
  BY <1>2, <1>5, LcoreIs, Zenon
<1>9. Quiet(l, "scan", r, running[l])
  BY <1>2, <1>4, <1>5, <1>6, Zenon DEF Quiet
<1> QED  BY <1>9, QuietStep, Zenon

LEMMA ScanSkipInv ==
  ASSUME TimerInv, NEW l \in Lcores, ScanSkip(l)
  PROVE  TimerInv'
<1>1. PICK r : r = [m[l] EXCEPT !.polls = Tail(m[l].polls)]
  BY Zenon
<1>2. /\ mpc[l] = "scan" /\ m[l].polls # <<>> /\ mpc' = mpc /\ m' = [m EXCEPT ![l] = r]
      /\ now' = now /\ st' = st /\ expire' = expire /\ period' = period /\ runs' = runs /\ list' = list
      /\ hexp' = hexp /\ lock' = lock /\ updated' = updated /\ running' = running /\ op' = op /\ calls' = calls
  BY <1>1, Zenon DEF ScanSkip, MBecomes, timvars, listvars, corevars
<1>3. m[l] \in Manages /\ Tail(m[l].polls) \in Seq(Lcores)
  BY <1>2, LcoreIs, LocalTypes, PollsHead, Zenon
<1>4. r \in Manages /\ r.cut = m[l].cut /\ r.tim = m[l].tim /\ r.run = m[l].run /\ r.cur = m[l].cur
  BY <1>1, <1>3, Zenon DEF Manages
<1>5. m[l].cut = <<>> /\ m[l].tim = NoTimer /\ op[l] = NoOp
  BY <1>2, LcoreIs, Zenon DEF LocalOK
<1>6. /\ r.cur <= now /\ running[l] \in Timers \union {NoTimer} /\ running' = [running EXCEPT ![l] = running[l]]
      /\ mpc' = [mpc EXCEPT ![l] = "scan"]
  BY <1>2, <1>4, LcoreIs, Zenon
<1>7. r.run \in {m[l].run, <<>>} /\ r.cut = <<>> /\ r.tim = NoTimer
  BY <1>4, <1>5, Zenon
<1>9. Quiet(l, "scan", r, running[l])
  BY <1>2, <1>4, <1>5, <1>6, <1>7, Zenon DEF Quiet
<1> QED  BY <1>9, QuietStep, Zenon

LEMMA ScanInv ==
  ASSUME TimerInv, NEW l \in Lcores, Scan(l)
  PROVE  TimerInv'
<1>1. PICK r : r = [m[l] EXCEPT !.cur = now]
  BY Zenon
<1>2. /\ mpc[l] = "scan" /\ m[l].polls # <<>> /\ mpc' = [mpc EXCEPT ![l] = "lock"] /\ m' = [m EXCEPT ![l] = r]
      /\ now' = now /\ st' = st /\ expire' = expire /\ period' = period /\ runs' = runs /\ list' = list
      /\ hexp' = hexp /\ lock' = lock /\ updated' = updated /\ running' = running /\ op' = op /\ calls' = calls
  BY <1>1, Zenon DEF Scan, MGoto, MBecomes, timvars, listvars, corevars
<1>3. m[l] \in Manages /\ now \in Nat
  BY LcoreIs, Zenon DEF TimerType
<1>4. r \in Manages /\ r.cut = m[l].cut /\ r.tim = m[l].tim /\ r.run = m[l].run /\ r.cur = now /\ r.polls = m[l].polls
  BY <1>1, <1>3, Zenon DEF Manages
<1>5. m[l].cut = <<>> /\ m[l].tim = NoTimer /\ op[l] = NoOp
  BY <1>2, LcoreIs, Zenon DEF LocalOK
<1>6. r.cur <= now /\ running[l] \in Timers \union {NoTimer} /\ running' = [running EXCEPT ![l] = running[l]]
  BY <1>2, <1>4, LcoreIs, Zenon
<1>7. r.run \in {m[l].run, <<>>} /\ r.cut = <<>> /\ r.tim = NoTimer /\ r.polls # <<>>
  BY <1>2, <1>4, <1>5, Zenon
<1>9. Quiet(l, "lock", r, running[l])
  BY <1>2, <1>4, <1>5, <1>6, <1>7, Zenon DEF Quiet
<1> QED  BY <1>9, QuietStep, Zenon

LEMMA LockNothingInv ==
  ASSUME TimerInv, NEW l \in Lcores, LockNothing(l)
  PROVE  TimerInv'
<1>1. PICK r : r = [m[l] EXCEPT !.polls = Tail(m[l].polls), !.cur = 0]
  BY Zenon
<1>2. /\ mpc[l] = "lock" /\ mpc' = [mpc EXCEPT ![l] = "scan"] /\ m' = [m EXCEPT ![l] = r]
      /\ now' = now /\ st' = st /\ expire' = expire /\ period' = period /\ runs' = runs /\ list' = list
      /\ hexp' = hexp /\ lock' = lock /\ updated' = updated /\ running' = running /\ op' = op /\ calls' = calls
  BY <1>1, Zenon DEF LockNothing, MGoto, MBecomes, timvars, listvars, corevars
<1>3. m[l].cut = <<>> /\ m[l].tim = NoTimer /\ op[l] = NoOp /\ m[l].polls # <<>>
  BY <1>2, LcoreIs, Zenon DEF LocalOK
<1>4. m[l] \in Manages /\ Tail(m[l].polls) \in Seq(Lcores) /\ 0 \in Nat
  <2>1. 0 \in Nat
    BY SMT
  <2> QED  BY <1>3, <2>1, LcoreIs, LocalTypes, PollsHead, Zenon
<1>5. r \in Manages /\ r.cut = m[l].cut /\ r.tim = m[l].tim /\ r.run = m[l].run /\ r.cur = 0
  BY <1>1, <1>4, Zenon DEF Manages
<1>6. r.cur <= now /\ running[l] \in Timers \union {NoTimer} /\ running' = [running EXCEPT ![l] = running[l]]
  BY <1>2, <1>5, LcoreIs, Zenon
<1>7. r.run \in {m[l].run, <<>>} /\ r.cut = <<>> /\ r.tim = NoTimer
  BY <1>3, <1>5, Zenon
<1>9. Quiet(l, "scan", r, running[l])
  BY <1>2, <1>3, <1>5, <1>6, <1>7, Zenon DEF Quiet
<1> QED  BY <1>9, QuietStep, Zenon

LEMMA ManageReturnsInv ==
  ASSUME TimerInv, NEW l \in Lcores, ManageReturns(l)
  PROVE  TimerInv'
<1>1. /\ mpc[l] = "scan" /\ mpc' = [mpc EXCEPT ![l] = "idle"] /\ m' = [m EXCEPT ![l] = NoManage]
      /\ running' = IF l \in AltLcores THEN running ELSE [running EXCEPT ![l] = NoTimer]
      /\ now' = now /\ st' = st /\ expire' = expire /\ period' = period /\ runs' = runs /\ list' = list
      /\ hexp' = hexp /\ lock' = lock /\ updated' = updated /\ op' = op /\ calls' = calls
  BY Zenon DEF ManageReturns, MGoto, MBecomes, timvars, listvars
<1>2. op[l] = NoOp
  BY <1>1, LcoreIs, Zenon
<1>3. NoManage \in Manages
  <2>1. <<>> \in Seq(Timers) /\ <<>> \in Seq(Seq(Timers)) /\ <<>> \in Seq(Lcores) /\ 0 \in Nat
    BY SMT
  <2> QED  BY <2>1, Zenon DEF NoManage, Manages
<1>4. PICK ru : ru = IF l \in AltLcores THEN running[l] ELSE NoTimer
  BY Zenon
<1>5. ru \in Timers \union {NoTimer} /\ running' = [running EXCEPT ![l] = ru]
  <2>1. CASE l \in AltLcores
    BY <1>1, <1>4, <2>1, LcoreIs, Zenon
  <2>2. CASE l \notin AltLcores
    BY <1>1, <1>4, <2>2, Zenon
  <2> QED  BY <2>1, <2>2, Zenon
<1>6. NoManage.cur <= now
  BY NoManageIs, LcoreIs, Zenon
<1>7. NoManage.cut = <<>> /\ NoManage.tim = NoTimer /\ NoManage.run \in {m[l].run, <<>>}
  BY NoManageIs, Zenon
<1>9. Quiet(l, "idle", NoManage, ru)
  BY <1>1, <1>2, <1>3, <1>5, <1>6, <1>7, Zenon DEF Quiet
<1> QED  BY <1>9, QuietStep, Zenon

LEMMA CbUpdatedInv ==
  ASSUME TimerInv, NEW l \in Lcores, CbUpdated(l)
  PROVE  TimerInv'
<1>1. PICK r : r = [m[l] EXCEPT !.tim = NoTimer]
  BY Zenon
<1>2. /\ mpc[l] = "cb" /\ op[l] = NoOp /\ mpc' = [mpc EXCEPT ![l] = "scan"] /\ m' = [m EXCEPT ![l] = r]
      /\ now' = now /\ st' = st /\ expire' = expire /\ period' = period /\ runs' = runs /\ list' = list
      /\ hexp' = hexp /\ lock' = lock /\ updated' = updated /\ running' = running /\ op' = op /\ calls' = calls
  BY <1>1, Zenon DEF CbUpdated, Returned, MGoto, MBecomes, timvars, listvars, corevars
<1>3. m[l] \in Manages /\ m[l].cut = <<>>
  BY <1>2, LcoreIs, Zenon DEF LocalOK
<1>4. r \in Manages /\ r.cut = m[l].cut /\ r.tim = NoTimer /\ r.run = m[l].run /\ r.cur = m[l].cur
  BY <1>1, <1>3, Zenon DEF Manages
<1>5. r.cur <= now /\ running[l] \in Timers \union {NoTimer} /\ running' = [running EXCEPT ![l] = running[l]]
  BY <1>2, <1>4, LcoreIs, Zenon
<1>6. r.run \in {m[l].run, <<>>} /\ r.cut = <<>>
  BY <1>3, <1>4, Zenon
<1>9. Quiet(l, "scan", r, running[l])
  BY <1>2, <1>4, <1>5, <1>6, Zenon DEF Quiet
<1> QED  BY <1>9, QuietStep, Zenon


\* The other lcores, for a step that puts lcore l at pc with locals r.
Moves(l, pc, r) == mpc' = [mpc EXCEPT ![l] = pc] /\ m' = [m EXCEPT ![l] = r]

LEMMA MovesTo ==
  ASSUME TimerType, NEW l \in Lcores, NEW pc \in Labels, NEW r \in Manages, Moves(l, pc, r)
  PROVE  /\ mpc' \in [Lcores -> Labels] /\ m' \in [Lcores -> Manages] /\ mpc'[l] = pc /\ m'[l] = r
         /\ \A k \in Lcores : k # l => m'[k] = m[k] /\ mpc'[k] = mpc[k]
BY Zenon DEF TimerType, Moves

LEMMA CutInv ==
  ASSUME TimerInv, NEW l \in Lcores, Cut(l)
  PROVE  TimerInv'
<1>1. PICK q : q = Head(m[l].polls)
  BY Zenon
<1>2. PICK f : f = First(list[q], Upto(list[q], expire, m[l].cur))
  BY Zenon
<1>3. PICK s : s = Rest(list[q], Upto(list[q], expire, m[l].cur))
  BY Zenon
<1>4. PICK run : run = Append(m[l].run, <<>>)
  BY Zenon
<1>5. PICK r : r = [m[l] EXCEPT !.cut = f, !.run = run]
  BY Zenon
<1>6. /\ mpc[l] = "lock" /\ lock[q] = NoOwner /\ lock' = [lock EXCEPT ![q] = l]
      /\ list' = [list EXCEPT ![q] = s] /\ mpc' = [mpc EXCEPT ![l] = "cut"] /\ m' = [m EXCEPT ![l] = r]
      /\ now' = now /\ st' = st /\ expire' = expire /\ period' = period /\ runs' = runs
      /\ hexp' = hexp /\ updated' = updated /\ running' = running /\ op' = op /\ calls' = calls
  BY <1>1, <1>2, <1>3, <1>4, <1>5, Zenon DEF Cut, MGoto, MBecomes, timvars, corevars
<1>7. /\ LocalOK(mpc[l], m[l], op[l], running[l]) /\ m[l].cur <= now /\ RunsOK(l, m[l], st, expire, period, runs, now)
      /\ TimerType /\ m[l] \in Manages /\ op[l] = NoOp
  BY <1>6, LcoreIs, Zenon
<1>8. m[l].polls # <<>> /\ m[l].tim = NoTimer
  BY <1>6, <1>7, Zenon DEF LocalOK
<1>9. /\ q \in Lcores /\ m[l].cur \in Nat /\ m[l].run \in Seq(Seq(Timers)) /\ list[q] \in Seq(Timers)
      /\ expire \in [Timers -> Nat] /\ now \in Nat
  <2>1. q \in Lcores
    BY <1>1, <1>7, <1>8, LocalTypes, PollsHead, Zenon
  <2> QED  BY <1>7, <2>1, LocalTypes, Zenon DEF TimerType
<1>10. ListOK(q, list, st, op, expire)
  BY <1>9, Zenon DEF TimerInv, PendListsOK
<1>11. BreakOK(f, s, list[q], expire, m[l].cur)
  BY <1>2, <1>3, <1>9, <1>10, BreakFacts, Zenon DEF ListOK
<1>12. NewOK(run, m[l].run)
  BY <1>4, <1>9, NewFacts, Zenon
<1>13. /\ r \in Manages /\ r.polls = m[l].polls /\ r.cur = m[l].cur /\ r.cut = f /\ r.run = run
       /\ r.tim = m[l].tim
  BY <1>5, <1>7, <1>11, <1>12, Zenon DEF Manages, BreakOK, NewOK
<1>14. /\ mpc' \in [Lcores -> Labels] /\ m' \in [Lcores -> Manages] /\ mpc'[l] = "cut" /\ m'[l] = r
       /\ \A k \in Lcores : k # l => m'[k] = m[k] /\ mpc'[k] = mpc[k]
  <2>1. "cut" \in Labels /\ Moves(l, "cut", r)
    BY <1>6, Zenon DEF Labels, Moves
  <2> QED  BY <1>7, <1>13, <2>1, MovesTo, Zenon
<1>15. /\ lock' \in [Lcores -> Lcores \union {NoOwner}] /\ lock'[q] = l /\ \A k \in Lcores : k # q => lock'[k] = lock[k]
  BY <1>6, <1>7, <1>9, Zenon DEF TimerType
<1>16. list' \in [Lcores -> Seq(Timers)] /\ list'[q] = s /\ \A k \in Lcores : k # q => list'[k] = list[k]
  BY <1>6, <1>7, <1>9, <1>11, Zenon DEF TimerType, BreakOK
<1>17. TimerType'
  BY <1>6, <1>7, <1>14, <1>15, <1>16, Zenon DEF TimerType
<1>18. OpsOK'
  BY <1>6, OpsKept, Zenon
<1>19. \A k \in Lcores : lock[k] # l
  BY <1>6, Zenon DEF TimerInv, LocksOK, Holds
<1>20. LocksOK'
  <2>1. \A k \in Lcores : Holds(l, mpc'[l], m'[l], k) <=> lock'[k] = l
    BY <1>1, <1>13, <1>14, <1>15, <1>19, Zenon DEF Holds
  <2>2. \A k \in Lcores : lock'[k] = lock[k] \/ (lock[k] \in {NoOwner, l} /\ lock'[k] \in {NoOwner, l})
    BY <1>6, <1>15, Zenon
  <2> QED  BY <1>14, <2>1, <2>2, OtherLocks, Zenon
<1>21. \A x \in Timers : \A k \in Lcores : In(list'[k], x) => In(list[k], x)
  BY <1>11, <1>16, Zenon DEF BreakOK
<1>22. \A x \in Timers : Unmoved(x)
  BY <1>6, <1>21, SameWaits, Zenon DEF Unmoved
<1>23. LcoreOK(l, "cut", r, updated'[l], running'[l], list', st', op', expire', period', runs', now')
  <2>1. LocalOK("cut", r, op'[l], running'[l])
    BY <1>6, <1>7, <1>8, <1>12, <1>13, Zenon DEF LocalOK, NewOK
  <2>2. ASSUME NEW x \in Timers, In(r.cut, x)
        PROVE  Waits(st, op, x, q) /\ ~ In(list'[q], x) /\ expire[x] <= now
    <3>1. In(list[q], x) /\ ~ In(s, x) /\ expire[x] <= m[l].cur
      BY <1>11, <1>13, <2>2, Zenon DEF BreakOK
    <3>2. Waits(st, op, x, q) /\ ~ In(list'[q], x)
      BY <1>10, <1>16, <3>1, Zenon DEF ListOK
    <3>3. expire[x] \in Nat
      BY <1>9, Zenon
    <3>4. expire[x] <= now
      BY <1>7, <1>9, <3>1, <3>3, SMT
    <3> QED  BY <3>2, <3>4, Zenon
  <2>3. CutOK(r, list', st', op', expire', now')
    BY <1>1, <1>6, <1>11, <1>13, <2>2, Zenon DEF CutOK, BreakOK
  <2>4. RunsOK(l, r, st', expire', period', runs', now')
    BY <1>6, <1>7, <1>12, <1>13, Zenon DEF RunsOK, NewOK
  <2>5. OneOK(l, "cut", r, updated'[l], list', st', op', expire', period', now')
    BY Zenon DEF OneOK
  <2>6. r.cur <= now'
    BY <1>6, <1>7, <1>13, Zenon
  <2> QED  BY <2>1, <2>3, <2>4, <2>5, <2>6, Zenon DEF LcoreOK
<1>24. LcoresOK'
  BY <1>6, <1>14, <1>17, <1>22, <1>23, OtherLcores, Zenon
<1>25. PendListsOK'
  <2> SUFFICES ASSUME NEW k \in Lcores PROVE ListOK(k, list', st', op', expire')
    BY Zenon DEF PendListsOK
  <2>1. ListOK(k, list, st, op, expire)
    BY Zenon DEF TimerInv, PendListsOK
  <2>2. CASE k = q
    BY <1>6, <1>11, <1>16, <2>1, <2>2, Zenon DEF ListOK, BreakOK
  <2>3. CASE k # q
    BY <1>6, <1>16, <2>1, <2>3, Zenon DEF ListOK
  <2> QED  BY <2>2, <2>3, Zenon
<1>26. HeadersOK'
  <2> SUFFICES ASSUME NEW k \in Lcores PROVE HeaderOK(k, list', lock', mpc', hexp', expire')
    BY Zenon DEF HeadersOK
  <2>1. HeaderOK(k, list, lock, mpc, hexp, expire) /\ lock[k] \in Lcores \union {NoOwner}
    BY <1>7, Zenon DEF TimerInv, HeadersOK, TimerType
  <2>2. CASE k = q
    <3>1. lock'[k] = l /\ mpc'[l] = "cut" /\ l # NoOwner
      BY <1>14, <1>15, <2>2, TimerParameters, Zenon
    <3> QED  BY <3>1, Zenon DEF HeaderOK
  <2>3. CASE k # q
    <3>1. list'[k] = list[k] /\ lock'[k] = lock[k] /\ lock[k] # l
      BY <1>15, <1>16, <1>19, <2>3, Zenon
    <3> QED  BY <1>6, <1>14, <2>1, <3>1, Zenon DEF HeaderOK
  <2> QED  BY <2>2, <2>3, Zenon
<1>27. PendingsOK'
  <2>1. ASSUME NEW x \in Timers, NEW k \in Lcores, Placed(list, lock, mpc, m, x, k)
        PROVE  Placed(list', lock', mpc', m', x, k)
    <3>1. CASE k = q
      <4>1. In(list[q], x)
        BY <1>6, <2>1, <3>1, Zenon DEF Placed
      <4>2. In(s, x) \/ In(f, x)
        BY <1>11, <4>1, Zenon DEF BreakOK
      <4>3. lock'[q] = l /\ l # NoOwner /\ m'[l].cut = f /\ list'[q] = s
        BY <1>13, <1>14, <1>15, <1>16, TimerParameters, Zenon
      <4> QED  BY <3>1, <4>2, <4>3, Zenon DEF Placed
    <3>2. CASE k # q
      <4>1. lock[k] \in Lcores \union {NoOwner} /\ lock'[k] = lock[k] /\ lock[k] # l /\ list'[k] = list[k]
        BY <1>7, <1>15, <1>16, <1>19, <3>2, Zenon DEF TimerType
      <4> QED  BY <1>14, <2>1, <4>1, Zenon DEF Placed
    <3> QED  BY <3>1, <3>2, Zenon
  <2>2. \A x \in Timers : StaysPut(x)
    BY <1>6, <2>1, Zenon DEF StaysPut
  <2> QED  BY <2>2, PendingsKept, Zenon
<1> QED  BY <1>17, <1>18, <1>20, <1>24, <1>25, <1>26, <1>27, Zenon DEF TimerInv

LEMMA CutDoneInv ==
  ASSUME TimerInv, NEW l \in Lcores, CutDone(l)
  PROVE  TimerInv'
<1>1. PICK q : q = Head(m[l].polls)
  BY Zenon
<1>2. PICK r : r = [m[l] EXCEPT !.polls = Tail(m[l].polls), !.cur = 0]
  BY Zenon
<1>3. /\ mpc[l] = "cut" /\ m[l].cut = <<>> /\ hexp' = [hexp EXCEPT ![q] = FirstExpire(list[q], expire)]
      /\ lock' = [lock EXCEPT ![q] = NoOwner]
      /\ mpc' = [mpc EXCEPT ![l] = "scan"] /\ m' = [m EXCEPT ![l] = r]
      /\ now' = now /\ st' = st /\ expire' = expire /\ period' = period /\ runs' = runs
      /\ list' = list /\ updated' = updated /\ running' = running /\ op' = op /\ calls' = calls
  BY <1>1, <1>2, Zenon DEF CutDone, MGoto, MBecomes, timvars, corevars
<1>4. /\ LocalOK(mpc[l], m[l], op[l], running[l]) /\ RunsOK(l, m[l], st, expire, period, runs, now)
      /\ CutOK(m[l], list, st, op, expire, now) /\ TimerType /\ m[l] \in Manages /\ op[l] = NoOp /\ 0 <= now
  BY <1>3, LcoreIs, Zenon
<1>5. m[l].polls # <<>> /\ m[l].tim = NoTimer
  BY <1>3, <1>4, Zenon DEF LocalOK
<1>6. q \in Lcores /\ Tail(m[l].polls) \in Seq(Lcores) /\ 0 \in Nat
  <2>1. 0 \in Nat
    BY SMT
  <2> QED  BY <1>1, <1>4, <1>5, <2>1, LocalTypes, PollsHead, Zenon
<1>7. r \in Manages /\ r.cur = 0 /\ r.cut = <<>> /\ r.run = m[l].run /\ r.tim = NoTimer
  BY <1>2, <1>3, <1>4, <1>5, <1>6, Zenon DEF Manages
<1>8. /\ mpc' \in [Lcores -> Labels] /\ m' \in [Lcores -> Manages] /\ mpc'[l] = "scan" /\ m'[l] = r
      /\ \A k \in Lcores : k # l => m'[k] = m[k] /\ mpc'[k] = mpc[k]
  <2>1. "scan" \in Labels /\ Moves(l, "scan", r)
    BY <1>3, Zenon DEF Labels, Moves
  <2> QED  BY <1>4, <1>7, <2>1, MovesTo, Zenon
<1>9. /\ lock' \in [Lcores -> Lcores \union {NoOwner}] /\ lock'[q] = NoOwner
      /\ \A k \in Lcores : k # q => lock'[k] = lock[k]
  BY <1>3, <1>4, <1>6, Zenon DEF TimerType
<1>10. /\ hexp' \in [Lcores -> Nat] /\ hexp'[q] = FirstExpire(list[q], expire)
       /\ \A k \in Lcores : k # q => hexp'[k] = hexp[k]
  <2>1. list[q] \in Seq(Timers) /\ expire \in [Timers -> Nat]
    BY <1>4, <1>6, Zenon DEF TimerType
  <2>2. list[q] # <<>> => Head(list[q]) \in Timers
    BY <2>1, SMT
  <2>3. FirstExpire(list[q], expire) \in Nat
    BY <1>6, <2>1, <2>2, Zenon DEF FirstExpire
  <2> QED  BY <1>3, <1>4, <1>6, <2>3, Zenon DEF TimerType
<1>11. TimerType'
  BY <1>3, <1>4, <1>8, <1>9, <1>10, Zenon DEF TimerType
<1>12. OpsOK'
  BY <1>3, OpsKept, Zenon
<1>13. \A k \in Lcores : lock[k] = l <=> k = q
  BY <1>1, <1>3, <1>6, Zenon DEF TimerInv, LocksOK, Holds
<1>14. l # NoOwner
  BY TimerParameters, Zenon
<1>15. LocksOK'
  <2>1. \A k \in Lcores : Holds(l, mpc'[l], m'[l], k) <=> lock'[k] = l
    BY <1>8, <1>9, <1>13, <1>14, Zenon DEF Holds
  <2>2. \A k \in Lcores : lock'[k] = lock[k] \/ (lock[k] \in {NoOwner, l} /\ lock'[k] \in {NoOwner, l})
    BY <1>6, <1>9, <1>13, Zenon
  <2> QED  BY <1>8, <2>1, <2>2, OtherLocks, Zenon
<1>16. \A x \in Timers : Unmoved(x)
  BY <1>3, SameWaits, Zenon DEF Unmoved
<1>17. LcoreOK(l, "scan", r, updated'[l], running'[l], list', st', op', expire', period', runs', now')
  <2>1. LocalOK("scan", r, op'[l], running'[l])
    BY <1>3, <1>4, <1>7, Zenon DEF LocalOK
  <2>2. CutOK(r, list', st', op', expire', now')
    BY <1>3, <1>4, <1>7, InEmpty, Zenon DEF CutOK
  <2>3. RunsOK(l, r, st', expire', period', runs', now')
    BY <1>3, <1>4, <1>7, Zenon DEF RunsOK
  <2>4. OneOK(l, "scan", r, updated'[l], list', st', op', expire', period', now')
    BY Zenon DEF OneOK
  <2>5. r.cur <= now'
    BY <1>3, <1>4, <1>7, Zenon
  <2> QED  BY <2>1, <2>2, <2>3, <2>4, <2>5, Zenon DEF LcoreOK
<1>18. LcoresOK'
  BY <1>3, <1>8, <1>11, <1>16, <1>17, OtherLcores, Zenon
<1>19. PendListsOK'
  BY <1>3, ListsKept, Zenon
<1>20. HeadersOK'
  <2> SUFFICES ASSUME NEW k \in Lcores PROVE HeaderOK(k, list', lock', mpc', hexp', expire')
    BY Zenon DEF HeadersOK
  <2>1. HeaderOK(k, list, lock, mpc, hexp, expire) /\ lock[k] \in Lcores \union {NoOwner}
    BY <1>4, Zenon DEF TimerInv, HeadersOK, TimerType
  <2>2. CASE k = q
    BY <1>3, <1>10, <2>2, Zenon DEF HeaderOK
  <2>3. CASE k # q
    <3>1. hexp'[k] = hexp[k] /\ lock'[k] = lock[k] /\ lock[k] # l
      BY <1>9, <1>10, <1>13, <2>3, Zenon
    <3> QED  BY <1>3, <1>8, <2>1, <3>1, Zenon DEF HeaderOK
  <2> QED  BY <2>2, <2>3, Zenon
<1>21. PendingsOK'
  <2>1. ASSUME NEW x \in Timers, NEW k \in Lcores, Placed(list, lock, mpc, m, x, k)
        PROVE  Placed(list', lock', mpc', m', x, k)
    <3>1. CASE k = q
      <4>1. lock[q] = l /\ ~ In(m[l].cut, x) /\ mpc[l] # "again"
        BY <1>3, <1>6, <1>13, InEmpty, Zenon
      <4> QED  BY <1>3, <2>1, <3>1, <4>1, Zenon DEF Placed
    <3>2. CASE k # q
      <4>1. lock[k] \in Lcores \union {NoOwner} /\ lock'[k] = lock[k] /\ lock[k] # l /\ list'[k] = list[k]
        BY <1>3, <1>4, <1>9, <1>13, <3>2, Zenon DEF TimerType
      <4> QED  BY <1>8, <2>1, <4>1, Zenon DEF Placed
    <3> QED  BY <3>1, <3>2, Zenon
  <2>2. \A x \in Timers : StaysPut(x)
    BY <1>3, <2>1, Zenon DEF StaysPut
  <2> QED  BY <2>2, PendingsKept, Zenon
<1> QED  BY <1>11, <1>12, <1>15, <1>18, <1>19, <1>20, <1>21, Zenon DEF TimerInv


\* The first timer of the expired list: it waits on the list whose lock l has,
\* and is in no list.
LEMMA CutHead ==
  ASSUME TimerInv, NEW l \in Lcores, mpc[l] = "cut", m[l].cut # <<>>
  PROVE  /\ Head(m[l].cut) \in Timers /\ In(m[l].cut, Head(m[l].cut))
         /\ TailOK(Tail(m[l].cut), m[l].cut, Head(m[l].cut))
         /\ Ref(mpc[l], m[l], updated[l], Head(m[l].cut))
         /\ \A k \in Lcores : ~ In(list[k], Head(m[l].cut))
<1>1. m[l].cut \in Seq(Timers)
  BY LcoreIs, LocalTypes, Zenon
<1>2. PICK t : t = Head(m[l].cut)
  BY Zenon
<1>3. TailOK(Tail(m[l].cut), m[l].cut, t)
  BY <1>1, <1>2, TailFacts, Zenon
<1>4. t \in Timers /\ In(m[l].cut, t)
  BY <1>3, Zenon DEF TailOK
<1>5. Ref(mpc[l], m[l], updated[l], t)
  BY <1>4, Zenon DEF Ref
<1>6. \A k \in Lcores : ~ In(list[k], t)
  BY <1>4, <1>5, ListedFree, Zenon
<1> QED  BY <1>2, <1>3, <1>4, <1>5, <1>6, Zenon

\* The manager takes the first timer off its expired list.
LEMMA CutStep ==
  ASSUME TimerInv, TimerType', NEW l \in Lcores, mpc[l] = "cut", m[l].cut # <<>>,
         op' = op, now' = now, list' = list, lock' = lock, hexp' = hexp, expire' = expire,
         period' = period, runs' = runs, updated' = updated, running' = running, mpc' = mpc,
         \A k \in Lcores : k # l => m'[k] = m[k],
         m'[l].polls = m[l].polls, m'[l].cur = m[l].cur, m'[l].tim = m[l].tim,
         m'[l].cut = Tail(m[l].cut), m'[l].run # <<>>,
         \A x \in Timers : x # Head(m[l].cut) => st'[x] = st[x],
         st'[Head(m[l].cut)] = st[Head(m[l].cut)] \/ st[Head(m[l].cut)].state = "PENDING",
         st'[Head(m[l].cut)].state # "PENDING",
         RunsOK(l, m'[l], st', expire', period', runs', now')
  PROVE  TimerInv'
<1>1. PICK t : t = Head(m[l].cut)
  BY Zenon
<1>2. /\ LocalOK(mpc[l], m[l], op[l], running[l]) /\ m[l].cur <= now
      /\ CutOK(m[l], list, st, op, expire, now) /\ TimerType
  BY LcoreIs, Zenon
<1>3. /\ t \in Timers /\ In(m[l].cut, t) /\ TailOK(Tail(m[l].cut), m[l].cut, t)
      /\ Ref(mpc[l], m[l], updated[l], t)
      /\ \A k \in Lcores : ~ In(list[k], t)
  BY <1>1, CutHead, Zenon
<1>4. /\ \A x \in Timers : In(m[l].cut, x) <=> In(m'[l].cut, x) \/ x = t
      /\ Distinct(m'[l].cut) /\ ~ In(m'[l].cut, t)
  BY <1>2, <1>3, Zenon DEF TailOK, CutOK
<1>5. \A x \in Timers : x # t => st'[x] = st[x]
  BY <1>1, Zenon
<1>6. OpsOK'
  <2>1. st'[t] = st[t] \/ \A y \in Threads : Is(st[t], "CONFIG", y) => op[y].step \notin {"del", "set"}
    BY <1>1, Zenon DEF Is
  <2> QED  BY <1>5, <2>1, OpsKept, Zenon
<1>7. LocksOK'
  <2>1. \A k, q \in Lcores : Holds(k, mpc[k], m[k], q) <=> lock[q] = k
    BY Zenon DEF TimerInv, LocksOK
  <2>2. \A k \in Lcores : m'[k].polls = m[k].polls
    BY Zenon
  <2>3. \A k, q \in Lcores : Holds(k, mpc'[k], m'[k], q) <=> Holds(k, mpc[k], m[k], q)
    BY <2>2, Zenon DEF Holds
  <2> QED  BY <2>1, <2>3, Zenon DEF LocksOK
<1>8. \A x \in Timers : Unmoved(x) \/ x = t
  BY <1>5, SameWaits, Zenon DEF Unmoved
<1>9. LcoreOK(l, mpc'[l], m'[l], updated'[l], running'[l], list', st', op', expire', period', runs', now')
  <2>1. LocalOK(mpc'[l], m'[l], op'[l], running'[l])
    BY <1>2, Zenon DEF LocalOK
  <2>2. CutOK(m'[l], list', st', op', expire', now')
    BY <1>2, <1>4, <1>5, SameWaits, Zenon DEF CutOK
  <2>3. OneOK(l, mpc'[l], m'[l], updated'[l], list', st', op', expire', period', now')
    BY Zenon DEF OneOK
  <2>4. m'[l].cur <= now'
    BY <1>2, Zenon
  <2> QED  BY <2>1, <2>2, <2>3, <2>4, Zenon DEF LcoreOK
<1>10. LcoresOK'
  BY <1>3, <1>8, <1>9, OtherLcores, Zenon
<1>11. PendListsOK'
  BY <1>3, <1>5, ListsKept, Zenon
<1>12. HeadersOK'
  BY Zenon DEF TimerInv, HeadersOK
<1>13. PendingsOK'
  <2>1. ASSUME NEW x \in Timers, x # t, NEW k \in Lcores, Placed(list, lock, mpc, m, x, k)
        PROVE  Placed(list', lock', mpc', m', x, k)
    <3>1. lock[k] \in Lcores \union {NoOwner} /\ lock'[k] = lock[k] /\ list'[k] = list[k]
      BY <1>2, Zenon DEF TimerType
    <3>2. CASE lock[k] = l
      BY <1>4, <2>1, <3>1, <3>2, Zenon DEF Placed
    <3>3. CASE lock[k] # l
      BY <2>1, <3>1, <3>3, Zenon DEF Placed
    <3> QED  BY <3>2, <3>3, Zenon
  <2>2. \A x \in Timers : x # t => StaysPut(x)
    BY <1>5, <2>1, Zenon DEF StaysPut
  <2>3. PendingOK(t, st', list', lock', mpc', m', period', runs')
    <3>1. PendingOK(t, st, list, lock, mpc, m, period, runs)
      BY <1>3, Zenon DEF TimerInv, PendingsOK
    <3> QED  BY <1>1, <3>1, Zenon DEF PendingOK
  <2> QED  BY <2>2, <2>3, PendingsKept, Zenon
<1> QED  BY <1>6, <1>7, <1>10, <1>11, <1>12, <1>13, Zenon DEF TimerInv

LEMMA SkipConfiguredInv ==
  ASSUME TimerInv, NEW l \in Lcores, SkipConfigured(l)
  PROVE  TimerInv'
<1>1. PICK r : r = [m[l] EXCEPT !.cut = Tail(m[l].cut)]
  BY Zenon
<1>2. /\ mpc[l] = "cut" /\ m[l].cut # <<>> /\ st[Head(m[l].cut)].state # "PENDING"
      /\ m' = [m EXCEPT ![l] = r]
      /\ now' = now /\ st' = st /\ expire' = expire /\ period' = period /\ runs' = runs
      /\ list' = list /\ hexp' = hexp /\ lock' = lock /\ updated' = updated /\ running' = running
      /\ mpc' = mpc /\ op' = op /\ calls' = calls
  BY <1>1, Zenon DEF SkipConfigured, MBecomes, timvars, listvars, corevars
<1>3. /\ RunsOK(l, m[l], st, expire, period, runs, now) /\ TimerType /\ m[l] \in Manages
      /\ LocalOK(mpc[l], m[l], op[l], running[l])
  BY LcoreIs, Zenon
<1>4. Tail(m[l].cut) \in Seq(Timers) /\ m[l].run # <<>>
  BY <1>2, <1>3, CutHead, Zenon DEF TailOK, LocalOK
<1>5. /\ r \in Manages /\ r.polls = m[l].polls /\ r.cur = m[l].cur /\ r.tim = m[l].tim /\ r.run = m[l].run
      /\ r.cut = Tail(m[l].cut)
  BY <1>1, <1>3, <1>4, Zenon DEF Manages
<1>6. m' \in [Lcores -> Manages] /\ m'[l] = r /\ \A k \in Lcores : k # l => m'[k] = m[k]
  BY <1>2, <1>3, <1>5, Zenon DEF TimerType
<1>7. TimerType'
  BY <1>2, <1>3, <1>6, Zenon DEF TimerType
<1>8. RunsOK(l, m'[l], st', expire', period', runs', now')
  BY <1>2, <1>3, <1>5, <1>6, Zenon DEF RunsOK
<1>9. /\ m'[l].polls = m[l].polls /\ m'[l].cur = m[l].cur /\ m'[l].tim = m[l].tim
      /\ m'[l].cut = Tail(m[l].cut) /\ m'[l].run # <<>>
  BY <1>4, <1>5, <1>6, Zenon
<1> QED  BY <1>2, <1>6, <1>7, <1>8, <1>9, CutStep, Zenon

LEMMA SetRunningInv ==
  ASSUME TimerInv, NEW l \in Lcores, SetRunning(l)
  PROVE  TimerInv'
<1>1. PICK t : t = Head(m[l].cut)
  BY Zenon
<1>2. PICK n : n = Len(m[l].run)
  BY Zenon
<1>3. PICK run : run = [m[l].run EXCEPT ![n] = Append(m[l].run[n], t)]
  BY Zenon
<1>4. PICK r : r = [m[l] EXCEPT !.cut = Tail(m[l].cut), !.run = run]
  BY Zenon
<1>5. /\ mpc[l] = "cut" /\ m[l].cut # <<>> /\ st[t].state = "PENDING"
      /\ st' = [st EXCEPT ![t] = Status("RUNNING", l)] /\ m' = [m EXCEPT ![l] = r]
      /\ now' = now /\ expire' = expire /\ period' = period /\ runs' = runs
      /\ list' = list /\ hexp' = hexp /\ lock' = lock /\ updated' = updated /\ running' = running
      /\ mpc' = mpc /\ op' = op /\ calls' = calls
  BY <1>1, <1>2, <1>3, <1>4, Zenon DEF SetRunning, MBecomes, timvars, listvars, corevars
<1>6. /\ RunsOK(l, m[l], st, expire, period, runs, now) /\ TimerType /\ m[l] \in Manages
      /\ CutOK(m[l], list, st, op, expire, now) /\ LocalOK(mpc[l], m[l], op[l], running[l])
  BY LcoreIs, Zenon
<1>7. t \in Timers /\ In(m[l].cut, t) /\ TailOK(Tail(m[l].cut), m[l].cut, t)
  BY <1>1, <1>5, CutHead, Zenon
<1>8. expire[t] <= now /\ ~ InRuns(m[l].run, t)
  BY <1>5, <1>6, <1>7, Zenon DEF CutOK, RunsOK, Is
<1>9. m[l].run \in Seq(Seq(Timers)) /\ m[l].run # <<>> /\ n \in DOMAIN m[l].run
  <2>1. m[l].run \in Seq(Seq(Timers)) /\ m[l].run # <<>>
    BY <1>5, <1>6, LocalTypes, Zenon DEF LocalOK
  <2> QED  BY <1>2, <2>1, SMT
<1>10. MoreOK(run, m[l].run, t)
  BY <1>3, <1>7, <1>9, MoreFacts, Zenon
<1>11. /\ run \in Seq(Seq(Timers)) /\ run # <<>> /\ Once(run)
       /\ \A x \in Timers : InRuns(run, x) <=> InRuns(m[l].run, x) \/ x = t
  BY <1>6, <1>8, <1>10, Zenon DEF MoreOK, RunsOK
<1>12. Tail(m[l].cut) \in Seq(Timers)
  BY <1>7, Zenon DEF TailOK
<1>13. /\ r \in Manages /\ r.polls = m[l].polls /\ r.cur = m[l].cur /\ r.tim = m[l].tim /\ r.run = run
       /\ r.cut = Tail(m[l].cut)
  BY <1>4, <1>6, <1>11, <1>12, Zenon DEF Manages
<1>14. m' \in [Lcores -> Manages] /\ m'[l] = r /\ \A k \in Lcores : k # l => m'[k] = m[k]
  BY <1>5, <1>6, <1>13, Zenon DEF TimerType
<1>15. /\ st' \in [Timers -> [state : States, owner : Threads \union {NoOwner}]]
       /\ Is(st'[t], "RUNNING", l) /\ \A x \in Timers : x # t => st'[x] = st[x]
  <2>1. Status("RUNNING", l) \in [state : States, owner : Threads \union {NoOwner}]
    BY Zenon DEF Status, States, Threads
  <2> QED  BY <1>5, <1>6, <1>7, <2>1, StatusIs, Zenon DEF TimerType
<1>16. TimerType'
  BY <1>5, <1>6, <1>14, <1>15, Zenon DEF TimerType
<1>17. period[t] = 0 => runs[t] = 0
  BY <1>5, <1>7, Zenon DEF TimerInv, PendingsOK, PendingOK
<1>18. RunsOK(l, m'[l], st', expire', period', runs', now')
  <2>1. ASSUME NEW x \in Timers, InRuns(run, x)
        PROVE  Is(st'[x], "RUNNING", l) /\ expire[x] <= now /\ (period[x] = 0 => runs[x] = 0)
    <3>1. CASE x = t
      BY <1>8, <1>15, <1>17, <3>1, Zenon
    <3>2. CASE x # t
      BY <1>6, <1>11, <1>15, <2>1, <3>2, Zenon DEF RunsOK
    <3> QED  BY <3>1, <3>2, Zenon
  <2> QED  BY <1>5, <1>11, <1>13, <1>14, <2>1, Zenon DEF RunsOK
<1>19. /\ m'[l].polls = m[l].polls /\ m'[l].cur = m[l].cur /\ m'[l].tim = m[l].tim
       /\ m'[l].cut = Tail(m[l].cut) /\ m'[l].run # <<>>
  BY <1>11, <1>13, <1>14, Zenon
<1>20. st'[t].state # "PENDING"
  BY <1>15, Zenon DEF Is
<1> QED  BY <1>1, <1>5, <1>14, <1>15, <1>16, <1>18, <1>19, <1>20, CutStep, ZenonT(60)


\* The manager had forgotten, or now forgets, what it was running.
LEMMA ForgetIs ==
  ASSUME TimerType, NEW l \in Lcores, Forget(l)
  PROVE  /\ running' \in [Lcores -> Timers \union {NoTimer}]
         /\ \A k \in Lcores : k # l => running'[k] = running[k]
BY Zenon DEF TimerType, Forget

LEMMA PickInv ==
  ASSUME TimerInv, NEW l \in Lcores, Pick(l)
  PROVE  TimerInv'
<1>1. PICK i : i = Oldest(m[l].run)
  BY Zenon
<1>2. PICK t : t = Head(m[l].run[i])
  BY Zenon
<1>3. PICK run : run = [m[l].run EXCEPT ![i] = Tail(m[l].run[i])]
  BY Zenon
<1>4. PICK r : r = [m[l] EXCEPT !.run = run, !.tim = t]
  BY Zenon
<1>5. /\ mpc[l] = "scan" /\ m[l].polls = <<>> /\ Left(m[l].run) # {}
      /\ m' = [m EXCEPT ![l] = r] /\ updated' = [updated EXCEPT ![l] = FALSE]
      /\ running' = [running EXCEPT ![l] = t] /\ runs' = [runs EXCEPT ![t] = runs[t] + 1]
      /\ mpc' = [mpc EXCEPT ![l] = "cb"]
      /\ now' = now /\ st' = st /\ expire' = expire /\ period' = period
      /\ list' = list /\ hexp' = hexp /\ lock' = lock /\ op' = op /\ calls' = calls
  BY <1>1, <1>2, <1>3, <1>4, Zenon DEF Pick, Ran, MBecomes, MGoto, listvars
<1>6. /\ RunsOK(l, m[l], st, expire, period, runs, now) /\ TimerType /\ m[l] \in Manages /\ m[l].cur <= now
      /\ LocalOK(mpc[l], m[l], op[l], running[l]) /\ op[l] = NoOp
  BY <1>5, LcoreIs, Zenon
<1>7. m[l].run \in Seq(Seq(Timers)) /\ expire \in [Timers -> Nat]
  BY <1>6, LocalTypes, Zenon DEF TimerType
<1>8. i \in DOMAIN m[l].run /\ m[l].run[i] # <<>>
  BY <1>1, <1>5, <1>7, OldestIs, Zenon
<1>9. LessOK(run, m[l].run, t)
  BY <1>2, <1>3, <1>7, <1>8, LessFacts, Zenon
<1>10. /\ t \in Timers /\ InRuns(m[l].run, t) /\ run \in Seq(Seq(Timers)) /\ Once(run) /\ ~ InRuns(run, t)
       /\ \A x \in Timers : InRuns(run, x) => InRuns(m[l].run, x)
  BY <1>6, <1>9, Zenon DEF LessOK, RunsOK
<1>11. Is(st[t], "RUNNING", l) /\ expire[t] <= now /\ (period[t] = 0 => runs[t] = 0)
  BY <1>6, <1>10, Zenon DEF RunsOK
<1>12. /\ r \in Manages /\ r.polls = m[l].polls /\ r.cur = m[l].cur /\ r.cut = m[l].cut /\ r.run = run /\ r.tim = t
  BY <1>4, <1>6, <1>10, Zenon DEF Manages
<1>13. r.cut = <<>>
  BY <1>5, <1>6, <1>12, Zenon DEF LocalOK
<1>14. /\ mpc' \in [Lcores -> Labels] /\ m' \in [Lcores -> Manages] /\ mpc'[l] = "cb" /\ m'[l] = r
       /\ \A k \in Lcores : k # l => m'[k] = m[k] /\ mpc'[k] = mpc[k]
  <2>1. "cb" \in Labels /\ Moves(l, "cb", r)
    BY <1>5, Zenon DEF Labels, Moves
  <2> QED  BY <1>6, <1>12, <2>1, MovesTo, Zenon
<1>15. /\ updated' \in [Lcores -> BOOLEAN] /\ updated'[l] = FALSE
       /\ running' \in [Lcores -> Timers \union {NoTimer}] /\ running'[l] = t
       /\ \A k \in Lcores : k # l => running'[k] = running[k] /\ updated'[k] = updated[k]
  BY <1>5, <1>6, <1>10, Zenon DEF TimerType
<1>16. /\ runs' \in [Timers -> Nat] /\ \A x \in Timers : x # t => runs'[x] = runs[x]
       /\ period[t] = 0 => runs'[t] <= 1
  <2>1. runs \in [Timers -> Nat] /\ runs[t] \in Nat
    BY <1>6, <1>10, Zenon DEF TimerType
  <2>2. runs[t] + 1 \in Nat /\ (runs[t] = 0 => runs[t] + 1 <= 1)
    BY <2>1, SMT
  <2> QED  BY <1>5, <1>10, <1>11, <2>1, <2>2, Zenon
<1>17. TimerType'
  BY <1>5, <1>6, <1>14, <1>15, <1>16, Zenon DEF TimerType
<1>18. OpsOK'
  BY <1>5, OpsKept, Zenon
<1>19. \A k \in Lcores : lock[k] # l
  BY <1>5, Zenon DEF TimerInv, LocksOK, Holds
<1>20. LocksOK'
  <2>1. \A k \in Lcores : Holds(l, mpc'[l], m'[l], k) <=> lock'[k] = l
    BY <1>5, <1>14, <1>19, Zenon DEF Holds
  <2> QED  BY <1>5, <1>14, <2>1, OtherLocks, Zenon
<1>21. \A x \in Timers : Unmoved(x) \/ Ref(mpc[l], m[l], updated[l], x)
  <2>1. Ref(mpc[l], m[l], updated[l], t)
    BY <1>10, Zenon DEF Ref
  <2> QED  BY <1>5, <1>16, <2>1, SameWaits, Zenon DEF Unmoved
<1>22. LcoreOK(l, "cb", r, FALSE, t, list', st', op', expire', period', runs', now')
  <2>1. LocalOK("cb", r, op'[l], t)
    BY <1>5, <1>6, <1>10, <1>12, <1>13, Zenon DEF LocalOK
  <2>2. CutOK(r, list', st', op', expire', now')
    <3>1. Distinct(<<>>)
      BY SMT DEF Distinct
    <3> QED  BY <1>13, <3>1, InEmpty, Zenon DEF CutOK
  <2>3. RunsOK(l, r, st', expire', period', runs', now')
    BY <1>5, <1>6, <1>10, <1>12, <1>16, Zenon DEF RunsOK
  <2>4. OneOK(l, "cb", r, FALSE, list', st', op', expire', period', now')
    BY <1>5, <1>10, <1>11, <1>12, Zenon DEF OneOK
  <2>5. r.cur <= now'
    BY <1>5, <1>6, <1>12, Zenon
  <2> QED  BY <2>1, <2>2, <2>3, <2>4, <2>5, Zenon DEF LcoreOK
<1>23. LcoresOK'
  BY <1>5, <1>14, <1>15, <1>17, <1>21, <1>22, OtherLcores, Zenon
<1>24. PendListsOK'
  BY <1>5, ListsKept, Zenon
<1>25. HeadersOK'
  <2> SUFFICES ASSUME NEW k \in Lcores PROVE HeaderOK(k, list', lock', mpc', hexp', expire')
    BY Zenon DEF HeadersOK
  <2>1. HeaderOK(k, list, lock, mpc, hexp, expire) /\ lock[k] \in Lcores \union {NoOwner}
    BY <1>6, Zenon DEF TimerInv, HeadersOK, TimerType
  <2> QED  BY <1>5, <1>14, <1>19, <2>1, Zenon DEF HeaderOK
<1>26. PendingsOK'
  <2>1. ASSUME NEW x \in Timers, NEW k \in Lcores, Placed(list, lock, mpc, m, x, k)
        PROVE  Placed(list', lock', mpc', m', x, k)
    <3>1. lock[k] \in Lcores \union {NoOwner} /\ lock'[k] = lock[k] /\ lock[k] # l /\ list'[k] = list[k]
      BY <1>5, <1>6, <1>19, Zenon DEF TimerType
    <3> QED  BY <1>14, <2>1, <3>1, Zenon DEF Placed
  <2>2. \A x \in Timers : x # t => StaysPut(x)
    BY <1>5, <1>16, <2>1, Zenon DEF StaysPut
  <2>3. PendingOK(t, st', list', lock', mpc', m', period', runs')
    BY <1>5, <1>11, <1>16, Zenon DEF PendingOK, Is
  <2> QED  BY <2>2, <2>3, PendingsKept, Zenon
<1> QED  BY <1>17, <1>18, <1>20, <1>23, <1>24, <1>25, <1>26, Zenon DEF TimerInv

LEMMA CbStopInv ==
  ASSUME TimerInv, NEW l \in Lcores, CbStop(l)
  PROVE  TimerInv'
<1>1. PICK t : t = m[l].tim
  BY Zenon
<1>2. PICK r : r = [m[l] EXCEPT !.tim = NoTimer]
  BY Zenon
<1>3. /\ mpc[l] = "cb" /\ op[l] = NoOp /\ ~ updated[l] /\ Forget(l)
      /\ st' = [st EXCEPT ![t] = Stopped] /\ m' = [m EXCEPT ![l] = r] /\ mpc' = [mpc EXCEPT ![l] = "scan"]
      /\ now' = now /\ expire' = expire /\ period' = period /\ runs' = runs
      /\ list' = list /\ hexp' = hexp /\ lock' = lock /\ updated' = updated /\ op' = op /\ calls' = calls
  BY <1>1, <1>2, Zenon DEF CbStop, Returned, MBecomes, MGoto, listvars, timvars
<1>4. /\ RunsOK(l, m[l], st, expire, period, runs, now) /\ TimerType /\ m[l] \in Manages /\ m[l].cur <= now
      /\ LocalOK(mpc[l], m[l], op[l], running[l])
      /\ OneOK(l, mpc[l], m[l], updated[l], list, st, op, expire, period, now)
  BY LcoreIs, Zenon
<1>5. /\ t \in Timers /\ Is(st[t], "RUNNING", l) /\ ~ InRuns(m[l].run, t) /\ m[l].cut = <<>>
      /\ Ref(mpc[l], m[l], updated[l], t)
  BY <1>1, <1>3, <1>4, Zenon DEF LocalOK, OneOK, Ref
<1>6. \A k \in Lcores : ~ In(list[k], t)
  BY <1>5, ListedFree, Zenon
<1>7. /\ r \in Manages /\ r.polls = m[l].polls /\ r.cur = m[l].cur /\ r.cut = <<>> /\ r.run = m[l].run
      /\ r.tim = NoTimer
  BY <1>2, <1>4, <1>5, Zenon DEF Manages
<1>8. /\ mpc' \in [Lcores -> Labels] /\ m' \in [Lcores -> Manages] /\ mpc'[l] = "scan" /\ m'[l] = r
      /\ \A k \in Lcores : k # l => m'[k] = m[k] /\ mpc'[k] = mpc[k]
  <2>1. "scan" \in Labels /\ Moves(l, "scan", r)
    BY <1>3, Zenon DEF Labels, Moves
  <2> QED  BY <1>4, <1>7, <2>1, MovesTo, Zenon
<1>9. /\ running' \in [Lcores -> Timers \union {NoTimer}]
      /\ \A k \in Lcores : k # l => running'[k] = running[k]
  BY <1>3, <1>4, ForgetIs, Zenon
<1>10. /\ st' \in [Timers -> [state : States, owner : Threads \union {NoOwner}]]
       /\ Is(st'[t], "STOP", NoOwner) /\ \A x \in Timers : x # t => st'[x] = st[x]
  <2>1. Stopped \in [state : States, owner : Threads \union {NoOwner}]
    BY Zenon DEF Stopped, Status, States
  <2> QED  BY <1>3, <1>4, <1>5, <2>1, StatusIs, Zenon DEF TimerType
<1>11. TimerType'
  BY <1>3, <1>4, <1>8, <1>9, <1>10, Zenon DEF TimerType
<1>12. OpsOK'
  <2>1. \A y \in Threads : ~ Is(st[t], "CONFIG", y)
    BY <1>5, Zenon DEF Is
  <2> QED  BY <1>3, <1>10, <2>1, OpsKept, Zenon
<1>13. \A k \in Lcores : lock[k] # l
  BY <1>3, Zenon DEF TimerInv, LocksOK, Holds
<1>14. LocksOK'
  <2>1. \A k \in Lcores : Holds(l, mpc'[l], m'[l], k) <=> lock'[k] = l
    BY <1>3, <1>8, <1>13, Zenon DEF Holds
  <2> QED  BY <1>3, <1>8, <2>1, OtherLocks, Zenon
<1>15. \A x \in Timers : Unmoved(x) \/ Ref(mpc[l], m[l], updated[l], x)
  BY <1>3, <1>5, <1>10, SameWaits, Zenon DEF Unmoved
<1>16. LcoreOK(l, "scan", r, updated'[l], running'[l], list', st', op', expire', period', runs', now')
  <2>1. LocalOK("scan", r, op'[l], running'[l])
    BY <1>3, <1>7, Zenon DEF LocalOK
  <2>2. CutOK(r, list', st', op', expire', now')
    <3>1. Distinct(<<>>)
      BY SMT DEF Distinct
    <3> QED  BY <1>7, <3>1, InEmpty, Zenon DEF CutOK
  <2>3. RunsOK(l, r, st', expire', period', runs', now')
    <3>1. \A x \in Timers : InRuns(m[l].run, x) => x # t
      BY <1>5, Zenon
    <3> QED  BY <1>3, <1>4, <1>7, <1>10, <3>1, Zenon DEF RunsOK
  <2>4. OneOK(l, "scan", r, updated'[l], list', st', op', expire', period', now')
    BY Zenon DEF OneOK
  <2>5. r.cur <= now'
    BY <1>3, <1>4, <1>7, Zenon
  <2> QED  BY <2>1, <2>2, <2>3, <2>4, <2>5, Zenon DEF LcoreOK
<1>17. LcoresOK'
  BY <1>3, <1>8, <1>9, <1>11, <1>15, <1>16, OtherLcores, Zenon
<1>18. PendListsOK'
  BY <1>3, <1>6, <1>10, ListsKept, Zenon
<1>19. HeadersOK'
  <2> SUFFICES ASSUME NEW k \in Lcores PROVE HeaderOK(k, list', lock', mpc', hexp', expire')
    BY Zenon DEF HeadersOK
  <2>1. HeaderOK(k, list, lock, mpc, hexp, expire) /\ lock[k] \in Lcores \union {NoOwner}
    BY <1>4, Zenon DEF TimerInv, HeadersOK, TimerType
  <2> QED  BY <1>3, <1>8, <1>13, <2>1, Zenon DEF HeaderOK
<1>20. PendingsOK'
  <2>1. ASSUME NEW x \in Timers, NEW k \in Lcores, Placed(list, lock, mpc, m, x, k)
        PROVE  Placed(list', lock', mpc', m', x, k)
    <3>1. lock[k] \in Lcores \union {NoOwner} /\ lock'[k] = lock[k] /\ lock[k] # l /\ list'[k] = list[k]
      BY <1>3, <1>4, <1>13, Zenon DEF TimerType
    <3> QED  BY <1>8, <2>1, <3>1, Zenon DEF Placed
  <2>2. \A x \in Timers : x # t => StaysPut(x)
    BY <1>3, <1>10, <2>1, Zenon DEF StaysPut
  <2>3. PendingOK(t, st', list', lock', mpc', m', period', runs')
    <3>1. PendingOK(t, st, list, lock, mpc, m, period, runs)
      BY <1>5, Zenon DEF TimerInv, PendingsOK
    <3> QED  BY <1>3, <1>10, <3>1, Zenon DEF PendingOK, Is
  <2> QED  BY <2>2, <2>3, PendingsKept, Zenon
<1> QED  BY <1>11, <1>12, <1>14, <1>17, <1>18, <1>19, <1>20, Zenon DEF TimerInv


LEMMA CbAgainInv ==
  ASSUME TimerInv, NEW l \in Lcores, CbAgain(l)
  PROVE  TimerInv'
<1>1. PICK t : t = m[l].tim
  BY Zenon
<1>2. /\ mpc[l] = "cb" /\ op[l] = NoOp /\ ~ updated[l] /\ period[t] # 0 /\ lock[l] = NoOwner
      /\ st' = [st EXCEPT ![t] = Status("PENDING", l)] /\ mpc' = [mpc EXCEPT ![l] = "again"] /\ m' = m
      /\ lock' = [lock EXCEPT ![l] = l]
      /\ now' = now /\ expire' = expire /\ period' = period /\ runs' = runs
      /\ list' = list /\ hexp' = hexp /\ updated' = updated /\ running' = running /\ op' = op /\ calls' = calls
  BY <1>1, Zenon DEF CbAgain, Returned, MGoto, listvars, timvars, corevars
<1>3. /\ RunsOK(l, m[l], st, expire, period, runs, now) /\ TimerType /\ m[l] \in Manages /\ m[l].cur <= now
      /\ LocalOK(mpc[l], m[l], op[l], running[l])
      /\ OneOK(l, mpc[l], m[l], updated[l], list, st, op, expire, period, now)
  BY LcoreIs, Zenon
<1>4. /\ t \in Timers /\ Is(st[t], "RUNNING", l) /\ ~ InRuns(m[l].run, t) /\ m[l].cut = <<>>
      /\ Ref(mpc[l], m[l], updated[l], t)
  BY <1>1, <1>2, <1>3, Zenon DEF LocalOK, OneOK, Ref
<1>5. \A k \in Lcores : ~ In(list[k], t)
  BY <1>4, ListedFree, Zenon
<1>6. /\ mpc' \in [Lcores -> Labels] /\ mpc'[l] = "again" /\ \A k \in Lcores : k # l => mpc'[k] = mpc[k]
  <2>1. "again" \in Labels
    BY Zenon DEF Labels
  <2> QED  BY <1>2, <1>3, <2>1, Zenon DEF TimerType
<1>7. /\ lock' \in [Lcores -> Lcores \union {NoOwner}] /\ lock'[l] = l /\ \A k \in Lcores : k # l => lock'[k] = lock[k]
  BY <1>2, <1>3, Zenon DEF TimerType
<1>8. /\ st' \in [Timers -> [state : States, owner : Threads \union {NoOwner}]]
      /\ Is(st'[t], "PENDING", l) /\ \A x \in Timers : x # t => st'[x] = st[x]
  <2>1. Status("PENDING", l) \in [state : States, owner : Threads \union {NoOwner}]
    BY Zenon DEF Status, States, Threads
  <2> QED  BY <1>2, <1>3, <1>4, <2>1, StatusIs, Zenon DEF TimerType
<1>9. TimerType'
  BY <1>2, <1>3, <1>6, <1>7, <1>8, Zenon DEF TimerType
<1>10. OpsOK'
  <2>1. \A y \in Threads : ~ Is(st[t], "CONFIG", y)
    BY <1>4, Zenon DEF Is
  <2> QED  BY <1>2, <1>8, <2>1, OpsKept, Zenon
<1>11. \A k \in Lcores : lock[k] # l
  BY <1>2, Zenon DEF TimerInv, LocksOK, Holds
<1>12. LocksOK'
  <2>1. \A k \in Lcores : Holds(l, mpc'[l], m'[l], k) <=> lock'[k] = l
    BY <1>6, <1>7, <1>11, Zenon DEF Holds
  <2>2. \A k \in Lcores : lock'[k] = lock[k] \/ (lock[k] \in {NoOwner, l} /\ lock'[k] \in {NoOwner, l})
    BY <1>2, <1>7, Zenon
  <2> QED  BY <1>2, <1>6, <2>1, <2>2, OtherLocks, Zenon
<1>13. \A x \in Timers : Unmoved(x) \/ Ref(mpc[l], m[l], updated[l], x)
  BY <1>2, <1>4, <1>8, SameWaits, Zenon DEF Unmoved
<1>14. LcoreOK(l, "again", m[l], updated'[l], running'[l], list', st', op', expire', period', runs', now')
  <2>1. LocalOK("again", m[l], op'[l], running'[l])
    BY <1>1, <1>2, <1>4, Zenon DEF LocalOK
  <2>2. CutOK(m[l], list', st', op', expire', now')
    <3>1. Distinct(<<>>)
      BY SMT DEF Distinct
    <3> QED  BY <1>4, <3>1, InEmpty, Zenon DEF CutOK
  <2>3. RunsOK(l, m[l], st', expire', period', runs', now')
    <3>1. \A x \in Timers : InRuns(m[l].run, x) => x # t
      BY <1>4, Zenon
    <3> QED  BY <1>2, <1>3, <1>8, <3>1, Zenon DEF RunsOK
  <2>4. OneOK(l, "again", m[l], updated'[l], list', st', op', expire', period', now')
    <3>1. Waits(st', op', t, l)
      BY <1>8, Zenon DEF Waits
    <3> QED  BY <1>1, <1>2, <1>5, <3>1, Zenon DEF OneOK
  <2>5. m[l].cur <= now'
    BY <1>2, <1>3, Zenon
  <2> QED  BY <2>1, <2>2, <2>3, <2>4, <2>5, Zenon DEF LcoreOK
<1>15. LcoresOK'
  BY <1>2, <1>6, <1>9, <1>13, <1>14, OtherLcores, Zenon
<1>16. PendListsOK'
  BY <1>2, <1>5, <1>8, ListsKept, Zenon
<1>17. HeadersOK'
  <2> SUFFICES ASSUME NEW k \in Lcores PROVE HeaderOK(k, list', lock', mpc', hexp', expire')
    BY Zenon DEF HeadersOK
  <2>1. HeaderOK(k, list, lock, mpc, hexp, expire) /\ lock[k] \in Lcores \union {NoOwner}
    BY <1>3, Zenon DEF TimerInv, HeadersOK, TimerType
  <2>2. CASE k = l
    BY <1>2, <2>1, <2>2, Zenon DEF HeaderOK
  <2>3. CASE k # l
    BY <1>2, <1>6, <1>7, <1>11, <2>1, <2>3, Zenon DEF HeaderOK
  <2> QED  BY <2>2, <2>3, Zenon
<1>18. PendingsOK'
  <2>1. ASSUME NEW x \in Timers, NEW k \in Lcores, Placed(list, lock, mpc, m, x, k)
        PROVE  Placed(list', lock', mpc', m', x, k)
    <3>1. CASE k = l
      BY <1>2, <2>1, <3>1, Zenon DEF Placed
    <3>2. CASE k # l
      <4>1. lock[k] \in Lcores \union {NoOwner} /\ lock'[k] = lock[k] /\ lock[k] # l /\ list'[k] = list[k]
        BY <1>2, <1>3, <1>7, <1>11, <3>2, Zenon DEF TimerType
      <4> QED  BY <1>2, <1>6, <2>1, <4>1, Zenon DEF Placed
    <3> QED  BY <3>1, <3>2, Zenon
  <2>2. \A x \in Timers : x # t => StaysPut(x)
    BY <1>2, <1>8, <2>1, Zenon DEF StaysPut
  <2>3. PendingOK(t, st', list', lock', mpc', m', period', runs')
    <3>1. l # NoOwner
      BY TimerParameters, Zenon
    <3>2. Placed(list', lock', mpc', m', t, l)
      BY <1>1, <1>2, <1>6, <1>7, <3>1, Zenon DEF Placed
    <3> QED  BY <1>2, <1>8, <3>2, Zenon DEF PendingOK, Is
  <2> QED  BY <2>2, <2>3, PendingsKept, Zenon
<1> QED  BY <1>9, <1>10, <1>12, <1>15, <1>16, <1>17, <1>18, Zenon DEF TimerInv

\* Between the callback and the reset that follows, the manager holds the lock of
\* its own list and no other.
LEMMA AgainLock ==
  ASSUME TimerInv, NEW l \in Lcores, mpc[l] \in {"again", "add"}
  PROVE  \A k \in Lcores : lock[k] = l <=> k = l
BY Zenon DEF TimerInv, LocksOK, Holds

LEMMA AgainConfigInv ==
  ASSUME TimerInv, NEW l \in Lcores, AgainConfig(l)
  PROVE  TimerInv'
<1>1. PICK t : t = m[l].tim
  BY Zenon
<1>2. /\ mpc[l] = "again" /\ st[t].state # "CONFIG"
      /\ st' = [st EXCEPT ![t] = Status("CONFIG", l)] /\ mpc' = [mpc EXCEPT ![l] = "add"] /\ m' = m
      /\ now' = now /\ expire' = expire /\ period' = period /\ runs' = runs /\ lock' = lock
      /\ list' = list /\ hexp' = hexp /\ updated' = updated /\ running' = running /\ op' = op /\ calls' = calls
  BY <1>1, Zenon DEF AgainConfig, CanConfig, MGoto, listvars, timvars, corevars
<1>3. /\ RunsOK(l, m[l], st, expire, period, runs, now) /\ TimerType /\ m[l] \in Manages /\ m[l].cur <= now
      /\ LocalOK(mpc[l], m[l], op[l], running[l]) /\ op[l] = NoOp
      /\ OneOK(l, mpc[l], m[l], updated[l], list, st, op, expire, period, now)
  BY <1>2, LcoreIs, Zenon
<1>4. /\ t \in Timers /\ Waits(st, op, t, l) /\ period[t] # 0 /\ m[l].cut = <<>>
      /\ Ref(mpc[l], m[l], updated[l], t)
  BY <1>1, <1>2, <1>3, Zenon DEF LocalOK, OneOK, Ref
<1>5. Is(st[t], "PENDING", l)
  BY <1>2, <1>4, Zenon DEF Waits, Deleting
<1>6. \A k \in Lcores : ~ In(list[k], t)
  BY <1>4, ListedFree, Zenon
<1>7. /\ mpc' \in [Lcores -> Labels] /\ mpc'[l] = "add" /\ \A k \in Lcores : k # l => mpc'[k] = mpc[k]
  <2>1. "add" \in Labels
    BY Zenon DEF Labels
  <2> QED  BY <1>2, <1>3, <2>1, Zenon DEF TimerType
<1>8. /\ st' \in [Timers -> [state : States, owner : Threads \union {NoOwner}]]
      /\ Is(st'[t], "CONFIG", l) /\ \A x \in Timers : x # t => st'[x] = st[x]
  <2>1. Status("CONFIG", l) \in [state : States, owner : Threads \union {NoOwner}]
    BY Zenon DEF Status, States, Threads
  <2> QED  BY <1>2, <1>3, <1>4, <2>1, StatusIs, Zenon DEF TimerType
<1>9. TimerType'
  BY <1>2, <1>3, <1>7, <1>8, Zenon DEF TimerType
<1>10. OpsOK'
  <2>1. \A y \in Threads : ~ Is(st[t], "CONFIG", y)
    BY <1>5, Zenon DEF Is
  <2> QED  BY <1>2, <1>8, <2>1, OpsKept, Zenon
<1>11. \A k \in Lcores : lock[k] = l <=> k = l
  BY <1>2, AgainLock, Zenon
<1>12. LocksOK'
  <2>1. \A k \in Lcores : Holds(l, mpc'[l], m'[l], k) <=> lock'[k] = l
    BY <1>2, <1>7, <1>11, Zenon DEF Holds
  <2> QED  BY <1>2, <1>7, <2>1, OtherLocks, Zenon
<1>13. \A x \in Timers : Unmoved(x) \/ Ref(mpc[l], m[l], updated[l], x)
  BY <1>2, <1>4, <1>8, SameWaits, Zenon DEF Unmoved
<1>14. LcoreOK(l, "add", m[l], updated'[l], running'[l], list', st', op', expire', period', runs', now')
  <2>1. LocalOK("add", m[l], op'[l], running'[l])
    BY <1>1, <1>2, <1>3, <1>4, Zenon DEF LocalOK
  <2>2. CutOK(m[l], list', st', op', expire', now')
    <3>1. Distinct(<<>>)
      BY SMT DEF Distinct
    <3> QED  BY <1>4, <3>1, InEmpty, Zenon DEF CutOK
  <2>3. RunsOK(l, m[l], st', expire', period', runs', now')
    <3>1. \A x \in Timers : InRuns(m[l].run, x) => x # t
      BY <1>3, <1>5, Zenon DEF RunsOK, Is
    <3> QED  BY <1>2, <1>3, <1>8, <3>1, Zenon DEF RunsOK
  <2>4. OneOK(l, "add", m[l], updated'[l], list', st', op', expire', period', now')
    BY <1>1, <1>2, <1>4, <1>8, Zenon DEF OneOK
  <2>5. m[l].cur <= now'
    BY <1>2, <1>3, Zenon
  <2> QED  BY <2>1, <2>2, <2>3, <2>4, <2>5, Zenon DEF LcoreOK
<1>15. LcoresOK'
  BY <1>2, <1>7, <1>9, <1>13, <1>14, OtherLcores, Zenon
<1>16. PendListsOK'
  BY <1>2, <1>6, <1>8, ListsKept, Zenon
<1>17. HeadersOK'
  <2> SUFFICES ASSUME NEW k \in Lcores PROVE HeaderOK(k, list', lock', mpc', hexp', expire')
    BY Zenon DEF HeadersOK
  <2>1. HeaderOK(k, list, lock, mpc, hexp, expire) /\ lock[k] \in Lcores \union {NoOwner}
    BY <1>3, Zenon DEF TimerInv, HeadersOK, TimerType
  <2>2. CASE k = l
    <3>1. hexp[k] = FirstExpire(list[k], expire)
      BY <1>2, <1>11, <2>1, <2>2, Zenon DEF HeaderOK
    <3> QED  BY <1>2, <3>1, Zenon DEF HeaderOK
  <2>3. CASE k # l
    BY <1>2, <1>7, <1>11, <2>1, <2>3, Zenon DEF HeaderOK
  <2> QED  BY <2>2, <2>3, Zenon
<1>18. PendingsOK'
  <2>1. ASSUME NEW x \in Timers, x # t, NEW k \in Lcores, Placed(list, lock, mpc, m, x, k)
        PROVE  Placed(list', lock', mpc', m', x, k)
    <3>1. CASE k = l
      BY <1>1, <1>2, <1>11, <2>1, <3>1, Zenon DEF Placed
    <3>2. CASE k # l
      <4>1. lock[k] \in Lcores \union {NoOwner} /\ lock[k] # l
        BY <1>3, <1>11, <3>2, Zenon DEF TimerType
      <4> QED  BY <1>2, <1>7, <2>1, <4>1, Zenon DEF Placed
    <3> QED  BY <3>1, <3>2, Zenon
  <2>2. \A x \in Timers : x # t => StaysPut(x)
    BY <1>2, <1>8, <2>1, Zenon DEF StaysPut
  <2>3. PendingOK(t, st', list', lock', mpc', m', period', runs')
    BY <1>2, <1>4, <1>8, Zenon DEF PendingOK, Is
  <2> QED  BY <2>2, <2>3, PendingsKept, Zenon
<1> QED  BY <1>9, <1>10, <1>12, <1>15, <1>16, <1>17, <1>18, Zenon DEF TimerInv


LEMMA AgainFailsInv ==
  ASSUME TimerInv, NEW l \in Lcores, AgainFails(l)
  PROVE  TimerInv'
<1>1. PICK t : t = m[l].tim
  BY Zenon
<1>2. PICK r : r = [m[l] EXCEPT !.tim = NoTimer]
  BY Zenon
<1>3. /\ mpc[l] = "again" /\ ~ CanConfig(l, t) /\ Forget(l) /\ lock' = [lock EXCEPT ![l] = NoOwner]
      /\ m' = [m EXCEPT ![l] = r] /\ mpc' = [mpc EXCEPT ![l] = "scan"]
      /\ now' = now /\ st' = st /\ expire' = expire /\ period' = period /\ runs' = runs
      /\ list' = list /\ hexp' = hexp /\ updated' = updated /\ op' = op /\ calls' = calls
  BY <1>1, <1>2, Zenon DEF AgainFails, MBecomes, MGoto, listvars, timvars
<1>4. /\ RunsOK(l, m[l], st, expire, period, runs, now) /\ TimerType /\ m[l] \in Manages /\ m[l].cur <= now
      /\ LocalOK(mpc[l], m[l], op[l], running[l]) /\ op[l] = NoOp
      /\ OneOK(l, mpc[l], m[l], updated[l], list, st, op, expire, period, now)
  BY <1>3, LcoreIs, Zenon
<1>5. t \in Timers /\ Waits(st, op, t, l) /\ m[l].cut = <<>>
  BY <1>1, <1>3, <1>4, Zenon DEF LocalOK, OneOK
<1>6. st[t].state # "PENDING"
  BY <1>3, Zenon DEF CanConfig
<1>7. /\ r \in Manages /\ r.polls = m[l].polls /\ r.cur = m[l].cur /\ r.cut = <<>> /\ r.run = m[l].run
      /\ r.tim = NoTimer
  BY <1>2, <1>4, <1>5, Zenon DEF Manages
<1>8. /\ mpc' \in [Lcores -> Labels] /\ m' \in [Lcores -> Manages] /\ mpc'[l] = "scan" /\ m'[l] = r
      /\ \A k \in Lcores : k # l => m'[k] = m[k] /\ mpc'[k] = mpc[k]
  <2>1. "scan" \in Labels /\ Moves(l, "scan", r)
    BY <1>3, Zenon DEF Labels, Moves
  <2> QED  BY <1>4, <1>7, <2>1, MovesTo, Zenon
<1>9. /\ running' \in [Lcores -> Timers \union {NoTimer}]
      /\ \A k \in Lcores : k # l => running'[k] = running[k]
  BY <1>3, <1>4, ForgetIs, Zenon
<1>10. /\ lock' \in [Lcores -> Lcores \union {NoOwner}] /\ lock'[l] = NoOwner
       /\ \A k \in Lcores : k # l => lock'[k] = lock[k]
  BY <1>3, <1>4, Zenon DEF TimerType
<1>11. TimerType'
  BY <1>3, <1>4, <1>8, <1>9, <1>10, Zenon DEF TimerType
<1>12. OpsOK'
  BY <1>3, OpsKept, Zenon
<1>13. (\A k \in Lcores : lock[k] = l <=> k = l) /\ l # NoOwner
  BY <1>3, AgainLock, TimerParameters, Zenon
<1>14. LocksOK'
  <2>1. \A k \in Lcores : Holds(l, mpc'[l], m'[l], k) <=> lock'[k] = l
    BY <1>8, <1>10, <1>13, Zenon DEF Holds
  <2>2. \A k \in Lcores : lock'[k] = lock[k] \/ (lock[k] \in {NoOwner, l} /\ lock'[k] \in {NoOwner, l})
    BY <1>10, <1>13, Zenon
  <2> QED  BY <1>8, <2>1, <2>2, OtherLocks, Zenon
<1>15. \A x \in Timers : Unmoved(x)
  BY <1>3, SameWaits, Zenon DEF Unmoved
<1>16. LcoreOK(l, "scan", r, updated'[l], running'[l], list', st', op', expire', period', runs', now')
  <2>1. LocalOK("scan", r, op'[l], running'[l])
    BY <1>3, <1>4, <1>7, Zenon DEF LocalOK
  <2>2. CutOK(r, list', st', op', expire', now')
    <3>1. Distinct(<<>>)
      BY SMT DEF Distinct
    <3> QED  BY <1>7, <3>1, InEmpty, Zenon DEF CutOK
  <2>3. RunsOK(l, r, st', expire', period', runs', now')
    BY <1>3, <1>4, <1>7, Zenon DEF RunsOK
  <2>4. OneOK(l, "scan", r, updated'[l], list', st', op', expire', period', now')
    BY Zenon DEF OneOK
  <2>5. r.cur <= now'
    BY <1>3, <1>4, <1>7, Zenon
  <2> QED  BY <2>1, <2>2, <2>3, <2>4, <2>5, Zenon DEF LcoreOK
<1>17. LcoresOK'
  BY <1>3, <1>8, <1>9, <1>11, <1>15, <1>16, OtherLcores, Zenon
<1>18. PendListsOK'
  BY <1>3, ListsKept, Zenon
<1>19. HeadersOK'
  <2> SUFFICES ASSUME NEW k \in Lcores PROVE HeaderOK(k, list', lock', mpc', hexp', expire')
    BY Zenon DEF HeadersOK
  <2>1. HeaderOK(k, list, lock, mpc, hexp, expire) /\ lock[k] \in Lcores \union {NoOwner}
    BY <1>4, Zenon DEF TimerInv, HeadersOK, TimerType
  <2>2. CASE k = l
    <3>1. hexp[k] = FirstExpire(list[k], expire)
      BY <1>3, <1>13, <2>1, <2>2, Zenon DEF HeaderOK
    <3> QED  BY <1>3, <3>1, Zenon DEF HeaderOK
  <2>3. CASE k # l
    BY <1>3, <1>8, <1>10, <1>13, <2>1, <2>3, Zenon DEF HeaderOK
  <2> QED  BY <2>2, <2>3, Zenon
<1>20. PendingsOK'
  <2>1. ASSUME NEW x \in Timers, NEW k \in Lcores, Is(st[x], "PENDING", k), Placed(list, lock, mpc, m, x, k)
        PROVE  Placed(list', lock', mpc', m', x, k)
    <3>1. x # t
      BY <1>6, <2>1, Zenon DEF Is
    <3>2. CASE k = l
      <4>1. In(list[k], x)
        BY <1>1, <1>5, <1>13, <2>1, <3>1, <3>2, InEmpty, Zenon DEF Placed
      <4> QED  BY <1>3, <4>1, Zenon DEF Placed
    <3>3. CASE k # l
      <4>1. lock[k] \in Lcores \union {NoOwner} /\ lock'[k] = lock[k] /\ lock[k] # l
        BY <1>4, <1>10, <1>13, <3>3, Zenon DEF TimerType
      <4> QED  BY <1>3, <1>8, <2>1, <4>1, Zenon DEF Placed
    <3> QED  BY <3>2, <3>3, Zenon
  <2>2. \A x \in Timers : StaysPut(x)
    BY <1>3, <2>1, Zenon DEF StaysPut
  <2> QED  BY <2>2, PendingsKept, Zenon
<1> QED  BY <1>11, <1>12, <1>14, <1>17, <1>18, <1>19, <1>20, Zenon DEF TimerInv

LEMMA AgainAddInv ==
  ASSUME TimerInv, NEW l \in Lcores, AgainAdd(l)
  PROVE  TimerInv'
<1>1. PICK t : t = m[l].tim
  BY Zenon
<1>2. PICK r : r = [m[l] EXCEPT !.tim = NoTimer]
  BY Zenon
<1>3. PICK w : w = expire[t] + period[t]
  BY Zenon
<1>4. /\ mpc[l] = "add" /\ Add(l, t, w) /\ Forget(l) /\ lock' = [lock EXCEPT ![l] = NoOwner]
      /\ st' = [st EXCEPT ![t] = Status("PENDING", l)]
      /\ m' = [m EXCEPT ![l] = r] /\ mpc' = [mpc EXCEPT ![l] = "scan"]
      /\ now' = now /\ period' = period /\ runs' = runs /\ updated' = updated /\ op' = op /\ calls' = calls
  BY <1>1, <1>2, <1>3, Zenon DEF AgainAdd, MBecomes, MGoto
<1>5. /\ RunsOK(l, m[l], st, expire, period, runs, now) /\ TimerType /\ m[l] \in Manages /\ m[l].cur <= now
      /\ LocalOK(mpc[l], m[l], op[l], running[l]) /\ op[l] = NoOp
      /\ OneOK(l, mpc[l], m[l], updated[l], list, st, op, expire, period, now)
  BY <1>4, LcoreIs, Zenon
<1>6. /\ t \in Timers /\ Is(st[t], "CONFIG", l) /\ m[l].cut = <<>> /\ period[t] # 0
      /\ Ref(mpc[l], m[l], updated[l], t)
  BY <1>1, <1>4, <1>5, Zenon DEF LocalOK, OneOK, Ref
<1>7. \A k \in Lcores : ~ In(list[k], t)
  BY <1>6, ListedFree, Zenon
<1>8. w \in Nat
  <2>1. expire[t] \in Nat /\ period[t] \in Nat
    BY <1>5, <1>6, Zenon DEF TimerType
  <2> QED  BY <1>3, <2>1, SMT
<1>9. ListOK(l, list, st, op, expire)
  BY Zenon DEF TimerInv, PendListsOK
<1>10. /\ list' \in [Lcores -> Seq(Timers)] /\ hexp' \in [Lcores -> Nat] /\ expire' \in [Timers -> Nat]
       /\ Distinct(list'[l]) /\ Sorted(list'[l], expire')
       /\ \A x \in Timers : In(list'[l], x) <=> In(list[l], x) \/ x = t
       /\ \A k \in Lcores : k # l => list'[k] = list[k] /\ hexp'[k] = hexp[k]
       /\ hexp'[l] = FirstExpire(list'[l], expire')
       /\ \A x \in Timers : x # t => expire'[x] = expire[x]
  <2>1. Distinct(list[l]) /\ Sorted(list[l], expire) /\ ~ In(list[l], t) /\ Add(l, t, w)
    BY <1>4, <1>7, <1>9, Zenon DEF ListOK
  <2> QED  BY <1>5, <1>6, <1>8, <2>1, AddStep, Zenon
<1>11. /\ r \in Manages /\ r.polls = m[l].polls /\ r.cur = m[l].cur /\ r.cut = <<>> /\ r.run = m[l].run
       /\ r.tim = NoTimer
  BY <1>2, <1>5, <1>6, Zenon DEF Manages
<1>12. /\ mpc' \in [Lcores -> Labels] /\ m' \in [Lcores -> Manages] /\ mpc'[l] = "scan" /\ m'[l] = r
       /\ \A k \in Lcores : k # l => m'[k] = m[k] /\ mpc'[k] = mpc[k]
  <2>1. "scan" \in Labels /\ Moves(l, "scan", r)
    BY <1>4, Zenon DEF Labels, Moves
  <2> QED  BY <1>5, <1>11, <2>1, MovesTo, Zenon
<1>13. /\ running' \in [Lcores -> Timers \union {NoTimer}]
       /\ \A k \in Lcores : k # l => running'[k] = running[k]
  BY <1>4, <1>5, ForgetIs, Zenon
<1>14. /\ lock' \in [Lcores -> Lcores \union {NoOwner}] /\ lock'[l] = NoOwner
       /\ \A k \in Lcores : k # l => lock'[k] = lock[k]
  BY <1>4, <1>5, Zenon DEF TimerType
<1>15. /\ st' \in [Timers -> [state : States, owner : Threads \union {NoOwner}]]
       /\ Is(st'[t], "PENDING", l) /\ \A x \in Timers : x # t => st'[x] = st[x]
  <2>1. Status("PENDING", l) \in [state : States, owner : Threads \union {NoOwner}]
    BY Zenon DEF Status, States, Threads
  <2> QED  BY <1>4, <1>5, <1>6, <2>1, StatusIs, Zenon DEF TimerType
<1>16. TimerType'
  BY <1>4, <1>5, <1>10, <1>12, <1>13, <1>14, <1>15, Zenon DEF TimerType
<1>17. OpsOK'
  <2>1. \A y \in Threads : Is(st[t], "CONFIG", y) => op[y].step \notin {"del", "set"}
    BY <1>5, <1>6, NoOpIs, Zenon DEF Is
  <2> QED  BY <1>4, <1>15, <2>1, OpsKept, Zenon
<1>18. (\A k \in Lcores : lock[k] = l <=> k = l) /\ l # NoOwner
  BY <1>4, AgainLock, TimerParameters, Zenon
<1>19. LocksOK'
  <2>1. \A k \in Lcores : Holds(l, mpc'[l], m'[l], k) <=> lock'[k] = l
    BY <1>12, <1>14, <1>18, Zenon DEF Holds
  <2>2. \A k \in Lcores : lock'[k] = lock[k] \/ (lock[k] \in {NoOwner, l} /\ lock'[k] \in {NoOwner, l})
    BY <1>14, <1>18, Zenon
  <2> QED  BY <1>12, <2>1, <2>2, OtherLocks, Zenon
<1>20. ASSUME NEW x \in Timers, x # t, NEW k, Waits(st, op, x, k) PROVE Waits(st', op', x, k)
  BY <1>4, <1>15, <1>20, SameWaits, Zenon
<1>21. ASSUME NEW k \in Lcores, NEW x \in Timers, x # t PROVE In(list'[k], x) <=> In(list[k], x)
  BY <1>10, <1>21, Zenon
<1>22. \A x \in Timers : Unmoved(x) \/ Ref(mpc[l], m[l], updated[l], x)
  BY <1>4, <1>6, <1>10, <1>15, <1>20, <1>21, Zenon DEF Unmoved
<1>23. LcoreOK(l, "scan", r, updated'[l], running'[l], list', st', op', expire', period', runs', now')
  <2>1. LocalOK("scan", r, op'[l], running'[l])
    BY <1>4, <1>5, <1>11, Zenon DEF LocalOK
  <2>2. CutOK(r, list', st', op', expire', now')
    <3>1. Distinct(<<>>)
      BY SMT DEF Distinct
    <3> QED  BY <1>11, <3>1, InEmpty, Zenon DEF CutOK
  <2>3. RunsOK(l, r, st', expire', period', runs', now')
    <3>1. \A x \in Timers : InRuns(m[l].run, x) => x # t
      BY <1>5, <1>6, Zenon DEF RunsOK, Is
    <3> QED  BY <1>4, <1>5, <1>10, <1>11, <1>15, <3>1, Zenon DEF RunsOK
  <2>4. OneOK(l, "scan", r, updated'[l], list', st', op', expire', period', now')
    BY Zenon DEF OneOK
  <2>5. r.cur <= now'
    BY <1>4, <1>5, <1>11, Zenon
  <2> QED  BY <2>1, <2>2, <2>3, <2>4, <2>5, Zenon DEF LcoreOK
<1>24. LcoresOK'
  BY <1>4, <1>12, <1>13, <1>16, <1>22, <1>23, OtherLcores, Zenon
<1>25. ASSUME NEW k \in Lcores, k # l
       PROVE  ListOK(k, list', st', op', expire') /\ FirstExpire(list'[k], expire') = FirstExpire(list[k], expire)
  <2>1. list'[k] = list[k]
    BY <1>10, <1>25, Zenon
  <2>2. \A x \in Timers : In(list[k], x) =>
          (Waits(st, op, x, k) => Waits(st', op', x, k)) /\ expire'[x] = expire[x]
    BY <1>7, <1>10, <1>20, Zenon
  <2> QED  BY <2>1, <2>2, ListKept, Zenon
<1>26. ListOK(l, list', st', op', expire')
  <2>1. Waits(st', op', t, l)
    BY <1>15, Zenon DEF Waits
  <2>2. \A x \in Timers : In(list'[l], x) => Waits(st', op', x, l)
    BY <1>9, <1>10, <1>20, <2>1, Zenon DEF ListOK
  <2> QED  BY <1>10, <2>2, Zenon DEF ListOK
<1>27. PendListsOK'
  BY <1>25, <1>26, Zenon DEF PendListsOK
<1>28. HeadersOK'
  <2> SUFFICES ASSUME NEW k \in Lcores PROVE HeaderOK(k, list', lock', mpc', hexp', expire')
    BY Zenon DEF HeadersOK
  <2>1. HeaderOK(k, list, lock, mpc, hexp, expire) /\ lock[k] \in Lcores \union {NoOwner}
    BY <1>5, Zenon DEF TimerInv, HeadersOK, TimerType
  <2>2. CASE k = l
    BY <1>10, <2>2, Zenon DEF HeaderOK
  <2>3. CASE k # l
    <3>1. hexp'[k] = hexp[k] /\ FirstExpire(list'[k], expire') = FirstExpire(list[k], expire)
      BY <1>10, <1>25, <2>3, Zenon
    <3> QED  BY <1>12, <1>14, <1>18, <2>1, <2>3, <3>1, Zenon DEF HeaderOK
  <2> QED  BY <2>2, <2>3, Zenon
<1>29. PendingsOK'
  <2>1. ASSUME NEW x \in Timers, x # t, NEW k \in Lcores, Placed(list, lock, mpc, m, x, k)
        PROVE  Placed(list', lock', mpc', m', x, k)
    <3>1. CASE k = l
      <4>1. In(list[k], x)
        BY <1>4, <1>6, <1>18, <2>1, <3>1, InEmpty, Zenon DEF Placed
      <4> QED  BY <1>21, <2>1, <4>1, Zenon DEF Placed
    <3>2. CASE k # l
      <4>1. lock[k] \in Lcores \union {NoOwner} /\ lock'[k] = lock[k] /\ lock[k] # l /\ list'[k] = list[k]
        BY <1>5, <1>10, <1>14, <1>18, <3>2, Zenon DEF TimerType
      <4> QED  BY <1>12, <2>1, <4>1, Zenon DEF Placed
    <3> QED  BY <3>1, <3>2, Zenon
  <2>2. \A x \in Timers : x # t => StaysPut(x)
    BY <1>4, <1>15, <2>1, Zenon DEF StaysPut
  <2>3. PendingOK(t, st', list', lock', mpc', m', period', runs')
    <3>1. Placed(list', lock', mpc', m', t, l)
      BY <1>6, <1>10, Zenon DEF Placed
    <3> QED  BY <1>4, <1>6, <1>15, <3>1, Zenon DEF PendingOK, Is
  <2> QED  BY <2>2, <2>3, PendingsKept, Zenon
<1> QED  BY <1>16, <1>17, <1>19, <1>24, <1>27, <1>28, <1>29, Zenon DEF TimerInv


-----------------------------------------------------------------------------
(* The theorems                                                             *)

LEMMA InitInv ==
  ASSUME TimerInit PROVE TimerInv
<1>1. 0 \in Nat /\ <<>> \in Seq(Timers) /\ <<>> \in Seq(Lcores) /\ <<>> \in Seq(Seq(Timers)) /\ 0 <= 0 /\ 0 <= 1
  BY SMT
<1>2. Distinct(<<>>) /\ (\A e : Sorted(<<>>, e)) /\ DOMAIN <<>> = {} /\ \A e : FirstExpire(<<>>, e) = 0
  BY SMT DEF Distinct, Sorted, FirstExpire
<1>3. NoManage \in Manages
  BY <1>1, Zenon DEF NoManage, Manages
<1>4. Stopped \in [state : States, owner : Threads \union {NoOwner}]
  BY Zenon DEF Stopped, Status, States
<1>5. TimerType
  <2>1. "idle" \in Labels
    BY Zenon DEF Labels
  <2> QED  BY <1>1, <1>3, <1>4, <2>1, NoOpType, Zenon DEF TimerType, TimerInit
<1>6. OpsOK
  BY NoOpIs, Zenon DEF TimerInit, OpsOK, OpOK
<1>7. LocksOK
  BY TimerParameters, Zenon DEF TimerInit, LocksOK, Holds
<1>8. LcoresOK
  <2> SUFFICES ASSUME NEW l \in Lcores
               PROVE  LcoreOK(l, "idle", NoManage, FALSE, NoTimer, list, st, op, expire, period, runs, now)
    BY Zenon DEF TimerInit, LcoresOK
  <2>1. LocalOK("idle", NoManage, op[l], NoTimer)
    BY NoManageIs, Zenon DEF LocalOK
  <2>2. CutOK(NoManage, list, st, op, expire, now)
    BY <1>2, NoManageIs, InEmpty, Zenon DEF CutOK
  <2>3. RunsOK(l, NoManage, st, expire, period, runs, now)
    BY <1>2, NoManageIs, Zenon DEF RunsOK, Once, InRuns
  <2>4. OneOK(l, "idle", NoManage, FALSE, list, st, op, expire, period, now)
    BY Zenon DEF OneOK
  <2>5. NoManage.cur <= now
    BY <1>1, NoManageIs, Zenon DEF TimerInit
  <2> QED  BY <2>1, <2>2, <2>3, <2>4, <2>5, Zenon DEF LcoreOK
<1>9. PendListsOK
  <2> SUFFICES ASSUME NEW l \in Lcores PROVE ListOK(l, list, st, op, expire)
    BY Zenon DEF PendListsOK
  <2>1. list[l] = <<>>
    BY Zenon DEF TimerInit
  <2> QED  BY <1>2, <2>1, InEmpty, Zenon DEF ListOK
<1>10. HeadersOK
  <2> SUFFICES ASSUME NEW l \in Lcores PROVE HeaderOK(l, list, lock, mpc, hexp, expire)
    BY Zenon DEF HeadersOK
  <2>1. list[l] = <<>> /\ hexp[l] = 0
    BY Zenon DEF TimerInit
  <2> QED  BY <1>2, <2>1, Zenon DEF HeaderOK
<1>11. PendingsOK
  <2> SUFFICES ASSUME NEW t \in Timers PROVE PendingOK(t, st, list, lock, mpc, m, period, runs)
    BY Zenon DEF PendingsOK
  <2>1. st[t].state = "STOP" /\ runs[t] = 0
    BY StatusIs, Zenon DEF TimerInit, Is
  <2> QED  BY <1>1, <2>1, Zenon DEF PendingOK
<1> QED  BY <1>5, <1>6, <1>7, <1>8, <1>9, <1>10, <1>11, Zenon DEF TimerInv

LEMMA ManageStepInv ==
  ASSUME TimerInv, NEW l \in Lcores, ManageStep(l) PROVE TimerInv'
BY ManageInv, ScanSkipInv, ScanInv, LockNothingInv, CutInv, SetRunningInv, SkipConfiguredInv, CutDoneInv,
   PickInv, ManageReturnsInv, CbUpdatedInv, CbStopInv, CbAgainInv, AgainConfigInv, AgainFailsInv,
   AgainAddInv, Zenon DEF ManageStep

LEMMA CallStepInv ==
  ASSUME TimerInv, NEW p \in Threads, CallStep(p) PROVE TimerInv'
BY SetConfigInv, ConfigFailsInv, DelInv, SetPendingInv, SetStopInv, Zenon DEF CallStep

LEMMA NextInv ==
  ASSUME TimerInv, [TimerNext]_tvars PROVE TimerInv'
<1>1. CASE UNCHANGED tvars
  BY <1>1, Zenon DEF tvars, TimerInv, TimerType, OpsOK, LocksOK, LcoresOK, PendListsOK, HeadersOK, PendingsOK
<1>2. CASE TimerNext
  BY <1>2, TickInv, CallStepInv, CallStopInv, CallResetInv, ManageStepInv, Zenon DEF TimerNext
<1> QED  BY <1>1, <1>2, Zenon

\* The inductive invariant: a timer that is pending is in the list of its owner,
\* or in the hands of the manager that holds the lock of that list; what a
\* manager cut off a list, is to run or runs is its own; whoever configures a
\* timer owns it, and takes it off the list it was pending on before anybody
\* else can put it in one; the list is sorted and the header tells its first
\* expiry time.  It holds for any number of lcores, other threads and timers and
\* for any sequence of polled lists.
THEOREM TimerInvariant == TimerSpec => []TimerInv
<1>1. TimerInit => TimerInv
  BY InitInv
<1>2. TimerInv /\ [TimerNext]_tvars => TimerInv'
  BY NextInv
<1> QED  BY <1>1, <1>2, PTL DEF TimerSpec

LEMMA FreeFromInv ==
  ASSUME TimerInv PROVE StoppedIsFree
<1> SUFFICES ASSUME NEW t \in Timers, st[t].state = "STOP", NEW l \in Lcores
             PROVE  /\ ~ In(list[l], t) /\ ~ InRun(l, t)
                    /\ m[l].tim = t => mpc[l] = "cb" /\ updated[l]
  BY Zenon DEF StoppedIsFree
<1>1. /\ LocalOK(mpc[l], m[l], op[l], running[l])
      /\ CutOK(m[l], list, st, op, expire, now) /\ RunsOK(l, m[l], st, expire, period, runs, now)
      /\ OneOK(l, mpc[l], m[l], updated[l], list, st, op, expire, period, now)
  BY LcoreIs, Zenon
<1>2. (\A q : ~ Waits(st, op, t, q)) /\ ~ Is(st[t], "RUNNING", l) /\ ~ Is(st[t], "CONFIG", l)
  BY Zenon DEF Waits, Deleting, Is
<1>3. ~ In(list[l], t)
  BY <1>2, Zenon DEF TimerInv, PendListsOK, ListOK
<1>4. ~ InRun(l, t)
  BY <1>1, <1>2, Zenon DEF CutOK, RunsOK, InRuns, InRun
<1>5. ASSUME m[l].tim = t PROVE mpc[l] = "cb" /\ updated[l]
  <2>1. mpc[l] \in {"cb", "again", "add"}
    BY <1>1, <1>5, TimerParameters, Zenon DEF LocalOK
  <2>2. mpc[l] # "again" /\ mpc[l] # "add"
    BY <1>1, <1>2, <1>5, Zenon DEF OneOK
  <2> QED  BY <1>1, <1>2, <1>5, <2>1, <2>2, Zenon DEF OneOK
<1> QED  BY <1>3, <1>4, <1>5, Zenon

\* rte_timer_stop: "If it succeeds, the timer is not referenced anymore by the
\* timer library and the timer structure can be freed": however many lcores
\* manage timers and however calls and managers interleave, a stopped timer is in
\* no pending list, in no list of expired timers and in no run list, and a
\* manager that is still in its callback was told not to touch it.
THEOREM StoppedTimersFree == TimerSpec => []StoppedIsFree
<1>1. TimerInv => StoppedIsFree
  BY FreeFromInv
<1> QED  BY <1>1, TimerInvariant, PTL

\* Status words with the same fields are the same.
LEMMA StatusSame ==
  ASSUME TimerType, NEW t \in Timers, NEW s, NEW o
  PROVE  Is(st[t], s, o) <=> st[t] = Status(s, o)
<1>1. st[t] \in [state : States, owner : Threads \union {NoOwner}]
  BY Zenon DEF TimerType
<1>2. PICK x \in [state : States, owner : Threads \union {NoOwner}] : x = st[t]
  BY <1>1, Zenon
<1>3. x.state = s /\ x.owner = o => x = [state |-> s, owner |-> o]
  BY SMT
<1>4. Is(st[t], s, o) => st[t] = Status(s, o)
  BY <1>2, <1>3, Zenon DEF Is, Status
<1>5. st[t] = Status(s, o) => Is(st[t], s, o)
  BY StatusIs, Zenon
<1> QED  BY <1>4, <1>5, Zenon

LEMMA SoundFromInv ==
  ASSUME TimerInv PROVE ListsSound
<1>1. TimerType
  BY Zenon DEF TimerInv
<1>2. ASSUME NEW l \in Lcores
      PROVE  \A i, j \in DOMAIN list[l] :
               i < j => expire[list[l][i]] <= expire[list[l][j]] /\ list[l][i] # list[l][j]
  <2>1. Distinct(list[l]) /\ Sorted(list[l], expire) /\ list[l] \in Seq(Timers)
    BY <1>1, Zenon DEF TimerInv, PendListsOK, ListOK, TimerType
  <2>2. DOMAIN list[l] = 1 .. Len(list[l]) /\ \A i, j \in 1 .. Len(list[l]) : i < j => i # j
    BY <2>1, SMT
  <2> QED  BY <2>1, <2>2, Zenon DEF Distinct, Sorted
<1>3. ASSUME NEW l \in Lcores, lock[l] = NoOwner PROVE hexp[l] = FirstExpire(list[l], expire)
  BY <1>3, Zenon DEF TimerInv, HeadersOK, HeaderOK
<1>4. ASSUME NEW t \in Timers, NEW l \in Lcores, st[t] = Status("PENDING", l)
      PROVE  In(list[l], t) \/ (lock[l] # NoOwner /\ (m[lock[l]].tim = t \/ InRun(lock[l], t)))
  <2>1. Is(st[t], "PENDING", l)
    BY <1>1, <1>4, StatusSame, Zenon
  <2>2. Placed(list, lock, mpc, m, t, l)
    BY <2>1, Zenon DEF TimerInv, PendingsOK, PendingOK, Is
  <2> QED  BY <2>2, Zenon DEF Placed, InRun
<1>5. ASSUME NEW l \in Lcores, NEW t \in Timers
      PROVE  /\ (\E i \in DOMAIN m[l].run : In(m[l].run[i], t)) => st[t] = Status("RUNNING", l)
             /\ (mpc[l] = "cb" /\ ~ updated[l] /\ m[l].tim = t) => st[t] = Status("RUNNING", l)
  <2>1. /\ RunsOK(l, m[l], st, expire, period, runs, now)
        /\ OneOK(l, mpc[l], m[l], updated[l], list, st, op, expire, period, now)
    BY LcoreIs, Zenon
  <2>2. InRuns(m[l].run, t) \/ (mpc[l] = "cb" /\ ~ updated[l] /\ m[l].tim = t) => Is(st[t], "RUNNING", l)
    BY <2>1, Zenon DEF RunsOK, OneOK
  <2> QED  BY <1>1, <2>2, StatusSame, Zenon DEF InRuns
<1>6. ASSUME NEW p \in Threads, op[p].step \in {"del", "set"} PROVE st[op[p].tim] = Status("CONFIG", p)
  <2>1. op[p].tim \in Timers /\ Is(st[op[p].tim], "CONFIG", p)
    BY <1>6, Zenon DEF TimerInv, OpsOK, OpOK
  <2> QED  BY <1>1, <2>1, StatusSame, Zenon
<1> QED  BY <1>2, <1>3, <1>4, <1>5, <1>6, Zenon DEF ListsSound

\* timer_add, timer_del and the managers keep every pending list sorted and its
\* header right, lose no pending timer, and run and configure no timer they do
\* not own: the status word serves as the lock of the timer.
THEOREM TimerListsSound == TimerSpec => []ListsSound
<1>1. TimerInv => ListsSound
  BY SoundFromInv
<1> QED  BY <1>1, TimerInvariant, PTL

LEMMA OnTimeFromInv ==
  ASSUME TimerInv PROVE RunsOnTime
<1>1. \A t \in Timers : period[t] = 0 => runs[t] <= 1
  BY Zenon DEF TimerInv, PendingsOK, PendingOK
<1>2. \A l \in Lcores : mpc[l] = "cb" /\ ~ updated[l] => expire[m[l].tim] <= now
  BY LcoreIs, Zenon DEF OneOK
<1> QED  BY <1>1, <1>2, Zenon DEF RunsOnTime

\* rte_timer_manage and rte_timer_alt_manage call no callback before its time,
\* and that of a timer that is not periodic once for each reset.
THEOREM CallbacksOnTime == TimerSpec => []RunsOnTime
<1>1. TimerInv => RunsOnTime
  BY OnTimeFromInv
<1> QED  BY <1>1, TimerInvariant, PTL
=============================================================================
