------------------------------ MODULE RcuQsbr ------------------------------
(***************************************************************************)
(* The rte_rcu library (lib/rcu/rte_rcu_qsbr.h, rte_rcu_qsbr.c): quiescent  *)
(* state based reclamation.  Readers report, through a counter each, which  *)
(* token they have seen while holding no reference; a writer that removed   *)
(* an object takes a token, and frees the object once rte_rcu_qsbr_check    *)
(* says that every reader has seen that token.                              *)
(*                                                                         *)
(* Every load, store and read-modify-write of a shared word is one step.    *)
(* The shared data structure is the user's: it is the set `live' of the     *)
(* objects a reader can reach.                                              *)
(***************************************************************************)
EXTENDS Integers, FiniteSets

CONSTANTS
  MaxThreads,   \* v->max_threads
  ElmSize,      \* threads per word of the bitmap, 64 in the code
  Writers,      \* the threads that remove objects
  Self,         \* the thread id with which a writer is also a reader, or NoThread
  Objects,      \* the objects of the shared data structure
  NoObject,
  Attached,     \* the readers are online before the first update, and stay so
  OfflineFirst  \* a reader goes offline before it unregisters

Readers == 0 .. (MaxThreads - 1)
NoThread == -1 \* RTE_QSBR_THRID_INVALID

ASSUME RcuThreads ==
  /\ MaxThreads \in Nat \ {0} /\ ElmSize \in Nat \ {0}
  /\ Self \in [Writers -> Readers \union {NoThread}]
  /\ \A w, x \in Writers : Self[w] = Self[x] => w = x \/ Self[w] = NoThread
ASSUME RcuFlags ==
  NoObject \notin Objects /\ Attached \in BOOLEAN /\ OfflineFirst \in BOOLEAN

VARIABLES
  token, acked, \* v->token, v->acked_token
  cnt,          \* v->qsbr_cnt[].cnt, 0 for an offline thread
  bmap, nthr,   \* the bitmap of registered threads, v->num_threads
  rpc, rt,      \* where each reader is, and the token it has loaded
  refs,         \* the objects each reader holds references to
  wpc, wl,      \* where each writer is, and the locals of its call
  pend,         \* the removed objects a writer has taken a token for
  live, freed

rvars == <<rpc, rt, refs>>
wvars == <<wpc, wl, pend>>
vars == <<token, acked, cnt, bmap, nthr, rpc, rt, refs, wpc, wl, pend, live, freed>>

Entry == [obj : Objects, tok : Nat]
NumElems == (MaxThreads + ElmSize - 1) \div ElmSize
Word(i) == {r \in Readers : r \div ElmSize = i}

\* min is the acked_token of the scan; 0 stands for __RTE_QSBR_CNT_MAX.
Local == [obj : Objects \union {NoObject}, tok : Nat, sync : BOOLEAN, wait : BOOLEAN,
          sel : BOOLEAN, word : Nat, map : SUBSET Readers, min : Nat]
NoLocal == [obj |-> NoObject, tok |-> 0, sync |-> FALSE, wait |-> FALSE,
            sel |-> FALSE, word |-> 0, map |-> {}, min |-> 0]

\* rte_rcu_qsbr_init; or, if `online', a later moment: all readers have come
\* online and nothing was removed yet.
InitWith(online) ==
  /\ token = 1 /\ acked = 0
  /\ cnt = [r \in Readers |-> IF online THEN 1 ELSE 0]
  /\ bmap = IF online THEN Readers ELSE {}
  /\ nthr = IF online THEN MaxThreads ELSE 0
  /\ rpc = [r \in Readers |-> IF online THEN "on" ELSE "out"]
  /\ rt = [r \in Readers |-> 0]
  /\ refs = [r \in Readers |-> {}]
  /\ wpc = [w \in Writers |-> "idle"]
  /\ wl = [w \in Writers |-> NoLocal]
  /\ pend = [w \in Writers |-> {}]
  /\ live = Objects /\ freed = {}

Init == InitWith(Attached)

-----------------------------------------------------------------------------
(* Readers.  A thread that is reader and writer does one thing at a time.   *)

RGoto(r, l) == rpc' = [rpc EXCEPT ![r] = l]
Free(r) == \A w \in Writers : Self[w] = r => wpc[w] = "idle"

\* rte_rcu_qsbr_thread_register: set the bit, ...
Register(r) ==
  /\ Free(r) /\ rpc[r] = "out"
  /\ bmap' = bmap \union {r}
  /\ RGoto(r, IF r \in bmap THEN "off" ELSE "reg")
  /\ UNCHANGED <<token, acked, cnt, nthr, rt, refs, wvars, live, freed>>

\* ... then count the thread if the bit was not set.
RegisterCount(r) ==
  /\ rpc[r] = "reg"
  /\ nthr' = nthr + 1
  /\ RGoto(r, "off")
  /\ UNCHANGED <<token, acked, cnt, bmap, rt, refs, wvars, live, freed>>

\* rte_rcu_qsbr_thread_unregister, which leaves the counter as it is.
Unregister(r) ==
  /\ Free(r) /\ ~ Attached
  /\ rpc[r] = "off" \/ (rpc[r] = "on" /\ ~ OfflineFirst)
  /\ refs' = [refs EXCEPT ![r] = {}]
  /\ bmap' = bmap \ {r}
  /\ RGoto(r, IF r \in bmap THEN "unreg" ELSE "out")
  /\ UNCHANGED <<token, acked, cnt, nthr, rt, wvars, live, freed>>

UnregisterCount(r) ==
  /\ rpc[r] = "unreg"
  /\ nthr' = nthr - 1
  /\ RGoto(r, "out")
  /\ UNCHANGED <<token, acked, cnt, bmap, rt, refs, wvars, live, freed>>

\* rte_rcu_qsbr_thread_online: load the token, then store it in the counter.
OnlineLoad(r) ==
  /\ Free(r) /\ rpc[r] = "off"
  /\ rt' = [rt EXCEPT ![r] = token]
  /\ RGoto(r, "online")
  /\ UNCHANGED <<token, acked, cnt, bmap, nthr, refs, wvars, live, freed>>

\* Mutant: the reader is online before its counter says so.
OnlineNoStore(r) ==
  /\ rpc[r] = "online"
  /\ RGoto(r, "on")
  /\ UNCHANGED <<token, acked, cnt, bmap, nthr, rt, refs, wvars, live, freed>>

OnlineStore(r) ==
  /\ rpc[r] = "online"
  /\ cnt' = [cnt EXCEPT ![r] = rt[r]]
  /\ RGoto(r, "on")
  /\ UNCHANGED <<token, acked, bmap, nthr, rt, refs, wvars, live, freed>>

\* rte_rcu_qsbr_thread_offline
Offline(r) ==
  /\ Free(r) /\ ~ Attached /\ rpc[r] = "on"
  /\ refs' = [refs EXCEPT ![r] = {}]
  /\ cnt' = [cnt EXCEPT ![r] = 0]
  /\ RGoto(r, "off")
  /\ UNCHANGED <<token, acked, bmap, nthr, rt, wvars, live, freed>>

\* A reader that is online looks an object up (the user's code).
Reference(r, o) ==
  /\ Free(r) /\ rpc[r] = "on" /\ o \in live
  /\ refs' = [refs EXCEPT ![r] = @ \union {o}]
  /\ UNCHANGED <<token, acked, cnt, bmap, nthr, rpc, rt, wvars, live, freed>>

\* rte_rcu_qsbr_quiescent, called by a reader that has dropped its references:
\* load the token, ...
QuiescentLoad(r) ==
  /\ Free(r) /\ rpc[r] = "on"
  /\ refs' = [refs EXCEPT ![r] = {}]
  /\ rt' = [rt EXCEPT ![r] = token]
  /\ RGoto(r, "qs")
  /\ UNCHANGED <<token, acked, cnt, bmap, nthr, wvars, live, freed>>

\* Mutant: the token is stored only if the counter is not behind it.
QuiescentStoreNever(r) ==
  /\ rpc[r] = "qs"
  /\ RGoto(r, "on")
  /\ UNCHANGED <<token, acked, cnt, bmap, nthr, rt, refs, wvars, live, freed>>

\* ... then store it if it is not the counter's value already.
QuiescentStore(r) ==
  /\ rpc[r] = "qs"
  /\ cnt' = [cnt EXCEPT ![r] = rt[r]]
  /\ RGoto(r, "on")
  /\ UNCHANGED <<token, acked, bmap, nthr, rt, refs, wvars, live, freed>>

-----------------------------------------------------------------------------
(* Writers                                                                  *)

WGoto(w, l) == wpc' = [wpc EXCEPT ![w] = l]
WReturn(w) == WGoto(w, "idle") /\ wl' = [wl EXCEPT ![w] = NoLocal]

\* The writer unlinks an object (the user's code), to take a token for it next;
\* sync: it does so by calling rte_rcu_qsbr_synchronize.
Remove(w, o, sync) ==
  /\ wpc[w] = "idle" /\ o \in live
  /\ Self[w] # NoThread => rpc[Self[w]] \in IF sync THEN {"on"} ELSE {"out", "off", "on"}
  /\ live' = live \ {o}
  /\ wl' = [wl EXCEPT ![w] = [NoLocal EXCEPT !.obj = o, !.sync = sync]]
  /\ WGoto(w, "start")
  /\ UNCHANGED <<token, acked, cnt, bmap, nthr, rvars, pend, freed>>

\* rte_rcu_qsbr_start; synchronize goes on to report for its own thread, if it
\* has one, and to wait.
Start(w) ==
  LET e == [obj |-> wl[w].obj, tok |-> token + 1] IN
  /\ wpc[w] = "start"
  /\ token' = token + 1
  /\ pend' = [pend EXCEPT ![w] = @ \union {e}]
  /\ \/ ~ wl[w].sync /\ WReturn(w)
     \/ /\ wl[w].sync
        /\ wl' = [wl EXCEPT ![w] = [@ EXCEPT !.tok = token + 1, !.wait = TRUE]]
        /\ WGoto(w, IF Self[w] = NoThread THEN "acked" ELSE "self")
  /\ UNCHANGED <<acked, cnt, bmap, nthr, rvars, live, freed>>

\* The call of rte_rcu_qsbr_quiescent inside synchronize: load, ...
SelfLoad(w) ==
  /\ wpc[w] = "self"
  /\ refs' = [refs EXCEPT ![Self[w]] = {}]
  /\ rt' = [rt EXCEPT ![Self[w]] = token]
  /\ WGoto(w, "selfst")
  /\ UNCHANGED <<token, acked, cnt, bmap, nthr, rpc, wl, pend, live, freed>>

\* ... and store.
SelfStore(w) ==
  /\ wpc[w] = "selfst"
  /\ cnt' = [cnt EXCEPT ![Self[w]] = rt[Self[w]]]
  /\ WGoto(w, "acked")
  /\ UNCHANGED <<token, acked, bmap, nthr, rvars, wl, pend, live, freed>>

\* rte_rcu_qsbr_check on a token taken earlier.  A thread that is a reader
\* itself may not wait here: it would wait for its own report.
Check(w, e, wait) ==
  /\ wpc[w] = "idle" /\ e \in pend[w]
  /\ Self[w] # NoThread => ~ wait /\ rpc[Self[w]] \in {"out", "off", "on"}
  /\ wl' = [wl EXCEPT ![w] = [NoLocal EXCEPT
              !.obj = e.obj, !.tok = e.tok, !.wait = wait]]
  /\ WGoto(w, "acked")
  /\ UNCHANGED <<token, acked, cnt, bmap, nthr, rvars, pend, live, freed>>

\* "Check if all the readers have already acknowledged this token"
LoadAcked(w) ==
  /\ wpc[w] = "acked"
  /\ WGoto(w, IF wl[w].tok <= acked THEN "free" ELSE "num")
  /\ UNCHANGED <<token, acked, cnt, bmap, nthr, rvars, wl, pend, live, freed>>

\* __rte_rcu_qsbr_check_all when all threads are registered, otherwise
\* __rte_rcu_qsbr_check_selective.
LoadNum(w) ==
  LET all == nthr = MaxThreads IN
  /\ wpc[w] = "num"
  /\ wl' = [wl EXCEPT ![w] = [@ EXCEPT
              !.sel = ~ all, !.map = IF all THEN Readers ELSE {}]]
  /\ WGoto(w, IF all THEN "cnt" ELSE "bmap")
  /\ UNCHANGED <<token, acked, cnt, bmap, nthr, rvars, pend, live, freed>>

\* Where a scan continues with the threads `map' of a word still to look at.
ScanAt(l, map) ==
  IF map # {} THEN "cnt" ELSE IF l.sel /\ l.word + 1 < NumElems THEN "bmap" ELSE "ack"
ScanWord(l, map) == IF ScanAt(l, map) = "bmap" THEN l.word + 1 ELSE l.word

\* check_selective: load a word of the bitmap; also again while waiting.
LoadBmap(w) ==
  LET map == bmap \intersect Word(wl[w].word) IN
  /\ wpc[w] = "bmap"
  /\ wl' = [wl EXCEPT ![w] = [@ EXCEPT
              !.map = map, !.word = ScanWord(wl[w], map)]]
  /\ WGoto(w, ScanAt(wl[w], map))
  /\ UNCHANGED <<token, acked, cnt, bmap, nthr, rvars, pend, live, freed>>

InQuiescent(c, t) == c = 0 \/ c >= t
LeastAcked(min, c) == IF c # 0 /\ (min = 0 \/ min > c) THEN c ELSE min
FirstBit(map) == CHOOSE j \in map : \A k \in map : j <= k

\* Load a reader's counter, and find it quiescent.
LoadCnt(w) ==
  LET j == FirstBit(wl[w].map)
      map == wl[w].map \ {j} IN
  /\ wpc[w] = "cnt"
  /\ InQuiescent(cnt[j], wl[w].tok)
  /\ wl' = [wl EXCEPT ![w] = [@ EXCEPT
              !.map = map, !.word = ScanWord(wl[w], map),
              !.min = LeastAcked(wl[w].min, cnt[j])]]
  /\ WGoto(w, ScanAt(wl[w], map))
  /\ UNCHANGED <<token, acked, cnt, bmap, nthr, rvars, pend, live, freed>>

\* Load a reader's counter, and find it behind: return 0; or wait, where
\* check_selective reads the bitmap again.
LoadCntBehind(w) ==
  /\ wpc[w] = "cnt"
  /\ ~ InQuiescent(cnt[FirstBit(wl[w].map)], wl[w].tok)
  /\ \/ ~ wl[w].wait /\ WReturn(w)
     \/ /\ wl[w].wait
        /\ WGoto(w, IF wl[w].sel THEN "bmap" ELSE "cnt")
        /\ UNCHANGED wl
  /\ UNCHANGED <<token, acked, cnt, bmap, nthr, rvars, pend, live, freed>>

\* "All readers are checked, update least acknowledged token."
StoreAcked(w) ==
  /\ wpc[w] = "ack"
  /\ acked' = IF wl[w].min # 0 THEN wl[w].min ELSE acked
  /\ WGoto(w, "free")
  /\ UNCHANGED <<token, cnt, bmap, nthr, rvars, wl, pend, live, freed>>

\* The check returned 1 and the writer frees the object (the user's code).
FreeObject(w) ==
  /\ wpc[w] = "free"
  /\ freed' = freed \union {wl[w].obj}
  /\ pend' = [pend EXCEPT ![w] = @ \ {[obj |-> wl[w].obj, tok |-> wl[w].tok]}]
  /\ WReturn(w)
  /\ UNCHANGED <<token, acked, cnt, bmap, nthr, rvars, live>>

-----------------------------------------------------------------------------
\* What finishes a call that a reader is inside of.
RStep(r) ==
  \/ RegisterCount(r) \/ UnregisterCount(r)
  \/ OnlineStore(r) \/ QuiescentStore(r)

\* What an online reader does between two rounds of its loop.
Report(r) == QuiescentLoad(r) \/ Offline(r)

RCall(r) ==
  \/ Register(r) \/ Unregister(r) \/ OnlineLoad(r) \/ Report(r)
  \/ \E o \in Objects : Reference(r, o)

WStep(w) ==
  \/ Start(w) \/ SelfLoad(w) \/ SelfStore(w)
  \/ LoadAcked(w) \/ LoadNum(w) \/ LoadBmap(w)
  \/ LoadCnt(w) \/ LoadCntBehind(w) \/ StoreAcked(w)
  \/ FreeObject(w)

WCall(w) ==
  \/ \E o \in Objects, sync \in BOOLEAN : Remove(w, o, sync)
  \/ \E e \in pend[w], wait \in BOOLEAN : Check(w, e, wait)

Next ==
  \/ \E r \in Readers : RStep(r) \/ RCall(r)
  \/ \E w \in Writers : WStep(w) \/ WCall(w)

Spec == Init /\ [][Next]_vars

\* Threads that are inside a call keep running, and an online reader reports in
\* every round of its loop: strong fairness, because a thread that is a writer
\* too is now and then busy with a check.
FairSpec ==
  /\ Spec
  /\ \A r \in Readers : WF_vars(RStep(r)) /\ SF_vars(Report(r))
  /\ \A w \in Writers : WF_vars(WStep(w))

-----------------------------------------------------------------------------
(* Correctness                                                              *)

TypeOK ==
  /\ token \in Nat \ {0} /\ acked \in Nat /\ nthr \in Int
  /\ cnt \in [Readers -> Nat] /\ rt \in [Readers -> Nat]
  /\ bmap \subseteq Readers
  /\ rpc \in [Readers -> {"out", "reg", "off", "online", "on", "qs", "unreg"}]
  /\ refs \in [Readers -> SUBSET Objects]
  /\ wpc \in [Writers -> {"idle", "start", "self", "selfst", "acked", "num",
                          "bmap", "cnt", "ack", "free"}]
  /\ wl \in [Writers -> Local]
  /\ pend \in [Writers -> SUBSET Entry]
  /\ live \subseteq Objects /\ freed \subseteq Objects

\* rte_rcu_qsbr_check returns 1 only when "all reader threads have passed
\* through specified number of quiescent states": no reader ever holds a
\* reference to an object that was freed on the strength of it.
GracePeriod == \A r \in Readers : refs[r] \intersect freed = {}

\* acked_token is "least token acked by all the threads": no reader still
\* refers to an object removed under a token up to acked_token, so the early
\* return of rte_rcu_qsbr_check is right, whoever stored acked_token and
\* whatever became of the readers since.
AckedByAll ==
  \A w \in Writers : \A e \in pend[w] :
    e.tok <= acked => \A r \in Readers : e.obj \notin refs[r]

\* A waiting rte_rcu_qsbr_check returns, as long as readers that are online
\* report; readers may come, go offline and unregister meanwhile ("ongoing
\* quiescent state queries will stop waiting for the status from this
\* unregistered reader thread").
WaitEnds ==
  \A w \in Writers : (wpc[w] # "idle" /\ wl[w].wait) ~> (wpc[w] = "idle")

-----------------------------------------------------------------------------
(* The inductive invariant behind GracePeriod and AckedByAll                *)

\* A reader with references is online, with a counter that says so; a reader
\* in the middle of a report has none.
ReaderOK(r) ==
  /\ cnt[r] <= token /\ rt[r] <= token
  /\ rpc[r] \in {"on", "qs"} => cnt[r] >= 1
  /\ rpc[r] \in {"online", "qs"} => rt[r] >= 1
  /\ rpc[r] # "on" => refs[r] = {}
  /\ r \notin bmap <=> rpc[r] \in {"out", "unreg"}
  /\ Attached => rpc[r] \in {"on", "qs"}

InCheck(w) == wpc[w] \in {"acked", "num", "bmap", "cnt", "ack", "free"}
Scanning(w) == wpc[w] \in {"bmap", "cnt", "ack"}

\* What a writer is working on.
WriterOK(w) ==
  /\ wpc[w] \in {"start", "self", "selfst"} \/ InCheck(w) => wl[w].obj \in Objects \ live
  /\ wpc[w] \in {"self", "selfst"} \/ InCheck(w) =>
       [obj |-> wl[w].obj, tok |-> wl[w].tok] \in pend[w]
  /\ wpc[w] \in {"self", "selfst"} => Self[w] \in Readers /\ rpc[Self[w]] = "on"
  /\ wpc[w] = "start" /\ wl[w].sync /\ Self[w] # NoThread => rpc[Self[w]] = "on"
  /\ wpc[w] = "selfst" => refs[Self[w]] = {} /\ rt[Self[w]] >= 1
  /\ wpc[w] = "cnt" => wl[w].map # {}
  /\ wpc[w] = "cnt" /\ wl[w].sel => wl[w].map \subseteq Word(wl[w].word)
  /\ wpc[w] = "ack" => wl[w].map = {} /\ (wl[w].sel => wl[w].word + 1 >= NumElems)
  /\ wpc[w] \in {"idle", "start", "self", "selfst", "acked", "num"} =>
       wl[w].min = 0 /\ wl[w].word = 0
  /\ wpc[w] = "bmap" => wl[w].sel
  /\ Scanning(w) => wl[w].min <= token /\ (Attached => ~ wl[w].sel)

\* The readers a scan has still to look at.
Remaining(w) ==
  IF wpc[w] = "bmap" THEN {r \in Readers : r \div ElmSize >= wl[w].word}
  ELSE wl[w].map \union
         {r \in Readers : wl[w].sel /\ r \div ElmSize > wl[w].word}
Passed(w) == IF Scanning(w) THEN Readers \ Remaining(w) ELSE {}

\* A removed object that still has a reader was removed after that reader's
\* last report.
RefsOld ==
  \A r \in Readers, w \in Writers : \A e \in pend[w] :
    e.obj \in refs[r] => cnt[r] < e.tok

\* The readers that a scan has passed hold none of the objects whose tokens it
\* will acknowledge.
ScanOK(w) ==
  \A r \in Passed(w) :
    /\ wl[w].obj \notin refs[r]
    /\ \A x \in Writers : \A e \in pend[x] :
         wl[w].min = 0 \/ e.tok <= wl[w].min => e.obj \notin refs[r]

\* With the readers attached, no scan passes one without counting it.
Counted(w) == Attached /\ Scanning(w) /\ wl[w].min = 0 => Passed(w) = {}

RcuInv ==
  /\ TypeOK
  /\ acked <= token
  /\ Attached => nthr = MaxThreads
  /\ \A r \in Readers : ReaderOK(r)
  /\ \A w \in Writers : WriterOK(w) /\ ScanOK(w) /\ Counted(w)
  /\ \A w \in Writers : \A e \in pend[w] : e.obj \notin live /\ e.tok <= token
  /\ live \intersect freed = {}
  /\ RefsOld /\ AckedByAll /\ GracePeriod
  /\ \A w \in Writers : wpc[w] = "free" => \A r \in Readers : wl[w].obj \notin refs[r]
=============================================================================
