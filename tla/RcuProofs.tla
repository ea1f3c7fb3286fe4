----------------------------- MODULE RcuProofs -----------------------------
(***************************************************************************)
(* RcuInv is inductive for any number of readers, writers and objects, as   *)
(* long as there is a single writer or the readers stay online.             *)
(***************************************************************************)
EXTENDS RcuDq, WellFoundedInduction, FiniteSetTheorems, TLAPS

\* One writer only, or readers that never leave.
Covered == Attached \/ \A w, x \in Writers : w = x

\* The writers other than w do not move.
OthersSame(w) ==
  \A x \in Writers \ {w} : wpc'[x] = wpc[x] /\ wl'[x] = wl[x]

\* A reader gets references only to objects that are live, and does not touch
\* its counter while it has any to a removed one.
RefStep ==
  \A r \in Readers : \A o \in Objects \ live :
    o \in refs'[r] => o \in refs[r] /\ cnt'[r] = cnt[r]

-----------------------------------------------------------------------------
(* The words of the bitmap hold all readers                                 *)

\* Dividing by a positive number: the word of a thread id, and the number of
\* words computed by rte_rcu_qsbr_init.
LEMMA DivBound ==
  ASSUME NEW a \in Nat, NEW b \in Nat \ {0}
  PROVE  /\ a \div b \in Nat
         /\ b * (a \div b) <= a
         /\ a < b * (a \div b) + b
  <1>1. /\ a \div b \in Int /\ a % b \in 0 .. (b - 1)
        /\ a = b * (a \div b) + (a % b)
    BY SMT
  <1>2. b * (a \div b) <= a /\ a < b * (a \div b) + b
    BY <1>1, SMT
  <1>3. a \div b >= 0
    <2>1. SUFFICES ASSUME a \div b <= 0 - 1 PROVE FALSE
      BY <1>1, SMT
    <2>2. b * (a \div b) <= b * (0 - 1)
      BY <1>1, <2>1, SMT
    <2> QED BY <1>2, <2>2, SMT
  <1> QED BY <1>1, <1>2, <1>3, SMT

\* rte_rcu_qsbr_init: num_elems words are enough for all thread ids.
LEMMA WordsSuffice ==
  ASSUME NEW r \in Readers
  PROVE  r \div ElmSize \in Nat /\ r \div ElmSize < NumElems
  <1> DEFINE q == r \div ElmSize
             n == NumElems
  <1>1. /\ r \in Nat /\ r < MaxThreads /\ ElmSize \in Nat \ {0}
        /\ MaxThreads \in Nat /\ MaxThreads + ElmSize - 1 \in Nat
    BY RcuThreads, SMT DEF Readers
  <1>2. q \in Nat /\ ElmSize * q <= r /\ r < ElmSize * q + ElmSize
    BY <1>1, DivBound, Zenon
  <1>3. n \in Nat /\ MaxThreads + ElmSize - 1 < ElmSize * n + ElmSize
    BY <1>1, DivBound, Zenon DEF NumElems
  <1> HIDE DEF q, n
  <1>4. SUFFICES ASSUME n <= q PROVE FALSE
    BY <1>2, <1>3, SMT DEF q, n
  <1>5. ElmSize * n <= ElmSize * q
    BY <1>1, <1>2, <1>3, <1>4, SMT
  <1>6. ElmSize * n \in Int /\ ElmSize * q \in Int
    BY <1>1, <1>2, <1>3, SMT
  <1> QED BY <1>1, <1>2, <1>3, <1>5, <1>6, SMT

\* rte_ctz64 of a word that is not zero is the number of one of its bits.
LEMMA FirstBitIn ==
  ASSUME NEW map \in SUBSET Readers, map # {}
  PROVE  FirstBit(map) \in map
  <1>1. map \subseteq Nat
    BY RcuThreads, SMT DEF Readers
  <1>2. PICK x \in map : \A y \in map : ~ (<<y, x>> \in OpToRel(<, Nat))
    BY <1>1, NatLessThanWellFounded, WFMin, Zenon
  <1>3. ASSUME NEW y \in map PROVE x <= y
    <2>1. x \in Nat /\ y \in Nat
      BY <1>1, Zenon
    <2>2. ~ (y < x)
      BY <1>2, <2>1, Zenon DEF OpToRel
    <2> QED BY <2>1, <2>2, SMT
  <1> QED BY <1>3, Zenon DEF FirstBit

-----------------------------------------------------------------------------
\* rte_rcu_qsbr_init establishes the invariant.
LEMMA InitInv == Init => RcuInv
  <1> SUFFICES ASSUME Init PROVE RcuInv
    BY Zenon
  <1> USE RcuThreads, RcuFlags DEF Init, InitWith
  <1>1. NoLocal \in Local
    BY Zenon DEF NoLocal, Local
  <1>2. TypeOK
    BY <1>1 DEF TypeOK
  <1>3. \A r \in Readers : ReaderOK(r)
    BY DEF ReaderOK
  <1>4. \A w \in Writers : WriterOK(w) /\ ScanOK(w) /\ Counted(w)
    BY Zenon
       DEF WriterOK, ScanOK, Counted, Passed, Scanning, InCheck, NoLocal
  <1>5. RefsOld /\ AckedByAll /\ GracePeriod
    BY Zenon DEF RefsOld, AckedByAll, GracePeriod
  <1> QED BY <1>2, <1>3, <1>4, <1>5 DEF RcuInv

-----------------------------------------------------------------------------
(* Steps of readers                                                         *)

\* A step in which no writer moves, or one moves that is not scanning, and in
\* which the readers keep to RefStep, preserves what the invariant says of
\* removed objects.
LEMMA ReaderStep ==
  ASSUME RcuInv, TypeOK', RefStep,
         UNCHANGED <<token, acked, wl, pend, live, freed>>,
         \A w \in Writers :
           wpc'[w] = wpc[w] \/ (~ InCheck(w) /\ wpc'[w] \in {"selfst", "acked"})
  PROVE  /\ (acked <= token)'
         /\ \A w \in Writers : ScanOK(w)' /\ Counted(w)'
         /\ (\A w \in Writers : \A e \in pend[w] : e.obj \notin live /\ e.tok <= token)'
         /\ (live \intersect freed = {})'
         /\ RefsOld' /\ AckedByAll' /\ GracePeriod'
         /\ (\A w \in Writers : wpc[w] = "free" => \A r \in Readers : wl[w].obj \notin refs[r])'
  <1>1. TypeOK /\ (\A w \in Writers : \A e \in pend[w] : e.obj \in Objects \ live)
    BY DEF RcuInv, TypeOK, Entry
  <1>2. \A w \in Writers : Passed(w)' = Passed(w) /\ Scanning(w)' = Scanning(w)
    BY DEF Passed, Scanning, Remaining, InCheck
  <1>3. \A w \in Writers : InCheck(w) => wl[w].obj \in Objects \ live
    BY Zenon DEF RcuInv, WriterOK
  <1>4. \A w \in Writers : ScanOK(w)'
    <2> SUFFICES ASSUME NEW w \in Writers, NEW r \in Passed(w)
                 PROVE  (/\ wl[w].obj \notin refs[r]
                         /\ \A x \in Writers : \A e \in pend[x] :
                              wl[w].min = 0 \/ e.tok <= wl[w].min => e.obj \notin refs[r])'
      BY <1>2, Zenon DEF ScanOK
    <2>1. r \in Readers /\ InCheck(w)
      BY Zenon DEF Passed, Scanning, InCheck
    <2>2. ScanOK(w)
      BY Zenon DEF RcuInv
    <2> QED BY <1>1, <1>3, <2>1, <2>2, Zenon DEF ScanOK, RefStep
  <1>5. \A w \in Writers : Counted(w)'
    BY <1>2, Zenon DEF RcuInv, Counted
  <1>6. RefsOld'
    BY <1>1, Zenon DEF RcuInv, RefsOld, RefStep
  <1>7. AckedByAll'
    BY <1>1, Zenon DEF RcuInv, AckedByAll, RefStep
  <1>8. GracePeriod'
    <2>1. freed \subseteq Objects \ live
      BY <1>1, Zenon DEF RcuInv, TypeOK
    <2> QED BY <2>1, Zenon DEF RcuInv, GracePeriod, RefStep
  <1>9. (\A w \in Writers : wpc[w] = "free" => \A r \in Readers : wl[w].obj \notin refs[r])'
    BY <1>3, Zenon DEF RcuInv, RefStep, InCheck
  <1> QED BY <1>4, <1>5, <1>6, <1>7, <1>8, <1>9, Zenon DEF RcuInv

\* What a step of reader r has to show; the rest follows from ReaderStep.
LEMMA ReaderFrame ==
  ASSUME RcuInv, NEW r \in Readers, TypeOK', RefStep, ReaderOK(r)',
         UNCHANGED <<token, acked, wpc, wl, pend, live, freed>>,
         \A q \in Readers \ {r} :
           /\ cnt'[q] = cnt[q] /\ rt'[q] = rt[q] /\ rpc'[q] = rpc[q] /\ refs'[q] = refs[q]
           /\ q \in bmap' <=> q \in bmap,
         Attached => nthr' = nthr,
         \A w \in Writers : Self[w] = r =>
           /\ wpc[w] \notin {"self", "selfst"}
           /\ wpc[w] = "start" /\ wl[w].sync => rpc'[r] = "on"
  PROVE  RcuInv'
  <1>1. \A q \in Readers : ReaderOK(q)'
    BY Zenon DEF RcuInv, ReaderOK
  <1>2. ASSUME NEW w \in Writers PROVE WriterOK(w)'
    <2>1. WriterOK(w) /\ (Self[w] # NoThread => Self[w] \in Readers)
      BY RcuThreads, Zenon DEF RcuInv
    <2>2. CASE Self[w] = r
      BY <2>1, <2>2, Zenon DEF WriterOK, InCheck, Scanning
    <2>3. CASE Self[w] # r
      BY <2>1, <2>3, Zenon DEF WriterOK, InCheck, Scanning
    <2> QED BY <2>2, <2>3, Zenon
  <1>3. (Attached => nthr = MaxThreads)'
    BY Zenon DEF RcuInv
  <1> QED BY <1>1, <1>2, <1>3, ReaderStep, Zenon DEF RcuInv

\* Every step of a reader preserves the invariant.
LEMMA ReaderInv ==
  ASSUME RcuInv, NEW r \in Readers, RStep(r) \/ RCall(r)
  PROVE  RcuInv'
  <1> USE DEF RGoto, wvars
  <1>1. /\ TypeOK /\ ReaderOK(r) /\ token \in Nat \ {0}
        /\ refs \in [Readers -> SUBSET Objects] /\ cnt \in [Readers -> Nat]
        /\ rt \in [Readers -> Nat]
    BY Zenon DEF RcuInv, TypeOK
  <1>2. \A w \in Writers : Self[w] = r =>
          /\ wpc[w] \in {"self", "selfst"} => rpc[r] = "on"
          /\ wpc[w] = "start" /\ wl[w].sync => rpc[r] = "on"
    <2>1. r # NoThread
      BY RcuThreads, SMT DEF NoThread, Readers
    <2>2. \A w \in Writers : WriterOK(w)
      BY Zenon DEF RcuInv
    <2> QED BY <2>1, <2>2, Zenon DEF WriterOK
  <1>3. ASSUME Register(r) PROVE RcuInv'
    <2>1. TypeOK'
      BY <1>1, <1>3, Zenon DEF Register, TypeOK
    <2>2. RefStep
      BY <1>1, <1>3, Zenon DEF Register, RefStep, TypeOK, ReaderOK
    <2>3. ReaderOK(r)'
      BY <1>1, <1>3, Zenon DEF Register, ReaderOK, TypeOK
    <2>4. \A w \in Writers : Self[w] = r =>
            /\ wpc[w] \notin {"self", "selfst"}
            /\ wpc[w] = "start" /\ wl[w].sync => rpc'[r] = "on"
      BY <1>1, <1>2, <1>3, Zenon DEF Register, Free
    <2>5. Attached => nthr' = nthr
      BY <1>1, <1>3, Zenon DEF Register, ReaderOK
    <2>6. \A q \in Readers \ {r} :
            /\ cnt'[q] = cnt[q] /\ rt'[q] = rt[q] /\ rpc'[q] = rpc[q] /\ refs'[q] = refs[q]
            /\ q \in bmap' <=> q \in bmap
      BY <1>1, <1>3, Zenon DEF Register, TypeOK
    <2>7. UNCHANGED <<token, acked, wpc, wl, pend, live, freed>>
      BY <1>3, Zenon DEF Register
    <2> QED BY <2>1, <2>2, <2>3, <2>4, <2>5, <2>6, <2>7, ReaderFrame, Zenon
  <1>4. ASSUME RegisterCount(r) PROVE RcuInv'
    <2>1. TypeOK'
      BY <1>1, <1>4 DEF RegisterCount, TypeOK
    <2>2. RefStep
      BY <1>1, <1>4, Zenon DEF RegisterCount, RefStep, TypeOK, ReaderOK
    <2>3. ReaderOK(r)'
      BY <1>1, <1>4, Zenon DEF RegisterCount, ReaderOK, TypeOK
    <2>4. \A w \in Writers : Self[w] = r =>
            /\ wpc[w] \notin {"self", "selfst"}
            /\ wpc[w] = "start" /\ wl[w].sync => rpc'[r] = "on"
      BY <1>1, <1>2, <1>4, Zenon DEF RegisterCount, Free
    <2>5. Attached => nthr' = nthr
      BY <1>1, <1>4, Zenon DEF RegisterCount, ReaderOK
    <2>6. \A q \in Readers \ {r} :
            /\ cnt'[q] = cnt[q] /\ rt'[q] = rt[q] /\ rpc'[q] = rpc[q] /\ refs'[q] = refs[q]
            /\ q \in bmap' <=> q \in bmap
      BY <1>1, <1>4, Zenon DEF RegisterCount, TypeOK
    <2>7. UNCHANGED <<token, acked, wpc, wl, pend, live, freed>>
      BY <1>4, Zenon DEF RegisterCount
    <2> QED BY <2>1, <2>2, <2>3, <2>4, <2>5, <2>6, <2>7, ReaderFrame, Zenon
  <1>5. ASSUME Unregister(r) PROVE RcuInv'
    <2>1. TypeOK'
      BY <1>1, <1>5, Zenon DEF Unregister, TypeOK
    <2>2. RefStep
      BY <1>1, <1>5, Zenon DEF Unregister, RefStep, TypeOK, ReaderOK
    <2>3. ReaderOK(r)'
      BY <1>1, <1>5, Zenon DEF Unregister, ReaderOK, TypeOK
    <2>4. \A w \in Writers : Self[w] = r =>
            /\ wpc[w] \notin {"self", "selfst"}
            /\ wpc[w] = "start" /\ wl[w].sync => rpc'[r] = "on"
      BY <1>1, <1>2, <1>5, Zenon DEF Unregister, Free
    <2>5. Attached => nthr' = nthr
      BY <1>1, <1>5, Zenon DEF Unregister, ReaderOK
    <2>6. \A q \in Readers \ {r} :
            /\ cnt'[q] = cnt[q] /\ rt'[q] = rt[q] /\ rpc'[q] = rpc[q] /\ refs'[q] = refs[q]
            /\ q \in bmap' <=> q \in bmap
      BY <1>1, <1>5, Zenon DEF Unregister, TypeOK
    <2>7. UNCHANGED <<token, acked, wpc, wl, pend, live, freed>>
      BY <1>5, Zenon DEF Unregister
    <2> QED BY <2>1, <2>2, <2>3, <2>4, <2>5, <2>6, <2>7, ReaderFrame, Zenon
  <1>6. ASSUME UnregisterCount(r) PROVE RcuInv'
    <2>1. TypeOK'
      BY <1>1, <1>6 DEF UnregisterCount, TypeOK
    <2>2. RefStep
      BY <1>1, <1>6, Zenon DEF UnregisterCount, RefStep, TypeOK, ReaderOK
    <2>3. ReaderOK(r)'
      BY <1>1, <1>6, Zenon DEF UnregisterCount, ReaderOK, TypeOK
    <2>4. \A w \in Writers : Self[w] = r =>
            /\ wpc[w] \notin {"self", "selfst"}
            /\ wpc[w] = "start" /\ wl[w].sync => rpc'[r] = "on"
      BY <1>1, <1>2, <1>6, Zenon DEF UnregisterCount, Free
    <2>5. Attached => nthr' = nthr
      BY <1>1, <1>6, Zenon DEF UnregisterCount, ReaderOK
    <2>6. \A q \in Readers \ {r} :
            /\ cnt'[q] = cnt[q] /\ rt'[q] = rt[q] /\ rpc'[q] = rpc[q] /\ refs'[q] = refs[q]
            /\ q \in bmap' <=> q \in bmap
      BY <1>1, <1>6, Zenon DEF UnregisterCount, TypeOK
    <2>7. UNCHANGED <<token, acked, wpc, wl, pend, live, freed>>
      BY <1>6, Zenon DEF UnregisterCount
    <2> QED BY <2>1, <2>2, <2>3, <2>4, <2>5, <2>6, <2>7, ReaderFrame, Zenon
  <1>7. ASSUME OnlineLoad(r) PROVE RcuInv'
    <2>1. TypeOK'
      BY <1>1, <1>7, Zenon DEF OnlineLoad, TypeOK
    <2>2. RefStep
      BY <1>1, <1>7, Zenon DEF OnlineLoad, RefStep, TypeOK, ReaderOK
    <2>3. ReaderOK(r)'
      BY <1>1, <1>7 DEF OnlineLoad, ReaderOK, TypeOK
    <2>4. \A w \in Writers : Self[w] = r =>
            /\ wpc[w] \notin {"self", "selfst"}
            /\ wpc[w] = "start" /\ wl[w].sync => rpc'[r] = "on"
      BY <1>1, <1>2, <1>7, Zenon DEF OnlineLoad, Free
    <2>5. Attached => nthr' = nthr
      BY <1>1, <1>7, Zenon DEF OnlineLoad, ReaderOK
    <2>6. \A q \in Readers \ {r} :
            /\ cnt'[q] = cnt[q] /\ rt'[q] = rt[q] /\ rpc'[q] = rpc[q] /\ refs'[q] = refs[q]
            /\ q \in bmap' <=> q \in bmap
      BY <1>1, <1>7, Zenon DEF OnlineLoad, TypeOK
    <2>7. UNCHANGED <<token, acked, wpc, wl, pend, live, freed>>
      BY <1>7, Zenon DEF OnlineLoad
    <2> QED BY <2>1, <2>2, <2>3, <2>4, <2>5, <2>6, <2>7, ReaderFrame, Zenon
  <1>8. ASSUME OnlineStore(r) PROVE RcuInv'
    <2>1. TypeOK'
      BY <1>1, <1>8, Zenon DEF OnlineStore, TypeOK
    <2>2. RefStep
      BY <1>1, <1>8, Zenon DEF OnlineStore, RefStep, TypeOK, ReaderOK
    <2>3. ReaderOK(r)'
      BY <1>1, <1>8, Zenon DEF OnlineStore, ReaderOK, TypeOK
    <2>4. \A w \in Writers : Self[w] = r =>
            /\ wpc[w] \notin {"self", "selfst"}
            /\ wpc[w] = "start" /\ wl[w].sync => rpc'[r] = "on"
      BY <1>1, <1>2, <1>8, Zenon DEF OnlineStore, Free
    <2>5. Attached => nthr' = nthr
      BY <1>1, <1>8, Zenon DEF OnlineStore, ReaderOK
    <2>6. \A q \in Readers \ {r} :
            /\ cnt'[q] = cnt[q] /\ rt'[q] = rt[q] /\ rpc'[q] = rpc[q] /\ refs'[q] = refs[q]
            /\ q \in bmap' <=> q \in bmap
      BY <1>1, <1>8, Zenon DEF OnlineStore, TypeOK
    <2>7. UNCHANGED <<token, acked, wpc, wl, pend, live, freed>>
      BY <1>8, Zenon DEF OnlineStore
    <2> QED BY <2>1, <2>2, <2>3, <2>4, <2>5, <2>6, <2>7, ReaderFrame, Zenon
  <1>9. ASSUME Offline(r) PROVE RcuInv'
    <2>1. TypeOK'
      BY <1>1, <1>9, Zenon DEF Offline, TypeOK
    <2>2. RefStep
      BY <1>1, <1>9, Zenon DEF Offline, RefStep, TypeOK, ReaderOK
    <2>3. ReaderOK(r)'
      BY <1>1, <1>9 DEF Offline, ReaderOK, TypeOK
    <2>4. \A w \in Writers : Self[w] = r =>
            /\ wpc[w] \notin {"self", "selfst"}
            /\ wpc[w] = "start" /\ wl[w].sync => rpc'[r] = "on"
      BY <1>1, <1>2, <1>9, Zenon DEF Offline, Free
    <2>5. Attached => nthr' = nthr
      BY <1>1, <1>9, Zenon DEF Offline, ReaderOK
    <2>6. \A q \in Readers \ {r} :
            /\ cnt'[q] = cnt[q] /\ rt'[q] = rt[q] /\ rpc'[q] = rpc[q] /\ refs'[q] = refs[q]
            /\ q \in bmap' <=> q \in bmap
      BY <1>1, <1>9, Zenon DEF Offline, TypeOK
    <2>7. UNCHANGED <<token, acked, wpc, wl, pend, live, freed>>
      BY <1>9, Zenon DEF Offline
    <2> QED BY <2>1, <2>2, <2>3, <2>4, <2>5, <2>6, <2>7, ReaderFrame, Zenon
  <1>10. ASSUME NEW o \in Objects, Reference(r, o) PROVE RcuInv'
    <2>1. TypeOK'
      BY <1>1, <1>10, Zenon DEF Reference, TypeOK
    <2>2. RefStep
      BY <1>1, <1>10, Zenon DEF Reference, RefStep, TypeOK, ReaderOK
    <2>3. ReaderOK(r)'
      BY <1>1, <1>10, Zenon DEF Reference, ReaderOK, TypeOK
    <2>4. \A w \in Writers : Self[w] = r =>
            /\ wpc[w] \notin {"self", "selfst"}
            /\ wpc[w] = "start" /\ wl[w].sync => rpc'[r] = "on"
      BY <1>1, <1>2, <1>10, Zenon DEF Reference, Free
    <2>5. Attached => nthr' = nthr
      BY <1>1, <1>10, Zenon DEF Reference, ReaderOK
    <2>6. \A q \in Readers \ {r} :
            /\ cnt'[q] = cnt[q] /\ rt'[q] = rt[q] /\ rpc'[q] = rpc[q] /\ refs'[q] = refs[q]
            /\ q \in bmap' <=> q \in bmap
      BY <1>1, <1>10, Zenon DEF Reference, TypeOK
    <2>7. UNCHANGED <<token, acked, wpc, wl, pend, live, freed>>
      BY <1>10, Zenon DEF Reference
    <2> QED BY <2>1, <2>2, <2>3, <2>4, <2>5, <2>6, <2>7, ReaderFrame, Zenon
  <1>11. ASSUME QuiescentLoad(r) PROVE RcuInv'
    <2>1. TypeOK'
      BY <1>1, <1>11, Zenon DEF QuiescentLoad, TypeOK
    <2>2. RefStep
      BY <1>1, <1>11, Zenon DEF QuiescentLoad, RefStep, TypeOK, ReaderOK
    <2>3. ReaderOK(r)'
      BY <1>1, <1>11 DEF QuiescentLoad, ReaderOK, TypeOK
    <2>4. \A w \in Writers : Self[w] = r =>
            /\ wpc[w] \notin {"self", "selfst"}
            /\ wpc[w] = "start" /\ wl[w].sync => rpc'[r] = "on"
      BY <1>1, <1>2, <1>11, Zenon DEF QuiescentLoad, Free
    <2>5. Attached => nthr' = nthr
      BY <1>1, <1>11, Zenon DEF QuiescentLoad, ReaderOK
    <2>6. \A q \in Readers \ {r} :
            /\ cnt'[q] = cnt[q] /\ rt'[q] = rt[q] /\ rpc'[q] = rpc[q] /\ refs'[q] = refs[q]
            /\ q \in bmap' <=> q \in bmap
      BY <1>1, <1>11, Zenon DEF QuiescentLoad, TypeOK
    <2>7. UNCHANGED <<token, acked, wpc, wl, pend, live, freed>>
      BY <1>11, Zenon DEF QuiescentLoad
    <2> QED BY <2>1, <2>2, <2>3, <2>4, <2>5, <2>6, <2>7, ReaderFrame, Zenon
  <1>12. ASSUME QuiescentStore(r) PROVE RcuInv'
    <2>1. TypeOK'
      BY <1>1, <1>12, Zenon DEF QuiescentStore, TypeOK
    <2>2. RefStep
      BY <1>1, <1>12, Zenon DEF QuiescentStore, RefStep, TypeOK, ReaderOK
    <2>3. ReaderOK(r)'
      BY <1>1, <1>12, Zenon DEF QuiescentStore, ReaderOK, TypeOK
    <2>4. \A w \in Writers : Self[w] = r =>
            /\ wpc[w] \notin {"self", "selfst"}
            /\ wpc[w] = "start" /\ wl[w].sync => rpc'[r] = "on"
      BY <1>1, <1>2, <1>12, Zenon DEF QuiescentStore, Free
    <2>5. Attached => nthr' = nthr
      BY <1>1, <1>12, Zenon DEF QuiescentStore, ReaderOK
    <2>6. \A q \in Readers \ {r} :
            /\ cnt'[q] = cnt[q] /\ rt'[q] = rt[q] /\ rpc'[q] = rpc[q] /\ refs'[q] = refs[q]
            /\ q \in bmap' <=> q \in bmap
      BY <1>1, <1>12, Zenon DEF QuiescentStore, TypeOK
    <2>7. UNCHANGED <<token, acked, wpc, wl, pend, live, freed>>
      BY <1>12, Zenon DEF QuiescentStore
    <2> QED BY <2>1, <2>2, <2>3, <2>4, <2>5, <2>6, <2>7, ReaderFrame, Zenon
  <1> QED BY <1>3, <1>4, <1>5, <1>6, <1>7, <1>8, <1>9, <1>10, <1>11, <1>12,
             Zenon
             DEF RStep, RCall, Report

-----------------------------------------------------------------------------
(* Steps of writers                                                         *)

\* What a step of writer w that touches only its own locals, or removes an
\* object from the live ones, has to show.
LEMMA WriterFrame ==
  ASSUME RcuInv, NEW w \in Writers, TypeOK', OthersSame(w),
         UNCHANGED <<token, acked, cnt, bmap, nthr, rpc, rt, refs, pend, freed>>,
         live' \subseteq live,
         WriterOK(w)', ScanOK(w)', Counted(w)',
         wpc'[w] = "free" => \A r \in Readers : wl'[w].obj \notin refs[r]
  PROVE  RcuInv'
  <1>1. \A r \in Readers : ReaderOK(r)'
    BY Zenon DEF RcuInv, ReaderOK
  <1>2. ASSUME NEW x \in Writers, x # w
        PROVE  WriterOK(x)' /\ ScanOK(x)' /\ Counted(x)'
    <2>1. wpc'[x] = wpc[x] /\ wl'[x] = wl[x] /\ WriterOK(x) /\ ScanOK(x) /\ Counted(x)
      BY <1>2, Zenon DEF OthersSame, RcuInv
    <2>2. Passed(x)' = Passed(x) /\ Scanning(x)' = Scanning(x) /\ InCheck(x)' = InCheck(x)
      BY <2>1, Zenon DEF Passed, Scanning, Remaining, InCheck
    <2>3. WriterOK(x)'
      BY <2>1, <2>2, Zenon DEF WriterOK
    <2>4. ScanOK(x)'
      BY <2>1, <2>2, Zenon DEF ScanOK
    <2> QED BY <2>1, <2>2, <2>3, <2>4, Zenon DEF Counted
  <1>3. RefsOld' /\ AckedByAll' /\ GracePeriod' /\ (live \intersect freed = {})'
    BY Zenon DEF RcuInv, RefsOld, AckedByAll, GracePeriod
  <1>4. (\A x \in Writers : \A e \in pend[x] : e.obj \notin live /\ e.tok <= token)'
    BY Zenon DEF RcuInv
  <1>5. (\A x \in Writers : wpc[x] = "free" => \A r \in Readers : wl[x].obj \notin refs[r])'
    BY Zenon DEF RcuInv, OthersSame
  <1>6. (acked <= token)' /\ (Attached => nthr = MaxThreads)'
    BY Zenon DEF RcuInv
  <1> QED BY <1>1, <1>2, <1>3, <1>4, <1>5, <1>6, Zenon DEF RcuInv

\* What every proof below starts from.
LEMMA WriterFacts ==
  ASSUME RcuInv, NEW w \in Writers
  PROVE  /\ TypeOK /\ WriterOK(w) /\ ScanOK(w) /\ Counted(w)
         /\ wl \in [Writers -> Local] /\ wl[w] \in Local /\ NoLocal \in Local
         /\ wpc \in [Writers -> {"idle", "start", "self", "selfst", "acked", "num",
                                 "bmap", "cnt", "ack", "free"}]
         /\ pend \in [Writers -> SUBSET Entry]
         /\ token \in Nat /\ Self[w] \in Readers \union {NoThread}
  BY RcuThreads, Zenon DEF RcuInv, TypeOK, NoLocal, Local

\* Removing an object and calling a check start with fresh locals.
LEMMA CallInv ==
  ASSUME RcuInv, NEW w \in Writers, WCall(w)
  PROVE  RcuInv'
  <1> USE WriterFacts DEF WGoto, rvars
  <1>1. ASSUME NEW o \in Objects, NEW sync \in BOOLEAN, Remove(w, o, sync)
        PROVE  RcuInv'
    <2>1. /\ wl'[w] = [NoLocal EXCEPT !.obj = o, !.sync = sync]
          /\ wl'[w] \in Local /\ wpc'[w] = "start" /\ OthersSame(w)
      BY <1>1, Zenon DEF Remove, OthersSame, NoLocal, Local
    <2>2. TypeOK'
      BY <1>1, <2>1, Zenon DEF Remove, TypeOK
    <2>3. /\ wl'[w].obj = o /\ wl'[w].min = 0 /\ wl'[w].word = 0 /\ wl'[w].sync = sync
      BY <2>1, Zenon DEF NoLocal
    <2>4. WriterOK(w)'
      BY <1>1, <2>1, <2>3 DEF Remove, WriterOK, InCheck, Scanning
    <2>5. ScanOK(w)' /\ Counted(w)'
      BY <2>1, Zenon DEF ScanOK, Counted, Passed, Scanning
    <2> QED BY <1>1, <2>1, <2>2, <2>4, <2>5, WriterFrame, Zenon DEF Remove
  <1>2. ASSUME NEW e \in pend[w], NEW wait \in BOOLEAN, Check(w, e, wait)
        PROVE  RcuInv'
    <2>1. e \in Entry /\ e.obj \in Objects \ live
      BY DEF RcuInv, Entry
    <2>2. /\ wl'[w] = [NoLocal EXCEPT !.obj = e.obj, !.tok = e.tok, !.wait = wait]
          /\ wpc'[w] = "acked" /\ OthersSame(w)
      BY <1>2, Zenon DEF Check, OthersSame
    <2>3. wl'[w] \in Local
      BY <2>1, <2>2, Zenon DEF NoLocal, Local, Entry
    <2>4. TypeOK'
      BY <1>2, <2>2, <2>3, Zenon DEF Check, TypeOK
    <2>5. /\ wl'[w].obj = e.obj /\ wl'[w].tok = e.tok /\ wl'[w].min = 0 /\ wl'[w].word = 0
          /\ [obj |-> e.obj, tok |-> e.tok] = e
      BY <2>1, <2>2, Zenon DEF NoLocal, Entry
    <2>6. WriterOK(w)'
      BY <1>2, <2>1, <2>2, <2>5, Zenon DEF Check, WriterOK, InCheck, Scanning
    <2>7. ScanOK(w)' /\ Counted(w)'
      BY <2>2, Zenon DEF ScanOK, Counted, Passed, Scanning
    <2> QED BY <1>2, <2>2, <2>4, <2>6, <2>7, WriterFrame, Zenon DEF Check
  <1> QED BY <1>1, <1>2, Zenon DEF WCall

\* The steps of rte_rcu_qsbr_check up to the end of the scan.
LEMMA ScanInv ==
  ASSUME RcuInv, NEW w \in Writers,
         \/ LoadAcked(w) \/ LoadNum(w) \/ LoadBmap(w)
         \/ LoadCnt(w) \/ LoadCntBehind(w)
  PROVE  RcuInv'
  <1> USE WriterFacts DEF WGoto, rvars
  <1> DEFINE me == [obj |-> wl[w].obj, tok |-> wl[w].tok]
  <1>1. \A r \in Readers : r \div ElmSize \in Nat /\ r \div ElmSize < NumElems
    BY WordsSuffice, Zenon
  <1>2. NumElems \in Nat /\ 0 \in Readers
    <2>1. MaxThreads + ElmSize - 1 \in Nat /\ ElmSize \in Nat \ {0} /\ 0 \in Readers
      BY RcuThreads, SMT DEF Readers
    <2> QED BY <2>1, DivBound, Zenon DEF NumElems
  <1>3. ASSUME LoadAcked(w) PROVE RcuInv'
    <2>1. wl' = wl /\ wpc'[w] = (IF wl[w].tok <= acked THEN "free" ELSE "num") /\ OthersSame(w)
      BY <1>3, Zenon DEF LoadAcked, OthersSame
    <2>2. TypeOK'
      BY <1>3, Zenon DEF LoadAcked, TypeOK
    <2>3. WriterOK(w)'
      BY <1>3, <2>1, Zenon DEF LoadAcked, WriterOK, InCheck, Scanning
    <2>4. ScanOK(w)' /\ Counted(w)'
      BY <2>1, Zenon DEF ScanOK, Counted, Passed, Scanning
    <2>5. wpc'[w] = "free" => \A r \in Readers : wl'[w].obj \notin refs[r]
      <3>1. me \in pend[w] /\ me.obj = wl[w].obj /\ me.tok = wl[w].tok
        BY <1>3, Zenon DEF LoadAcked, WriterOK, InCheck
      <3> HIDE DEF me
      <3> QED BY <2>1, <3>1, Zenon DEF RcuInv, AckedByAll
    <2> QED BY <1>3, <2>1, <2>2, <2>3, <2>4, <2>5, WriterFrame, Zenon
               DEF LoadAcked
  <1>4. ASSUME LoadNum(w) PROVE RcuInv'
    <2> DEFINE all == nthr = MaxThreads
    <2>1. /\ wl'[w] = [wl[w] EXCEPT !.sel = ~ all, !.map = IF all THEN Readers ELSE {}]
          /\ wpc'[w] = (IF all THEN "cnt" ELSE "bmap") /\ OthersSame(w)
      BY <1>4, Zenon DEF LoadNum, OthersSame
    <2>2. /\ wl'[w].obj = wl[w].obj /\ wl'[w].tok = wl[w].tok
          /\ wl'[w].sync = wl[w].sync /\ wl'[w].wait = wl[w].wait
          /\ wl'[w].word = wl[w].word /\ wl'[w].min = wl[w].min
          /\ wl'[w].sel = (~ all) /\ wl'[w].map = (IF all THEN Readers ELSE {})
          /\ wl'[w] \in Local
      BY <2>1, Zenon DEF Local
    <2>3. TypeOK'
      BY <1>4, <2>2, Zenon DEF LoadNum, TypeOK
    <2>4. WriterOK(w)'
      <3>1. /\ wpc[w] = "num" /\ pend' = pend /\ live' = live /\ token' = token
            /\ wl[w].word = 0 /\ wl[w].min = 0 /\ (Attached => all)
        BY <1>4, Zenon DEF LoadNum, WriterOK, RcuInv
      <3>2. CASE all
        <4>1. wpc'[w] = "cnt" /\ ~ wl'[w].sel /\ wl'[w].map = Readers
          BY <2>1, <2>2, <3>2, Zenon
        <4> HIDE DEF all
        <4> QED BY <1>2, <2>2, <3>1, <4>1 DEF WriterOK, InCheck, Scanning
      <3>3. CASE ~ all
        <4>1. wpc'[w] = "bmap" /\ wl'[w].sel
          BY <2>1, <2>2, <3>3, Zenon
        <4> HIDE DEF all
        <4> QED BY <2>2, <3>1, <3>3, <4>1 DEF WriterOK, InCheck, Scanning
      <3> QED BY <3>2, <3>3, Zenon
    <2>5. Passed(w)' = {}
      <3>1. wl[w].word = 0
        BY <1>4, Zenon DEF LoadNum, WriterOK
      <3> QED BY <1>1, <2>1, <2>2, <3>1 DEF Passed, Remaining, Scanning
    <2>6. ScanOK(w)' /\ Counted(w)'
      BY <2>5, Zenon DEF ScanOK, Counted
    <2> QED BY <1>4, <2>1, <2>3, <2>4, <2>6, WriterFrame, Zenon DEF LoadNum
  <1>5. ASSUME LoadBmap(w) PROVE RcuInv'
    <2> DEFINE map == bmap \intersect Word(wl[w].word)
    <2>1. /\ wl'[w] = [wl[w] EXCEPT !.map = map, !.word = ScanWord(wl[w], map)]
          /\ wpc'[w] = ScanAt(wl[w], map) /\ OthersSame(w)
      BY <1>5, Zenon DEF LoadBmap, OthersSame
    <2>2. /\ wpc[w] = "bmap" /\ map \subseteq Readers /\ map \subseteq Word(wl[w].word)
          /\ wl[w].word \in Nat /\ wl[w].sel
      BY <1>5, Zenon DEF LoadBmap, Word, WriterOK, Local
    <2>3. \A r \in Readers : (r \in Word(wl[w].word) <=> r \div ElmSize = wl[w].word)
                             /\ (r \in map <=> r \in bmap /\ r \div ElmSize = wl[w].word)
      BY Zenon DEF Word
    <2> HIDE DEF map
    <2>4. /\ ScanWord(wl[w], map) \in Nat
          /\ wl'[w].obj = wl[w].obj /\ wl'[w].tok = wl[w].tok
          /\ wl'[w].sync = wl[w].sync /\ wl'[w].wait = wl[w].wait
          /\ wl'[w].word = ScanWord(wl[w], map) /\ wl'[w].min = wl[w].min
          /\ wl'[w].sel = wl[w].sel /\ wl'[w].map = map
          /\ wl'[w] \in Local
      <3>1. ScanWord(wl[w], map) \in Nat
        BY <2>2 DEF ScanWord
      <3> DEFINE wd == ScanWord(wl[w], map)
      <3> HIDE DEF wd
      <3>2. wd \in Nat /\ wl'[w] = [wl[w] EXCEPT !.map = map, !.word = wd]
        BY <2>1, <3>1, Zenon DEF wd
      <3>3. /\ wl'[w].obj = wl[w].obj /\ wl'[w].tok = wl[w].tok
            /\ wl'[w].sync = wl[w].sync /\ wl'[w].wait = wl[w].wait
            /\ wl'[w].word = wd /\ wl'[w].min = wl[w].min
            /\ wl'[w].sel = wl[w].sel /\ wl'[w].map = map
            /\ wl'[w] \in Local
        BY <2>2, <3>2, ZenonT(60) DEF Local
      <3> QED BY <3>1, <3>3, Zenon DEF wd
    <2>5. TypeOK'
      BY <1>5, <2>1, <2>4, Zenon DEF LoadBmap, TypeOK, ScanAt
    <2>6. WriterOK(w)'
      BY <1>2, <1>5, <2>1, <2>2, <2>4
      DEF LoadBmap, WriterOK, InCheck, Scanning, ScanAt, ScanWord, RcuInv
    <2>7. Passed(w)' \subseteq Passed(w) \union {r \in Readers : r \notin bmap}
      BY <1>1, <2>1, <2>2, <2>3, <2>4
      DEF Passed, Remaining, Scanning, ScanAt, ScanWord
    <2>8. \A r \in Readers : r \notin bmap => refs[r] = {}
      BY Zenon DEF RcuInv, ReaderOK
    <2>9. ScanOK(w)'
      BY <1>5, <2>4, <2>7, <2>8, Zenon DEF LoadBmap, ScanOK
    <2>10. Counted(w)' /\ wpc'[w] # "free"
      BY <2>1, <2>2, Zenon DEF Counted, WriterOK, Scanning, ScanAt
    <2> QED BY <1>5, <2>1, <2>5, <2>6, <2>9, <2>10, WriterFrame, Zenon
               DEF LoadBmap
  <1>6. ASSUME LoadCnt(w) PROVE RcuInv'
    <2> DEFINE j == FirstBit(wl[w].map)
               map == wl[w].map \ {j}
               min == LeastAcked(wl[w].min, cnt[j])
    <2>1. /\ wl'[w] = [wl[w] EXCEPT !.map = map, !.word = ScanWord(wl[w], map), !.min = min]
          /\ wpc'[w] = ScanAt(wl[w], map) /\ OthersSame(w)
      BY <1>6, Zenon DEF LoadCnt, OthersSame
    <2>2. /\ wpc[w] = "cnt" /\ wl[w].map \subseteq Readers /\ wl[w].map # {}
          /\ wl[w].word \in Nat /\ wl[w].min \in Nat /\ wl[w].tok \in Nat
          /\ wl[w].sel \in BOOLEAN
      BY <1>6, Zenon DEF LoadCnt, WriterOK, Local
    <2>3. j \in wl[w].map /\ j \in Readers /\ cnt[j] \in Nat /\ cnt[j] <= token
      BY <2>2, FirstBitIn, Zenon DEF RcuInv, ReaderOK, TypeOK
    <2>4. InQuiescent(cnt[j], wl[w].tok)
      BY <1>6, Zenon DEF LoadCnt
    <2> HIDE DEF j
    <2>5. /\ min \in Nat /\ min <= token
          /\ cnt[j] # 0 => min # 0 /\ min <= cnt[j]
          /\ wl[w].min # 0 => min # 0 /\ min <= wl[w].min
      <3>1. wl[w].min <= token
        BY <2>2, Zenon DEF WriterOK, Scanning
      <3> DEFINE m == wl[w].min
                 c == cnt[j]
      <3>2. m \in Nat /\ c \in Nat /\ m <= token /\ c <= token /\ min = LeastAcked(m, c)
        BY <2>2, <2>3, <3>1, Zenon
      <3> HIDE DEF m, c, min
      <3>3. /\ min \in Nat /\ min <= token
            /\ c # 0 => min # 0 /\ min <= c
            /\ m # 0 => min # 0 /\ min <= m
        BY <3>2 DEF LeastAcked
      <3> QED BY <3>3, Zenon DEF m, c
    <2>6. map \subseteq Readers /\ map = wl[w].map \ {j}
      BY <2>2, Zenon
    <2> HIDE DEF map, min
    <2>7. /\ ScanWord(wl[w], map) \in Nat
          /\ wl'[w].obj = wl[w].obj /\ wl'[w].tok = wl[w].tok
          /\ wl'[w].sync = wl[w].sync /\ wl'[w].wait = wl[w].wait
          /\ wl'[w].word = ScanWord(wl[w], map) /\ wl'[w].min = min
          /\ wl'[w].sel = wl[w].sel /\ wl'[w].map = map
          /\ wl'[w] \in Local
      <3>1. ScanWord(wl[w], map) \in Nat
        BY <2>2 DEF ScanWord
      <3> DEFINE wd == ScanWord(wl[w], map)
      <3> HIDE DEF wd
      <3>2. wd \in Nat /\ wl'[w] = [wl[w] EXCEPT !.map = map, !.word = wd, !.min = min]
        BY <2>1, <3>1, Zenon DEF wd
      <3>3. /\ wl'[w].obj = wl[w].obj /\ wl'[w].tok = wl[w].tok
            /\ wl'[w].sync = wl[w].sync /\ wl'[w].wait = wl[w].wait
            /\ wl'[w].word = wd /\ wl'[w].min = min
            /\ wl'[w].sel = wl[w].sel /\ wl'[w].map = map
            /\ wl'[w] \in Local
        BY <2>5, <2>6, <3>2, ZenonT(60) DEF Local
      <3> QED BY <3>1, <3>3, Zenon DEF wd
    <2>8. TypeOK'
      BY <1>6, <2>1, <2>7, Zenon DEF LoadCnt, TypeOK, ScanAt
    <2>9. WriterOK(w)'
      BY <1>2, <1>6, <2>1, <2>2, <2>5, <2>6, <2>7
      DEF LoadCnt, WriterOK, InCheck, Scanning, ScanAt, ScanWord, RcuInv
    <2>10. Passed(w)' \subseteq Passed(w) \union {j}
      BY <1>1, <2>1, <2>2, <2>6, <2>7
      DEF Passed, Remaining, Scanning, ScanAt, ScanWord
    <2>11. ASSUME NEW r \in Passed(w)'
           PROVE  (/\ wl[w].obj \notin refs[r]
                   /\ \A x \in Writers : \A e \in pend[x] :
                        wl[w].min = 0 \/ e.tok <= wl[w].min => e.obj \notin refs[r])'
      <3>0. \A x \in Writers : \A e \in pend[x] : e.tok \in Nat
        BY DEF Entry
      <3>1. CASE r \in Passed(w)
        BY <1>6, <2>2, <2>5, <2>7, <3>0, <3>1 DEF LoadCnt, ScanOK
      <3>2. CASE r = j /\ cnt[j] = 0
        <4>1. refs[j] = {}
          BY <2>3, <3>2 DEF RcuInv, ReaderOK
        <4> QED BY <1>6, <3>2, <4>1, Zenon DEF LoadCnt
      <3>3. CASE r = j /\ cnt[j] # 0
        <4>1. me \in pend[w] /\ me.obj = wl[w].obj /\ me.tok = wl[w].tok
          BY <2>2, Zenon DEF WriterOK, InCheck
        <4> HIDE DEF me
        <4>2. cnt[j] >= wl[w].tok
          BY <2>4, <3>3, Zenon DEF InQuiescent
        <4>3. wl[w].obj \notin refs[j]
          BY <2>2, <2>3, <4>1, <4>2 DEF RcuInv, RefsOld
        <4>4. \A x \in Writers : \A e \in pend[x] : e.tok <= min => e.obj \notin refs[j]
          BY <2>3, <2>5, <3>0, <3>3 DEF RcuInv, RefsOld
        <4> QED BY <1>6, <2>5, <2>7, <3>3, <4>3, <4>4, Zenon DEF LoadCnt
      <3> QED BY <2>10, <3>1, <3>2, <3>3, Zenon
    <2>12. ScanOK(w)'
      BY <2>11, Zenon DEF ScanOK
    <2>13. Counted(w)'
      <3>1. Attached => cnt[j] >= 1
        BY <2>3, Zenon DEF RcuInv, ReaderOK
      <3> QED BY <2>3, <2>5, <2>7, <3>1 DEF Counted
    <2>14. wpc'[w] # "free"
      BY <2>1, Zenon DEF ScanAt
    <2> QED BY <1>6, <2>1, <2>8, <2>9, <2>12, <2>13, <2>14, WriterFrame,
               Zenon
               DEF LoadCnt
  <1>7. ASSUME LoadCntBehind(w) PROVE RcuInv'
    <2>1. CASE ~ wl[w].wait /\ WReturn(w)
      <3>1. wl'[w] = NoLocal /\ wpc'[w] = "idle" /\ OthersSame(w)
        BY <2>1, Zenon DEF WReturn, OthersSame
      <3>2. TypeOK'
        BY <1>7, <2>1, ZenonT(60) DEF LoadCntBehind, TypeOK, WReturn
      <3>3. WriterOK(w)' /\ ScanOK(w)' /\ Counted(w)'
        BY <3>1 DEF WriterOK, ScanOK, Counted, Passed, InCheck, Scanning, NoLocal
      <3> QED BY <1>7, <3>1, <3>2, <3>3, WriterFrame, Zenon DEF LoadCntBehind
    <2>2. CASE wl[w].wait /\ WGoto(w, IF wl[w].sel THEN "bmap" ELSE "cnt") /\ UNCHANGED wl
      <3>1. /\ wl' = wl /\ wpc[w] = "cnt" /\ wl[w].sel \in BOOLEAN /\ OthersSame(w)
            /\ wpc'[w] = IF wl[w].sel THEN "bmap" ELSE "cnt"
        BY <1>7, <2>2, Zenon DEF LoadCntBehind, OthersSame, Local
      <3>2. TypeOK'
        BY <1>7, <2>2, Zenon DEF LoadCntBehind, TypeOK
      <3>3. WriterOK(w)'
        BY <1>7, <3>1, Zenon DEF LoadCntBehind, WriterOK, InCheck, Scanning
      <3>4. wl[w].word \in Nat /\ (wl[w].sel => wl[w].map \subseteq Word(wl[w].word))
        BY <3>1, Zenon DEF WriterOK, Local
      <3>5. Passed(w)' \subseteq Passed(w)
        BY <1>1, <3>1, <3>4 DEF Passed, Remaining, Scanning, Word
      <3>6. ScanOK(w)' /\ Counted(w)'
        BY <1>7, <3>1, <3>5, Zenon
           DEF LoadCntBehind, ScanOK, Counted, Scanning
      <3> QED BY <1>7, <3>1, <3>2, <3>3, <3>6, WriterFrame, Zenon
                 DEF LoadCntBehind
    <2> QED BY <1>7, <2>1, <2>2, Zenon DEF LoadCntBehind
  <1> QED BY <1>3, <1>4, <1>5, <1>6, <1>7, Zenon

\* rte_rcu_qsbr_start.  A scan under way has passed nobody without counting
\* them, or there is none: the new token is beyond what it will acknowledge.
LEMMA StartInv ==
  ASSUME RcuInv, Covered, NEW w \in Writers, Start(w)
  PROVE  RcuInv'
  <1> USE WriterFacts DEF WGoto, rvars
  <1> DEFINE e == [obj |-> wl[w].obj, tok |-> token + 1]
  <1>1. /\ wpc[w] = "start" /\ token' = token + 1
        /\ pend' = [pend EXCEPT ![w] = @ \union {e}]
        /\ UNCHANGED <<acked, cnt, bmap, nthr, rpc, rt, refs, live, freed>>
    BY Zenon DEF Start
  <1>2. wl[w].obj \in Objects \ live /\ wl[w].min = 0 /\ wl[w].word = 0
    BY <1>1, Zenon DEF WriterOK
  <1>3. e \in Entry /\ e.obj = wl[w].obj /\ e.tok = token + 1
    BY <1>2 DEF Entry
  <1> HIDE DEF e
  <1>4. /\ pend'[w] = pend[w] \union {e} /\ \A x \in Writers \ {w} : pend'[x] = pend[x]
        /\ pend' \in [Writers -> SUBSET Entry]
    BY <1>1, <1>3, Zenon
  <1>5. /\ wl'[w] \in Local /\ wpc'[w] \in {"idle", "acked", "self"} /\ OthersSame(w)
        /\ wl' \in [Writers -> Local]
        /\ wpc' \in [Writers -> {"idle", "start", "self", "selfst", "acked", "num",
                                 "bmap", "cnt", "ack", "free"}]
    <2>1. CASE ~ wl[w].sync /\ WReturn(w)
      BY <2>1, Zenon DEF WReturn, OthersSame
    <2>2. CASE /\ wl' = [wl EXCEPT ![w] = [@ EXCEPT !.tok = token + 1, !.wait = TRUE]]
               /\ WGoto(w, IF Self[w] = NoThread THEN "acked" ELSE "self")
      <3>1. [wl[w] EXCEPT !.tok = token + 1, !.wait = TRUE] \in Local
        <4> DEFINE t == token + 1
        <4>1. wl[w] \in Local /\ t \in Nat
          OBVIOUS
        <4> HIDE DEF t
        <4>2. [wl[w] EXCEPT !.tok = t, !.wait = TRUE] \in Local
          BY <4>1, Zenon DEF Local
        <4> QED BY <4>2, Zenon DEF t
      <3> QED BY <2>2, <3>1, Zenon DEF OthersSame
    <2> QED BY <2>1, <2>2, Zenon DEF Start
  <1>6. TypeOK'
    BY <1>1, <1>4, <1>5 DEF TypeOK
  <1>7. WriterOK(w)'
    <2>1. CASE ~ wl[w].sync /\ WReturn(w)
      <3>1. wl'[w] = NoLocal /\ wpc'[w] = "idle"
        BY <2>1, Zenon DEF WReturn
      <3>2. wl'[w].min = 0 /\ wl'[w].word = 0
        BY <3>1 DEF NoLocal
      <3> QED BY <3>1, <3>2, Zenon DEF WriterOK, InCheck, Scanning
    <2>2. CASE /\ wl[w].sync
               /\ wl' = [wl EXCEPT ![w] = [@ EXCEPT !.tok = token + 1, !.wait = TRUE]]
               /\ WGoto(w, IF Self[w] = NoThread THEN "acked" ELSE "self")
      <3>1. /\ wpc'[w] = (IF Self[w] = NoThread THEN "acked" ELSE "self")
            /\ wl'[w] = [wl[w] EXCEPT !.tok = token + 1, !.wait = TRUE]
        BY <2>2, Zenon
      <3>2. /\ wl'[w].obj = wl[w].obj /\ wl'[w].tok = token + 1
            /\ wl'[w].min = wl[w].min /\ wl'[w].word = wl[w].word
        BY <3>1, Zenon DEF Local
      <3>3. [obj |-> wl'[w].obj, tok |-> wl'[w].tok] \in pend'[w]
        BY <1>4, <3>2, Zenon DEF e
      <3>4. Self[w] # NoThread => Self[w] \in Readers /\ rpc[Self[w]] = "on"
        BY <1>1, <2>2, Zenon DEF WriterOK
      <3> QED BY <1>1, <1>2, <3>1, <3>2, <3>3, <3>4, Zenon
                 DEF WriterOK, InCheck, Scanning
    <2> QED BY <2>1, <2>2, Zenon DEF Start
  <1>8. ASSUME NEW x \in Writers, x # w
        PROVE  WriterOK(x)' /\ ScanOK(x)' /\ Counted(x)'
    <2>1. /\ wpc'[x] = wpc[x] /\ wl'[x] = wl[x] /\ WriterOK(x) /\ ScanOK(x) /\ Counted(x)
          /\ pend'[x] = pend[x] /\ wl[x] \in Local /\ wl[x].min \in Nat
      BY <1>4, <1>5, <1>8, Zenon DEF OthersSame, RcuInv, Local
    <2>2. Passed(x)' = Passed(x) /\ Scanning(x)' = Scanning(x) /\ InCheck(x)' = InCheck(x)
      BY <2>1, ZenonT(60) DEF Passed, Scanning, Remaining, InCheck
    <2>3. WriterOK(x)'
      BY <1>1, <2>1, <2>2, SMTT(30) DEF WriterOK
    <2>4. ASSUME NEW r \in Passed(x)
          PROVE  ~ (wl[x].min = 0 \/ e.tok <= wl[x].min)
      <3>1. Attached /\ Scanning(x)
        BY <1>8, <2>4, Zenon DEF Covered, Passed
      <3>2. wl[x].min # 0
        BY <2>1, <2>4, <3>1, Zenon DEF Counted
      <3>3. wl[x].min <= token
        BY <2>1, <3>1, Zenon DEF WriterOK
      <3> QED BY <1>3, <2>1, <3>2, <3>3
    <2>5. ScanOK(x)'
      BY <1>1, <1>4, <2>1, <2>2, <2>4, ZenonT(60) DEF ScanOK
    <2> QED BY <2>1, <2>2, <2>3, <2>5, Zenon DEF Counted
  <1>9. ScanOK(w)' /\ Counted(w)'
    BY <1>5, Zenon DEF ScanOK, Counted, Passed, Scanning
  <1>10. \A r \in Readers : ReaderOK(r)' /\ cnt[r] \in Nat /\ cnt[r] <= token
    BY <1>1 DEF RcuInv, ReaderOK, TypeOK
  <1>11. RefsOld'
    BY <1>1, <1>3, <1>4, <1>10 DEF RcuInv, RefsOld
  <1>12. acked \in Nat /\ acked <= token
    BY ZenonT(60) DEF RcuInv, TypeOK
  <1>13. AckedByAll'
    BY <1>1, <1>3, <1>4, <1>12 DEF RcuInv, AckedByAll
  <1>14. (\A x \in Writers : \A f \in pend[x] : f.obj \notin live /\ f.tok <= token)'
    <2>1. \A x \in Writers : \A f \in pend[x] : f.tok \in Nat
      BY DEF Entry
    <2> QED BY <1>1, <1>2, <1>3, <1>4, <2>1 DEF RcuInv
  <1>15. (\A x \in Writers : wpc[x] = "free" => \A r \in Readers : wl[x].obj \notin refs[r])'
    BY <1>1, <1>5, Zenon DEF RcuInv, OthersSame
  <1>16. /\ GracePeriod' /\ (live \intersect freed = {})' /\ (acked <= token)'
         /\ (Attached => nthr = MaxThreads)'
    BY <1>1, <1>12 DEF RcuInv, GracePeriod
  <1> QED BY <1>6, <1>7, <1>8, <1>9, <1>10, <1>11, <1>13, <1>14, <1>15,
             <1>16, Zenon
             DEF RcuInv

\* The report that rte_rcu_qsbr_synchronize makes for its own thread.
LEMMA SelfInv ==
  ASSUME RcuInv, NEW w \in Writers, SelfLoad(w) \/ SelfStore(w)
  PROVE  RcuInv'
  <1> USE WriterFacts DEF WGoto, rvars
  <1> DEFINE s == Self[w]
  <1>1. /\ wpc[w] \in {"self", "selfst"} /\ s \in Readers /\ rpc[s] = "on"
        /\ UNCHANGED <<token, acked, bmap, nthr, rpc, wl, pend, live, freed>>
    BY Zenon DEF SelfLoad, SelfStore, WriterOK
  <1>2. \A x \in Writers \ {w} : Self[x] # s /\ wpc'[x] = wpc[x]
    <2>1. s # NoThread
      BY <1>1, RcuThreads, SMT DEF NoThread, Readers
    <2>2. \A x \in Writers \ {w} : Self[x] # s
      BY <2>1, RcuThreads, Zenon
    <2> QED BY <2>2, Zenon DEF SelfLoad, SelfStore
  <1>3. wpc'[w] = IF SelfLoad(w) THEN "selfst" ELSE "acked"
    BY Zenon DEF SelfLoad, SelfStore
  <1>4. /\ token \in Nat \ {0} /\ cnt \in [Readers -> Nat] /\ rt \in [Readers -> Nat]
        /\ refs \in [Readers -> SUBSET Objects] /\ ReaderOK(s)
    BY <1>1, Zenon DEF RcuInv, TypeOK
  <1>5. /\ \A q \in Readers \ {s} : cnt'[q] = cnt[q] /\ rt'[q] = rt[q] /\ refs'[q] = refs[q]
        /\ refs'[s] = {}
        /\ SelfLoad(w) => cnt'[s] = cnt[s] /\ rt'[s] = token
        /\ ~ SelfLoad(w) => cnt'[s] = rt[s] /\ rt'[s] = rt[s] /\ rt[s] >= 1
    <2>1. CASE SelfLoad(w)
      BY <1>1, <1>4, <2>1, Zenon DEF SelfLoad
    <2>2. CASE ~ SelfLoad(w)
      <3>1. SelfStore(w)
        BY <2>2, Zenon
      <3>2. wpc[w] = "selfst" /\ cnt' = [cnt EXCEPT ![s] = rt[s]] /\ rt' = rt /\ refs' = refs
        BY <3>1, Zenon DEF SelfStore
      <3>3. refs[s] = {} /\ rt[s] >= 1
        BY <3>2, Zenon DEF WriterOK
      <3> HIDE DEF s
      <3> QED BY <1>1, <1>4, <2>2, <3>2, <3>3, Zenon
    <2> QED BY <2>1, <2>2, Zenon
  <1>6. TypeOK'
    <2>1. CASE SelfLoad(w)
      BY <1>4, <2>1, Zenon DEF SelfLoad, TypeOK
    <2>2. CASE SelfStore(w)
      BY <1>1, <1>4, <2>2, Zenon DEF SelfStore, TypeOK
    <2> QED BY <2>1, <2>2, Zenon
  <1>7. RefStep
    BY <1>5, Zenon DEF RefStep
  <1>8. \A r \in Readers : ReaderOK(r)'
    <2>1. ASSUME NEW r \in Readers, r # s PROVE ReaderOK(r)'
      BY <1>1, <1>5, <2>1, Zenon DEF RcuInv, ReaderOK
    <2>2. ReaderOK(s)'
      BY <1>1, <1>4, <1>5 DEF ReaderOK
    <2> QED BY <2>1, <2>2, Zenon
  <1>9. ASSUME NEW x \in Writers PROVE WriterOK(x)'
    <2>1. CASE x = w
      <3>1. SelfLoad(w) => rt'[s] >= 1
        BY <1>4, <1>5
      <3> QED BY <1>1, <1>3, <1>5, <2>1, <3>1, Zenon
                 DEF WriterOK, InCheck, Scanning
    <2>2. CASE x # w
      <3>1. WriterOK(x) /\ wpc'[x] = wpc[x] /\ Self[x] # s
        BY <1>2, <2>2, Zenon DEF RcuInv
      <3>2. wpc[x] = "selfst" => refs'[Self[x]] = refs[Self[x]] /\ rt'[Self[x]] = rt[Self[x]]
        BY <1>5, <3>1, Zenon DEF WriterOK
      <3> QED BY <1>1, <3>1, <3>2, Zenon DEF WriterOK, InCheck, Scanning
    <2> QED BY <2>1, <2>2, Zenon
  <1>10. \A x \in Writers :
           wpc'[x] = wpc[x] \/ (~ InCheck(x) /\ wpc'[x] \in {"selfst", "acked"})
    BY <1>1, <1>2, <1>3, Zenon DEF InCheck
  <1>11. (Attached => nthr = MaxThreads)'
    BY <1>1, Zenon DEF RcuInv
  <1> HIDE DEF s
  <1> QED BY <1>1, <1>6, <1>7, <1>8, <1>9, <1>10, <1>11, ReaderStep, Zenon
             DEF RcuInv

\* The end of the scan: it has passed all readers, so what it stores in
\* acked_token has been acknowledged by all of them.
LEMMA StoreAckedInv ==
  ASSUME RcuInv, NEW w \in Writers, StoreAcked(w)
  PROVE  RcuInv'
  <1> USE WriterFacts DEF WGoto, rvars
  <1>1. /\ wpc[w] = "ack" /\ wpc'[w] = "free" /\ OthersSame(w)
        /\ acked' = (IF wl[w].min # 0 THEN wl[w].min ELSE acked)
        /\ UNCHANGED <<token, cnt, bmap, nthr, rpc, rt, refs, wl, pend, live, freed>>
    BY Zenon DEF StoreAcked, OthersSame
  <1>2. /\ wl[w].map = {} /\ (wl[w].sel => wl[w].word + 1 >= NumElems)
        /\ wl[w].word \in Nat /\ wl[w].min \in Nat /\ wl[w].min <= token
    BY <1>1, Zenon DEF WriterOK, Local, Scanning
  <1>3. \A r \in Readers : r \in Passed(w)
    <2>1. NumElems \in Nat
      <3>1. MaxThreads + ElmSize - 1 \in Nat /\ ElmSize \in Nat \ {0}
        BY RcuThreads, SMT
      <3> QED BY <3>1, DivBound, Zenon DEF NumElems
    <2>2. \A r \in Readers : r \div ElmSize \in Nat /\ r \div ElmSize < NumElems
      BY WordsSuffice, Zenon
    <2>3. ASSUME NEW r \in Readers, wl[w].sel PROVE ~ (r \div ElmSize > wl[w].word)
      <3> DEFINE d == r \div ElmSize
      <3>1. d \in Nat /\ d < NumElems
        BY <2>2, Zenon
      <3> HIDE DEF d
      <3>2. ~ (d > wl[w].word)
        BY <1>2, <2>1, <2>3, <3>1
      <3> QED BY <3>2, Zenon DEF d
    <2> QED BY <1>1, <1>2, <2>3, Zenon DEF Passed, Remaining, Scanning
  <1>4. TypeOK'
    BY <1>1, <1>2, Zenon DEF TypeOK, StoreAcked
  <1>5. \A x \in Writers : WriterOK(x)'
    <2>1. ASSUME NEW x \in Writers, x # w PROVE WriterOK(x)'
      <3>1. wpc'[x] = wpc[x] /\ WriterOK(x)
        BY <1>1, <2>1, Zenon DEF RcuInv, OthersSame
      <3> QED BY <1>1, <3>1, Zenon DEF WriterOK, InCheck, Scanning
    <2>2. WriterOK(w)'
      BY <1>1, Zenon DEF WriterOK, InCheck, Scanning
    <2> QED BY <2>1, <2>2, Zenon
  <1>6. \A x \in Writers : ScanOK(x)' /\ Counted(x)'
    <2>1. ASSUME NEW x \in Writers, x # w PROVE ScanOK(x)' /\ Counted(x)'
      <3>1. wpc'[x] = wpc[x] /\ wl'[x] = wl[x] /\ ScanOK(x) /\ Counted(x)
        BY <1>1, <2>1, Zenon DEF OthersSame, RcuInv
      <3>2. Passed(x)' = Passed(x) /\ Scanning(x)' = Scanning(x)
        BY <3>1, Zenon DEF Passed, Scanning, Remaining
      <3> QED BY <1>1, <3>1, <3>2, Zenon DEF ScanOK, Counted
    <2>2. ScanOK(w)' /\ Counted(w)'
      BY <1>1, Zenon DEF ScanOK, Counted, Passed, Scanning
    <2> QED BY <2>1, <2>2, Zenon
  <1>7. AckedByAll'
    <2>1. ASSUME NEW x \in Writers, NEW e \in pend[x], e.tok <= wl[w].min, NEW r \in Readers
          PROVE  e.obj \notin refs[r]
      BY <1>3, <2>1, Zenon DEF ScanOK
    <2>2. AckedByAll
      BY Zenon DEF RcuInv
    <2> QED BY <1>1, <2>1, <2>2, Zenon DEF AckedByAll
  <1>8. \A r \in Readers : wl[w].obj \notin refs[r]
    BY <1>3, Zenon DEF ScanOK
  <1>9. (\A x \in Writers : wpc[x] = "free" => \A r \in Readers : wl[x].obj \notin refs[r])'
    BY <1>1, <1>8, Zenon DEF RcuInv, OthersSame
  <1>10. (acked <= token)' /\ \A r \in Readers : ReaderOK(r)'
    BY <1>1, <1>2, Zenon DEF RcuInv, ReaderOK
  <1>11. /\ RefsOld' /\ GracePeriod' /\ (live \intersect freed = {})'
         /\ (Attached => nthr = MaxThreads)'
         /\ (\A x \in Writers : \A e \in pend[x] : e.obj \notin live /\ e.tok <= token)'
    BY <1>1, Zenon DEF RcuInv, RefsOld, GracePeriod
  <1> QED BY <1>4, <1>5, <1>6, <1>7, <1>9, <1>10, <1>11, Zenon DEF RcuInv

\* The writer frees the object its check was about.
LEMMA FreeInv ==
  ASSUME RcuInv, NEW w \in Writers, FreeObject(w)
  PROVE  RcuInv'
  <1> USE WriterFacts DEF WGoto, rvars
  <1>1. /\ wpc[w] = "free" /\ wpc'[w] = "idle" /\ wl'[w] = NoLocal /\ OthersSame(w)
        /\ freed' = freed \union {wl[w].obj}
        /\ UNCHANGED <<token, acked, cnt, bmap, nthr, rpc, rt, refs, live>>
    BY Zenon DEF FreeObject, WReturn, OthersSame
  <1>2. /\ \A x \in Writers : pend'[x] \subseteq pend[x]
        /\ \A x \in Writers \ {w} : pend'[x] = pend[x]
        /\ pend' \in [Writers -> SUBSET Entry]
    BY Zenon DEF FreeObject
  <1>3. wl[w].obj \in Objects \ live /\ \A r \in Readers : wl[w].obj \notin refs[r]
    BY <1>1, Zenon DEF RcuInv, WriterOK, InCheck
  <1>4. TypeOK'
    BY <1>1, <1>2, <1>3, Zenon DEF TypeOK, FreeObject, WReturn
  <1>5. \A x \in Writers : WriterOK(x)' /\ ScanOK(x)' /\ Counted(x)'
    <2>1. ASSUME NEW x \in Writers, x # w PROVE WriterOK(x)' /\ ScanOK(x)' /\ Counted(x)'
      <3>1. /\ wpc'[x] = wpc[x] /\ wl'[x] = wl[x] /\ pend'[x] = pend[x]
            /\ WriterOK(x) /\ ScanOK(x) /\ Counted(x)
        BY <1>1, <1>2, <2>1, Zenon DEF OthersSame, RcuInv
      <3>2. Passed(x)' = Passed(x) /\ Scanning(x)' = Scanning(x)
        BY <3>1, Zenon DEF Passed, Scanning, Remaining
      <3>3. WriterOK(x)'
        BY <1>1, <3>1, Zenon DEF WriterOK, InCheck, Scanning
      <3>4. ScanOK(x)'
        BY <1>1, <1>2, <3>1, <3>2, Zenon DEF ScanOK
      <3> QED BY <3>1, <3>2, <3>3, <3>4, Zenon DEF Counted
    <2>2. WriterOK(w)'
      <3>1. wl'[w].min = 0 /\ wl'[w].word = 0
        BY <1>1 DEF NoLocal
      <3> QED BY <1>1, <3>1, Zenon DEF WriterOK, InCheck, Scanning
    <2>3. ScanOK(w)' /\ Counted(w)'
      BY <1>1, Zenon DEF ScanOK, Counted, Passed, Scanning
    <2> QED BY <2>1, <2>2, <2>3, Zenon
  <1>6. RefsOld' /\ AckedByAll'
    BY <1>1, <1>2, Zenon DEF RcuInv, RefsOld, AckedByAll
  <1>7. GracePeriod' /\ (live \intersect freed = {})'
    BY <1>1, <1>3, Zenon DEF RcuInv, GracePeriod
  <1>8. (\A x \in Writers : \A e \in pend[x] : e.obj \notin live /\ e.tok <= token)'
    BY <1>1, <1>2, Zenon DEF RcuInv
  <1>9. (\A x \in Writers : wpc[x] = "free" => \A r \in Readers : wl[x].obj \notin refs[r])'
    BY <1>1, Zenon DEF RcuInv, OthersSame
  <1>10. /\ (acked <= token)' /\ (Attached => nthr = MaxThreads)'
         /\ \A r \in Readers : ReaderOK(r)'
    BY <1>1, Zenon DEF RcuInv, ReaderOK
  <1> QED BY <1>4, <1>5, <1>6, <1>7, <1>8, <1>9, <1>10, Zenon DEF RcuInv

\* Nothing changes.
LEMMA StutterInv ==
  ASSUME RcuInv, UNCHANGED vars
  PROVE  RcuInv'
  <1>1. TypeOK'
    BY Zenon DEF vars, RcuInv, TypeOK
  <1>2. \A r \in Readers : ReaderOK(r)'
    BY Zenon DEF vars, RcuInv, ReaderOK
  <1>3. \A w \in Writers : WriterOK(w)'
    BY Zenon DEF vars, RcuInv, WriterOK, Scanning, InCheck
  <1>4. RefStep
    BY Zenon DEF vars, RefStep
  <1> QED BY <1>1, <1>2, <1>3, <1>4, ReaderStep, Zenon DEF vars, RcuInv

-----------------------------------------------------------------------------
(* The theorems                                                             *)

\* The strengthened invariant of the quiescent state protocol is preserved by
\* every step of every reader and writer, and so holds always, when there is
\* one writer or no reader ever goes offline.
THEOREM RcuInvariant == Covered => (Spec => []RcuInv)
  <1> SUFFICES ASSUME Covered PROVE Spec => []RcuInv
    BY Zenon
  <1>1. RcuInv /\ [Next]_vars => RcuInv'
    <2> SUFFICES ASSUME RcuInv, [Next]_vars PROVE RcuInv'
      BY Zenon
    <2>1. CASE Next
      <3>1. ASSUME NEW r \in Readers, RStep(r) \/ RCall(r) PROVE RcuInv'
        BY <3>1, ReaderInv, Zenon
      <3>2. ASSUME NEW w \in Writers, WStep(w) PROVE RcuInv'
        BY <3>2, ScanInv, StartInv, SelfInv, StoreAckedInv, FreeInv, Zenon
           DEF WStep
      <3>3. ASSUME NEW w \in Writers, WCall(w) PROVE RcuInv'
        BY <3>3, CallInv, Zenon
      <3> QED BY <2>1, <3>1, <3>2, <3>3, Zenon DEF Next
    <2>2. CASE UNCHANGED vars
      BY <2>2, StutterInv, Zenon
    <2> QED BY <2>1, <2>2, Zenon
  <1> QED BY InitInv, <1>1, PTL DEF Spec

\* rte_rcu_qsbr_check and rte_rcu_qsbr_synchronize: an object freed after they
\* reported a grace period has no reader left.
THEOREM GracePeriodHolds == Covered => (Spec => []GracePeriod)
  <1>1. RcuInv => GracePeriod
    BY Zenon DEF RcuInv
  <1> QED BY RcuInvariant, <1>1, PTL

\* The early return on acked_token in rte_rcu_qsbr_check is right whoever
\* stored acked_token.
THEOREM AckedTokenRight == Covered => (Spec => []AckedByAll)
  <1>1. RcuInv => AckedByAll
    BY Zenon DEF RcuInv
  <1> QED BY RcuInvariant, <1>1, PTL

-----------------------------------------------------------------------------
(* The defer queue on top of it                                             *)

DqLabels == {"none", "start", "count", "put", "peek", "check", "free", "pending"}
DqLocal == [call : {"none", "enq", "rec", "del"}, e : Entry \union {NoEntry},
            n : Nat, cnt : Nat]

DqTypeOK ==
  /\ dq \in Seq(Entry) /\ hold \in Writers \union {NoWriter}
  /\ dpc \in [Writers -> DqLabels] /\ dl \in [Writers -> DqLocal]
  /\ kept \in [Writers -> SUBSET Objects] /\ deleted \in BOOLEAN

\* The entry that a writer checks.
Checked(w) == [obj |-> wl[w].obj, tok |-> wl[w].tok]

\* A writer in the calls of the defer queue and in those of RcuQsbr.  The entry
\* that it checks stays the oldest, and what it enqueues is its own to answer
\* for.
DqWriterOK(w) ==
  /\ dpc[w] = "none" <=> dl[w].call = "none"
  /\ dpc[w] \in {"none", "count", "put", "peek", "pending"} => wpc[w] = "idle"
  /\ dpc[w] = "start" => wpc[w] = "start" /\ ~ wl[w].sync
  /\ dpc[w] = "free" => wpc[w] = "free"
  /\ dpc[w] = "check" <=> hold = w
  /\ dpc[w] = "check" => dq # <<>> /\ (wpc[w] = "idle" \/ (InCheck(w) /\ Checked(w) = dq[1]))
  /\ dpc[w] \in {"start", "count", "put"} => dl[w].call = "enq"
  /\ dpc[w] = "pending" => dl[w].call \in {"rec", "del"}
  /\ dpc[w] \in {"count", "put", "peek", "check", "free"} /\ dl[w].call = "enq" =>
       dl[w].e \in pend[w]
  /\ dl[w].call = "del" =>
       live = {} /\ \A x \in Writers : kept[x] = {} /\ (x # w => dpc[x] = "none")

\* Some writer answers for each entry of the queue.
DqEntries == \A i \in 1 .. Len(dq) : \E w \in Writers : dq[i] \in pend[w]

\* Nothing is left to do once the queue has been deleted.
DqOver ==
  deleted => /\ dq = <<>> /\ live = {}
             /\ \A w \in Writers : dpc[w] = "none" /\ kept[w] = {}

\* Where an object is: live, freed, and the places given.
At(o, l, f, i, q, v, b) ==
  /\ o \in live <=> l
  /\ o \in freed <=> f
  /\ Inside(o) = i /\ Queued(o) = q /\ Leaving(o) = v /\ Back(o) = b

\* An object is in one place.
Placed(o) ==
  \/ At(o, TRUE, FALSE, {}, {}, {}, {})
  \/ At(o, FALSE, TRUE, {}, {}, {}, {})
  \/ \E w \in Writers : \/ At(o, FALSE, FALSE, {w}, {}, {}, {})
                        \/ At(o, FALSE, FALSE, {}, {}, {w}, {})
                        \/ At(o, FALSE, FALSE, {}, {}, {}, {w})
  \/ \E i \in Nat : At(o, FALSE, FALSE, {}, {i}, {}, {})

DqInv ==
  /\ RcuInv
  /\ DqTypeOK
  /\ \A w \in Writers : DqWriterOK(w)
  /\ DqEntries /\ DqOver
  /\ \A o \in Objects : Placed(o)


-----------------------------------------------------------------------------
(* What the steps of the queue do to the tokens                             *)

\* A step of writer w that leaves the shared words alone, makes up no entry,
\* takes none from a check under way and begins a call or ends one.
LEMMA MoveInv ==
  ASSUME RcuInv, NEW w \in Writers, TypeOK', OthersSame(w), WriterOK(w)',
         UNCHANGED <<token, acked, cnt, bmap, nthr, rpc, rt, refs, live, freed>>,
         \A x \in Writers : \A e \in pend'[x] : \E y \in Writers : e \in pend[y],
         \A x \in Writers \ {w} : pend[x] # pend'[x] =>
           wpc[x] \notin {"self", "selfst"} /\ (InCheck(x) => Checked(x) \in pend'[x]),
         wpc'[w] \in {"idle", "start", "acked"}
  PROVE  RcuInv'
  <1>1. \A r \in Readers : ReaderOK(r)'
    BY Zenon DEF RcuInv, ReaderOK
  <1>2. ASSUME NEW x \in Writers, x # w
        PROVE  WriterOK(x)' /\ ScanOK(x)' /\ Counted(x)'
    <2>1. wpc'[x] = wpc[x] /\ wl'[x] = wl[x] /\ WriterOK(x) /\ ScanOK(x) /\ Counted(x)
      BY <1>2, Zenon DEF OthersSame, RcuInv
    <2>2. /\ Passed(x)' = Passed(x)
          /\ Scanning(x)' <=> Scanning(x)
          /\ InCheck(x)' <=> InCheck(x)
      BY <2>1, Zenon DEF Passed, Scanning, Remaining, InCheck
    <2>3. wpc[x] \in {"self", "selfst"} \/ InCheck(x) =>
            [obj |-> wl[x].obj, tok |-> wl[x].tok] \in pend'[x]
      BY <1>2, <2>1, Zenon DEF WriterOK, Checked
    <2>4. WriterOK(x)'
      BY <2>1, <2>2, <2>3, Zenon DEF WriterOK
    <2>5. ScanOK(x)'
      BY <2>1, <2>2, Zenon DEF ScanOK
    <2> QED BY <2>1, <2>2, <2>4, <2>5, Zenon DEF Counted
  <1>3. ScanOK(w)' /\ Counted(w)'
    BY Zenon DEF ScanOK, Counted, Passed, Scanning
  <1>4. RefsOld' /\ AckedByAll' /\ GracePeriod' /\ (live \intersect freed = {})'
    BY Zenon DEF RcuInv, RefsOld, AckedByAll, GracePeriod
  <1>5. (\A x \in Writers : \A e \in pend[x] : e.obj \notin live /\ e.tok <= token)'
    BY Zenon DEF RcuInv
  <1>6. (\A x \in Writers : wpc[x] = "free" => \A r \in Readers : wl[x].obj \notin refs[r])'
    BY Zenon DEF RcuInv, OthersSame
  <1>7. (acked <= token)' /\ (Attached => nthr = MaxThreads)'
    BY Zenon DEF RcuInv
  <1> QED BY <1>1, <1>2, <1>3, <1>4, <1>5, <1>6, <1>7, Zenon DEF RcuInv


-----------------------------------------------------------------------------
(* Where objects are                                                        *)

\* An object that is found in one place is in no other.
LEMMA PlaceIs ==
  ASSUME NEW o \in Objects, Placed(o)
  PROVE  /\ o \in live => At(o, TRUE, FALSE, {}, {}, {}, {})
         /\ \A w \in Inside(o) : At(o, FALSE, FALSE, {w}, {}, {}, {})
         /\ \A i \in Queued(o) : At(o, FALSE, FALSE, {}, {i}, {}, {})
         /\ \A w \in Leaving(o) : At(o, FALSE, FALSE, {}, {}, {w}, {})
         /\ \A w \in Back(o) : At(o, FALSE, FALSE, {}, {}, {}, {w})
  <1>1. \A w \in Inside(o) : At(o, FALSE, FALSE, {w}, {}, {}, {})
    BY Zenon DEF Placed, At
  <1>2. \A i \in Queued(o) : At(o, FALSE, FALSE, {}, {i}, {}, {})
    BY Zenon DEF Placed, At
  <1>3. \A w \in Leaving(o) : At(o, FALSE, FALSE, {}, {}, {w}, {})
    BY Zenon DEF Placed, At
  <1>4. \A w \in Back(o) : At(o, FALSE, FALSE, {}, {}, {}, {w})
    BY Zenon DEF Placed, At
  <1>5. o \in live => At(o, TRUE, FALSE, {}, {}, {}, {})
    BY Zenon DEF Placed, At
  <1> QED BY <1>1, <1>2, <1>3, <1>4, <1>5, Zenon

\* An object that does not move stays in its one place.
LEMMA PlacedSame ==
  ASSUME NEW o \in Objects, Placed(o),
         o \in live' <=> o \in live, o \in freed' <=> o \in freed,
         Inside(o)' = Inside(o), Queued(o)' = Queued(o),
         Leaving(o)' = Leaving(o), Back(o)' = Back(o)
  PROVE  Placed(o)'
  BY Zenon DEF Placed, At

\* The writers other than w do not move in the calls of the queue either.
DqOthersSame(w) ==
  /\ OthersSame(w)
  /\ \A x \in Writers \ {w} : dpc'[x] = dpc[x] /\ dl'[x] = dl[x] /\ kept'[x] = kept[x]

\* Nobody calls the queue or is in a call while another writer deletes it.
LEMMA NoDelete ==
  ASSUME DqInv, NEW w \in Writers, NEW x \in Writers, x # w,
         dpc[w] # "none" \/ Ready(w)
  PROVE  dl[x].call # "del"
  BY Zenon DEF DqInv, DqWriterOK, Ready

\* What the other writers rely on when w takes a step.
LEMMA OtherWriters ==
  ASSUME DqInv, NEW w \in Writers, dpc[w] # "none" \/ Ready(w), DqOthersSame(w),
         hold' = hold \/ {hold, hold'} \subseteq {w, NoWriter},
         \A x \in Writers \ {w} :
           /\ dpc[x] = "check" => dq' # <<>> /\ dq'[1] = dq[1]
           /\ dl[x].e \in pend[x] /\ x \in Inside(dl[x].e.obj) => dl[x].e \in pend'[x]
  PROVE  \A x \in Writers \ {w} : DqWriterOK(x)'
  <1> SUFFICES ASSUME NEW x \in Writers, x # w PROVE DqWriterOK(x)'
    BY Zenon
  <1>1. /\ wpc'[x] = wpc[x] /\ wl'[x] = wl[x] /\ dpc'[x] = dpc[x] /\ dl'[x] = dl[x]
        /\ DqWriterOK(x)
    BY Zenon DEF DqOthersSame, OthersSame, DqInv
  <1>2. dl[x].call # "del"
    BY NoDelete, Zenon
  <1>3. dpc[x] = "check" <=> hold' = x
    <2>1. x # NoWriter
      BY DqParameters, Zenon
    <2> QED BY <1>1, <2>1, Zenon DEF DqWriterOK
  <1>4. InCheck(x)' <=> InCheck(x)
    BY <1>1, Zenon DEF InCheck
  <1>5. dpc[x] = "check" =>
          dq' # <<>> /\ (wpc[x] = "idle" \/ (InCheck(x) /\ Checked(x)' = dq'[1]))
    <2>1. Checked(x)' = Checked(x)
      BY <1>1, Zenon DEF Checked
    <2> QED BY <1>1, <2>1, Zenon DEF DqWriterOK
  <1>6. dpc[x] \in {"count", "put", "peek", "check", "free"} /\ dl[x].call = "enq" =>
          dl[x].e \in pend'[x]
    <2> SUFFICES ASSUME dpc[x] \in {"count", "put", "peek", "check", "free"}, dl[x].call = "enq"
                 PROVE  dl[x].e \in pend'[x]
      BY Zenon
    <2>1. x \in Inside(dl[x].e.obj)
      BY Zenon DEF Inside
    <2> QED BY <1>1, <2>1, Zenon DEF DqWriterOK
  <1> QED BY <1>1, <1>2, <1>3, <1>4, <1>5, <1>6, Zenon DEF DqWriterOK


\* A step of writer w changes no place but those it is in itself.
LEMMA PlacesOf ==
  ASSUME NEW w \in Writers, DqOthersSame(w), NEW o
  PROVE  /\ Inside(o)' = IF w \in Inside(o)' THEN Inside(o) \union {w} ELSE Inside(o) \ {w}
         /\ Leaving(o)' = IF w \in Leaving(o)' THEN Leaving(o) \union {w} ELSE Leaving(o) \ {w}
         /\ Back(o)' = IF w \in Back(o)' THEN Back(o) \union {w} ELSE Back(o) \ {w}
         /\ (w \in Inside(o)' <=> w \in Inside(o)) => Inside(o)' = Inside(o)
         /\ (w \in Leaving(o)' <=> w \in Leaving(o)) => Leaving(o)' = Leaving(o)
         /\ (w \in Back(o)' <=> w \in Back(o)) => Back(o)' = Back(o)
  <1>1. ASSUME NEW x \in Writers, x # w
        PROVE  /\ x \in Inside(o)' <=> x \in Inside(o)
               /\ x \in Leaving(o)' <=> x \in Leaving(o)
               /\ x \in Back(o)' <=> x \in Back(o)
    <2>1. /\ wpc'[x] = wpc[x] /\ wl'[x] = wl[x] /\ dpc'[x] = dpc[x] /\ dl'[x] = dl[x]
          /\ kept'[x] = kept[x]
      BY <1>1, Zenon DEF DqOthersSame, OthersSame
    <2> QED BY <2>1, Zenon DEF Inside, Leaving, Back
  <1>2. /\ Inside(o) \subseteq Writers /\ Inside(o)' \subseteq Writers
        /\ Leaving(o) \subseteq Writers /\ Leaving(o)' \subseteq Writers
        /\ Back(o) \subseteq Writers /\ Back(o)' \subseteq Writers
    BY Zenon DEF Inside, Leaving, Back
  <1>3. /\ Inside(o)' = IF w \in Inside(o)' THEN Inside(o) \union {w} ELSE Inside(o) \ {w}
        /\ Leaving(o)' = IF w \in Leaving(o)' THEN Leaving(o) \union {w} ELSE Leaving(o) \ {w}
        /\ Back(o)' = IF w \in Back(o)' THEN Back(o) \union {w} ELSE Back(o) \ {w}
    BY <1>1, <1>2, Zenon
  <1>4. (w \in Inside(o)' <=> w \in Inside(o)) => Inside(o)' = Inside(o)
    BY <1>1, <1>2
  <1>5. (w \in Leaving(o)' <=> w \in Leaving(o)) => Leaving(o)' = Leaving(o)
    BY <1>1, <1>2
  <1>6. (w \in Back(o)' <=> w \in Back(o)) => Back(o)' = Back(o)
    BY <1>1, <1>2
  <1> QED BY <1>3, <1>4, <1>5, <1>6, Zenon

\* Only the queue moves, and nothing that the writers are in: objects stay.
LEMMA PlacedFrame ==
  ASSUME NEW w \in Writers, DqOthersSame(w), NEW o \in Objects, Placed(o),
         o \in live' <=> o \in live, o \in freed' <=> o \in freed,
         Queued(o)' = Queued(o),
         w \in Inside(o)' <=> w \in Inside(o),
         w \in Leaving(o)' <=> w \in Leaving(o),
         w \in Back(o)' <=> w \in Back(o)
  PROVE  Placed(o)'
  <1>1. Inside(o)' = Inside(o) /\ Leaving(o)' = Leaving(o) /\ Back(o)' = Back(o)
    BY PlacesOf, Zenon
  <1> QED BY <1>1, PlacedSame, Zenon

-----------------------------------------------------------------------------
(* The steps                                                                *)

\* A step that changes nothing the writers and the queue have.
LEMMA DqQuiet ==
  ASSUME DqInv, RcuInv', UNCHANGED <<wpc, wl, pend, live, freed, dqvars>>
  PROVE  DqInv'
  <1> USE DEF dqvars
  <1>1. DqTypeOK'
    BY Zenon DEF DqInv, DqTypeOK
  <1>2. \A w \in Writers : DqWriterOK(w)'
    BY Zenon DEF DqInv, DqWriterOK, InCheck, Checked
  <1>3. DqEntries' /\ DqOver'
    BY Zenon DEF DqInv, DqEntries, DqOver
  <1>4. \A o \in Objects : Placed(o)'
    <2> SUFFICES ASSUME NEW o \in Objects PROVE Placed(o)'
      BY Zenon
    <2>1. Inside(o)' = Inside(o) /\ Leaving(o)' = Leaving(o) /\ Back(o)' = Back(o)
      BY Zenon DEF Inside, Leaving, Back
    <2>2. Queued(o)' = Queued(o)
      BY Zenon DEF Queued
    <2> QED BY <2>1, <2>2, PlacedSame, Zenon DEF DqInv
  <1> QED BY <1>1, <1>2, <1>3, <1>4, Zenon DEF DqInv

\* What the proofs below start from.
LEMMA DqFacts ==
  ASSUME DqInv, NEW w \in Writers
  PROVE  /\ RcuInv /\ TypeOK /\ WriterOK(w) /\ DqTypeOK /\ DqWriterOK(w)
         /\ wl \in [Writers -> Local] /\ wl[w] \in Local /\ NoLocal \in Local
         /\ wpc \in [Writers -> {"idle", "start", "self", "selfst", "acked", "num",
                                 "bmap", "cnt", "ack", "free"}]
         /\ pend \in [Writers -> SUBSET Entry]
         /\ dpc \in [Writers -> DqLabels] /\ dl \in [Writers -> DqLocal] /\ dl[w] \in DqLocal
         /\ kept \in [Writers -> SUBSET Objects] /\ dq \in Seq(Entry)
         /\ hold \in Writers \union {NoWriter} /\ deleted \in BOOLEAN
  <1>1. RcuInv /\ DqTypeOK /\ DqWriterOK(w)
    BY Zenon DEF DqInv
  <1> QED BY <1>1, WriterFacts, Zenon DEF DqTypeOK

\* Before it ends, a check works on one entry.
LEMMA CheckMoves ==
  ASSUME RcuInv, NEW w \in Writers,
         \/ LoadAcked(w) \/ LoadNum(w) \/ LoadBmap(w)
         \/ LoadCnt(w) \/ LoadCntBehind(w) \/ StoreAcked(w)
  PROVE  /\ RcuInv' /\ OthersSame(w) /\ wpc[w] # "idle"
         /\ UNCHANGED <<pend, live, freed>>
         /\ wpc'[w] = "idle" \/ (InCheck(w)' /\ Checked(w)' = Checked(w))
  <1> USE WriterFacts DEF WGoto
  <1>1. RcuInv'
    BY ScanInv, StoreAckedInv, Zenon
  <1>2. CASE LoadAcked(w) \/ StoreAcked(w)
    BY <1>1, <1>2, Zenon DEF LoadAcked, StoreAcked, OthersSame, InCheck, Checked
  <1>3. \A l : ScanAt(wl[w], l) \in {"cnt", "bmap", "ack"}
    BY Zenon DEF ScanAt
  <1>4. CASE LoadNum(w)
    <2>1. wl'[w].obj = wl[w].obj /\ wl'[w].tok = wl[w].tok /\ wpc'[w] \in {"cnt", "bmap"}
      BY <1>4 DEF LoadNum, Local
    <2> QED BY <1>1, <1>4, <2>1, Zenon DEF LoadNum, OthersSame, InCheck, Checked
  <1>5. CASE LoadBmap(w)
    <2>1. wl'[w].obj = wl[w].obj /\ wl'[w].tok = wl[w].tok
      BY <1>5, Zenon DEF LoadBmap, Local
    <2>2. wpc'[w] \in {"cnt", "bmap", "ack"}
      BY <1>5, <1>3, Zenon DEF LoadBmap
    <2> QED BY <1>1, <1>5, <2>1, <2>2, Zenon DEF LoadBmap, OthersSame, InCheck, Checked
  <1>6. CASE LoadCnt(w)
    <2>1. wl'[w].obj = wl[w].obj /\ wl'[w].tok = wl[w].tok
      BY <1>6, Zenon DEF LoadCnt, Local
    <2>2. wpc'[w] \in {"cnt", "bmap", "ack"}
      BY <1>6, <1>3, Zenon DEF LoadCnt
    <2> QED BY <1>1, <1>6, <2>1, <2>2, Zenon DEF LoadCnt, OthersSame, InCheck, Checked
  <1>7. CASE LoadCntBehind(w)
    <2>1. wpc'[w] = "idle" \/ (wpc'[w] \in {"cnt", "bmap"} /\ wl' = wl)
      BY <1>7, Zenon DEF LoadCntBehind, WReturn
    <2> QED BY <1>1, <1>7, <2>1, Zenon DEF LoadCntBehind, WReturn, OthersSame, InCheck, Checked
  <1> QED BY <1>2, <1>4, <1>5, <1>6, <1>7, Zenon


\* The check of the oldest entry.
LEMMA DqCheckInv ==
  ASSUME DqInv, NEW w \in Writers, DqCheck(w)
  PROVE  DqInv'
  <1> USE DqFacts DEF dqvars
  <1>1. /\ RcuInv' /\ OthersSame(w) /\ wpc[w] # "idle" /\ dpc[w] = "check"
        /\ UNCHANGED <<pend, live, freed, size, dq, hold, dpc, dl, kept, deleted>>
        /\ wpc'[w] = "idle" \/ (InCheck(w)' /\ Checked(w)' = Checked(w))
    <2>1. dpc[w] = "check" /\ UNCHANGED dqvars
      BY Zenon DEF DqCheck
    <2> QED BY <2>1, CheckMoves, Zenon DEF DqCheck
  <1>2. DqOthersSame(w)
    BY <1>1, Zenon DEF DqOthersSame
  <1>3. DqTypeOK'
    BY <1>1, Zenon DEF DqTypeOK
  <1>4. \A x \in Writers : DqWriterOK(x)'
    <2>1. DqWriterOK(w)'
      BY <1>1, Zenon DEF DqWriterOK
    <2>2. \A x \in Writers \ {w} : DqWriterOK(x)'
      <3>1. \A x \in Writers \ {w} : dpc[x] = "check" => dq # <<>>
        BY Zenon DEF DqInv, DqWriterOK
      <3> QED BY <1>1, <1>2, <3>1, OtherWriters, Zenon
    <2> QED BY <2>1, <2>2, Zenon
  <1>5. DqEntries' /\ DqOver'
    BY <1>1, Zenon DEF DqInv, DqEntries, DqOver
  <1>6. \A o \in Objects : Placed(o)'
    <2> SUFFICES ASSUME NEW o \in Objects PROVE Placed(o)'
      BY Zenon
    <2>1. Queued(o)' = Queued(o)
      BY <1>1, Zenon DEF Queued
    <2>2. /\ w \in Inside(o)' <=> w \in Inside(o)
          /\ w \in Leaving(o)' <=> w \in Leaving(o)
          /\ w \in Back(o)' <=> w \in Back(o)
      BY <1>1, Zenon DEF Inside, Leaving, Back
    <2> QED BY <1>1, <1>2, <2>1, <2>2, PlacedFrame, Zenon DEF DqInv
  <1> QED BY <1>1, <1>3, <1>4, <1>5, <1>6, Zenon DEF DqInv

\* Steps inside a call that move neither an entry nor an object: the decision
\* to reclaim first, the end of a reclamation and the end of a call.
LEMMA DqInsideInv ==
  ASSUME DqInv, NEW w \in Writers,
         DqCount(w) \/ DqPeekEnds(w) \/ DqLeave(w) \/ DqPending(w)
  PROVE  DqInv'
  <1> USE DqFacts DEF DGoto, DReturn
  <1>1. /\ dpc[w] \in {"count", "peek", "check", "pending"} /\ wpc[w] = "idle"
        /\ UNCHANGED <<vars, dq, kept, size>>
        /\ dpc' = [dpc EXCEPT ![w] = dpc'[w]] /\ dl' = [dl EXCEPT ![w] = dl'[w]]
    <2>1. DqWriterOK(w)
      BY Zenon DEF DqInv
    <2>2. CASE DqCount(w)
      BY <2>1, <2>2, Zenon DEF DqCount, DqWriterOK
    <2>3. CASE DqPeekEnds(w)
      BY <2>1, <2>3, Zenon DEF DqPeekEnds, DqWriterOK
    <2>4. CASE DqLeave(w)
      BY <2>1, <2>4, Zenon DEF DqLeave, DqWriterOK
    <2>5. CASE DqPending(w)
      BY <2>1, <2>5, Zenon DEF DqPending, DqWriterOK
    <2> QED  BY <2>2, <2>3, <2>4, <2>5, Zenon
  <1>2. UNCHANGED <<token, acked, cnt, bmap, nthr, rpc, rt, refs, wpc, wl, pend, live, freed>>
    BY <1>1, Zenon DEF vars
  <1>3. DqOthersSame(w)
    BY <1>1, <1>2, Zenon DEF DqOthersSame, OthersSame
  <1>4. RcuInv'
    <2>1. TypeOK' /\ WriterOK(w)'
      BY <1>2, Zenon DEF TypeOK, WriterOK, InCheck, Scanning
    <2> QED BY <1>1, <1>2, <1>3, <2>1, MoveInv, Zenon DEF DqOthersSame
  <1>5. /\ dl'[w] \in DqLocal /\ dl'[w].call \in {dl[w].call, "none"}
        /\ dl'[w].call = "none" <=> dpc[w] = "pending"
        /\ dl'[w].e = dl[w].e \/ dpc[w] = "pending"
    <2>1. NoCall \in DqLocal /\ NoCall.call = "none"
      BY DEF NoCall, DqLocal
    <2>2. [dl[w] EXCEPT !.n = MaxReclaim] \in DqLocal
      BY DqParameters, ZenonT(60) DEF DqLocal
    <2>3. CASE DqCount(w)
      BY <2>2, <2>3, ZenonT(60) DEF DqCount, DqLocal, DqWriterOK
    <2>4. CASE DqPeekEnds(w) \/ DqLeave(w)
      BY <2>4, Zenon DEF DqPeekEnds, DqLeave, DqWriterOK
    <2>5. CASE DqPending(w)
      BY <2>1, <2>5, Zenon DEF DqPending, DqWriterOK
    <2> QED BY <2>3, <2>4, <2>5, Zenon
  <1>6. /\ dpc[w] = "count" => dpc'[w] \in {"peek", "put"} /\ hold' = hold
        /\ dpc[w] = "peek" => dpc'[w] = AfterReclaim(w) /\ hold' = hold
        /\ dpc[w] = "check" => dpc'[w] = AfterReclaim(w) /\ hold' = NoWriter
        /\ dpc[w] = "pending" => dpc'[w] = "none" /\ hold' = hold
        /\ dpc[w] # "pending" => deleted' = deleted
    BY Zenon DEF DqCount, DqPeekEnds, DqLeave, DqPending
  <1>7. deleted' \in BOOLEAN /\ (deleted' => deleted \/ (dl[w].call = "del" /\ dq = <<>> /\ dpc'[w] = "none"))
    <2>1. CASE DqPending(w)
      <3>1. dpc[w] = "pending" /\ deleted' = (deleted \/ (dl[w].call = "del" /\ dq = <<>>))
        BY <2>1, Zenon DEF DqPending
      <3> QED BY <1>6, <3>1
    <2>2. CASE ~ DqPending(w)
      <3>1. deleted' = deleted
        BY <2>2, Zenon DEF DqCount, DqPeekEnds, DqLeave
      <3> QED BY <3>1, Zenon
    <2> QED BY <2>1, <2>2, Zenon
  <1>8. DqTypeOK'
    BY <1>1, <1>5, <1>6, <1>7, Zenon DEF DqTypeOK, DqLabels, AfterReclaim
  <1>9. hold' # w
    <2>1. dpc[w] # "check" => hold # w
      BY Zenon DEF DqWriterOK
    <2> QED BY <1>1, <1>6, <2>1, DqParameters, Zenon
  <1>10. dpc'[w] \in {"put", "peek", "pending", "none"}
    BY <1>1, <1>6, Zenon DEF AfterReclaim
  <1>11. \A x \in Writers : DqWriterOK(x)'
    <2>1. DqWriterOK(w)'
      <3>1. dpc'[w] = "put" => dl'[w].call = "enq"
        BY <1>1, <1>5, <1>6, Zenon DEF DqWriterOK, AfterReclaim
      <3>2. dpc'[w] = "pending" => dl'[w].call \in {"rec", "del"}
        BY <1>1, <1>5, <1>6, Zenon DEF DqWriterOK, AfterReclaim, DqLocal
      <3>3. dl'[w].call = "enq" => dl'[w].e \in pend'[w]
        BY <1>1, <1>2, <1>5, Zenon DEF DqWriterOK
      <3>4. dl'[w].call = "del" =>
              live' = {} /\ \A x \in Writers : kept'[x] = {} /\ (x # w => dpc'[x] = "none")
        <4> SUFFICES ASSUME dl'[w].call = "del"
                     PROVE  live' = {} /\ \A x \in Writers : kept'[x] = {} /\ (x # w => dpc'[x] = "none")
          BY Zenon
        <4>1. dl[w].call = "del"
          BY <1>5, Zenon
        <4>2. live = {} /\ \A x \in Writers : kept[x] = {} /\ (x # w => dpc[x] = "none")
          BY <4>1, Zenon DEF DqWriterOK
        <4> QED BY <1>1, <1>2, <1>3, <4>2, Zenon DEF DqOthersSame
      <3>5. dpc'[w] = "none" <=> dl'[w].call = "none"
        BY <1>1, <1>5, <1>6, Zenon DEF AfterReclaim
      <3>6. wpc'[w] = "idle" /\ dpc'[w] \notin {"start", "free", "check", "count"}
        BY <1>1, <1>2, <1>10, Zenon
      <3> QED BY <1>9, <3>1, <3>2, <3>3, <3>4, <3>5, <3>6, Zenon DEF DqWriterOK
    <2>2. \A x \in Writers \ {w} : DqWriterOK(x)'
      <3>1. \A x \in Writers \ {w} : dpc[x] = "check" => dq # <<>>
        BY Zenon DEF DqInv, DqWriterOK
      <3>2. hold' = hold \/ {hold, hold'} \subseteq {w, NoWriter}
        BY <1>1, <1>6, Zenon DEF DqWriterOK
      <3> QED BY <1>1, <1>2, <1>3, <3>1, <3>2, OtherWriters, Zenon
    <2> QED BY <2>1, <2>2, Zenon
  <1>12. DqEntries'
    BY <1>1, <1>2, Zenon DEF DqInv, DqEntries
  <1>13. DqOver'
    <2>1. ~ deleted
      BY <1>1, Zenon DEF DqInv, DqOver
    <2> SUFFICES ASSUME deleted'
                 PROVE  /\ dq' = <<>> /\ live' = {}
                        /\ \A x \in Writers : dpc'[x] = "none" /\ kept'[x] = {}
      BY Zenon DEF DqOver
    <2>2. dl[w].call = "del" /\ dq = <<>> /\ dpc'[w] = "none"
      BY <1>7, <2>1, Zenon
    <2>3. live = {} /\ \A x \in Writers : kept[x] = {} /\ (x # w => dpc[x] = "none")
      BY <2>2, Zenon DEF DqWriterOK
    <2> QED BY <1>1, <1>2, <1>3, <2>2, <2>3, Zenon DEF DqOthersSame
  <1>14. \A o \in Objects : Placed(o)'
    <2> SUFFICES ASSUME NEW o \in Objects PROVE Placed(o)'
      BY Zenon
    <2>1. Queued(o)' = Queued(o)
      BY <1>1, Zenon DEF Queued
    <2>2. w \in Inside(o)' <=> w \in Inside(o)
      <3>1. CASE dpc[w] = "pending"
        BY <1>5, <3>1, Zenon DEF Inside
      <3>2. CASE dpc[w] # "pending"
        BY <1>1, <1>5, <1>6, <3>2, Zenon DEF Inside, AfterReclaim
      <3> QED BY <3>1, <3>2, Zenon
    <2>3. /\ w \in Leaving(o)' <=> w \in Leaving(o)
          /\ w \in Back(o)' <=> w \in Back(o)
      BY <1>1, <1>10, Zenon DEF Leaving, Back
    <2> QED BY <1>2, <1>3, <2>1, <2>2, <2>3, PlacedFrame, Zenon DEF DqInv
  <1> QED BY <1>4, <1>8, <1>11, <1>12, <1>13, <1>14, Zenon DEF DqInv


\* The calls of rte_rcu_qsbr_dq_reclaim and rte_rcu_qsbr_dq_delete.
LEMMA DqReclaimInv ==
  ASSUME DqInv, NEW w \in Writers,
         (\E n \in Amounts : DqReclaim(w, n)) \/ DqDelete(w)
  PROVE  DqInv'
  <1> USE DqFacts DEF DGoto
  <1>1. /\ Ready(w) /\ dpc[w] = "none" /\ wpc[w] = "idle" /\ ~ deleted
        /\ dpc' = [dpc EXCEPT ![w] = "peek"] /\ dl' = [dl EXCEPT ![w] = dl'[w]]
        /\ UNCHANGED <<vars, dq, hold, kept, size, deleted>>
    BY Zenon DEF DqReclaim, DqDelete, Ready
  <1>2. UNCHANGED <<token, acked, cnt, bmap, nthr, rpc, rt, refs, wpc, wl, pend, live, freed>>
    BY <1>1, Zenon DEF vars
  <1>3. dl'[w] \in DqLocal /\ dl'[w].call \in {"rec", "del"} /\ dl'[w].call # "none"
    <2>1. NoCall \in DqLocal
      BY DEF NoCall, DqLocal
    <2>2. \A n \in Amounts : [NoCall EXCEPT !.call = "rec", !.n = n] \in DqLocal
      BY DqParameters, ZenonT(60) DEF NoCall, DqLocal
    <2>3. [NoCall EXCEPT !.call = "del", !.n = Cardinality(Objects) + 1] \in DqLocal
      <3>1. Cardinality(Objects) + 1 \in Nat
        BY DqParameters, FS_CardinalityType
      <3> QED BY <3>1, ZenonT(60) DEF NoCall, DqLocal
    <2>4. CASE DqDelete(w)
      BY <2>3, <2>4, Zenon DEF DqDelete, NoCall
    <2>5. ASSUME NEW n \in Amounts, DqReclaim(w, n)
          PROVE  dl'[w] \in DqLocal /\ dl'[w].call \in {"rec", "del"} /\ dl'[w].call # "none"
      BY <2>2, <2>5, Zenon DEF DqReclaim, NoCall
    <2> QED BY <2>4, <2>5, Zenon
  <1>4. dl'[w].call = "del" => live = {} /\ \A x \in Writers : dpc[x] = "none" /\ kept[x] = {}
    <2>1. CASE DqDelete(w)
      BY <2>1, Zenon DEF DqDelete
    <2>2. ASSUME NEW n \in Amounts, DqReclaim(w, n)
          PROVE  dl'[w].call # "del"
      <3>1. dl' = [dl EXCEPT ![w] = [NoCall EXCEPT !.call = "rec", !.n = n]]
        BY <2>2, Zenon DEF DqReclaim
      <3>2. dl'[w].call = "rec"
        BY <3>1, Zenon DEF NoCall, DqTypeOK
      <3> QED BY <3>2, Zenon
    <2> QED BY <2>1, <2>2, Zenon
  <1>5. DqOthersSame(w)
    BY <1>1, <1>2, Zenon DEF DqOthersSame, OthersSame
  <1>6. RcuInv'
    <2>1. TypeOK' /\ WriterOK(w)'
      BY <1>2, Zenon DEF TypeOK, WriterOK, InCheck, Scanning
    <2> QED BY <1>1, <1>2, <1>5, <2>1, MoveInv, Zenon DEF DqOthersSame
  <1>7. DqTypeOK'
    BY <1>1, <1>3, Zenon DEF DqTypeOK, DqLabels
  <1>8. \A x \in Writers : DqWriterOK(x)'
    <2>1. DqWriterOK(w)'
      <3>1. hold' # w /\ dpc'[w] = "peek" /\ wpc'[w] = "idle"
        BY <1>1, <1>2, Zenon DEF DqWriterOK
      <3>2. dl'[w].call = "del" =>
              live' = {} /\ \A x \in Writers : kept'[x] = {} /\ (x # w => dpc'[x] = "none")
        BY <1>1, <1>2, <1>4, <1>5, Zenon DEF DqOthersSame
      <3> QED BY <1>3, <3>1, <3>2, Zenon DEF DqWriterOK
    <2>2. \A x \in Writers \ {w} : DqWriterOK(x)'
      <3>1. \A x \in Writers \ {w} : dpc[x] = "check" => dq # <<>>
        BY Zenon DEF DqInv, DqWriterOK
      <3> QED BY <1>1, <1>2, <1>5, <3>1, OtherWriters, Zenon
    <2> QED BY <2>1, <2>2, Zenon
  <1>9. DqEntries' /\ DqOver'
    BY <1>1, <1>2, Zenon DEF DqInv, DqEntries, DqOver
  <1>10. \A o \in Objects : Placed(o)'
    <2> SUFFICES ASSUME NEW o \in Objects PROVE Placed(o)'
      BY Zenon
    <2>1. Queued(o)' = Queued(o)
      BY <1>1, Zenon DEF Queued
    <2>2. /\ w \in Inside(o)' <=> w \in Inside(o)
          /\ w \in Leaving(o)' <=> w \in Leaving(o)
          /\ w \in Back(o)' <=> w \in Back(o)
      BY <1>1, <1>3, Zenon DEF Inside, Leaving, Back
    <2> QED BY <1>2, <1>5, <2>1, <2>2, PlacedFrame, Zenon DEF DqInv
  <1> QED BY <1>6, <1>7, <1>8, <1>9, <1>10, Zenon DEF DqInv

\* An object goes to the queue, for the first time or again.
LEMMA DqEnqueueInv ==
  ASSUME DqInv, NEW w \in Writers, NEW o \in Objects,
         DqEnqueue(w, o) \/ DqEnqueueAgain(w, o)
  PROVE  DqInv'
  <1> USE DqFacts DEF DGoto, WGoto
  <1>1. /\ Ready(w) /\ dpc[w] = "none" /\ wpc[w] = "idle" /\ ~ deleted
        /\ dpc' = [dpc EXCEPT ![w] = "start"] /\ wpc' = [wpc EXCEPT ![w] = "start"]
        /\ dl' = [dl EXCEPT ![w] = [NoCall EXCEPT !.call = "enq"]]
        /\ wl' = [wl EXCEPT ![w] = wl'[w]]
        /\ wl'[w] \in {[NoLocal EXCEPT !.obj = o, !.sync = FALSE], [NoLocal EXCEPT !.obj = o]}
        /\ UNCHANGED <<token, acked, cnt, bmap, nthr, rpc, rt, refs, pend, freed>>
        /\ UNCHANGED <<dq, hold, size, deleted>>
    BY Zenon DEF DqEnqueue, DqEnqueueAgain, Remove, Ready, rvars
  <1>2. \/ o \in live /\ live' = live \ {o} /\ kept' = kept
        \/ o \in kept[w] /\ live' = live /\ kept' = [kept EXCEPT ![w] = @ \ {o}]
    BY Zenon DEF DqEnqueue, DqEnqueueAgain, Remove
  <1>3. /\ dl'[w] \in DqLocal /\ dl'[w].call = "enq" /\ wl'[w].obj = o /\ wl'[w].sync = FALSE
        /\ wl'[w] \in Local /\ wl'[w].min = 0 /\ wl'[w].word = 0
    <2>1. [NoCall EXCEPT !.call = "enq"] \in DqLocal
      BY ZenonT(60) DEF NoCall, DqLocal
    <2>2. /\ [NoLocal EXCEPT !.obj = o, !.sync = FALSE] \in Local
          /\ [NoLocal EXCEPT !.obj = o] \in Local
      BY ZenonT(60) DEF NoLocal, Local
    <2> QED BY <1>1, <2>1, <2>2, Zenon DEF NoCall, NoLocal
  <1>4. DqOthersSame(w)
    <2>1. \A x \in Writers \ {w} : kept'[x] = kept[x]
      BY <1>2, Zenon
    <2> QED BY <1>1, <2>1, Zenon DEF DqOthersSame, OthersSame
  <1>5. o \notin live' /\ live' \subseteq live
    <2>1. o \in kept[w] => o \notin live
      <3>1. o \in kept[w] => w \in Back(o)
        BY Zenon DEF Back
      <3> QED BY <3>1, PlaceIs, Zenon DEF DqInv, At
    <2> QED BY <1>2, <2>1, Zenon
  <1>6. RcuInv'
    <2>1. TypeOK'
      BY <1>1, <1>3, <1>5, Zenon DEF TypeOK
    <2>2. WriterOK(w)'
      BY <1>1, <1>3, <1>5, Zenon DEF WriterOK, InCheck, Scanning
    <2>3. ScanOK(w)' /\ Counted(w)'
      BY <1>1, Zenon DEF ScanOK, Counted, Passed, Scanning
    <2> QED BY <1>1, <1>4, <1>5, <2>1, <2>2, <2>3, WriterFrame, Zenon DEF DqOthersSame
  <1>7. DqTypeOK'
    BY <1>1, <1>2, <1>3, Zenon DEF DqTypeOK, DqLabels
  <1>8. \A x \in Writers : DqWriterOK(x)'
    <2>1. DqWriterOK(w)'
      <3>1. hold' # w /\ dpc'[w] = "start" /\ wpc'[w] = "start"
        BY <1>1, Zenon DEF DqWriterOK
      <3> QED BY <1>3, <3>1, Zenon DEF DqWriterOK
    <2>2. \A x \in Writers \ {w} : DqWriterOK(x)'
      <3>1. \A x \in Writers \ {w} : dpc[x] = "check" => dq # <<>>
        BY Zenon DEF DqInv, DqWriterOK
      <3> QED BY <1>1, <1>4, <3>1, OtherWriters, Zenon
    <2> QED BY <2>1, <2>2, Zenon
  <1>9. DqEntries' /\ DqOver'
    BY <1>1, Zenon DEF DqInv, DqEntries, DqOver
  <1>10. \A p \in Objects : Queued(p)' = Queued(p)
    BY <1>1, Zenon DEF Queued
  <1>11. \A p : w \notin Inside(p) /\ w \notin Leaving(p) /\ w \notin Leaving(p)'
    BY <1>1, Zenon DEF Inside, Leaving
  <1>12. ASSUME NEW p \in Objects, p # o PROVE Placed(p)'
    <2>1. w \notin Inside(p)' /\ (w \in Back(p)' <=> w \in Back(p)) /\ (p \in live' <=> p \in live)
      BY <1>1, <1>2, <1>3, <1>12, ZenonT(60) DEF Inside, Back
    <2> QED BY <1>1, <1>4, <1>10, <1>11, <1>12, <2>1, PlacedFrame, Zenon DEF DqInv
  <1>13. At(o, FALSE, FALSE, {w}, {}, {}, {})'
    <2>1. w \in Inside(o)'
      BY <1>1, <1>3, Zenon DEF Inside
    <2>2. o \in live => At(o, TRUE, FALSE, {}, {}, {}, {})
      BY PlaceIs, Zenon DEF DqInv
    <2>3. o \in kept[w] => At(o, FALSE, FALSE, {}, {}, {}, {w})
      <3>1. o \in kept[w] => w \in Back(o)
        BY Zenon DEF Back
      <3> QED BY <3>1, PlaceIs, Zenon DEF DqInv
    <2>4. w \notin Back(o)'
      <3>1. o \in live => w \notin Back(o)
        BY <2>2, Zenon DEF At
      <3> QED BY <1>2, <3>1, Zenon DEF Back
    <2>5. Inside(o)' = {w} /\ Leaving(o)' = {} /\ Back(o)' = {}
      BY <1>2, <1>4, <1>11, <2>1, <2>2, <2>3, <2>4, PlacesOf, Zenon DEF At
    <2>6. o \notin freed' /\ Queued(o)' = {}
      BY <1>1, <1>2, <1>10, <2>2, <2>3, Zenon DEF At
    <2> QED BY <1>5, <2>5, <2>6, Zenon DEF At
  <1>14. Placed(o)'
    BY <1>13, Zenon DEF Placed
  <1> QED BY <1>6, <1>7, <1>8, <1>9, <1>12, <1>14, Zenon DEF DqInv


\* rte_rcu_qsbr_start for the object that is enqueued.
LEMMA DqStartInv ==
  ASSUME DqInv, Covered, NEW w \in Writers, DqStart(w)
  PROVE  DqInv'
  <1> USE DqFacts DEF DGoto, WGoto, WReturn
  <1> DEFINE o == wl[w].obj
             e == [obj |-> o, tok |-> token + 1]
  <1>1. /\ dpc[w] = "start" /\ wpc[w] = "start" /\ ~ wl[w].sync /\ dl[w].call = "enq"
        /\ o \in Objects
    BY Zenon DEF DqStart, DqWriterOK, WriterOK
  <1>2. /\ dl' = [dl EXCEPT ![w] = [@ EXCEPT !.e = e]] /\ dpc' = [dpc EXCEPT ![w] = "count"]
        /\ pend' = [pend EXCEPT ![w] = @ \union {e}]
        /\ wpc' = [wpc EXCEPT ![w] = "idle"] /\ wl' = [wl EXCEPT ![w] = NoLocal]
        /\ UNCHANGED <<live, freed, dq, hold, kept, deleted, size>>
    BY <1>1, Zenon DEF DqStart, Start
  <1>3. RcuInv'
    BY StartInv, Zenon DEF DqStart
  <1>4. e \in Entry /\ e.obj = o
    BY <1>1 DEF Entry, TypeOK
  <1> HIDE DEF e, o
  <1>5. dl'[w] \in DqLocal /\ dl'[w].call = "enq" /\ dl'[w].e = e
    BY <1>1, <1>2, <1>4, Zenon DEF DqLocal
  <1>6. DqOthersSame(w)
    BY <1>2, Zenon DEF DqOthersSame, OthersSame
  <1>7. DqTypeOK'
    BY <1>2, <1>5, Zenon DEF DqTypeOK, DqLabels
  <1>8. \A x \in Writers : pend[x] \subseteq pend'[x]
    BY <1>2, Zenon
  <1>9. \A x \in Writers : DqWriterOK(x)'
    <2>1. DqWriterOK(w)'
      <3>1. hold' # w /\ dpc'[w] = "count" /\ wpc'[w] = "idle" /\ dl'[w].e \in pend'[w]
        <4>1. hold # w
          BY <1>1, Zenon DEF DqWriterOK
        <4>2. pend'[w] = pend[w] \union {e} /\ dpc'[w] = "count" /\ wpc'[w] = "idle" /\ hold' = hold
          BY <1>2, Zenon
        <4> QED BY <1>5, <4>1, <4>2, Zenon
      <3> QED BY <1>5, <3>1, Zenon DEF DqWriterOK
    <2>2. \A x \in Writers \ {w} : DqWriterOK(x)'
      <3>1. \A x \in Writers \ {w} : dpc[x] = "check" => dq # <<>>
        BY Zenon DEF DqInv, DqWriterOK
      <3> QED BY <1>1, <1>2, <1>6, <1>8, <3>1, OtherWriters, Zenon
    <2> QED BY <2>1, <2>2, Zenon
  <1>10. DqEntries'
    BY <1>2, <1>8, Zenon DEF DqInv, DqEntries
  <1>11. DqOver'
    BY <1>1, <1>2, Zenon DEF DqInv, DqOver
  <1>12. \A p \in Objects : Placed(p)'
    <2> SUFFICES ASSUME NEW p \in Objects PROVE Placed(p)'
      BY Zenon
    <2>1. Queued(p)' = Queued(p)
      BY <1>2, Zenon DEF Queued
    <2>2. w \in Inside(p)' <=> w \in Inside(p)
      BY <1>1, <1>2, <1>4, <1>5, Zenon DEF Inside, o
    <2>3. /\ w \in Leaving(p)' <=> w \in Leaving(p)
          /\ w \in Back(p)' <=> w \in Back(p)
      BY <1>1, <1>2, Zenon DEF Leaving, Back
    <2> QED BY <1>2, <1>6, <2>1, <2>2, <2>3, PlacedFrame, Zenon DEF DqInv
  <1> QED BY <1>3, <1>7, <1>9, <1>10, <1>11, <1>12, Zenon DEF DqInv

\* The entry goes into the queue; or there is no room, and the object back to
\* the caller.
LEMMA DqPutInv ==
  ASSUME DqInv, NEW w \in Writers, DqPut(w)
  PROVE  DqInv'
  <1> USE DqFacts DEF DGoto, DReturn
  <1>0. dpc[w] = "put" /\ wpc[w] = "idle" /\ dl[w].call = "enq" /\ dl[w].e \in pend[w]
    BY Zenon DEF DqPut, DqWriterOK
  <1>e. PICK e \in pend[w] : e = dl[w].e
    BY <1>0, Zenon
  <1> DEFINE room == Len(dq) < DqCapacity
  <1>1. /\ dpc[w] = "put" /\ wpc[w] = "idle" /\ dl[w].call = "enq"
        /\ dpc' = [dpc EXCEPT ![w] = "none"] /\ dl' = [dl EXCEPT ![w] = NoCall]
        /\ UNCHANGED <<token, acked, cnt, bmap, nthr, rpc, rt, refs, wpc, wl, live, freed>>
        /\ UNCHANGED <<hold, deleted, size>>
    BY <1>0, Zenon DEF DqPut, rvars
  <1>2. \/ dq' = Append(dq, e) /\ UNCHANGED <<kept, pend>>
        \/ /\ kept' = [kept EXCEPT ![w] = @ \union {e.obj}]
           /\ pend' = [pend EXCEPT ![w] = @ \ {e}] /\ dq' = dq
    <2>1. CASE room
      BY <1>e, <2>1, Zenon DEF DqPut
    <2>2. CASE ~ room
      BY <1>e, <2>2, Zenon DEF DqPut
    <2> QED BY <2>1, <2>2, Zenon
  <1>3. e \in Entry /\ e.obj \in Objects
    BY DEF Entry
  <1>4. At(e.obj, FALSE, FALSE, {w}, {}, {}, {})
    <2>1. w \in Inside(e.obj)
      BY <1>e, <1>1, Zenon DEF Inside
    <2> QED BY <1>3, <2>1, PlaceIs, Zenon DEF DqInv
  <1> HIDE DEF room
  <1>5. NoCall \in DqLocal /\ NoCall.call = "none"
    BY DEF NoCall, DqLocal
  <1>6. DqOthersSame(w)
    <2>1. \A x \in Writers \ {w} : kept'[x] = kept[x]
      BY <1>2, Zenon
    <2> QED BY <1>1, <2>1, Zenon DEF DqOthersSame, OthersSame
  <1>7. \A x \in Writers \ {w} : pend'[x] = pend[x]
    BY <1>2, Zenon
  <1>8. pend' \in [Writers -> SUBSET Entry] /\ pend'[w] \subseteq pend[w]
    BY <1>2, Zenon
  <1>9. RcuInv'
    <2>1. TypeOK'
      BY <1>1, <1>8, Zenon DEF TypeOK
    <2>2. WriterOK(w)'
      BY <1>1, Zenon DEF WriterOK, InCheck, Scanning
    <2> QED BY <1>1, <1>6, <1>7, <1>8, <2>1, <2>2, MoveInv, Zenon DEF DqOthersSame
  <1>10. dq' \in Seq(Entry)
    BY <1>2, <1>3
  <1>11. DqTypeOK'
    <2>1. kept[w] \union {e.obj} \in SUBSET Objects
      BY <1>3, Zenon
    <2>2. kept' \in [Writers -> SUBSET Objects]
      BY <1>2, <2>1, Zenon
    <2> QED BY <1>1, <1>5, <1>10, <2>2, Zenon DEF DqTypeOK, DqLabels
  <1>12. \A x \in Writers : DqWriterOK(x)'
    <2>1. DqWriterOK(w)'
      <3>1. hold' # w /\ dpc'[w] = "none" /\ wpc'[w] = "idle" /\ dl'[w].call = "none"
        BY <1>1, <1>5, Zenon DEF DqWriterOK
      <3> QED BY <3>1, Zenon DEF DqWriterOK
    <2>2. \A x \in Writers \ {w} : DqWriterOK(x)'
      <3>1. \A x \in Writers \ {w} : dpc[x] = "check" => dq # <<>>
        BY Zenon DEF DqInv, DqWriterOK
      <3>2. dq # <<>> => dq' # <<>> /\ dq'[1] = dq[1]
        BY <1>2, <1>3
      <3> QED BY <1>1, <1>6, <1>7, <3>1, <3>2, OtherWriters, Zenon
    <2> QED BY <2>1, <2>2, Zenon
  <1>13. DqEntries'
    <2>1. CASE dq' = Append(dq, e) /\ pend' = pend
      <3>1. \A i \in 1 .. Len(dq') : dq'[i] = e \/ (i \in 1 .. Len(dq) /\ dq'[i] = dq[i])
        BY <1>3, <2>1
      <3>2. \A i \in 1 .. Len(dq) : \E x \in Writers : dq[i] \in pend[x]
        BY Zenon DEF DqInv, DqEntries
      <3>3. e \in pend[w]
        OBVIOUS
      <3>4. ASSUME NEW i \in 1 .. Len(dq') PROVE \E x \in Writers : dq'[i] \in pend[x]
        <4>1. CASE dq'[i] = e
          BY <3>3, <4>1, Zenon
        <4>2. CASE i \in 1 .. Len(dq) /\ dq'[i] = dq[i]
          BY <3>2, <4>2, Zenon
        <4> QED BY <3>1, <4>1, <4>2, Zenon
      <3> QED BY <2>1, <3>4, Zenon DEF DqEntries
    <2>2. CASE dq' = dq /\ pend' = [pend EXCEPT ![w] = @ \ {e}]
      <3>1. \A i \in 1 .. Len(dq) : dq[i] # e
        BY <1>4, Zenon DEF At, Queued
      <3> QED BY <1>7, <2>2, <3>1, Zenon DEF DqInv, DqEntries
    <2> QED BY <1>2, <2>1, <2>2, Zenon
  <1>14. DqOver'
    BY <1>1, Zenon DEF DqInv, DqOver
  <1>15. \A p : w \notin Leaving(p) /\ w \notin Leaving(p)' /\ w \notin Inside(p)'
    BY <1>1, Zenon DEF Inside, Leaving
  <1>16. ASSUME NEW p \in Objects, p # e.obj PROVE Placed(p)'
    <2>1. w \notin Inside(p)
      BY <1>e, <1>1, <1>16, Zenon DEF Inside
    <2>2. w \in Back(p)' <=> w \in Back(p)
      <3>1. kept'[w] = kept[w] \/ kept'[w] = kept[w] \union {e.obj}
        BY <1>2, Zenon
      <3> QED BY <1>16, <3>1, Zenon DEF Back
    <2>3. Queued(p)' = Queued(p)
      BY <1>2, <1>3, <1>16 DEF Queued
    <2> QED BY <1>1, <1>6, <1>15, <1>16, <2>1, <2>2, <2>3, PlacedFrame, Zenon DEF DqInv
  <1>17. Placed(e.obj)'
    <2>1. Inside(e.obj)' = {} /\ Leaving(e.obj)' = {}
      BY <1>4, <1>6, <1>15, PlacesOf, Zenon DEF At
    <2>2. e.obj \notin live' /\ e.obj \notin freed'
      BY <1>1, <1>4, Zenon DEF At
    <2>3. CASE dq' = Append(dq, e) /\ kept' = kept
      <3>1. Queued(e.obj)' = {Len(dq) + 1}
        <4>1. \A i \in 1 .. Len(dq) : dq[i].obj # e.obj
          BY <1>4, Zenon DEF At, Queued
        <4> QED BY <1>3, <2>3, <4>1 DEF Queued
      <3>2. Back(e.obj)' = {}
        BY <1>4, <2>3, Zenon DEF At, Back
      <3>3. Len(dq) + 1 \in Nat
        OBVIOUS
      <3> QED BY <2>1, <2>2, <3>1, <3>2, <3>3, Zenon DEF Placed, At
    <2>4. CASE dq' = dq /\ kept' = [kept EXCEPT ![w] = @ \union {e.obj}]
      <3>1. w \in Back(e.obj)'
        BY <2>4, Zenon DEF Back
      <3>2. Back(e.obj)' = {w}
        BY <1>4, <1>6, <3>1, PlacesOf, Zenon DEF At
      <3>3. Queued(e.obj)' = {}
        BY <1>4, <2>4, Zenon DEF At, Queued
      <3> QED BY <2>1, <2>2, <3>2, <3>3, Zenon DEF Placed, At
    <2> QED BY <1>2, <2>3, <2>4, Zenon
  <1> QED BY <1>9, <1>11, <1>12, <1>13, <1>14, <1>16, <1>17, Zenon DEF DqInv


\* What is in the queue is nowhere else, and is not live.
LEMMA QueuedEntry ==
  ASSUME DqInv, NEW i \in 1 .. Len(dq)
  PROVE  /\ dq[i] \in Entry /\ dq[i].obj \in Objects \ live
         /\ At(dq[i].obj, FALSE, FALSE, {}, {i}, {}, {})
         /\ \E y \in Writers : dq[i] \in pend[y]
  <1>1. dq[i] \in Entry /\ dq[i].obj \in Objects
    <2>1. dq \in Seq(Entry)
      BY Zenon DEF DqInv, DqTypeOK
    <2>2. dq[i] \in Entry
      BY <2>1
    <2> QED BY <2>2, Zenon DEF Entry
  <1>2. i \in Queued(dq[i].obj)
    BY Zenon DEF Queued
  <1>3. At(dq[i].obj, FALSE, FALSE, {}, {i}, {}, {})
    BY <1>1, <1>2, PlaceIs, Zenon DEF DqInv
  <1> QED BY <1>1, <1>3, Zenon DEF At, DqInv, DqEntries

\* A writer looks at the oldest entry, which becomes its own.
LEMMA DqPeekInv ==
  ASSUME DqInv, NEW w \in Writers, DqPeek(w)
  PROVE  DqInv'
  <1> USE DEF DGoto, WGoto
  <1>0. /\ TypeOK /\ WriterOK(w) /\ DqTypeOK /\ DqWriterOK(w)
        /\ wl \in [Writers -> Local] /\ NoLocal \in Local
        /\ wpc \in [Writers -> {"idle", "start", "self", "selfst", "acked", "num",
                                 "bmap", "cnt", "ack", "free"}]
        /\ pend \in [Writers -> SUBSET Entry] /\ dpc \in [Writers -> DqLabels]
        /\ dq \in Seq(Entry)
    BY DqFacts, Zenon
  <1>1. dq # <<>> /\ Head(dq) = dq[1] /\ 1 \in 1 .. Len(dq)
    <2>1. dq # <<>>
      BY Zenon DEF DqPeek
    <2> QED BY <1>0, <2>1
  <1>2. PICK e : e = dq[1]
    BY Zenon
  <1>3. /\ dpc[w] = "peek" /\ hold = NoWriter /\ hold' = w
        /\ pend' = [x \in Writers |-> IF x = w THEN pend[x] \union {e} ELSE pend[x] \ {e}]
        /\ wl' = [wl EXCEPT ![w] = [NoLocal EXCEPT !.obj = e.obj, !.tok = e.tok]]
        /\ wpc' = [wpc EXCEPT ![w] = "acked"] /\ dpc' = [dpc EXCEPT ![w] = "check"]
        /\ UNCHANGED <<token, acked, cnt, bmap, nthr, rpc, rt, refs, live, freed>>
        /\ UNCHANGED <<dq, dl, kept, deleted, size>>
    BY <1>1, <1>2, Zenon DEF DqPeek, rvars
  <1>4. /\ e \in Entry /\ e.obj \in Objects \ live /\ \E y \in Writers : e \in pend[y]
        /\ At(e.obj, FALSE, FALSE, {}, {1}, {}, {})
    BY <1>1, <1>2, QueuedEntry, Zenon
  <1>5. /\ wl'[w] \in Local /\ wl'[w].obj = e.obj /\ wl'[w].tok = e.tok
        /\ wl'[w].min = 0 /\ wl'[w].word = 0 /\ [obj |-> e.obj, tok |-> e.tok] = e
    <2>1. [NoLocal EXCEPT !.obj = e.obj, !.tok = e.tok] \in Local
      BY <1>4, ZenonT(60) DEF NoLocal, Local, Entry
    <2>2. [obj |-> e.obj, tok |-> e.tok] = e
      BY <1>4, Zenon DEF Entry
    <2> QED BY <1>0, <1>3, <2>1, <2>2, Zenon DEF NoLocal
  <1>6. DqOthersSame(w)
    BY <1>0, <1>3, Zenon DEF DqOthersSame, OthersSame
  <1>7. /\ e \in pend'[w] /\ pend[w] \subseteq pend'[w] /\ pend'[w] = pend[w] \union {e}
        /\ \A x \in Writers : pend[x] \ {e} \subseteq pend'[x]
        /\ \A x \in Writers \ {w} : pend'[x] \subseteq pend[x]
    BY <1>3, Zenon
  <1>8. pend' \in [Writers -> SUBSET Entry]
    <2>1. \A x \in Writers : pend'[x] \subseteq Entry
      BY <1>0, <1>4, <1>7, Zenon
    <2> QED BY <1>3, <2>1, Zenon
  <1>9. ASSUME NEW x \in Writers
        PROVE  wpc[x] \notin {"self", "selfst"} /\ (InCheck(x) => Checked(x) \in pend'[x])
    <2>1. DqWriterOK(x) /\ WriterOK(x) /\ dpc[x] \in DqLabels /\ x # NoWriter
      BY <1>0, DqParameters, Zenon DEF DqInv, RcuInv
    <2>2. dpc[x] # "check"
      BY <1>3, <2>1, Zenon DEF DqWriterOK
    <2>3. wpc[x] \in {"idle", "start", "free"} /\ (wpc[x] = "free" => dpc[x] = "free")
      BY <2>1, <2>2, Zenon DEF DqWriterOK, DqLabels
    <2>4. wpc[x] = "free" => wl[x].obj # e.obj /\ Checked(x) \in pend[x]
      <3> SUFFICES ASSUME wpc[x] = "free" PROVE wl[x].obj # e.obj /\ Checked(x) \in pend[x]
        BY Zenon
      <3>1. x \in Leaving(wl[x].obj)
        BY <2>3, Zenon DEF Leaving
      <3>2. Checked(x) \in pend[x]
        BY <2>1, Zenon DEF WriterOK, InCheck, Checked
      <3> QED BY <1>4, <3>1, <3>2, Zenon DEF At
    <2>5. wpc[x] = "free" => Checked(x) \in pend'[x]
      <3>1. Checked(x).obj = wl[x].obj
        BY Zenon DEF Checked
      <3> QED BY <1>7, <2>4, <3>1, Zenon
    <2> QED BY <2>3, <2>5, Zenon DEF InCheck
  <1>10. RcuInv'
    <2>1. TypeOK'
      BY <1>0, <1>3, <1>5, <1>8, Zenon DEF TypeOK
    <2>2. WriterOK(w)'
      BY <1>0, <1>3, <1>4, <1>5, <1>7, Zenon DEF WriterOK, InCheck, Scanning
    <2>3. RcuInv /\ wpc'[w] = "acked"
      BY <1>0, <1>3, Zenon DEF DqInv
    <2>4. \A x \in Writers : \A f \in pend'[x] : \E y \in Writers : f \in pend[y]
      BY <1>4, <1>7, Zenon
    <2> QED BY <1>3, <1>6, <1>9, <2>1, <2>2, <2>3, <2>4, MoveInv, Zenon DEF DqOthersSame
  <1>11. DqTypeOK'
    BY <1>0, <1>3, Zenon DEF DqTypeOK, DqLabels
  <1>12. \A x \in Writers : DqWriterOK(x)'
    <2>1. DqWriterOK(w)'
      <3>1. /\ dpc'[w] = "check" /\ InCheck(w)' /\ Checked(w)' = dq'[1] /\ dq' # <<>>
            /\ dl'[w] = dl[w] /\ dl[w].call # "none"
        BY <1>0, <1>1, <1>2, <1>3, <1>5, Zenon DEF InCheck, Checked, DqWriterOK
      <3>2. dl[w].call = "enq" => dl[w].e \in pend'[w]
        BY <1>0, <1>3, <1>7, Zenon DEF DqWriterOK
      <3>3. dl[w].call = "del" =>
              live' = {} /\ \A x \in Writers : kept'[x] = {} /\ (x # w => dpc'[x] = "none")
        BY <1>0, <1>3, Zenon DEF DqWriterOK
      <3> QED BY <1>3, <3>1, <3>2, <3>3, Zenon DEF DqWriterOK
    <2>2. \A x \in Writers \ {w} : DqWriterOK(x)'
      <3>1. \A x \in Writers : dl[x].e \in pend[x] /\ x \in Inside(dl[x].e.obj) => dl[x].e \in pend'[x]
        <4>1. \A x \in Writers : x \notin Inside(e.obj)
          BY <1>4, Zenon DEF At
        <4> QED BY <1>7, <4>1, Zenon
      <3> QED BY <1>1, <1>3, <1>6, <3>1, OtherWriters, Zenon
    <2> QED BY <2>1, <2>2, Zenon
  <1>13. DqEntries'
    <2> SUFFICES ASSUME NEW i \in 1 .. Len(dq) PROVE \E y \in Writers : dq[i] \in pend'[y]
      BY <1>3, Zenon DEF DqEntries
    <2>1. PICK y \in Writers : dq[i] \in pend[y]
      BY QueuedEntry, Zenon
    <2> QED BY <1>7, <2>1, Zenon
  <1>14. DqOver'
    BY <1>3, Zenon DEF DqInv, DqOver
  <1>15. \A p \in Objects : Placed(p)'
    <2> SUFFICES ASSUME NEW p \in Objects PROVE Placed(p)'
      BY Zenon
    <2>1. Queued(p)' = Queued(p)
      BY <1>3, Zenon DEF Queued
    <2>2. /\ w \in Inside(p)' <=> w \in Inside(p)
          /\ w \in Leaving(p)' <=> w \in Leaving(p)
          /\ w \in Back(p)' <=> w \in Back(p)
      BY <1>0, <1>3, Zenon DEF Inside, Leaving, Back
    <2> QED BY <1>3, <1>6, <2>1, <2>2, PlacedFrame, Zenon DEF DqInv
  <1> QED BY <1>10, <1>11, <1>12, <1>13, <1>14, <1>15, Zenon DEF DqInv


\* The oldest entry leaves the queue, and the others move up.
LEMMA DqTakeInv ==
  ASSUME DqInv, NEW w \in Writers, DqTake(w)
  PROVE  DqInv'
  <1> USE DEF DGoto
  <1>0. /\ WriterOK(w) /\ DqTypeOK /\ DqWriterOK(w)
        /\ dpc \in [Writers -> DqLabels] /\ dq \in Seq(Entry)
    BY DqFacts, Zenon
  <1>1. /\ dpc[w] = "check" /\ wpc[w] = "free" /\ hold = w /\ hold' = NoWriter
        /\ dpc' = [dpc EXCEPT ![w] = "free"] /\ dq' = Tail(dq)
        /\ UNCHANGED <<vars, dl, kept, deleted, size>>
        /\ dq # <<>> /\ Checked(w) = dq[1]
    BY <1>0, Zenon DEF DqTake, DqWriterOK
  <1>2. UNCHANGED <<token, acked, cnt, bmap, nthr, rpc, rt, refs, wpc, wl, pend, live, freed>>
    BY <1>1, Zenon DEF vars
  <1>3. DqOthersSame(w)
    BY <1>0, <1>1, <1>2, Zenon DEF DqOthersSame, OthersSame
  <1>4. RcuInv'
    BY <1>1, StutterInv, Zenon DEF DqInv
  <1>5. /\ dq' \in Seq(Entry) /\ Len(dq') = Len(dq) - 1 /\ Len(dq) \in Nat /\ 1 \in 1 .. Len(dq)
        /\ \A i \in 1 .. Len(dq') : i + 1 \in 1 .. Len(dq) /\ dq'[i] = dq[i + 1]
    BY <1>0, <1>1
  <1>6. PICK o : o = wl[w].obj
    BY Zenon
  <1>7. o \in Objects /\ At(o, FALSE, FALSE, {}, {1}, {}, {}) /\ wl'[w].obj = o
    <2>1. dq[1].obj = o
      <3>1. Checked(w).obj = o
        BY <1>6, Zenon DEF Checked
      <3> QED BY <1>1, <3>1, Zenon
    <2>2. 1 \in 1 .. Len(dq)
      BY <1>5, Zenon
    <2> QED BY <1>2, <1>6, <2>1, <2>2, QueuedEntry, Zenon
  <1>8. DqTypeOK'
    BY <1>0, <1>1, <1>5, Zenon DEF DqTypeOK, DqLabels
  <1>9. \A x \in Writers : DqWriterOK(x)'
    <2>1. DqWriterOK(w)'
      <3>1. hold' # w /\ dpc'[w] = "free" /\ wpc'[w] = "free" /\ dl'[w] = dl[w] /\ dl[w].call # "none"
        BY <1>0, <1>1, <1>2, DqParameters, Zenon DEF DqWriterOK
      <3>2. dl[w].call = "enq" => dl[w].e \in pend'[w]
        BY <1>0, <1>1, <1>2, Zenon DEF DqWriterOK
      <3>3. dl[w].call = "del" =>
              live' = {} /\ \A x \in Writers : kept'[x] = {} /\ (x # w => dpc'[x] = "none")
        BY <1>0, <1>1, <1>2, Zenon DEF DqWriterOK
      <3>4. /\ dl'[w].call = "enq" => dl'[w].e \in pend'[w]
            /\ dl'[w].call # "none"
            /\ dl'[w].call = "del" =>
                 live' = {} /\ \A x \in Writers : kept'[x] = {} /\ (x # w => dpc'[x] = "none")
        BY <3>1, <3>2, <3>3, Zenon
      <3> QED BY <3>1, <3>4, Zenon DEF DqWriterOK
    <2>2. \A x \in Writers \ {w} : DqWriterOK(x)'
      <3>1. \A x \in Writers \ {w} : dpc[x] # "check"
        BY <1>1, Zenon DEF DqInv, DqWriterOK
      <3> QED BY <1>1, <1>2, <1>3, <3>1, OtherWriters, Zenon
    <2> QED BY <2>1, <2>2, Zenon
  <1>10. DqEntries'
    <2> SUFFICES ASSUME NEW i \in 1 .. Len(dq') PROVE \E y \in Writers : dq'[i] \in pend'[y]
      BY Zenon DEF DqEntries
    <2>1. i + 1 \in 1 .. Len(dq) /\ dq'[i] = dq[i + 1]
      BY <1>5, Zenon
    <2>2. \E y \in Writers : dq[i + 1] \in pend[y]
      BY <2>1, Zenon DEF DqInv, DqEntries
    <2> QED BY <1>2, <2>1, <2>2, Zenon
  <1>11. DqOver'
    BY <1>1, Zenon DEF DqInv, DqOver
  <1>12. \A p : /\ w \in Inside(p)' <=> w \in Inside(p)
                /\ w \in Back(p)' <=> w \in Back(p)
                /\ w \in Leaving(p)' <=> p = o
                /\ w \notin Leaving(p)
    BY <1>0, <1>1, <1>2, <1>6, Zenon DEF Inside, Back, Leaving
  <1>13. \A p : \A j \in Nat \ {0} : j \in Queued(p)' <=> j + 1 \in Queued(p)
    BY <1>0, <1>1 DEF Queued
  <1>14. \A p : Queued(p)' \subseteq Nat \ {0} /\ Queued(p) \subseteq Nat \ {0}
    BY <1>5 DEF Queued
  <1>15. ASSUME NEW p \in Objects, p # o PROVE Placed(p)'
    <2>1. Inside(p)' = Inside(p) /\ Leaving(p)' = Leaving(p) /\ Back(p)' = Back(p)
      BY <1>3, <1>12, <1>15, PlacesOf, Zenon
    <2>2. CASE Queued(p) = {}
      <3>1. Queued(p)' = {}
        BY <1>13, <1>14, <2>2
      <3> QED BY <1>2, <1>15, <2>1, <2>2, <3>1, PlacedSame, Zenon DEF DqInv
    <2>3. ASSUME NEW i \in Queued(p) PROVE Placed(p)'
      <3>1. At(p, FALSE, FALSE, {}, {i}, {}, {})
        BY <1>15, <2>3, PlaceIs, Zenon DEF DqInv
      <3>2. Queued(p) = {i} /\ i \in Nat \ {0}
        BY <1>14, <3>1, Zenon DEF At
      <3>3. 1 \notin Queued(p)
        <4>1. 1 \in Queued(p) => dq[1].obj = p
          BY Zenon DEF Queued
        <4>2. 1 \in Queued(o)
          BY <1>7, Zenon DEF At
        <4> QED BY <1>15, <4>1, <4>2, Zenon DEF Queued
      <3>4. Queued(p)' = {i - 1} /\ i - 1 \in Nat
        BY <1>13, <1>14, <3>2, <3>3
      <3>5. At(p, FALSE, FALSE, {}, {i - 1}, {}, {})'
        BY <1>2, <2>1, <3>1, <3>4, Zenon DEF At
      <3> QED BY <3>4, <3>5, Zenon DEF Placed
    <2> QED BY <2>2, <2>3, Zenon
  <1>16. Placed(o)'
    <2>1. Queued(o)' = {}
      <3>1. Queued(o) = {1}
        BY <1>7, Zenon DEF At
      <3> QED BY <1>13, <1>14, <3>1
    <2>2. Inside(o)' = {} /\ Leaving(o)' = {w} /\ Back(o)' = {}
      BY <1>3, <1>7, <1>12, PlacesOf, Zenon DEF At
    <2>3. At(o, FALSE, FALSE, {}, {}, {w}, {})'
      BY <1>2, <1>7, <2>1, <2>2, Zenon DEF At
    <2> QED BY <2>3, Zenon DEF Placed
  <1> QED BY <1>4, <1>8, <1>9, <1>10, <1>11, <1>15, <1>16, Zenon DEF DqInv

\* free_fn is called for the object that left.
LEMMA DqFreeInv ==
  ASSUME DqInv, NEW w \in Writers, DqFree(w)
  PROVE  DqInv'
  <1> USE DEF DGoto, WGoto, WReturn
  <1>0. /\ WriterOK(w) /\ DqTypeOK /\ DqWriterOK(w) /\ RcuInv
        /\ dpc \in [Writers -> DqLabels] /\ dl \in [Writers -> DqLocal] /\ dl[w] \in DqLocal
        /\ wpc \in [Writers -> {"idle", "start", "self", "selfst", "acked", "num",
                                 "bmap", "cnt", "ack", "free"}]
        /\ wl \in [Writers -> Local] /\ pend \in [Writers -> SUBSET Entry]
    BY DqFacts, Zenon
  <1>1. /\ dpc[w] = "free" /\ wpc[w] = "free"
        /\ freed' = freed \union {wl[w].obj}
        /\ pend' = [pend EXCEPT ![w] = @ \ {Checked(w)}]
        /\ wpc' = [wpc EXCEPT ![w] = "idle"] /\ wl' = [wl EXCEPT ![w] = NoLocal]
        /\ dl' = [dl EXCEPT ![w] = [dl[w] EXCEPT !.cnt = dl[w].cnt + 1]] /\ dpc' = [dpc EXCEPT ![w] = "peek"]
        /\ UNCHANGED <<live, dq, hold, kept, deleted, size>>
    BY Zenon DEF DqFree, FreeObject, Checked
  <1>2. RcuInv'
    BY <1>0, FreeInv, Zenon DEF DqFree
  <1>3. dl'[w] \in DqLocal /\ dl'[w].call = dl[w].call /\ dl'[w].e = dl[w].e
    <2>1. [dl[w] EXCEPT !.cnt = dl[w].cnt + 1] \in DqLocal
      BY <1>0 DEF DqLocal
    <2>2. dl'[w] = [dl[w] EXCEPT !.cnt = dl[w].cnt + 1]
      BY <1>0, <1>1
    <2> QED BY <1>0, <2>1, <2>2 DEF DqLocal
  <1>4. DqOthersSame(w)
    BY <1>0, <1>1, Zenon DEF DqOthersSame, OthersSame
  <1>5. PICK o : o = wl[w].obj
    BY Zenon
  <1>6. o \in Objects /\ At(o, FALSE, FALSE, {}, {}, {w}, {})
    <2>1. o \in Objects
      BY <1>0, <1>1, <1>5, Zenon DEF WriterOK, InCheck
    <2>2. w \in Leaving(o)
      BY <1>1, <1>5, Zenon DEF Leaving
    <2> QED BY <2>1, <2>2, PlaceIs, Zenon DEF DqInv
  <1>7. Checked(w).obj = o
    BY <1>5, Zenon DEF Checked
  <1>8. \A x \in Writers : \A f \in pend[x] : f.obj # o => f \in pend'[x]
    BY <1>0, <1>1, <1>7, Zenon
  <1>9. \A x \in Writers : x \notin Inside(o)
    BY <1>6, Zenon DEF At
  <1>10. DqTypeOK'
    BY <1>0, <1>1, <1>3, Zenon DEF DqTypeOK, DqLabels
  <1>11. \A x \in Writers : DqWriterOK(x)'
    <2>1. DqWriterOK(w)'
      <3>1. hold # w /\ dl[w].call # "none"
        BY <1>0, <1>1, Zenon DEF DqWriterOK
      <3>2. hold' # w /\ dpc'[w] = "peek" /\ wpc'[w] = "idle"
        BY <1>0, <1>1, <3>1, Zenon
      <3>3. dl[w].call = "enq" => dl[w].e \in pend'[w]
        <4> SUFFICES ASSUME dl[w].call = "enq" PROVE dl[w].e \in pend'[w]
          BY Zenon
        <4>1. dl[w].e \in pend[w] /\ w \in Inside(dl[w].e.obj)
          BY <1>0, <1>1, Zenon DEF DqWriterOK, Inside
        <4> QED BY <1>8, <1>9, <4>1, Zenon
      <3>4. dl[w].call = "del" =>
              live' = {} /\ \A x \in Writers : kept'[x] = {} /\ (x # w => dpc'[x] = "none")
        BY <1>0, <1>1, Zenon DEF DqWriterOK
      <3> QED BY <1>3, <3>1, <3>2, <3>3, <3>4, Zenon DEF DqWriterOK
    <2>2. \A x \in Writers \ {w} : DqWriterOK(x)'
      <3>1. \A x \in Writers \ {w} : dpc[x] = "check" => dq # <<>>
        BY Zenon DEF DqInv, DqWriterOK
      <3>2. \A x \in Writers : dl[x].e \in pend[x] /\ x \in Inside(dl[x].e.obj) => dl[x].e \in pend'[x]
        BY <1>8, <1>9, Zenon
      <3> QED BY <1>1, <1>4, <3>1, <3>2, OtherWriters, Zenon
    <2> QED BY <2>1, <2>2, Zenon
  <1>12. DqEntries'
    <2> SUFFICES ASSUME NEW i \in 1 .. Len(dq) PROVE \E y \in Writers : dq[i] \in pend'[y]
      BY <1>1, Zenon DEF DqEntries
    <2>1. PICK y \in Writers : dq[i] \in pend[y]
      BY QueuedEntry, Zenon
    <2>2. dq[i].obj # o
      BY <1>6, Zenon DEF At, Queued
    <2> QED BY <1>8, <2>1, <2>2, Zenon
  <1>13. DqOver'
    BY <1>1, Zenon DEF DqInv, DqOver
  <1>14. \A p : Queued(p)' = Queued(p)
    BY <1>1, Zenon DEF Queued
  <1>15. \A p : /\ w \in Inside(p)' <=> w \in Inside(p)
                /\ w \in Back(p)' <=> w \in Back(p)
                /\ w \notin Leaving(p)'
                /\ w \in Leaving(p) <=> p = o
    BY <1>0, <1>1, <1>3, <1>5, Zenon DEF Inside, Back, Leaving
  <1>16. ASSUME NEW p \in Objects, p # o PROVE Placed(p)'
    <2>1. (p \in freed' <=> p \in freed) /\ (p \in live' <=> p \in live)
      BY <1>1, <1>5, <1>16, Zenon
    <2> QED BY <1>4, <1>14, <1>15, <1>16, <2>1, PlacedFrame, Zenon DEF DqInv
  <1>17. Placed(o)'
    <2>1. Inside(o)' = {} /\ Leaving(o)' = {} /\ Back(o)' = {}
      BY <1>4, <1>6, <1>15, PlacesOf, Zenon DEF At
    <2>2. At(o, FALSE, TRUE, {}, {}, {}, {})'
      BY <1>1, <1>5, <1>6, <1>14, <2>1, Zenon DEF At
    <2> QED BY <2>2, Zenon DEF Placed
  <1> QED BY <1>2, <1>10, <1>11, <1>12, <1>13, <1>16, <1>17, Zenon DEF DqInv


\* The queue is created empty, and all objects are live.
LEMMA DqInitInv == DqInit => DqInv
  <1> SUFFICES ASSUME DqInit PROVE DqInv
    BY Zenon
  <1> USE DEF DqInit
  <1>1. RcuInv
    BY InitInv, Zenon
  <1>2. /\ live = Objects /\ freed = {} /\ dq = <<>> /\ hold = NoWriter /\ deleted = FALSE
        /\ \A w \in Writers : dpc[w] = "none" /\ dl[w] = NoCall /\ kept[w] = {} /\ wpc[w] = "idle"
    BY Zenon DEF Init, InitWith
  <1>3. NoCall \in DqLocal /\ NoCall.call = "none" /\ <<>> \in Seq(Entry) /\ Len(<<>>) = 0
    BY DEF NoCall, DqLocal
  <1>4. DqTypeOK
    BY <1>3, Zenon DEF DqTypeOK, DqLabels
  <1>5. \A w \in Writers : DqWriterOK(w)
    BY <1>2, <1>3, DqParameters, Zenon DEF DqWriterOK
  <1>6. \A i \in 1 .. Len(dq) : FALSE
    BY <1>2
  <1>7. DqEntries /\ DqOver
    BY <1>2, <1>6, Zenon DEF DqEntries, DqOver
  <1>8. ASSUME NEW o \in Objects PROVE Placed(o)
    <2>1. Inside(o) = {} /\ Leaving(o) = {} /\ Back(o) = {} /\ Queued(o) = {}
      BY <1>2, <1>6, Zenon DEF Inside, Leaving, Back, Queued
    <2> QED BY <1>2, <2>1, Zenon DEF Placed, At
  <1> QED BY <1>1, <1>4, <1>5, <1>7, <1>8, Zenon DEF DqInv

\* Being in one place, counted.
LEMMA PlacedCounts ==
  ASSUME NEW o \in Objects, Placed(o)
  PROVE  (IF o \in live THEN 1 ELSE 0) + (IF o \in freed THEN 1 ELSE 0)
           + Cardinality(Inside(o)) + Cardinality(Queued(o))
           + Cardinality(Leaving(o)) + Cardinality(Back(o)) = 1
  <1>1. Cardinality({}) = 0 /\ \A x : Cardinality({x}) = 1
    BY FS_EmptySet, FS_Singleton, Zenon
  <1>2. CASE At(o, TRUE, FALSE, {}, {}, {}, {}) \/ At(o, FALSE, TRUE, {}, {}, {}, {})
    BY <1>1, <1>2 DEF At
  <1>3. ASSUME NEW w \in Writers,
               \/ At(o, FALSE, FALSE, {w}, {}, {}, {})
               \/ At(o, FALSE, FALSE, {}, {}, {w}, {})
               \/ At(o, FALSE, FALSE, {}, {}, {}, {w})
        PROVE  (IF o \in live THEN 1 ELSE 0) + (IF o \in freed THEN 1 ELSE 0)
                 + Cardinality(Inside(o)) + Cardinality(Queued(o))
                 + Cardinality(Leaving(o)) + Cardinality(Back(o)) = 1
    <2>1. CASE At(o, FALSE, FALSE, {w}, {}, {}, {})
      <3>1. /\ o \notin live /\ o \notin freed /\ Cardinality(Inside(o)) = 1
            /\ Cardinality(Queued(o)) = 0 /\ Cardinality(Leaving(o)) = 0 /\ Cardinality(Back(o)) = 0
        BY <1>1, <2>1, Zenon DEF At
      <3> QED BY <3>1
    <2>2. CASE At(o, FALSE, FALSE, {}, {}, {w}, {})
      <3>1. /\ o \notin live /\ o \notin freed /\ Cardinality(Leaving(o)) = 1
            /\ Cardinality(Inside(o)) = 0 /\ Cardinality(Queued(o)) = 0 /\ Cardinality(Back(o)) = 0
        BY <1>1, <2>2, Zenon DEF At
      <3> QED BY <3>1
    <2>3. CASE At(o, FALSE, FALSE, {}, {}, {}, {w})
      <3>1. /\ o \notin live /\ o \notin freed /\ Cardinality(Back(o)) = 1
            /\ Cardinality(Inside(o)) = 0 /\ Cardinality(Queued(o)) = 0 /\ Cardinality(Leaving(o)) = 0
        BY <1>1, <2>3, Zenon DEF At
      <3> QED BY <3>1
    <2> QED BY <1>3, <2>1, <2>2, <2>3, Zenon
  <1>4. ASSUME NEW i \in Nat, At(o, FALSE, FALSE, {}, {i}, {}, {})
        PROVE  (IF o \in live THEN 1 ELSE 0) + (IF o \in freed THEN 1 ELSE 0)
                 + Cardinality(Inside(o)) + Cardinality(Queued(o))
                 + Cardinality(Leaving(o)) + Cardinality(Back(o)) = 1
    BY <1>1, <1>4 DEF At
  <1> QED BY <1>2, <1>3, <1>4, Zenon DEF Placed

\* The invariant says that objects are conserved.
LEMMA DqInvConserves == DqInv => DqConserved
  <1> SUFFICES ASSUME DqInv PROVE DqConserved
    BY Zenon
  <1>1. ASSUME deleted PROVE dq = <<>> /\ freed = Objects
    <2>1. dq = <<>> /\ live = {} /\ \A w \in Writers : dpc[w] = "none" /\ kept[w] = {}
      BY <1>1, Zenon DEF DqInv, DqOver
    <2>2. \A i \in 1 .. Len(dq) : FALSE
      BY <2>1
    <2>3. \A o \in Objects : Inside(o) = {} /\ Leaving(o) = {} /\ Back(o) = {} /\ Queued(o) = {}
      BY <2>1, <2>2, Zenon DEF Inside, Leaving, Back, Queued
    <2>4. \A o \in Objects : o \in freed
      BY <2>1, <2>3, Zenon DEF DqInv, Placed, At
    <2>5. freed \subseteq Objects
      BY Zenon DEF DqInv, RcuInv, TypeOK
    <2> QED BY <2>1, <2>4, <2>5, Zenon
  <1>2. \A o \in Objects :
          (IF o \in live THEN 1 ELSE 0) + (IF o \in freed THEN 1 ELSE 0)
            + Cardinality(Inside(o)) + Cardinality(Queued(o))
            + Cardinality(Leaving(o)) + Cardinality(Back(o)) = 1
    BY PlacedCounts, Zenon DEF DqInv
  <1> QED BY <1>1, <1>2, Zenon DEF DqConserved

-----------------------------------------------------------------------------
(* The theorems                                                             *)

\* Every step of the defer queue preserves its invariant.
LEMMA DqStepInv ==
  ASSUME DqInv, Covered, [DqNext]_allvars
  PROVE  DqInv'
  <1>1. ASSUME NEW r \in Readers, DqReader(r) PROVE DqInv'
    <2>1. RcuInv'
      BY <1>1, ReaderInv, Zenon DEF DqReader, DqInv
    <2>2. UNCHANGED <<wpc, wl, pend, live, freed>>
      BY <1>1, Zenon
         DEF DqReader, RStep, RCall, Report, RegisterCount, UnregisterCount, OnlineStore,
             QuiescentStore, Register, Unregister, OnlineLoad, QuiescentLoad, Offline,
             Reference, wvars
    <2>3. UNCHANGED dqvars
      BY <1>1, Zenon DEF DqReader
    <2> QED BY <2>1, <2>2, <2>3, DqQuiet, Zenon
  <1>2. ASSUME NEW w \in Writers, DqStep(w) PROVE DqInv'
    BY <1>2, DqStartInv, DqInsideInv, DqPutInv, DqPeekInv, DqCheckInv, DqTakeInv, DqFreeInv,
       Zenon DEF DqStep
  <1>3. ASSUME NEW w \in Writers, DqCall(w) PROVE DqInv'
    BY <1>3, DqEnqueueInv, DqReclaimInv, Zenon DEF DqCall
  <1>4. CASE UNCHANGED allvars
    <2>1. UNCHANGED vars /\ UNCHANGED dqvars
      BY <1>4, Zenon DEF allvars
    <2>2. RcuInv'
      BY <2>1, StutterInv, Zenon DEF DqInv
    <2>3. UNCHANGED <<wpc, wl, pend, live, freed>>
      BY <2>1, Zenon DEF vars
    <2> QED BY <2>1, <2>2, <2>3, DqQuiet, Zenon
  <1> QED BY <1>1, <1>2, <1>3, <1>4, Zenon DEF DqNext

\* rte_rcu_qsbr_dq_enqueue, _reclaim and _delete by any number of writers, with
\* one writer or with readers that stay online: no object is lost, queued or
\* freed twice, and none that is freed has a reader left, although an entry
\* passes from the writer that removed it to the one that reclaims it and the
\* tokens in the queue may be out of order.
THEOREM DqSafe == Covered => (DqSpec => [](GracePeriod /\ DqConserved))
  <1> SUFFICES ASSUME Covered PROVE DqSpec => [](GracePeriod /\ DqConserved)
    BY Zenon
  <1>1. DqInv /\ [DqNext]_allvars => DqInv'
    BY DqStepInv, Zenon
  <1>2. DqInv => GracePeriod /\ DqConserved
    BY DqInvConserves, Zenon DEF DqInv, RcuInv
  <1> QED BY DqInitInv, <1>1, <1>2, PTL DEF DqSpec
=============================================================================
