----------------------------- MODULE LockProofs -----------------------------
(***************************************************************************)
(* The reader-writer lock, the sequence lock, the ticket lock, the MCS lock *)
(* and the phase-fair lock, each for any number of threads: an inductive    *)
(* invariant and what follows from it.                                      *)
(***************************************************************************)
EXTENDS McsLock, PfLock, RwLock, SeqLock, TicketLock, FiniteSetTheorems, TLAPS

-----------------------------------------------------------------------------
(* Quotients and remainders, for the words that wrap                        *)

\* A number is determined by quotient and remainder.
LEMMA DivMod ==
  ASSUME NEW a \in Int, NEW b \in Nat, b > 0
  PROVE  /\ a = b * (a \div b) + (a % b)
         /\ a \div b \in Int
         /\ a % b \in 0 .. (b - 1)
OBVIOUS

\* A multiple of b that is smaller than b in absolute value is 0.
LEMMA SmallMultiple ==
  ASSUME NEW b \in Nat, b > 0, NEW q \in Int, NEW r \in Int,
         -b < r, r < b, b * q + r = 0
  PROVE  r = 0
<1>1. CASE q = 0
  BY <1>1
<1>2. CASE q >= 1
  <2>1. b * q >= b
    BY <1>2
  <2>2. QED
    BY <2>1
<1>3. CASE q <= -1
  <2>1. b * q <= -b
    BY <1>3
  <2>2. QED
    BY <2>1
<1>4. QED
  BY <1>1, <1>2, <1>3

\* Two numbers less than b apart with the same remainder are equal.
LEMMA SameRemainder ==
  ASSUME NEW b \in Nat, b > 0, NEW x \in Int, NEW y \in Int,
         x - y < b, y - x < b, x % b = y % b
  PROVE  x = y
<1> DEFINE qx == x \div b
           qy == y \div b
<1>1. x = b * qx + (x % b) /\ y = b * qy + (y % b) /\ qx \in Int /\ qy \in Int
  BY DivMod, Zenon
<1> HIDE DEF qx, qy
<1>2. x % b \in Int
  BY DivMod
<1>3. b * (qx - qy) = b * qx - b * qy
  BY <1>1
<1>4. b * (qx - qy) + (y - x) = 0
  BY <1>1, <1>2, <1>3
<1>5. qx - qy \in Int /\ y - x \in Int /\ -b < y - x /\ y - x < b
  BY <1>1
<1>6. y - x = 0
  BY <1>4, <1>5, SmallMultiple, Zenon
<1>7. QED
  BY <1>6

\* Adding a multiple does not change the remainder.
LEMMA RemainderShift ==
  ASSUME NEW b \in Nat, b > 0, NEW x \in Int, NEW y \in Int, NEW q \in Int,
         x = y + b * q, 0 <= y, y < b
  PROVE  x % b = y
<1> DEFINE d == x \div b
           r == x % b
<1>1. x = b * d + r /\ d \in Int /\ r \in 0 .. (b - 1)
  BY DivMod, Zenon
<1> HIDE DEF d, r
<1>2. b * (d - q) = b * d - b * q
  BY <1>1
<1>3. b * (d - q) + (r - y) = 0
  BY <1>1, <1>2
<1>4. d - q \in Int /\ r - y \in Int /\ -b < r - y /\ r - y < b
  BY <1>1
<1>5. r - y = 0
  BY <1>3, <1>4, SmallMultiple, Zenon
<1>6. r = y
  BY <1>5, <1>1
<1>7. QED
  BY <1>6, Zenon DEF r

\* A word with an even number of values keeps the parity of the number.
LEMMA RemainderParity ==
  ASSUME NEW b \in Nat, b > 0, b % 2 = 0, NEW x \in Nat
  PROVE  /\ (x % b) % 2 = x % 2
         /\ x % b \in Nat
<1> DEFINE k == b \div 2
           q == x \div b
           r == x % b
           j == k * q
<1>1. b = 2 * k /\ k \in Int /\ x \in Int
  OBVIOUS
<1>2. x = b * q + r /\ q \in Int /\ r \in 0 .. (b - 1)
  BY <1>1, DivMod, Zenon
<1> HIDE DEF k, q, r
<1>3. (2 * k) * q = 2 * (k * q) /\ k * q \in Int
  BY <1>1, <1>2
<1>4. x = 2 * j + r /\ j \in Int
  BY <1>1, <1>2, <1>3
<1> HIDE DEF j
<1>5. \A y \in Nat, i \in Int : x = 2 * i + y => y % 2 = x % 2
  OBVIOUS
<1>6. r \in Nat /\ r % 2 = x % 2
  BY <1>2, <1>4, <1>5
<1>7. QED
  BY <1>6, Zenon DEF r

-----------------------------------------------------------------------------
(***************************************************************************)
(* rte_rwlock.h: a writer is alone, and the counter accounts for every     *)
(* thread.                                                                 *)
(***************************************************************************)

RwLabels ==
  {"out", "rd", "wr", "rload", "rtload", "radd", "rtadd", "rsub", "rtsub",
   "wload", "wtload", "wcas", "wtcas", "wwait", "wspin"}

\* The threads whose READ is in the counter, and those that may have set WAIT.
Added == {t \in Threads : pc[t] \in {"rd", "rsub", "rtsub"}}
Awaiting == {t \in Threads : pc[t] \in {"wspin", "wload", "wcas", "wwait"}}
Writing == {t \in Threads : pc[t] = "wr"}

RwTypeOK ==
  /\ pc \in [Threads -> RwLabels]
  /\ rwcnt \in Nat
  /\ rwx \in [Threads -> Nat]

\* The inductive invariant: the bits of the counter, one by one; what a writer
\* about to swap has seen; and that WRITE keeps everybody else out.
RwInv ==
  /\ RwTypeOK
  /\ \E w \in {0, 1} :
       /\ rwcnt = READ * Cardinality(Added) + (IF Writing = {} THEN 0 ELSE WRITE) + w
       /\ w = 1 => Awaiting # {}
  /\ \A t \in Threads : pc[t] \in {"wcas", "wtcas"} => rwx[t] < WRITE
  /\ Exclusion

-----------------------------------------------------------------------------
(* Counting                                                                 *)

LEMMA AddedFinite == IsFiniteSet(Added) /\ Cardinality(Added) \in Nat
BY LockThreads, FS_Subset, FS_CardinalityType, Zenon DEF Added

\* One more reader, one less, or none.
LEMMA AddedMore ==
  ASSUME NEW t \in Threads, t \notin Added, Added' = Added \cup {t}
  PROVE  Cardinality(Added') = Cardinality(Added) + 1
BY AddedFinite, FS_AddElement, Zenon

LEMMA AddedLess ==
  ASSUME NEW t \in Threads, t \in Added, Added' = Added \ {t}
  PROVE  /\ Cardinality(Added') = Cardinality(Added) - 1
         /\ Cardinality(Added) >= 1
<1>1. Cardinality(Added') = Cardinality(Added) - 1
  BY AddedFinite, FS_RemoveElement, Zenon
<1>2. IsFiniteSet(Added')
  BY AddedFinite, FS_RemoveElement, Zenon
<1>3. Cardinality(Added') \in Nat
  BY <1>2, FS_CardinalityType, Zenon
<1>4. QED
  BY <1>1, <1>3, AddedFinite

\* A thread that moves to l changes the three sets as l says.
LEMMA MoveSets ==
  ASSUME NEW t \in Threads, NEW l \in RwLabels, RwTypeOK, RwGoto(t, l)
  PROVE  /\ pc' \in [Threads -> RwLabels]
         /\ pc'[t] = l
         /\ \A u \in Threads : u # t => pc'[u] = pc[u]
         /\ Added' = IF l \in {"rd", "rsub", "rtsub"} THEN Added \cup {t} ELSE Added \ {t}
         /\ Writing' = IF l = "wr" THEN Writing \cup {t} ELSE Writing \ {t}
         /\ Awaiting' = IF l \in {"wspin", "wload", "wcas", "wwait"}
                        THEN Awaiting \cup {t} ELSE Awaiting \ {t}
<1>1. /\ pc' \in [Threads -> RwLabels]
      /\ pc'[t] = l
      /\ \A u \in Threads : u # t => pc'[u] = pc[u]
  BY Zenon DEF RwTypeOK, RwGoto, Goto
<1>2. Added' = IF l \in {"rd", "rsub", "rtsub"} THEN Added \cup {t} ELSE Added \ {t}
  BY <1>1, Zenon DEF Added
<1>3. Writing' = IF l = "wr" THEN Writing \cup {t} ELSE Writing \ {t}
  BY <1>1, Zenon DEF Writing
<1>4. Awaiting' = IF l \in {"wspin", "wload", "wcas", "wwait"}
                  THEN Awaiting \cup {t} ELSE Awaiting \ {t}
  BY <1>1, Zenon DEF Awaiting
<1>5. QED
  BY <1>1, <1>2, <1>3, <1>4, Zenon

-----------------------------------------------------------------------------
LEMMA RwInvInit == BaseInit /\ RwInit => RwInv
<1> SUFFICES ASSUME BaseInit, RwInit PROVE RwInv
  BY Zenon
<1>1. RwTypeOK
  BY Zenon DEF BaseInit, RwInit, RwTypeOK, RwLabels
<1>2. Added = {} /\ Writing = {}
  BY Zenon DEF BaseInit, Added, Writing
<1>3. Cardinality(Added) = 0
  BY <1>2, FS_EmptySet, Zenon
<1>4. QED
  BY <1>1, <1>2, <1>3 DEF BaseInit, RwInit, RwInv, Exclusion, READ, WRITE

\* A thread that neither enters nor leaves and does not touch the counter.
LEMMA RwLocalStep ==
  ASSUME RwInv, NEW t \in Threads, NEW l \in RwLabels, RwGoto(t, l),
         pc[t] \notin {"rd", "wr", "rsub", "rtsub"},
         l \notin {"rd", "wr", "rsub", "rtsub"},
         t \in Awaiting => l \in {"wspin", "wload", "wcas", "wwait"},
         rwcnt' = rwcnt, rwx' \in [Threads -> Nat],
         \A u \in Threads : u # t => rwx'[u] = rwx[u],
         l \in {"wcas", "wtcas"} => rwx'[t] < WRITE
  PROVE  RwInv'
<1>1. /\ pc' \in [Threads -> RwLabels]
      /\ pc'[t] = l
      /\ \A u \in Threads : u # t => pc'[u] = pc[u]
      /\ Added' = Added \ {t} /\ Writing' = Writing \ {t}
      /\ Awaiting \subseteq Awaiting'
  BY MoveSets, Zenon DEF RwInv, Awaiting
<1>2. Added' = Added /\ Writing' = Writing
  BY <1>1, Zenon DEF Added, Writing
<1>3. RwTypeOK'
  BY <1>1, Zenon DEF RwInv, RwTypeOK
<1>4. \E w \in {0, 1} :
       /\ rwcnt' = READ * Cardinality(Added') + (IF Writing' = {} THEN 0 ELSE WRITE) + w
       /\ w = 1 => Awaiting' # {}
  BY <1>1, <1>2, Zenon DEF RwInv
<1>5. \A u \in Threads : pc'[u] \in {"wcas", "wtcas"} => rwx'[u] < WRITE
  BY <1>1, Zenon DEF RwInv
<1>6. Exclusion'
  BY <1>1, Zenon DEF RwInv, Exclusion
<1>7. QED
  BY <1>3, <1>4, <1>5, <1>6, Zenon DEF RwInv

\* A thread adds READ to the counter, and is inside if no bit is set.
LEMMA RwAddStep ==
  ASSUME RwInv, NEW t \in Threads, RwReadAdd(t)
  PROVE  RwInv'
<1> DEFINE n == Cardinality(Added)
           b == IF Writing = {} THEN 0 ELSE WRITE
<1>1. PICK l \in {"rd", "rsub", "rtsub"} : RwGoto(t, l) /\ (l = "rd" => Mask(rwcnt') = 0)
  BY Zenon DEF RwReadAdd
<1>2. /\ pc' \in [Threads -> RwLabels]
      /\ pc'[t] = l
      /\ \A u \in Threads : u # t => pc'[u] = pc[u]
      /\ Added' = Added \cup {t} /\ Writing' = Writing \ {t}
      /\ Awaiting' = Awaiting \ {t}
  BY <1>1, MoveSets, Zenon DEF RwInv, RwLabels
<1>3. t \notin Added /\ Writing' = Writing /\ Awaiting' = Awaiting
  BY <1>2, Zenon DEF RwReadAdd, Added, Writing, Awaiting
<1>4. Cardinality(Added') = n + 1 /\ n \in Nat
  BY <1>2, <1>3, AddedMore, AddedFinite, Zenon
<1>5. PICK w \in {0, 1} : rwcnt = READ * n + b + w /\ (w = 1 => Awaiting # {})
  BY Zenon DEF RwInv
<1>6. rwcnt' = READ * (n + 1) + b + w /\ rwx' = rwx
  BY <1>4, <1>5 DEF RwReadAdd, READ, WRITE
<1>7. RwTypeOK'
  BY <1>2, <1>4, <1>6 DEF RwInv, RwTypeOK, READ, WRITE
<1>8. l = "rd" => Writing = {}
  BY <1>1, <1>4, <1>6 DEF Mask, READ, WRITE
<1>9. Exclusion'
  BY <1>2, <1>8, Zenon DEF RwInv, Exclusion, RwReadAdd, Writing
<1>10. \A u \in Threads : pc'[u] \in {"wcas", "wtcas"} => rwx'[u] < WRITE
  BY <1>1, <1>2, <1>6, Zenon DEF RwInv
<1>11. \E v \in {0, 1} :
       /\ rwcnt' = READ * Cardinality(Added') + (IF Writing' = {} THEN 0 ELSE WRITE) + v
       /\ v = 1 => Awaiting' # {}
  BY <1>3, <1>4, <1>5, <1>6, Zenon
<1>12. QED
  BY <1>7, <1>9, <1>10, <1>11, Zenon DEF RwInv

\* A thread takes its READ out of the counter.
LEMMA RwSubStep ==
  ASSUME RwInv, NEW t \in Threads, RwReadSub(t) \/ RwReadUnlock(t)
  PROVE  RwInv'
<1> DEFINE n == Cardinality(Added)
           b == IF Writing = {} THEN 0 ELSE WRITE
<1>1. PICK l \in {"rload", "out"} : RwGoto(t, l)
  BY Zenon DEF RwReadSub, RwReadUnlock
<1>2. /\ pc' \in [Threads -> RwLabels]
      /\ pc'[t] = l
      /\ \A u \in Threads : u # t => pc'[u] = pc[u]
      /\ Added' = Added \ {t} /\ Writing' = Writing \ {t}
      /\ Awaiting' = Awaiting \ {t}
  BY <1>1, MoveSets, Zenon DEF RwInv, RwLabels
<1>3. t \in Added /\ Writing' = Writing /\ Awaiting' = Awaiting
  BY <1>2, Zenon DEF RwReadSub, RwReadUnlock, Added, Writing, Awaiting
<1>4. Cardinality(Added') = n - 1 /\ n \in Nat /\ n >= 1
  BY <1>2, <1>3, AddedLess, AddedFinite, Zenon
<1>5. PICK w \in {0, 1} : rwcnt = READ * n + b + w /\ (w = 1 => Awaiting # {})
  BY Zenon DEF RwInv
<1>6. rwcnt' = READ * (n - 1) + b + w /\ rwx' = rwx
  BY <1>4, <1>5 DEF RwReadSub, RwReadUnlock, READ, WRITE
<1>7. RwTypeOK'
  BY <1>2, <1>4, <1>6 DEF RwInv, RwTypeOK, READ, WRITE
<1>8. Exclusion'
  BY <1>1, <1>2, Zenon DEF RwInv, Exclusion
<1>9. \A u \in Threads : pc'[u] \in {"wcas", "wtcas"} => rwx'[u] < WRITE
  BY <1>1, <1>2, <1>6, Zenon DEF RwInv
<1>10. \E v \in {0, 1} :
       /\ rwcnt' = READ * Cardinality(Added') + (IF Writing' = {} THEN 0 ELSE WRITE) + v
       /\ v = 1 => Awaiting' # {}
  BY <1>3, <1>4, <1>5, <1>6, Zenon
<1>11. QED
  BY <1>7, <1>8, <1>9, <1>10, Zenon DEF RwInv

\* A writer swaps the counter: nobody was inside.
LEMMA RwCasStep ==
  ASSUME RwInv, NEW t \in Threads, RwWriteCas(t)
  PROVE  RwInv'
<1> DEFINE n == Cardinality(Added)
           b == IF Writing = {} THEN 0 ELSE WRITE
<1>1. RwGoto(t, "wr") /\ rwcnt = rwx[t] /\ rwcnt < WRITE
  BY Zenon DEF RwInv, RwWriteCas
<1>2. /\ pc' \in [Threads -> RwLabels]
      /\ pc'[t] = "wr"
      /\ \A u \in Threads : u # t => pc'[u] = pc[u]
      /\ Added' = Added \ {t} /\ Writing' = Writing \cup {t}
      /\ Awaiting' = Awaiting \ {t}
  BY <1>1, MoveSets, Zenon DEF RwInv, RwLabels
<1>3. n \in Nat
  BY AddedFinite, Zenon
<1>4. PICK w \in {0, 1} : rwcnt = READ * n + b + w /\ (w = 1 => Awaiting # {})
  BY Zenon DEF RwInv
<1>5. n = 0 /\ Writing = {} /\ rwcnt = w
  BY <1>1, <1>3, <1>4 DEF READ, WRITE
<1>6. Added = {}
  BY <1>5, AddedFinite, FS_EmptySet, Zenon
<1>7. Added' = {} /\ Cardinality(Added') = 0 /\ Writing' # {}
  BY <1>2, <1>6, FS_EmptySet, Zenon
<1>8. /\ rwcnt' = IF pc[t] = "wcas" THEN WRITE ELSE w + WRITE
      /\ rwx' = [rwx EXCEPT ![t] = 0]
  BY <1>1, <1>5, Zenon DEF RwWriteCas
<1>9. RwTypeOK'
  BY <1>2, <1>8 DEF RwInv, RwTypeOK, WRITE
<1>10. Exclusion'
  BY <1>2, <1>5, <1>6, Zenon DEF Exclusion, Added, Writing
<1>11. \A u \in Threads : pc'[u] \in {"wcas", "wtcas"} => rwx'[u] < WRITE
  BY <1>2, <1>8, Zenon DEF RwInv, RwTypeOK
<1>12. pc[t] # "wcas" => t \notin Awaiting
  BY Zenon DEF RwWriteCas, Awaiting
<1>13. \E v \in {0, 1} :
       /\ rwcnt' = READ * Cardinality(Added') + (IF Writing' = {} THEN 0 ELSE WRITE) + v
       /\ v = 1 => Awaiting' # {}
  BY <1>2, <1>4, <1>7, <1>8, <1>12 DEF READ, WRITE
<1>14. QED
  BY <1>9, <1>10, <1>11, <1>13, Zenon DEF RwInv

\* A writer sets WAIT, or finds it set.
LEMMA RwWaitStep ==
  ASSUME RwInv, NEW t \in Threads, RwWriteWait(t)
  PROVE  RwInv'
<1> DEFINE n == Cardinality(Added)
           b == IF Writing = {} THEN 0 ELSE WRITE
<1>1. /\ pc' \in [Threads -> RwLabels]
      /\ pc'[t] = "wspin"
      /\ \A u \in Threads : u # t => pc'[u] = pc[u]
      /\ Added' = Added \ {t} /\ Writing' = Writing \ {t}
      /\ Awaiting' = Awaiting \cup {t}
  BY MoveSets, Zenon DEF RwInv, RwLabels, RwWriteWait
<1>2. Added' = Added /\ Writing' = Writing /\ Awaiting' # {}
  BY <1>1, Zenon DEF Added, Writing, RwWriteWait
<1>3. n \in Nat
  BY AddedFinite, Zenon
<1>4. PICK w \in {0, 1} : rwcnt = READ * n + b + w
  BY Zenon DEF RwInv
<1>5. /\ rwcnt' = rwcnt \/ (rwcnt % 2 # 1 /\ rwcnt' = rwcnt + 1)
      /\ rwx' = [rwx EXCEPT ![t] = 0]
  BY Zenon DEF RwWriteWait, Waits, WAIT
<1>6. rwcnt % 2 # 1 => w = 0
  BY <1>3, <1>4 DEF READ, WRITE
<1>7. PICK v \in {0, 1} : rwcnt' = READ * n + b + v
  BY <1>3, <1>4, <1>5, <1>6 DEF READ, WRITE
<1>8. RwTypeOK'
  BY <1>1, <1>3, <1>5 DEF RwInv, RwTypeOK
<1>9. Exclusion'
  BY <1>1, Zenon DEF RwInv, Exclusion
<1>10. \A u \in Threads : pc'[u] \in {"wcas", "wtcas"} => rwx'[u] < WRITE
  BY <1>1, <1>5, Zenon DEF RwInv, RwTypeOK
<1>11. \E x \in {0, 1} :
       /\ rwcnt' = READ * Cardinality(Added') + (IF Writing' = {} THEN 0 ELSE WRITE) + x
       /\ x = 1 => Awaiting' # {}
  BY <1>2, <1>7, Zenon
<1>12. QED
  BY <1>8, <1>9, <1>10, <1>11, Zenon DEF RwInv

\* The writer leaves: it was the only one.
LEMMA RwUnlockStep ==
  ASSUME RwInv, NEW t \in Threads, RwWriteUnlock(t)
  PROVE  RwInv'
<1> DEFINE n == Cardinality(Added)
<1>1. /\ pc' \in [Threads -> RwLabels]
      /\ pc'[t] = "out"
      /\ \A u \in Threads : u # t => pc'[u] = pc[u]
      /\ Added' = Added \ {t} /\ Writing' = Writing \ {t}
      /\ Awaiting' = Awaiting \ {t}
  BY MoveSets, Zenon DEF RwInv, RwLabels, RwWriteUnlock
<1>2. Added' = Added /\ Awaiting' = Awaiting
  BY <1>1, Zenon DEF Added, Awaiting, RwWriteUnlock
<1>3. Writing # {} /\ Writing' = {}
  BY <1>1, Zenon DEF RwInv, Exclusion, Writing, RwWriteUnlock
<1>4. n \in Nat
  BY AddedFinite, Zenon
<1>5. PICK w \in {0, 1} : rwcnt = READ * n + WRITE + w /\ (w = 1 => Awaiting # {})
  BY <1>3, Zenon DEF RwInv
<1>6. rwcnt' = READ * n + w /\ rwx' = rwx
  BY <1>4, <1>5 DEF RwWriteUnlock, READ, WRITE
<1>7. RwTypeOK'
  BY <1>1, <1>4, <1>6 DEF RwInv, RwTypeOK, READ
<1>8. Exclusion'
  BY <1>1, Zenon DEF RwInv, Exclusion
<1>9. \A u \in Threads : pc'[u] \in {"wcas", "wtcas"} => rwx'[u] < WRITE
  BY <1>1, <1>6, Zenon DEF RwInv
<1>10. \E v \in {0, 1} :
       /\ rwcnt' = READ * Cardinality(Added') + (IF Writing' = {} THEN 0 ELSE WRITE) + v
       /\ v = 1 => Awaiting' # {}
  BY <1>2, <1>3, <1>4, <1>5, <1>6 DEF READ
<1>11. QED
  BY <1>7, <1>8, <1>9, <1>10, Zenon DEF RwInv

LEMMA RwInvStep == RwInv /\ [RwNext]_<<base, rwvars>> => RwInv'
<1> SUFFICES ASSUME RwInv, [RwNext]_<<base, rwvars>> PROVE RwInv'
  BY Zenon
<1> USE DEF RwInv, RwTypeOK
<1>1. CASE UNCHANGED <<base, rwvars>>
  BY <1>1, Zenon DEF base, rwvars, Exclusion, Added, Writing, Awaiting
<1>2. ASSUME NEW t \in Threads, RwCall(t) PROVE RwInv'
  <2>1. PICK l \in {"rload", "rtload", "wload", "wtload"} : RwGoto(t, l)
    BY <1>2, Zenon DEF RwCall
  <2>2. QED
    BY <1>2, <2>1, RwLocalStep, Zenon DEF RwCall, RwLabels, rwvars, Awaiting
<1>3. ASSUME NEW t \in Threads, RwReadLoad(t) PROVE RwInv'
  <2>1. PICK l \in {"radd", "rtadd"} : RwGoto(t, l)
    BY <1>3, Zenon DEF RwReadLoad
  <2>2. QED
    BY <1>3, <2>1, RwLocalStep, Zenon DEF RwReadLoad, RwLabels, rwvars, Awaiting
<1>4. ASSUME NEW t \in Threads, RwTryReadBusy(t) PROVE RwInv'
  BY <1>4, RwLocalStep, Zenon DEF RwTryReadBusy, RwLabels, rwvars, Awaiting
<1>5. ASSUME NEW t \in Threads, RwWriteLoad(t) PROVE RwInv'
  <2>1. PICK l \in {"wcas", "wtcas", "wwait", "out"} :
          /\ RwGoto(t, l)
          /\ l \in {"wcas", "wtcas"} => rwcnt < WRITE
          /\ pc[t] = "wload" => l \in {"wcas", "wwait"}
    BY <1>5, Zenon DEF RwWriteLoad
  <2>2. /\ rwx' \in [Threads -> Nat] /\ rwcnt' = rwcnt
        /\ \A u \in Threads : u # t => rwx'[u] = rwx[u]
        /\ l \in {"wcas", "wtcas"} => rwx'[t] < WRITE
    BY <1>5, <2>1 DEF RwWriteLoad, WRITE
  <2>3. QED
    BY <1>5, <2>1, <2>2, RwLocalStep, Zenon DEF RwWriteLoad, RwLabels, Awaiting
<1>6. ASSUME NEW t \in Threads, RwWriteCasFails(t) PROVE RwInv'
  <2>1. PICK l \in {"wwait", "out"} : RwGoto(t, l) /\ (pc[t] = "wcas" => l = "wwait")
    BY <1>6, Zenon DEF RwWriteCasFails
  <2>2. /\ rwx' \in [Threads -> Nat] /\ rwcnt' = rwcnt
        /\ \A u \in Threads : u # t => rwx'[u] = rwx[u]
    BY <1>6, Zenon DEF RwWriteCasFails
  <2>3. QED
    BY <1>6, <2>1, <2>2, RwLocalStep, Zenon DEF RwWriteCasFails, RwLabels, Awaiting
<1>7. ASSUME NEW t \in Threads, RwWriteSpin(t) PROVE RwInv'
  BY <1>7, RwLocalStep, Zenon DEF RwWriteSpin, RwLabels, rwvars, Awaiting
<1>8. QED
  BY <1>1, <1>2, <1>3, <1>4, <1>5, <1>6, <1>7, RwAddStep, RwSubStep, RwCasStep,
     RwWaitStep, RwUnlockStep, Zenon DEF RwNext, RwStep

\* For any number of threads that lock, try and unlock the reader-writer lock of
\* generic/rte_rwlock.h in any order: a writer that is inside is alone, although
\* readers add themselves to the counter before they know, and although a writer
\* that has lost its compare-and-exchange sets WAIT in a counter that has changed
\* since; and the counter accounts for every thread and for nothing else.
THEOREM RwExclusive == RwSpec => [](Exclusion /\ RwCounter)
<1>1. RwInv => Exclusion /\ RwCounter
  <2> SUFFICES ASSUME RwInv PROVE Exclusion /\ RwCounter
    BY Zenon
  <2> DEFINE n == Cardinality(Added)
             b == IF Writing = {} THEN 0 ELSE WRITE
  <2>1. n \in Nat
    BY AddedFinite, Zenon
  <2>2. PICK w \in {0, 1} : rwcnt = READ * n + b + w /\ (w = 1 => Awaiting # {})
    BY Zenon DEF RwInv
  <2>3. rwcnt - (rwcnt % 2) = READ * n + b /\ (rwcnt % 2 = 1 => Awaiting # {})
    BY <2>1, <2>2 DEF READ, WRITE
  <2>4. b = IF \E t \in Threads : pc[t] = "wr" THEN WRITE ELSE 0
    BY Zenon DEF Writing
  <2>5. n = Cardinality({t \in Threads : pc[t] \in {"rd", "rsub", "rtsub"}})
    BY Zenon DEF Added
  <2>6. Waits(rwcnt) => \E t \in Threads : pc[t] \in {"wspin", "wload", "wcas", "wwait"}
    BY <2>3, Zenon DEF Waits, Awaiting
  <2> HIDE DEF n, b
  <2>7. RwCounter
    BY <2>3, <2>4, <2>5, <2>6, Zenon DEF RwCounter
  <2>8. QED
    BY <2>7, Zenon DEF RwInv
<1>2. QED
  BY RwInvInit, RwInvStep, <1>1, PTL DEF RwSpec

-----------------------------------------------------------------------------
(***************************************************************************)
(* rte_seqcount.h and rte_seqlock.h, up to the number of writes that keeps *)
(* the sequence number from wrapping under a reader: what a reader may use *)
(* is the data of one write.                                               *)
(***************************************************************************)

SeqLabels ==
  {"out", "wlock", "wbegin", "wr", "wend", "wunlock",
   "rbegin", "rload", "rretry", "use"}

\* The writer that holds the spinlock, the writers that have yet to begin, and
\* the writer that has begun and not ended.
Holding == {t \in Threads : pc[t] \in {"wbegin", "wr", "wend", "wunlock"}}
Coming == {t \in Threads : pc[t] \in {"wlock", "wbegin"}}
Begun == {t \in Threads : pc[t] \in {"wr", "wend"}}

SeqTypeOK ==
  /\ pc \in [Threads -> SeqLabels]
  /\ sn \in Nat /\ SnBase <= sn
  /\ locked \in BOOLEAN
  /\ data \in [{1, 2} -> Nat]
  /\ begin \in [Threads -> Nat]
  /\ copy \in [Threads -> Seq(Nat)]

\* Writers exclude one another, and an odd number says that one is writing.
WritersInv ==
  /\ \A t, u \in Holding : t = u
  /\ Holding # {} => locked
  /\ Begun # {} <=> sn % 2 = 1
  /\ (\A t \in Threads : pc[t] # "wr") => data[1] = data[2]

\* No more writes than the bound.
BudgetInv ==
  sn + (sn % 2) + 2 * Cardinality(Coming) <= SnBase + 2 * MaxWrites

\* A reader began at some number; if it was even and still stands, then what the
\* reader has copied so far is what the data is now.
ReaderInv(t) ==
  pc[t] \in {"rload", "rretry"} =>
    /\ pc[t] = "rload" => Len(copy[t]) \in {0, 1}
    /\ pc[t] = "rretry" => Len(copy[t]) = 2
    /\ \E b \in SnBase .. sn :
         /\ begin[t] = SnU32(b)
         /\ b % 2 = 0 /\ b = sn => \A i \in 1 .. Len(copy[t]) : copy[t][i] = data[i]

SeqInv ==
  /\ SeqTypeOK
  /\ WritersInv
  /\ BudgetInv
  /\ \A t \in Threads : ReaderInv(t)
  /\ ConsistentRead

-----------------------------------------------------------------------------
LEMMA SnFacts ==
  /\ SnMod \in Nat /\ SnMod > 0 /\ SnMod % 2 = 0
  /\ SnBase \in Nat /\ SnBase % 2 = 0
  /\ MaxWrites \in Nat /\ 2 * MaxWrites < SnMod
BY SnSizes

LEMMA ComingFinite ==
  /\ IsFiniteSet(Coming) /\ Cardinality(Coming) \in Nat
  /\ IsFiniteSet(Begun) /\ Cardinality(Begun) \in Nat
BY LockThreads, FS_Subset, FS_CardinalityType, Zenon DEF Coming, Begun

\* A number is accepted only if it is the very number the read began with, even
\* though only the low word of it is compared.
LEMMA SameNumber ==
  ASSUME SeqInv, NEW b \in SnBase .. sn, SnU32(b) = SnU32(sn), SnU32(b) % 2 # 1
  PROVE  b = sn /\ b % 2 = 0
<1>1. b \in Nat /\ sn \in Nat
  BY SnFacts DEF SeqInv, SeqTypeOK
<1>2. sn <= SnBase + 2 * MaxWrites
  BY <1>1, SnFacts, ComingFinite DEF SeqInv, BudgetInv
<1>3. sn - b < SnMod /\ b - sn < SnMod
  BY <1>1, <1>2, SnFacts
<1>4. b \in Int /\ sn \in Int /\ b % SnMod = sn % SnMod
  BY <1>1 DEF SnU32
<1>5. b = sn
  BY <1>3, <1>4, SnFacts, SameRemainder, Zenon
<1>6. (b % SnMod) % 2 = b % 2
  BY <1>1, SnFacts, RemainderParity, Zenon
<1>7. b % 2 # 1
  BY <1>6, Zenon DEF SnU32
<1>8. QED
  BY <1>1, <1>5, <1>7

\* A thread that moves to l changes the three sets as l says.
LEMMA SeqMoves ==
  ASSUME NEW t \in Threads, NEW l \in SeqLabels, SeqTypeOK, SeqGoto(t, l)
  PROVE  /\ pc' \in [Threads -> SeqLabels]
         /\ pc'[t] = l
         /\ \A u \in Threads : u # t => pc'[u] = pc[u]
         /\ Coming' = IF l \in {"wlock", "wbegin"} THEN Coming \cup {t} ELSE Coming \ {t}
         /\ Begun' = IF l \in {"wr", "wend"} THEN Begun \cup {t} ELSE Begun \ {t}
         /\ Holding' = IF l \in {"wbegin", "wr", "wend", "wunlock"}
                       THEN Holding \cup {t} ELSE Holding \ {t}
<1>1. /\ pc' \in [Threads -> SeqLabels]
      /\ pc'[t] = l
      /\ \A u \in Threads : u # t => pc'[u] = pc[u]
  BY Zenon DEF SeqTypeOK, SeqGoto, Goto
<1>2. Coming' = IF l \in {"wlock", "wbegin"} THEN Coming \cup {t} ELSE Coming \ {t}
  BY <1>1, Zenon DEF Coming
<1>3. Begun' = IF l \in {"wr", "wend"} THEN Begun \cup {t} ELSE Begun \ {t}
  BY <1>1, Zenon DEF Begun
<1>4. Holding' = IF l \in {"wbegin", "wr", "wend", "wunlock"}
                 THEN Holding \cup {t} ELSE Holding \ {t}
  BY <1>1, Zenon DEF Holding
<1>5. QED
  BY <1>1, <1>2, <1>3, <1>4, Zenon

\* A reader that takes no step: its claim stands if the data stands, or if the
\* number is odd, or has moved.
LEMMA ReaderStays ==
  ASSUME SeqInv, NEW t \in Threads, sn' \in Nat, sn <= sn',
         pc'[t] = pc[t], begin'[t] = begin[t], copy'[t] = copy[t],
         data' = data \/ sn' # sn \/ sn % 2 = 1
  PROVE  ReaderInv(t)'
<1> SUFFICES ASSUME pc[t] \in {"rload", "rretry"} PROVE ReaderInv(t)'
  BY Zenon DEF ReaderInv
<1>1. PICK b \in SnBase .. sn :
         /\ begin[t] = SnU32(b)
         /\ b % 2 = 0 /\ b = sn => \A i \in 1 .. Len(copy[t]) : copy[t][i] = data[i]
  BY Zenon DEF SeqInv, ReaderInv
<1>2. b \in SnBase .. sn' /\ (b = sn' => sn' = sn)
  BY <1>1, SnFacts DEF SeqInv, SeqTypeOK
<1>3. b % 2 = 0 /\ b = sn' => \A i \in 1 .. Len(copy[t]) : copy[t][i] = data'[i]
  BY <1>1, <1>2
<1>4. QED
  BY <1>1, <1>2, <1>3, Zenon DEF SeqInv, ReaderInv

-----------------------------------------------------------------------------
LEMMA SeqInvInit == BaseInit /\ SeqInit => SeqInv
<1> SUFFICES ASSUME BaseInit, SeqInit PROVE SeqInv
  BY Zenon
<1>1. SeqTypeOK
  <2>1. pc \in [Threads -> SeqLabels]
    BY Zenon DEF BaseInit, SeqLabels
  <2>2. <<>> \in Seq(Nat)
    OBVIOUS
  <2>3. copy \in [Threads -> Seq(Nat)] /\ begin \in [Threads -> Nat]
    BY <2>2, Zenon DEF SeqInit
  <2>4. data \in [{1, 2} -> Nat] /\ sn \in Nat /\ SnBase <= sn
    BY SnFacts DEF SeqInit
  <2>5. locked \in BOOLEAN
    BY Zenon DEF SeqInit
  <2>6. QED
    BY <2>1, <2>3, <2>4, <2>5, Zenon DEF SeqTypeOK
<1>2. Coming = {} /\ Begun = {} /\ Holding = {}
  BY Zenon DEF BaseInit, Coming, Begun, Holding
<1>3. Cardinality(Coming) = 0
  BY <1>2, FS_EmptySet, Zenon
<1>4. BudgetInv
  BY <1>3, SnFacts DEF SeqInit, BudgetInv
<1>5. WritersInv
  BY <1>2, SnFacts DEF SeqInit, WritersInv
<1>6. QED
  BY <1>1, <1>4, <1>5, Zenon DEF BaseInit, SeqInv, ReaderInv, ConsistentRead

\* The step of a reader disturbs no writer and no other reader.
LEMMA ReaderSteps ==
  ASSUME SeqInv, NEW t \in Threads, NEW l \in {"out", "rbegin", "rload", "rretry", "use"},
         SeqGoto(t, l), pc[t] \in {"out", "rbegin", "rload", "rretry", "use"},
         sn' = sn, locked' = locked, data' = data,
         begin' \in [Threads -> Nat], copy' \in [Threads -> Seq(Nat)],
         \A u \in Threads : u # t => begin'[u] = begin[u] /\ copy'[u] = copy[u],
         ReaderInv(t)', l = "use" => copy'[t][1] = copy'[t][2]
  PROVE  SeqInv'
<1>1. /\ pc' \in [Threads -> SeqLabels]
      /\ pc'[t] = l
      /\ \A u \in Threads : u # t => pc'[u] = pc[u]
      /\ Coming' = Coming \ {t} /\ Begun' = Begun \ {t} /\ Holding' = Holding \ {t}
  BY SeqMoves DEF SeqInv, SeqLabels
<1>2. Coming' = Coming /\ Begun' = Begun /\ Holding' = Holding
  BY <1>1, Zenon DEF Coming, Begun, Holding
<1>3. SeqTypeOK'
  BY <1>1, Zenon DEF SeqInv, SeqTypeOK
<1>4. WritersInv'
  BY <1>1, <1>2, Zenon DEF SeqInv, WritersInv
<1>5. BudgetInv'
  BY <1>2, Zenon DEF SeqInv, BudgetInv
<1>6. ASSUME NEW u \in Threads PROVE ReaderInv(u)'
  BY <1>1, <1>3, ReaderStays DEF SeqTypeOK
<1>7. ConsistentRead'
  BY <1>1, Zenon DEF SeqInv, ConsistentRead
<1>8. QED
  BY <1>3, <1>4, <1>5, <1>6, <1>7, Zenon DEF SeqInv

LEMMA SnU32Nat == ASSUME NEW x \in Nat PROVE SnU32(x) \in Nat
BY SnFacts, RemainderParity, Zenon DEF SnU32

LEMMA ReadBeginStep ==
  ASSUME SeqInv, NEW t \in Threads, SeqReadBegin(t)
  PROVE  SeqInv'
<1>0. sn \in Nat /\ sn \in SnBase .. sn
  BY SnFacts DEF SeqInv, SeqTypeOK
<1>1. SnU32(sn) \in Nat
  BY <1>0, SnU32Nat, Zenon
<1>2. /\ begin' \in [Threads -> Nat] /\ copy' \in [Threads -> Seq(Nat)]
      /\ begin'[t] = SnU32(sn) /\ copy'[t] = <<>> /\ pc'[t] = "rload"
      /\ \A u \in Threads : u # t => begin'[u] = begin[u] /\ copy'[u] = copy[u]
  BY <1>1 DEF SeqReadBegin, SeqInv, SeqTypeOK, SeqGoto, Goto
<1>3. sn' = sn
  BY Zenon DEF SeqReadBegin
<1>4. \A i \in 1 .. Len(copy'[t]) : copy'[t][i] = data'[i]
  BY <1>2
<1>5. Len(copy'[t]) = 0
  BY <1>2
<1>6. ReaderInv(t)'
  BY <1>0, <1>2, <1>3, <1>4, <1>5, Zenon DEF ReaderInv, SnU32
<1>7. QED
  BY <1>2, <1>6, ReaderSteps, Zenon DEF SeqReadBegin

LEMMA ReadLoadStep ==
  ASSUME SeqInv, NEW t \in Threads, SeqReadLoad(t)
  PROVE  SeqInv'
<1> DEFINE c == copy[t]
           n == Len(c) + 1
           l == IF Len(c) = 1 THEN "rretry" ELSE "rload"
<1>1. c \in Seq(Nat) /\ n \in {1, 2} /\ pc[t] = "rload" /\ Len(c) \in {0, 1}
  <2>1. pc[t] = "rload" /\ c \in Seq(Nat)
    BY Zenon DEF SeqReadLoad, SeqInv, SeqTypeOK
  <2>2. Len(c) \in {0, 1}
    BY <2>1, Zenon DEF SeqInv, ReaderInv
  <2> HIDE DEF c
  <2>3. CASE Len(c) = 0
    BY <2>1, <2>3
  <2>4. CASE Len(c) = 1
    BY <2>1, <2>4
  <2>5. QED
    BY <2>2, <2>3, <2>4, Zenon
<1>2. data[n] \in Nat
  BY <1>1, Zenon DEF SeqInv, SeqTypeOK
<1>3. /\ copy' = [copy EXCEPT ![t] = Append(c, data[n])]
      /\ sn' = sn /\ data' = data /\ begin' = begin /\ locked' = locked
      /\ SeqGoto(t, l)
  BY Zenon DEF SeqReadLoad
<1>4. /\ copy' \in [Threads -> Seq(Nat)] /\ copy'[t] = Append(c, data[n])
      /\ \A u \in Threads : u # t => begin'[u] = begin[u] /\ copy'[u] = copy[u]
      /\ begin' \in [Threads -> Nat]
  BY <1>1, <1>2, <1>3 DEF SeqInv, SeqTypeOK
<1>5. pc'[t] = l
  BY <1>3, Zenon DEF SeqGoto, Goto, SeqInv, SeqTypeOK
<1>6. Len(copy'[t]) = n /\ (l = "rload" => n = 1) /\ (l = "rretry" => n = 2)
  <2>1. Len(Append(c, data[n])) = Len(c) + 1 /\ Len(c) \in Nat
    BY <1>1, <1>2
  <2>2. Len(copy'[t]) = n
    BY <1>4, <2>1, Zenon
  <2> HIDE DEF c
  <2>3. CASE Len(c) = 0
    BY <2>2, <2>3
  <2>4. CASE Len(c) = 1
    BY <2>2, <2>4
  <2>5. QED
    BY <1>1, <2>3, <2>4, Zenon
<1>7. PICK b \in SnBase .. sn :
         /\ begin[t] = SnU32(b)
         /\ b % 2 = 0 /\ b = sn => \A i \in 1 .. Len(c) : c[i] = data[i]
  BY <1>1, Zenon DEF SeqInv, ReaderInv
<1>8. \A i \in 1 .. Len(copy'[t]) : copy'[t][i] = IF i = n THEN data[n] ELSE c[i]
  BY <1>1, <1>2, <1>4
<1>9. b % 2 = 0 /\ b = sn => \A i \in 1 .. Len(copy'[t]) : copy'[t][i] = data[i]
  BY <1>1, <1>6, <1>7, <1>8
<1>10. ReaderInv(t)'
  BY <1>1, <1>3, <1>5, <1>6, <1>7, <1>9, Zenon DEF ReaderInv
<1>11. l \in {"rretry", "rload"}
  BY Zenon
<1>12. QED
  BY <1>1, <1>3, <1>4, <1>10, <1>11, ReaderSteps, Zenon

LEMMA ReadRetryStep ==
  ASSUME SeqInv, NEW t \in Threads, SeqReadRetry(t)
  PROVE  SeqInv'
<1> DEFINE retry == begin[t] % 2 = 1 \/ begin[t] # SnU32(sn)
           l == IF retry THEN "rbegin" ELSE "use"
<1>1. /\ SeqGoto(t, l) /\ pc[t] = "rretry"
      /\ begin' = [begin EXCEPT ![t] = 0]
      /\ copy' = [copy EXCEPT ![t] = IF retry THEN <<>> ELSE @]
      /\ sn' = sn /\ locked' = locked /\ data' = data
  BY Zenon DEF SeqReadRetry, SeqRetryIf
<1>2. l \in {"rbegin", "use"} /\ (l = "use" => ~ retry)
  BY Zenon
<1>3. /\ copy' \in [Threads -> Seq(Nat)] /\ begin' \in [Threads -> Nat]
      /\ ~ retry => copy'[t] = copy[t]
      /\ \A u \in Threads : u # t => begin'[u] = begin[u] /\ copy'[u] = copy[u]
  BY <1>1 DEF SeqInv, SeqTypeOK
<1>4. pc'[t] = l
  BY <1>1, Zenon DEF SeqGoto, Goto, SeqInv, SeqTypeOK
<1>5. ReaderInv(t)'
  BY <1>2, <1>4, Zenon DEF ReaderInv
<1>6. ASSUME ~ retry PROVE copy[t][1] = copy[t][2]
  <2>1. PICK b \in SnBase .. sn :
           /\ begin[t] = SnU32(b)
           /\ b % 2 = 0 /\ b = sn => \A i \in 1 .. Len(copy[t]) : copy[t][i] = data[i]
    BY <1>1, Zenon DEF SeqInv, ReaderInv
  <2>2. b = sn /\ b % 2 = 0
    BY <1>6, <2>1, SameNumber, Zenon
  <2>3. Len(copy[t]) = 2
    BY <1>1, Zenon DEF SeqInv, ReaderInv
  <2>4. copy[t][1] = data[1] /\ copy[t][2] = data[2]
    BY <2>1, <2>2, <2>3
  <2>5. Begun = {}
    BY <2>2 DEF SeqInv, WritersInv
  <2>6. data[1] = data[2]
    BY <2>5, Zenon DEF SeqInv, WritersInv, Begun
  <2>7. QED
    BY <2>4, <2>6, Zenon
<1> HIDE DEF retry, l
<1>7. QED
  BY <1>1, <1>2, <1>3, <1>5, <1>6, ReaderSteps, Zenon

LEMMA ReadDoneStep ==
  ASSUME SeqInv, NEW t \in Threads, SeqReadDone(t)
  PROVE  SeqInv'
<1>1. /\ copy' \in [Threads -> Seq(Nat)] /\ begin' \in [Threads -> Nat]
      /\ \A u \in Threads : u # t => begin'[u] = begin[u] /\ copy'[u] = copy[u]
      /\ pc'[t] = "out"
  BY DEF SeqReadDone, SeqInv, SeqTypeOK, SeqGoto, Goto
<1>2. QED
  BY <1>1, ReaderSteps, Zenon DEF SeqReadDone, ReaderInv

-----------------------------------------------------------------------------
\* The step of a writer disturbs no reader but those whose number is out of date.
LEMMA WriterSteps ==
  ASSUME SeqInv, NEW t \in Threads, NEW l \in {"out", "wlock", "wbegin", "wr", "wend", "wunlock"},
         SeqGoto(t, l), pc[t] \in {"out", "wlock", "wbegin", "wr", "wend", "wunlock"},
         begin' = begin, copy' = copy, sn' \in Nat, sn <= sn',
         data' \in [{1, 2} -> Nat], data' = data \/ sn' # sn \/ sn % 2 = 1,
         locked' \in BOOLEAN, WritersInv', BudgetInv'
  PROVE  SeqInv'
<1>1. /\ pc' \in [Threads -> SeqLabels]
      /\ pc'[t] = l
      /\ \A u \in Threads : u # t => pc'[u] = pc[u]
  BY SeqMoves, Zenon DEF SeqInv, SeqLabels
<1>2. SeqTypeOK'
  BY <1>1, SnFacts DEF SeqInv, SeqTypeOK
<1>3. ASSUME NEW u \in Threads PROVE ReaderInv(u)'
  <2>1. CASE u = t
    BY <1>1, <2>1, Zenon DEF ReaderInv
  <2>2. CASE u # t
    BY <1>1, <2>2, ReaderStays, Zenon
  <2>3. QED
    BY <2>1, <2>2, Zenon
<1>4. ConsistentRead'
  BY <1>1, Zenon DEF SeqInv, ConsistentRead
<1>5. QED
  BY <1>2, <1>3, <1>4, Zenon DEF SeqInv

LEMMA WriteCallStep ==
  ASSUME SeqInv, NEW t \in Threads, SeqWriteCall(t)
  PROVE  SeqInv'
<1> DEFINE n == Cardinality(Coming)
<1>1. /\ pc' \in [Threads -> SeqLabels] /\ pc'[t] = "wlock"
      /\ \A u \in Threads : u # t => pc'[u] = pc[u]
      /\ Coming' = Coming \cup {t} /\ Begun' = Begun \ {t} /\ Holding' = Holding \ {t}
  BY SeqMoves, Zenon DEF SeqInv, SeqLabels, SeqWriteCall
<1>2. t \notin Coming /\ Begun' = Begun /\ Holding' = Holding
  BY <1>1, Zenon DEF Coming, Begun, Holding, SeqWriteCall
<1>3. Cardinality(Coming') = n + 1 /\ n \in Nat
  BY <1>1, <1>2, ComingFinite, FS_AddElement, Zenon
<1>4. sn + 2 * n + Cardinality(Begun) < SnBase + 2 * MaxWrites
  BY Zenon DEF SeqWriteCall, Coming, Begun
<1>5. Begun # {} => Cardinality(Begun) >= 1
  BY ComingFinite, FS_EmptySet
<1>6. sn % 2 <= Cardinality(Begun) /\ sn \in Nat
  BY <1>5, ComingFinite DEF SeqInv, SeqTypeOK, WritersInv
<1>7. sn' = sn /\ data' = data /\ locked' = locked /\ begin' = begin /\ copy' = copy
  BY Zenon DEF SeqWriteCall, seqvars
<1>8. sn + (sn % 2) + 2 * (n + 1) <= SnBase + 2 * MaxWrites
  BY <1>3, <1>4, <1>6, SnFacts, ComingFinite
<1>9. BudgetInv'
  BY <1>3, <1>7, <1>8, Zenon DEF BudgetInv
<1>10. WritersInv'
  BY <1>1, <1>2, <1>7, Zenon DEF SeqInv, WritersInv, SeqWriteCall
<1>11. QED
  BY <1>7, <1>9, <1>10, WriterSteps DEF SeqInv, SeqTypeOK, SeqWriteCall

\* The spinlock is free: nobody holds it.
LEMMA SpinLockStep ==
  ASSUME SeqInv, NEW t \in Threads, SpinLock(t)
  PROVE  SeqInv'
<1>1. /\ pc' \in [Threads -> SeqLabels] /\ pc'[t] = "wbegin"
      /\ \A u \in Threads : u # t => pc'[u] = pc[u]
      /\ Coming' = Coming \cup {t} /\ Begun' = Begun \ {t} /\ Holding' = Holding \cup {t}
  BY SeqMoves, Zenon DEF SeqInv, SeqLabels, SpinLock
<1>2. Coming' = Coming /\ Begun' = Begun /\ Holding = {}
  BY <1>1, Zenon DEF Coming, Begun, SeqInv, WritersInv, SpinLock
<1>3. sn' = sn /\ data' = data /\ locked' = TRUE /\ begin' = begin /\ copy' = copy
  BY Zenon DEF SpinLock
<1>4. BudgetInv'
  BY <1>2, <1>3, Zenon DEF SeqInv, BudgetInv
<1>5. WritersInv'
  BY <1>1, <1>2, <1>3, Zenon DEF SeqInv, WritersInv, SpinLock
<1>6. QED
  BY <1>3, <1>4, <1>5, WriterSteps DEF SeqInv, SeqTypeOK, SpinLock

LEMMA WriteBeginStep ==
  ASSUME SeqInv, NEW t \in Threads, SeqWriteBegin(t)
  PROVE  SeqInv'
<1> DEFINE n == Cardinality(Coming)
<1>1. /\ pc' \in [Threads -> SeqLabels] /\ pc'[t] = "wr"
      /\ \A u \in Threads : u # t => pc'[u] = pc[u]
      /\ Coming' = Coming \ {t} /\ Begun' = Begun \cup {t} /\ Holding' = Holding \cup {t}
  BY SeqMoves, Zenon DEF SeqInv, SeqLabels, SeqWriteBegin
<1>2. t \in Coming /\ t \in Holding /\ Holding' = Holding
  BY <1>1, Zenon DEF Coming, Holding, SeqWriteBegin
<1>3. Begun = {}
  BY <1>2, Zenon DEF SeqInv, WritersInv, Begun, Holding, SeqWriteBegin
<1>4. Cardinality(Coming') = n - 1 /\ n \in Nat
  BY <1>1, <1>2, ComingFinite, FS_RemoveElement, Zenon
<1>5. /\ sn' = sn + 1 /\ data' = data /\ locked' = locked /\ begin' = begin /\ copy' = copy
      /\ sn \in Nat /\ sn % 2 = 0
  BY <1>3 DEF SeqWriteBegin, SeqInv, SeqTypeOK, WritersInv
<1>6. BudgetInv'
  BY <1>4, <1>5, SnFacts DEF SeqInv, BudgetInv
<1>7. sn' % 2 = 1 /\ Begun' # {}
  BY <1>1, <1>5
<1>8. WritersInv'
  BY <1>1, <1>2, <1>5, <1>7, Zenon DEF SeqInv, WritersInv
<1>9. QED
  BY <1>5, <1>6, <1>8, WriterSteps DEF SeqInv, SeqTypeOK, SeqWriteBegin

\* The stores happen while the number is odd.
LEMMA StoreStep ==
  ASSUME SeqInv, NEW t \in Threads, SeqStore1(t) \/ SeqStore2(t)
  PROVE  SeqInv'
<1>1. /\ pc[t] = "wr" /\ sn \in Nat /\ sn' = sn /\ locked' = locked
      /\ begin' = begin /\ copy' = copy
  BY Zenon DEF SeqStore1, SeqStore2, SeqInv, SeqTypeOK
<1>2. sn % 2 = 1 /\ t \in Begun /\ t \in Holding
  BY <1>1, Zenon DEF SeqInv, WritersInv, Begun, Holding
<1>3. data' \in [{1, 2} -> Nat]
  BY <1>1, Zenon DEF SeqStore1, SeqStore2, SeqInv, SeqTypeOK
<1>4. PICK l \in {"wr", "wend"} :
        /\ SeqGoto(t, l)
        /\ l = "wend" => data'[1] = data'[2]
  <2>1. CASE SeqStore1(t)
    <3>1. pc' = pc /\ order' = order
      BY <2>1, Zenon DEF SeqStore1, base
    <3>2. SeqGoto(t, "wr")
      BY <1>1, <3>1, Zenon DEF SeqGoto, Goto, SeqInv, SeqTypeOK
    <3>3. QED
      BY <3>2, Zenon
  <2>2. CASE SeqStore2(t)
    BY <2>2, Zenon DEF SeqStore2, SeqInv, SeqTypeOK
  <2>3. QED
    BY <2>1, <2>2, Zenon
<1>5. /\ pc' \in [Threads -> SeqLabels] /\ pc'[t] = l
      /\ \A u \in Threads : u # t => pc'[u] = pc[u]
      /\ Coming' = Coming \ {t} /\ Begun' = Begun \cup {t} /\ Holding' = Holding \cup {t}
  BY <1>4, SeqMoves DEF SeqInv, SeqLabels
<1>6. Coming' = Coming /\ Begun' = Begun /\ Holding' = Holding
  BY <1>1, <1>2, <1>5, Zenon DEF Coming
<1>7. BudgetInv'
  BY <1>1, <1>6, Zenon DEF SeqInv, BudgetInv
<1>8. WritersInv'
  BY <1>1, <1>2, <1>4, <1>5, <1>6, Zenon DEF SeqInv, WritersInv
<1>9. QED
  BY <1>1, <1>2, <1>3, <1>4, <1>7, <1>8, WriterSteps DEF SeqInv, SeqTypeOK

LEMMA WriteEndStep ==
  ASSUME SeqInv, NEW t \in Threads, SeqWriteEnd(t)
  PROVE  SeqInv'
<1>1. /\ pc' \in [Threads -> SeqLabels] /\ pc'[t] = "wunlock"
      /\ \A u \in Threads : u # t => pc'[u] = pc[u]
      /\ Coming' = Coming \ {t} /\ Begun' = Begun \ {t} /\ Holding' = Holding \cup {t}
  BY SeqMoves, Zenon DEF SeqInv, SeqLabels, SeqWriteEnd
<1>2. t \in Begun /\ t \in Holding /\ Holding' = Holding /\ Coming' = Coming
  BY <1>1, Zenon DEF Begun, Coming, Holding, SeqWriteEnd
<1>3. Begun' = {}
  BY <1>1, <1>2, Zenon DEF SeqInv, WritersInv, Begun, Holding
<1>4. /\ sn' = sn + 1 /\ data' = data /\ locked' = locked /\ begin' = begin /\ copy' = copy
      /\ sn \in Nat /\ sn % 2 = 1
  BY <1>2, Zenon DEF SeqWriteEnd, SeqInv, SeqTypeOK, WritersInv
<1>5. BudgetInv'
  BY <1>2, <1>4, ComingFinite, SnFacts DEF SeqInv, BudgetInv
<1>6. sn' % 2 = 0 /\ data[1] = data[2]
  <2>1. \A u \in Threads : pc[u] # "wr"
    BY <1>2, Zenon DEF SeqInv, WritersInv, Holding, SeqWriteEnd
  <2>2. QED
    BY <1>4, <2>1 DEF SeqInv, WritersInv
<1>7. WritersInv'
  BY <1>2, <1>3, <1>4, <1>6 DEF SeqInv, WritersInv
<1>8. QED
  BY <1>4, <1>5, <1>7, WriterSteps DEF SeqInv, SeqTypeOK, SeqWriteEnd

LEMMA SpinUnlockStep ==
  ASSUME SeqInv, NEW t \in Threads, SpinUnlock(t)
  PROVE  SeqInv'
<1>1. /\ pc' \in [Threads -> SeqLabels] /\ pc'[t] = "out"
      /\ \A u \in Threads : u # t => pc'[u] = pc[u]
      /\ Coming' = Coming \ {t} /\ Begun' = Begun \ {t} /\ Holding' = Holding \ {t}
  BY SeqMoves, Zenon DEF SeqInv, SeqLabels, SpinUnlock
<1>2. t \in Holding /\ Begun' = Begun /\ Coming' = Coming
  BY <1>1, Zenon DEF Begun, Coming, Holding, SpinUnlock
<1>3. Holding' = {}
  BY <1>1, <1>2, Zenon DEF SeqInv, WritersInv
<1>4. sn' = sn /\ data' = data /\ locked' = FALSE /\ begin' = begin /\ copy' = copy
  BY Zenon DEF SpinUnlock
<1>5. BudgetInv'
  BY <1>2, <1>4, Zenon DEF SeqInv, BudgetInv
<1>6. WritersInv'
  BY <1>1, <1>2, <1>3, <1>4, Zenon DEF SeqInv, WritersInv, SpinUnlock
<1>7. QED
  <2>1. /\ SeqGoto(t, "out") /\ pc[t] = "wunlock"
        /\ sn' \in Nat /\ sn <= sn' /\ data' \in [{1, 2} -> Nat]
    BY <1>4 DEF SeqInv, SeqTypeOK, SpinUnlock
  <2>2. locked' \in BOOLEAN
    BY <1>4, Zenon
  <2>3. QED
    BY <1>4, <1>5, <1>6, <2>1, <2>2, WriterSteps, Zenon

-----------------------------------------------------------------------------
LEMMA SeqInvStep == SeqInv /\ [SeqNext]_<<base, seqvars>> => SeqInv'
<1> SUFFICES ASSUME SeqInv, [SeqNext]_<<base, seqvars>> PROVE SeqInv'
  BY Zenon
<1>1. CASE UNCHANGED <<base, seqvars>>
  <2>1. /\ pc' = pc /\ sn' = sn /\ locked' = locked /\ data' = data
        /\ begin' = begin /\ copy' = copy
    BY <1>1, Zenon DEF base, seqvars
  <2>2. Coming' = Coming /\ Begun' = Begun /\ Holding' = Holding
    BY <2>1, Zenon DEF Coming, Begun, Holding
  <2>3. SeqTypeOK' /\ WritersInv' /\ BudgetInv' /\ ConsistentRead'
    BY <2>1, <2>2, Zenon DEF SeqInv, SeqTypeOK, WritersInv, BudgetInv, ConsistentRead
  <2>4. ASSUME NEW t \in Threads PROVE ReaderInv(t)'
    BY <2>1, ReaderStays DEF SeqInv, SeqTypeOK
  <2>5. QED
    BY <2>3, <2>4, Zenon DEF SeqInv
<1>2. QED
  BY <1>1, WriteCallStep, ReadBeginStep, SpinLockStep, WriteBeginStep, StoreStep,
     WriteEndStep, SpinUnlockStep, ReadLoadStep, ReadRetryStep, ReadDoneStep, Zenon
     DEF SeqNext, SeqCall, SeqStep

\* For any number of threads that read and write under the sequence lock of
\* rte_seqlock.h: a copy that rte_seqlock_read_retry accepts is the data of one
\* write.  The number of writes is bounded by half of the sequence numbers, as
\* only the word of 32 bits is compared: a reader that is overtaken by 2^31
\* writes between begin and retry would see its number again.
THEOREM SeqConsistent == SeqSpec => []ConsistentRead
<1>1. SeqInv => ConsistentRead
  BY Zenon DEF SeqInv
<1>2. QED
  BY SeqInvInit, SeqInvStep, <1>1, PTL DEF SeqSpec

-----------------------------------------------------------------------------
(***************************************************************************)
(* rte_ticketlock.h, up to as many threads as there are tickets: the thread*)
(* inside is the one that asked first, although tickets wrap.              *)
(***************************************************************************)

TkLabels == {"out", "take", "spin", "own", "wr", "rel", "relst", "trycas"}
Queued == {"spin", "own", "wr", "rel", "relst"} \* has drawn a ticket
Serving == {"own", "wr", "rel", "relst"}        \* and has seen it served

TkTypeOK ==
  /\ pc \in [Threads -> TkLabels]
  /\ order \in Seq(Threads)
  /\ current \in 0 .. (TicketMod - 1)
  /\ next \in 0 .. (TicketMod - 1)
  /\ me \in [Threads -> 0 .. (TicketMod - 1)]
  /\ count \in Nat

\* order is the queue of the threads that have drawn a ticket: the i-th of them
\* has the ticket i - 1 after current, and only the first has been served.
QueueInv ==
  /\ \A i, j \in 1 .. Len(order) : order[i] = order[j] => i = j
  /\ \A i \in 1 .. Len(order) : pc[order[i]] \in Queued
  /\ \A t \in Threads : pc[t] \in Queued => \E i \in 1 .. Len(order) : order[i] = t
  /\ next = U16(current + Len(order))
  /\ \A i \in 1 .. Len(order) :
       pc[order[i]] = "spin" => me[order[i]] = U16(current + (i - 1))
  /\ \A t \in Threads : pc[t] \in Serving => order[1] = t
  /\ \A t \in Threads : pc[t] = "relst" => me[t] = current

OwnerInv ==
  /\ \A t \in Threads : pc[t] = "wr" <=> user = t
  /\ RecursiveOwner

TicketInv == TkTypeOK /\ QueueInv /\ OwnerInv

-----------------------------------------------------------------------------
LEMMA ModFacts ==
  /\ TicketMod \in Nat /\ TicketMod > 0
  /\ Cardinality(Threads) \in Nat /\ Cardinality(Threads) <= TicketMod
BY TicketSizes, LockThreads, FS_CardinalityType

\* A ticket at most one turn ahead wraps at most once.
LEMMA Wrap ==
  ASSUME NEW a \in 0 .. (TicketMod - 1), NEW k \in 0 .. TicketMod
  PROVE  U16(a + k) = IF a + k < TicketMod THEN a + k ELSE a + k - TicketMod
<1> DEFINE x == a + k
           y == IF x < TicketMod THEN x ELSE x - TicketMod
           q == IF x < TicketMod THEN 0 ELSE 1
<1>1. /\ x \in Int /\ y \in Int /\ q \in Int
      /\ x = y + TicketMod * q /\ 0 <= y /\ y < TicketMod
  <2>1. CASE x < TicketMod
    BY <2>1, ModFacts
  <2>2. CASE ~ (x < TicketMod)
    BY <2>2, ModFacts
  <2>3. QED
    BY <2>1, <2>2, Zenon
<1> HIDE DEF x, y, q
<1>2. x % TicketMod = y
  BY <1>1, ModFacts, RemainderShift, Zenon
<1>3. U16(x) = y
  BY <1>2, Zenon DEF U16
<1>4. CASE x < TicketMod
  BY <1>3, <1>4, ModFacts, Zenon DEF x, y
<1>5. CASE ~ (x < TicketMod)
  BY <1>3, <1>5, ModFacts DEF x, y
<1>6. QED
  BY <1>4, <1>5, Zenon

\* One more ticket drawn, or one more served.
LEMMA NextTicket ==
  ASSUME NEW a \in 0 .. (TicketMod - 1), NEW k \in 0 .. (TicketMod - 1)
  PROVE  /\ U16(U16(a + k) + 1) = U16(a + (k + 1))
         /\ U16(U16(a + 1) + k) = U16(a + (k + 1))
         /\ U16(a + k) \in 0 .. (TicketMod - 1)
<1> DEFINE M == TicketMod
           b == U16(a + k)
           c == U16(a + 1)
<1>1. M \in Nat /\ M > 0 /\ a \in 0 .. (M - 1) /\ k \in 0 .. (M - 1)
  BY ModFacts, Zenon
<1>2. k \in 0 .. M /\ 1 \in 0 .. M /\ k + 1 \in 0 .. M
  BY <1>1
<1>3. /\ b = IF a + k < M THEN a + k ELSE a + k - M
      /\ c = IF a + 1 < M THEN a + 1 ELSE a + 1 - M
      /\ U16(a + (k + 1)) = IF a + (k + 1) < M THEN a + (k + 1) ELSE a + (k + 1) - M
  BY <1>2, Wrap, Zenon
<1> HIDE DEF M, b, c
<1>4. b \in 0 .. (M - 1) /\ c \in 0 .. (M - 1)
  BY <1>1, <1>3
<1>5. /\ U16(b + 1) = IF b + 1 < M THEN b + 1 ELSE b + 1 - M
      /\ U16(c + k) = IF c + k < M THEN c + k ELSE c + k - M
  BY <1>2, <1>4, Wrap, Zenon DEF M
<1>6. U16(b + 1) = U16(a + (k + 1)) /\ U16(c + k) = U16(a + (k + 1))
  BY <1>1, <1>3, <1>4, <1>5
<1>7. QED
  BY <1>4, <1>6, Zenon DEF M, b, c

\* There are no more tickets out than threads, and fewer if some thread has none.
LEMMA QueueLength ==
  ASSUME TicketInv
  PROVE  /\ Len(order) \in 0 .. TicketMod
         /\ \A t \in Threads : pc[t] \notin Queued => Len(order) < TicketMod
<1> DEFINE n == Len(order)
           S == 1 .. n
<1>1. order \in Seq(Threads) /\ n \in Nat
  BY DEF TicketInv, TkTypeOK
<1>2. order \in [S -> Threads]
  BY <1>1
<1>3. order \in Injection(S, Threads)
  BY <1>2, Zenon DEF TicketInv, QueueInv, Injection, IsInjective
<1>4. /\ Cardinality(S) <= Cardinality(Threads)
      /\ Cardinality(S) = Cardinality(Threads) <=> order \in Surjection(S, Threads)
  BY <1>3, LockThreads, FS_Injection, Zenon
<1>5. Cardinality(S) = n
  BY <1>1, FS_Interval
<1>6. ASSUME NEW t \in Threads, pc[t] \notin Queued PROVE n # Cardinality(Threads)
  <2>1. order \notin Surjection(S, Threads)
    BY <1>6, Zenon DEF TicketInv, QueueInv, Surjection
  <2>2. QED
    BY <1>4, <1>5, <2>1, Zenon
<1>7. QED
  BY <1>1, <1>4, <1>5, <1>6, ModFacts

-----------------------------------------------------------------------------
LEMMA TicketInvInit == BaseInit /\ TkInit => TicketInv
<1> SUFFICES ASSUME BaseInit, TkInit PROVE TicketInv
  BY Zenon
<1>1. order = <<>> /\ Len(order) = 0 /\ current = 0 /\ next = 0
  BY Zenon DEF BaseInit, TkInit
<1>2. 0 \in 0 .. (TicketMod - 1) /\ 0 \in 0 .. TicketMod /\ 0 < TicketMod
  BY ModFacts
<1>3. TkTypeOK
  BY <1>1, <1>2 DEF BaseInit, TkInit, TkTypeOK, TkLabels
<1>4. U16(0 + 0) = 0
  BY <1>2, Wrap
<1>5. U16(current + Len(order)) = next
  BY <1>1, <1>4, Zenon
<1>6. QueueInv
  BY <1>1, <1>5 DEF BaseInit, QueueInv, Queued, Serving
<1>7. OwnerInv
  BY TicketUsers, Zenon DEF BaseInit, TkInit, OwnerInv, RecursiveOwner
<1>8. QED
  BY <1>3, <1>6, <1>7, Zenon DEF TicketInv

LEMMA TkMoves ==
  ASSUME TicketInv, NEW t \in Threads, NEW l \in TkLabels, Goto(t, l)
  PROVE  /\ pc' \in [Threads -> TkLabels]
         /\ pc'[t] = l
         /\ \A u \in Threads : u # t => pc'[u] = pc[u]
BY Zenon DEF TicketInv, TkTypeOK, Goto

\* A thread that neither draws a ticket nor gives one up.
LEMMA QueueStays ==
  ASSUME TicketInv, NEW t \in Threads, NEW l \in TkLabels \ {"spin"}, Goto(t, l),
         order' = order, current' = current, next' = next,
         \A u \in Threads : u # t => me'[u] = me[u],
         pc[t] \in Queued <=> l \in Queued,
         l \in Serving => order[1] = t,
         l = "relst" => me'[t] = current
  PROVE  QueueInv'
<1>1. /\ pc'[t] = l
      /\ \A u \in Threads : u # t => pc'[u] = pc[u]
  BY TkMoves, Zenon
<1>2. \A i \in 1 .. Len(order) : order[i] \in Threads
  BY DEF TicketInv, TkTypeOK
<1>3. \A i \in 1 .. Len(order) : pc'[order[i]] \in Queued
  BY <1>1, <1>2, Zenon DEF TicketInv, QueueInv
<1>4. \A u \in Threads : pc'[u] \in Queued => \E i \in 1 .. Len(order) : order[i] = u
  BY <1>1, Zenon DEF TicketInv, QueueInv
<1>5. \A i \in 1 .. Len(order) :
        pc'[order[i]] = "spin" => me'[order[i]] = U16(current + (i - 1))
  BY <1>1, <1>2, Zenon DEF TicketInv, QueueInv
<1>6. \A u \in Threads : pc'[u] \in Serving => order[1] = u
  BY <1>1, Zenon DEF TicketInv, QueueInv
<1>7. \A u \in Threads : pc'[u] = "relst" => me'[u] = current
  BY <1>1, Zenon DEF TicketInv, QueueInv
<1>8. U16(current + Len(order)) = next
  BY Zenon DEF TicketInv, QueueInv
<1>9. QED
  BY <1>3, <1>4, <1>5, <1>6, <1>7, <1>8, Zenon DEF TicketInv, QueueInv, U16

\* A thread that is not the owner and does not become it.
LEMMA OwnerStays ==
  ASSUME TicketInv, NEW t \in Threads, NEW l \in TkLabels \ {"wr"}, Goto(t, l),
         pc[t] # "wr", user' = user, count' = count
  PROVE  OwnerInv'
<1>1. /\ pc'[t] = l
      /\ \A u \in Threads : u # t => pc'[u] = pc[u]
  BY TkMoves, Zenon
<1>2. \A u \in Threads : pc'[u] = "wr" <=> pc[u] = "wr"
  BY <1>1, Zenon
<1>3. QED
  BY <1>2, Zenon DEF TicketInv, OwnerInv, RecursiveOwner

-----------------------------------------------------------------------------
LEMMA TkLockStep == ASSUME TicketInv, NEW t \in Threads, TkLock(t) PROVE TicketInv'
<1>1. /\ order' = order /\ current' = current /\ next' = next /\ me' = me /\ user' = user
  BY Zenon DEF TkLock
<1>2. CASE user # t
  <2>1. pc[t] = "out" /\ Goto(t, "take") /\ count' = count
    BY <1>2, Zenon DEF TkLock, TicketInv, OwnerInv
  <2>2. QueueInv'
    BY <1>1, <2>1, QueueStays, Zenon DEF TkLabels, Queued, Serving
  <2>3. OwnerInv'
    BY <1>1, <2>1, OwnerStays, Zenon DEF TkLabels
  <2>4. TkTypeOK'
    BY <1>1, <2>1, TkMoves, Zenon DEF TicketInv, TkTypeOK, TkLabels
  <2>5. QED
    BY <2>2, <2>3, <2>4, Zenon DEF TicketInv
<1>3. CASE user = t
  <2>1. pc' = pc /\ count' = count + 1 /\ count \in Nat /\ pc[t] = "wr"
    BY <1>3, Zenon DEF TkLock, TicketInv, OwnerInv, TkTypeOK
  <2>2. QueueInv'
    BY <1>1, <2>1, Zenon DEF TicketInv, QueueInv, U16
  <2>3. TkTypeOK'
    BY <1>1, <2>1 DEF TicketInv, TkTypeOK
  <2>4. count' > 0
    BY <2>1
  <2>5. OwnerInv'
    BY <1>1, <2>1, <2>4, Zenon DEF TicketInv, OwnerInv, RecursiveOwner
  <2>6. QED
    BY <2>2, <2>3, <2>5, Zenon DEF TicketInv
<1>4. QED
  BY <1>2, <1>3, Zenon

\* A ticket is drawn: it is the one after the last of the queue.
LEMMA DrawStep ==
  ASSUME TicketInv, NEW t \in Threads, NEW l \in {"spin", "own"}, Goto(t, l),
         pc[t] \notin Queued, next' = U16(next + 1), Join(t), current' = current,
         \A u \in Threads : u # t => me'[u] = me[u],
         l = "spin" => me'[t] = next,
         l = "own" => order = <<>>
  PROVE  QueueInv' /\ order' \in Seq(Threads) /\ next' \in 0 .. (TicketMod - 1)
<1> DEFINE n == Len(order)
<1>1. /\ pc'[t] = l
      /\ \A u \in Threads : u # t => pc'[u] = pc[u]
  BY TkMoves, Zenon DEF TkLabels
<1>2. order \in Seq(Threads) /\ n \in Nat /\ n < TicketMod /\ current \in 0 .. (TicketMod - 1)
  BY QueueLength DEF TicketInv, TkTypeOK
<1>3. /\ order' \in Seq(Threads) /\ Len(order') = n + 1
      /\ order'[n + 1] = t
      /\ \A i \in 1 .. n : order'[i] = order[i] /\ order[i] \in Threads /\ order[i] # t
  <2>1. \A i \in 1 .. n : order[i] \in Threads /\ order[i] # t
    BY <1>2 DEF TicketInv, QueueInv
  <2>2. order' = Append(order, t)
    BY Zenon DEF Join
  <2>3. QED
    BY <1>2, <2>1, <2>2
<1>4. next = U16(current + n) /\ n \in 0 .. (TicketMod - 1) /\ n + 1 \in 0 .. TicketMod
  BY <1>2, ModFacts DEF TicketInv, QueueInv
<1>5. next' = U16(current + (n + 1))
  BY <1>2, <1>4, NextTicket, Zenon
<1>6. next' \in 0 .. (TicketMod - 1)
  BY ModFacts, DivMod DEF TicketInv, TkTypeOK, U16
<1>7. \A i \in 1 .. (n + 1) : i \in 1 .. n \/ i = n + 1
  BY <1>2
<1> HIDE DEF n
<1>8. \A i, j \in 1 .. (n + 1) : order'[i] = order'[j] => i = j
  BY <1>3, <1>7 DEF TicketInv, QueueInv, n
<1>9. \A i \in 1 .. (n + 1) : pc'[order'[i]] \in Queued
  BY <1>1, <1>3, <1>7 DEF TicketInv, QueueInv, n, Queued
<1>10. ASSUME NEW u \in Threads, pc'[u] \in Queued
       PROVE  \E i \in 1 .. (n + 1) : order'[i] = u
  <2>1. CASE u = t
    BY <1>2, <1>3, <2>1
  <2>2. CASE u # t
    <3>1. PICK i \in 1 .. n : order[i] = u
      BY <1>1, <1>10, <2>2, Zenon DEF TicketInv, QueueInv, n
    <3>2. i \in 1 .. (n + 1)
      BY <1>2
    <3>3. QED
      BY <1>3, <3>1, <3>2, Zenon
  <2>3. QED
    BY <2>1, <2>2, Zenon
<1>11. ASSUME NEW i \in 1 .. (n + 1), pc'[order'[i]] = "spin"
       PROVE  me'[order'[i]] = U16(current + (i - 1))
  <2>1. CASE i = n + 1
    BY <1>1, <1>2, <1>3, <1>4, <1>11, <2>1
  <2>2. CASE i \in 1 .. n
    BY <1>1, <1>3, <1>11, <2>2 DEF TicketInv, QueueInv, n
  <2>3. QED
    BY <1>7, <2>1, <2>2, Zenon
<1>12. ASSUME NEW u \in Threads, pc'[u] \in Serving PROVE order'[1] = u
  <2>1. CASE u = t
    <3>1. l = "own" /\ n = 0
      BY <1>1, <1>12, <2>1, Zenon DEF Serving, n
    <3>2. QED
      BY <1>3, <2>1, <3>1
  <2>2. CASE u # t
    <3>1. order[1] = u /\ pc[u] \in Queued
      BY <1>1, <1>12, <2>2, Zenon DEF TicketInv, QueueInv, Serving, Queued
    <3>2. 1 \in 1 .. n
      BY <1>2, <3>1 DEF TicketInv, QueueInv, n
    <3>3. QED
      BY <1>3, <3>1, <3>2, Zenon
  <2>3. QED
    BY <2>1, <2>2, Zenon
<1>13. \A u \in Threads : pc'[u] = "relst" => me'[u] = current
  BY <1>1, Zenon DEF TicketInv, QueueInv
<1>14. QED
  BY <1>3, <1>5, <1>6, <1>8, <1>9, <1>10, <1>11, <1>12, <1>13, Zenon DEF QueueInv, U16

LEMMA TkTakeStep == ASSUME TicketInv, NEW t \in Threads, TkTake(t) PROVE TicketInv'
<1>1. /\ pc[t] = "take" /\ Goto(t, "spin") /\ Join(t) /\ next' = U16(next + 1)
      /\ me' = [me EXCEPT ![t] = next] /\ current' = current /\ user' = user /\ count' = count
  BY Zenon DEF TkTake
<1>2. /\ me' \in [Threads -> 0 .. (TicketMod - 1)] /\ me'[t] = next
      /\ \A u \in Threads : u # t => me'[u] = me[u]
  BY <1>1, Zenon DEF TicketInv, TkTypeOK
<1>3. QueueInv' /\ order' \in Seq(Threads) /\ next' \in 0 .. (TicketMod - 1)
  BY <1>1, <1>2, DrawStep, Zenon DEF Queued
<1>4. OwnerInv'
  BY <1>1, OwnerStays, Zenon DEF TkLabels
<1>5. TkTypeOK'
  BY <1>1, <1>2, <1>3, TkMoves, Zenon DEF TicketInv, TkTypeOK, TkLabels
<1>6. QED
  BY <1>3, <1>4, <1>5, Zenon DEF TicketInv

\* Only the first of the queue sees its ticket served: the others' tickets are
\* less than one turn away.
LEMMA TkSpinStep == ASSUME TicketInv, NEW t \in Threads, TkSpin(t) PROVE TicketInv'
<1>1. /\ pc[t] = "spin" /\ current = me[t] /\ Goto(t, "own") /\ me' = [me EXCEPT ![t] = 0]
      /\ order' = order /\ current' = current /\ next' = next /\ user' = user /\ count' = count
  BY Zenon DEF TkSpin
<1>2. /\ me' \in [Threads -> 0 .. (TicketMod - 1)]
      /\ \A u \in Threads : u # t => me'[u] = me[u]
  BY <1>1, ModFacts DEF TicketInv, TkTypeOK
<1>3. PICK i \in 1 .. Len(order) : order[i] = t
  BY <1>1, Zenon DEF TicketInv, QueueInv, Queued
<1>4. current = U16(current + (i - 1))
  BY <1>1, <1>3, Zenon DEF TicketInv, QueueInv
<1>5. /\ i \in Nat /\ i >= 1 /\ i <= TicketMod /\ current \in 0 .. (TicketMod - 1)
      /\ i - 1 \in 0 .. TicketMod
  BY <1>3, QueueLength, ModFacts DEF TicketInv, TkTypeOK
<1>6. i = 1
  <2>1. current = IF current + (i - 1) < TicketMod THEN current + (i - 1)
                  ELSE current + (i - 1) - TicketMod
    BY <1>4, <1>5, Wrap, Zenon
  <2>2. QED
    BY <1>5, <2>1, ModFacts
<1>7. QueueInv'
  BY <1>1, <1>2, <1>3, <1>6, QueueStays, Zenon DEF TkLabels, Queued
<1>8. OwnerInv'
  BY <1>1, OwnerStays, Zenon DEF TkLabels
<1>9. TkTypeOK'
  BY <1>1, <1>2, TkMoves, Zenon DEF TicketInv, TkTypeOK, TkLabels
<1>10. QED
  BY <1>7, <1>8, <1>9, Zenon DEF TicketInv

LEMMA TkOwnStep == ASSUME TicketInv, NEW t \in Threads, TkOwn(t) PROVE TicketInv'
<1>1. /\ pc[t] = "own" /\ Goto(t, "wr") /\ user' = t /\ count' = count + 1
      /\ order' = order /\ current' = current /\ next' = next /\ me' = me
  BY Zenon DEF TkOwn
<1>2. pc' \in [Threads -> TkLabels] /\ pc'[t] = "wr" /\ \A u \in Threads : u # t => pc'[u] = pc[u]
  BY <1>1, TkMoves, Zenon DEF TkLabels
<1>3. order[1] = t
  BY <1>1, Zenon DEF TicketInv, QueueInv, Serving
<1>4. \A u \in Threads : pc[u] # "wr"
  BY <1>1, <1>3, Zenon DEF TicketInv, QueueInv, Serving
<1>5. count = 0
  BY <1>4, Zenon DEF TicketInv, OwnerInv, RecursiveOwner
<1>6. count' \in Nat /\ count' > 0
  BY <1>1, <1>5
<1>7. QueueInv'
  BY <1>1, <1>3, QueueStays, Zenon DEF TkLabels, Queued
<1>8. OwnerInv'
  BY <1>1, <1>2, <1>4, <1>6, Zenon DEF OwnerInv, RecursiveOwner
<1>9. TkTypeOK'
  BY <1>1, <1>2, <1>6, Zenon DEF TicketInv, TkTypeOK
<1>10. QED
  BY <1>7, <1>8, <1>9, Zenon DEF TicketInv

LEMMA TkTryStep == ASSUME TicketInv, NEW t \in Threads, TkTry(t) PROVE TicketInv'
<1>1. /\ pc[t] = "out" /\ Goto(t, "trycas") /\ me' = [me EXCEPT ![t] = next]
      /\ order' = order /\ current' = current /\ next' = next /\ user' = user /\ count' = count
  BY Zenon DEF TkTry
<1>2. /\ me' \in [Threads -> 0 .. (TicketMod - 1)]
      /\ \A u \in Threads : u # t => me'[u] = me[u]
  BY <1>1, Zenon DEF TicketInv, TkTypeOK
<1>3. QueueInv'
  BY <1>1, <1>2, QueueStays, Zenon DEF TkLabels, Queued, Serving
<1>4. OwnerInv'
  BY <1>1, OwnerStays, Zenon DEF TkLabels
<1>5. TkTypeOK'
  BY <1>1, <1>2, TkMoves, Zenon DEF TicketInv, TkTypeOK, TkLabels
<1>6. QED
  BY <1>3, <1>4, <1>5, Zenon DEF TicketInv

\* The swap succeeds only if the queue is empty: equal halves cannot mean a full
\* turn of tickets, for the thread that tries has none.
LEMMA TkTryCasStep == ASSUME TicketInv, NEW t \in Threads, TkTryCas(t) PROVE TicketInv'
<1>1. /\ pc[t] = "trycas" /\ me' = [me EXCEPT ![t] = 0]
      /\ current' = current /\ user' = user /\ count' = count
  BY Zenon DEF TkTryCas
<1>2. /\ me' \in [Threads -> 0 .. (TicketMod - 1)]
      /\ \A u \in Threads : u # t => me'[u] = me[u]
  BY <1>1, ModFacts DEF TicketInv, TkTypeOK
<1>3. CASE /\ current = me[t] /\ next = me[t]
           /\ next' = U16(me[t] + 1)
           /\ Join(t) /\ Goto(t, "own")
  <2>1. next' = U16(next + 1) /\ next = current
    BY <1>3, Zenon
  <2>2. /\ Len(order) \in Nat /\ Len(order) < TicketMod /\ Len(order) \in 0 .. TicketMod
        /\ current \in 0 .. (TicketMod - 1) /\ order \in Seq(Threads)
    BY <1>1, QueueLength DEF TicketInv, TkTypeOK, Queued
  <2>3. current = U16(current + Len(order))
    BY <2>1, Zenon DEF TicketInv, QueueInv
  <2>4. current = IF current + Len(order) < TicketMod THEN current + Len(order)
                  ELSE current + Len(order) - TicketMod
    BY <2>2, <2>3, Wrap, Zenon
  <2>5. Len(order) = 0
    BY <2>2, <2>4, ModFacts
  <2>6. order = <<>>
    BY <2>2, <2>5
  <2>7. QueueInv' /\ order' \in Seq(Threads) /\ next' \in 0 .. (TicketMod - 1)
    BY <1>1, <1>2, <1>3, <2>1, <2>6, DrawStep, Zenon DEF Queued
  <2>8. OwnerInv'
    BY <1>1, <1>3, OwnerStays, Zenon DEF TkLabels
  <2>9. TkTypeOK'
    BY <1>1, <1>2, <1>3, <2>7, TkMoves, Zenon DEF TicketInv, TkTypeOK, TkLabels
  <2>10. QED
    BY <2>7, <2>8, <2>9, Zenon DEF TicketInv
<1>4. CASE Goto(t, "out") /\ UNCHANGED <<next, order>>
  <2>1. QueueInv'
    BY <1>1, <1>2, <1>4, QueueStays, Zenon DEF TkLabels, Queued, Serving
  <2>2. OwnerInv'
    BY <1>1, <1>4, OwnerStays, Zenon DEF TkLabels
  <2>3. TkTypeOK'
    BY <1>1, <1>2, <1>4, TkMoves, Zenon DEF TicketInv, TkTypeOK, TkLabels
  <2>4. QED
    BY <2>1, <2>2, <2>3, Zenon DEF TicketInv
<1>5. QED
  BY <1>3, <1>4, Zenon DEF TkTryCas

LEMMA TkUnlockStep == ASSUME TicketInv, NEW t \in Threads, TkUnlock(t) PROVE TicketInv'
<1>1. /\ pc[t] = "wr" /\ count' = count - 1
      /\ order' = order /\ current' = current /\ next' = next /\ me' = me
  BY Zenon DEF TkUnlock
<1>2. user = t /\ count > 0 /\ count \in Nat /\ count' \in Nat
  BY <1>1 DEF TicketInv, TkTypeOK, OwnerInv, RecursiveOwner
<1>3. order[1] = t
  BY <1>1, Zenon DEF TicketInv, QueueInv, Serving
<1>4. \A u \in Threads : u # t => pc[u] # "wr"
  BY <1>2, Zenon DEF TicketInv, OwnerInv
<1>5. CASE count' = 0 /\ user' = InvalidId /\ Goto(t, "rel")
  <2>1. pc' \in [Threads -> TkLabels] /\ pc'[t] = "rel" /\ \A u \in Threads : u # t => pc'[u] = pc[u]
    BY <1>5, TkMoves, Zenon DEF TkLabels
  <2>2. \A u \in Threads : pc'[u] # "wr" /\ user' # u
    BY <1>4, <1>5, <2>1, TicketUsers, Zenon
  <2>3. OwnerInv'
    BY <1>5, <2>2, Zenon DEF OwnerInv, RecursiveOwner
  <2>4. QueueInv'
    BY <1>1, <1>3, <1>5, QueueStays, Zenon DEF TkLabels, Queued
  <2>5. TkTypeOK'
    BY <1>1, <1>2, <2>1, Zenon DEF TicketInv, TkTypeOK
  <2>6. QED
    BY <2>3, <2>4, <2>5, Zenon DEF TicketInv
<1>6. CASE count' # 0 /\ UNCHANGED <<user, pc>>
  <2>1. count' > 0
    BY <1>2, <1>6
  <2>2. OwnerInv'
    BY <1>1, <1>6, <2>1, Zenon DEF TicketInv, OwnerInv, RecursiveOwner
  <2>3. QueueInv'
    BY <1>1, <1>6, Zenon DEF TicketInv, QueueInv, U16
  <2>4. TkTypeOK'
    BY <1>1, <1>2, <1>6, Zenon DEF TicketInv, TkTypeOK
  <2>5. QED
    BY <2>2, <2>3, <2>4, Zenon DEF TicketInv
<1>7. QED
  BY <1>5, <1>6, Zenon DEF TkUnlock

LEMMA TkReleaseStep == ASSUME TicketInv, NEW t \in Threads, TkRelease(t) PROVE TicketInv'
<1>1. /\ pc[t] = "rel" /\ Goto(t, "relst") /\ me' = [me EXCEPT ![t] = current]
      /\ order' = order /\ current' = current /\ next' = next /\ user' = user /\ count' = count
  BY Zenon DEF TkRelease
<1>2. /\ me' \in [Threads -> 0 .. (TicketMod - 1)] /\ me'[t] = current
      /\ \A u \in Threads : u # t => me'[u] = me[u]
  BY <1>1, Zenon DEF TicketInv, TkTypeOK
<1>3. order[1] = t
  BY <1>1, Zenon DEF TicketInv, QueueInv, Serving
<1>4. QueueInv'
  BY <1>1, <1>2, <1>3, QueueStays, Zenon DEF TkLabels, Queued
<1>5. OwnerInv'
  BY <1>1, OwnerStays, Zenon DEF TkLabels
<1>6. TkTypeOK'
  BY <1>1, <1>2, TkMoves, Zenon DEF TicketInv, TkTypeOK, TkLabels
<1>7. QED
  BY <1>4, <1>5, <1>6, Zenon DEF TicketInv

\* The first of the queue leaves: every other moves up by one, and so does current.
LEMMA TkReleaseStoreStep ==
  ASSUME TicketInv, NEW t \in Threads, TkReleaseStore(t)
  PROVE  TicketInv'
<1> DEFINE n == Len(order)
<1>1. /\ pc[t] = "relst" /\ Goto(t, "out") /\ me' = [me EXCEPT ![t] = 0]
      /\ order' = Tail(order) /\ current' = U16(current + 1) /\ next' = next
      /\ user' = user /\ count' = count
  BY Zenon DEF TkReleaseStore, Leave, TicketInv, QueueInv
<1>2. /\ me' \in [Threads -> 0 .. (TicketMod - 1)]
      /\ \A u \in Threads : u # t => me'[u] = me[u]
  BY <1>1, ModFacts DEF TicketInv, TkTypeOK
<1>3. pc' \in [Threads -> TkLabels] /\ pc'[t] = "out" /\ \A u \in Threads : u # t => pc'[u] = pc[u]
  BY <1>1, TkMoves, Zenon DEF TkLabels
<1>4. order[1] = t /\ 1 \in 1 .. n
  <2>1. \E i \in 1 .. n : order[i] = t
    BY <1>1, Zenon DEF TicketInv, QueueInv, Queued
  <2>2. n \in Nat
    BY DEF TicketInv, TkTypeOK
  <2>3. QED
    BY <1>1, <2>1, <2>2 DEF TicketInv, QueueInv, Serving
<1>5. /\ order \in Seq(Threads) /\ n \in Nat /\ n >= 1 /\ n <= TicketMod
      /\ current \in 0 .. (TicketMod - 1)
  BY <1>4, QueueLength DEF TicketInv, TkTypeOK
<1>6. /\ order' \in Seq(Threads) /\ Len(order') = n - 1
      /\ \A i \in 1 .. (n - 1) : order'[i] = order[i + 1]
  BY <1>1, <1>4, <1>5
<1>7. \A i \in 1 .. (n - 1) : i + 1 \in 1 .. n /\ order[i + 1] \in Threads /\ order[i + 1] # t
  <2>1. \A i \in 1 .. (n - 1) : i + 1 \in 1 .. n /\ i + 1 # 1
    BY <1>5
  <2>2. \A i \in 1 .. n : order[i] \in Threads
    BY <1>5
  <2>3. QED
    BY <1>4, <2>1, <2>2, Zenon DEF TicketInv, QueueInv
<1>8. current' \in 0 .. (TicketMod - 1)
  BY <1>1, <1>5, ModFacts, DivMod DEF U16
<1>9. \A k \in 0 .. (TicketMod - 1) : U16(current' + k) = U16(current + (k + 1))
  BY <1>1, <1>5, NextTicket, Zenon
<1>10. next' = U16(current' + (n - 1))
  <2>1. n - 1 \in 0 .. (TicketMod - 1) /\ (n - 1) + 1 = n
    BY <1>5, ModFacts
  <2>2. U16(current' + (n - 1)) = U16(current + n)
    BY <1>9, <2>1, Zenon
  <2>3. QED
    BY <1>1, <2>2, Zenon DEF TicketInv, QueueInv
<1> HIDE DEF n
<1>11. \A i, j \in 1 .. (n - 1) : order'[i] = order'[j] => i = j
  <2>1. \A i, j \in 1 .. (n - 1) : order[i + 1] = order[j + 1] => i + 1 = j + 1
    BY <1>7, Zenon DEF TicketInv, QueueInv, n
  <2>2. \A i, j \in 1 .. (n - 1) : i + 1 = j + 1 => i = j
    BY <1>5
  <2>3. QED
    BY <1>6, <2>1, <2>2, Zenon
<1>12. \A i \in 1 .. (n - 1) : pc'[order'[i]] \in Queued
  BY <1>3, <1>6, <1>7 DEF TicketInv, QueueInv, n
<1>13. ASSUME NEW u \in Threads, pc'[u] \in Queued
       PROVE  \E i \in 1 .. (n - 1) : order'[i] = u
  <2>1. u # t
    BY <1>3, <1>13, Zenon DEF Queued
  <2>2. PICK j \in 1 .. n : order[j] = u
    BY <1>3, <1>13, <2>1, Zenon DEF TicketInv, QueueInv, n
  <2>3. j # 1
    BY <1>4, <2>1, <2>2, Zenon
  <2>4. j - 1 \in 1 .. (n - 1) /\ (j - 1) + 1 = j
    BY <1>5, <2>2, <2>3
  <2>5. QED
    BY <1>6, <2>2, <2>4, Zenon
<1>14. ASSUME NEW i \in 1 .. (n - 1), pc'[order'[i]] = "spin"
       PROVE  me'[order'[i]] = U16(current' + (i - 1))
  <2>1. me'[order'[i]] = U16(current + ((i + 1) - 1))
    BY <1>2, <1>3, <1>6, <1>7, <1>14 DEF TicketInv, QueueInv, n
  <2>2. i - 1 \in 0 .. (TicketMod - 1) /\ (i - 1) + 1 = (i + 1) - 1
    BY <1>5, ModFacts
  <2>3. U16(current' + (i - 1)) = U16(current + ((i + 1) - 1))
    BY <1>9, <2>2, Zenon
  <2>4. QED
    BY <2>1, <2>3, Zenon
<1>15. \A u \in Threads : pc'[u] \notin Serving
  BY <1>3, <1>4, Zenon DEF TicketInv, QueueInv, Serving
<1>16. QueueInv'
  BY <1>6, <1>10, <1>11, <1>12, <1>13, <1>14, <1>15, Zenon DEF QueueInv, U16, Serving
<1>17. OwnerInv'
  BY <1>1, OwnerStays, Zenon DEF TkLabels
<1>18. TkTypeOK'
  BY <1>1, <1>2, <1>3, <1>6, <1>8, Zenon DEF TicketInv, TkTypeOK
<1>19. QED
  BY <1>16, <1>17, <1>18, Zenon DEF TicketInv

-----------------------------------------------------------------------------
LEMMA TicketInvStep == TicketInv /\ [TkNext]_<<base, tkvars>> => TicketInv'
<1> SUFFICES ASSUME TicketInv, [TkNext]_<<base, tkvars>> PROVE TicketInv'
  BY Zenon
<1>1. CASE UNCHANGED <<base, tkvars>>
  <2>1. /\ pc' = pc /\ order' = order /\ current' = current /\ next' = next
        /\ me' = me /\ user' = user /\ count' = count
    BY <1>1, Zenon DEF base, tkvars
  <2>2. QED
    BY <2>1, Zenon DEF TicketInv, TkTypeOK, QueueInv, OwnerInv, RecursiveOwner, U16
<1>2. QED
  BY <1>1, TkLockStep, TkTakeStep, TkSpinStep, TkOwnStep, TkTryStep, TkTryCasStep,
     TkUnlockStep, TkReleaseStep, TkReleaseStoreStep, Zenon DEF TkNext, TkCall, TkStep

\* For any number of threads up to the number of tickets, that lock, try and
\* unlock the recursive ticket lock of rte_ticketlock.h as deep as they like: one
\* thread is inside, it is the one that drew its ticket first, and user and count
\* name it until it has unlocked as often as it locked.  The tickets wrap: neither
\* the spinning threads nor trylock, which takes equal halves for a free lock,
\* mistake a ticket of one turn for that of another.
THEOREM TicketExclusive == TkSpec => [](Exclusion /\ InOrder /\ RecursiveOwner)
<1>1. TicketInv => Exclusion /\ InOrder /\ RecursiveOwner
  <2> SUFFICES ASSUME TicketInv PROVE Exclusion /\ InOrder /\ RecursiveOwner
    BY Zenon
  <2>1. \A t \in Threads : pc[t] = "wr" => order[1] = t
    BY Zenon DEF TicketInv, QueueInv, Serving
  <2>2. \A t \in Threads : pc[t] # "rd"
    BY Zenon DEF TicketInv, TkTypeOK, TkLabels
  <2>3. Exclusion
    BY <2>1, <2>2, Zenon DEF Exclusion
  <2>4. order \in Seq(Threads) /\ (order # <<>> => Head(order) = order[1])
    BY DEF TicketInv, TkTypeOK
  <2>5. InOrder
    BY <2>1, <2>4, Zenon DEF InOrder
  <2>6. QED
    BY <2>3, <2>5, Zenon DEF TicketInv, OwnerInv
<1>2. QED
  BY TicketInvInit, TicketInvStep, <1>1, PTL DEF TkSpec


(***************************************************************************)
(* rte_mcslock.h: the queue of nodes is the order in which the threads     *)
(* swapped themselves in, and only the first of them is inside.            *)
(***************************************************************************)

McsLabels == {"out", "swap", "link", "spin", "trycas", "wr", "relcas", "succ", "pass"}
McsQueued == {"link", "spin", "wr", "relcas", "succ", "pass"} \* its node is in the queue
McsServed == {"wr", "relcas", "succ", "pass"}                 \* and it has the lock

McsTypeOK ==
  /\ pc \in [Threads -> McsLabels]
  /\ order \in Seq(Threads)
  /\ msl \in Threads \cup {NULL}
  /\ mnext \in [Threads -> Threads \cup {NULL}]
  /\ mprev \in [Threads -> Threads \cup {NULL}]
  /\ mlocked \in [Threads -> BOOLEAN]

\* order is the queue of nodes, the lock word its end.
McsQueue ==
  /\ \A i, j \in 1 .. Len(order) : order[i] = order[j] => i = j
  /\ \A i \in 1 .. Len(order) : pc[order[i]] \in McsQueued
  /\ \A t \in Threads : pc[t] \in McsQueued => \E i \in 1 .. Len(order) : order[i] = t
  /\ msl = IF Len(order) = 0 THEN NULL ELSE order[Len(order)]

\* The first has the lock or may take it; the others wait, and each of them is
\* linked to the one before it or is about to be.
McsWaiters ==
  /\ \A i \in 1 .. Len(order) :
       IF i = 1 THEN pc[order[i]] \in McsServed \/ (pc[order[i]] = "spin" /\ ~ mlocked[order[i]])
                ELSE pc[order[i]] \in {"link", "spin"} /\ mlocked[order[i]]
  /\ \A i \in 1 .. Len(order) :
       pc[order[i]] = "link" => mprev[order[i]] = order[i - 1]
  /\ \A i \in 1 .. Len(order) :
       mnext[order[i]] = IF i = Len(order) \/ pc[order[i + 1]] = "link"
                         THEN NULL ELSE order[i + 1]

McsLocal ==
  \A t \in Threads :
    /\ pc[t] = "swap" => mlocked[t]
    /\ pc[t] \in {"swap", "trycas"} => mnext[t] = NULL
    /\ pc[t] = "succ" => msl # t
    /\ pc[t] = "pass" => mnext[t] # NULL

McsInv == McsTypeOK /\ McsQueue /\ McsWaiters /\ McsLocal


-----------------------------------------------------------------------------
LEMMA McsInvInit == BaseInit /\ McsInit => McsInv
<1> SUFFICES ASSUME BaseInit, McsInit PROVE McsInv
  BY Zenon
<1>1. order = <<>> /\ Len(order) = 0
  BY Zenon DEF BaseInit
<1>2. McsTypeOK
  BY <1>1 DEF BaseInit, McsInit, McsTypeOK, McsLabels
<1>3. McsQueue /\ McsWaiters
  BY <1>1 DEF BaseInit, McsInit, McsQueue, McsWaiters, McsQueued
<1>4. McsLocal
  BY Zenon DEF BaseInit, McsLocal
<1>5. QED
  BY <1>2, <1>3, <1>4, Zenon DEF McsInv

LEMMA McsMoves ==
  ASSUME McsInv, NEW t \in Threads, NEW l \in McsLabels, Goto(t, l)
  PROVE  /\ pc' \in [Threads -> McsLabels]
         /\ pc'[t] = l
         /\ \A u \in Threads : u # t => pc'[u] = pc[u]
BY Zenon DEF McsInv, McsTypeOK, Goto

LEMMA McsOrder ==
  ASSUME McsInv
  PROVE  /\ order \in Seq(Threads) /\ Len(order) \in Nat
         /\ \A i \in 1 .. Len(order) : order[i] \in Threads
         /\ \A t \in Threads : t # NULL
BY NoNode DEF McsInv, McsTypeOK

\* Whoever has the lock, or has been told to take it, is the first of the queue.
LEMMA McsFirst ==
  ASSUME McsInv, NEW t \in Threads,
         pc[t] \in McsServed \/ (pc[t] = "spin" /\ ~ mlocked[t])
  PROVE  1 \in 1 .. Len(order) /\ order[1] = t
<1>1. PICK i \in 1 .. Len(order) : order[i] = t
  BY Zenon DEF McsInv, McsQueue, McsServed, McsQueued
<1>2. i = 1
  BY <1>1, Zenon DEF McsInv, McsWaiters, McsServed
<1>3. QED
  BY <1>1, <1>2, Zenon

\* A step that leaves the queue as it is, by a thread outside or by the first.
LEMMA McsQueueStays ==
  ASSUME McsInv, NEW t \in Threads, NEW l \in McsLabels, Goto(t, l),
         order' = order, msl' = msl,
         \A u \in Threads : pc[u] \in McsQueued =>
           mnext'[u] = mnext[u] /\ mprev'[u] = mprev[u] /\ mlocked'[u] = mlocked[u],
         \/ pc[t] \notin McsQueued /\ l \notin McsQueued
         \/ l \in McsServed /\ (pc[t] \in McsServed \/ (pc[t] = "spin" /\ ~ mlocked[t]))
  PROVE  McsQueue' /\ McsWaiters'
<1> DEFINE n == Len(order)
<1>1. /\ pc'[t] = l
      /\ \A u \in Threads : u # t => pc'[u] = pc[u]
  BY McsMoves, Zenon
<1>2. /\ \A i \in 1 .. n : order[i] \in Threads /\ pc[order[i]] \in McsQueued
      /\ n \in Nat
  BY McsOrder, Zenon DEF McsInv, McsQueue
<1>3. \A u \in Threads : pc'[u] \in McsQueued <=> pc[u] \in McsQueued
  BY <1>1, Zenon DEF McsServed, McsQueued
<1>4. \A i \in 1 .. n : pc[order[i]] # pc'[order[i]] =>
        i = 1 /\ pc'[order[i]] \in McsServed
  <2> SUFFICES ASSUME NEW i \in 1 .. n, pc[order[i]] # pc'[order[i]]
               PROVE  i = 1 /\ pc'[order[i]] \in McsServed
    BY Zenon
  <2>1. order[i] = t
    BY <1>1, <1>2, Zenon
  <2>2. /\ l \in McsServed
        /\ pc[t] \in McsServed \/ (pc[t] = "spin" /\ ~ mlocked[t])
    BY <1>2, <2>1, Zenon
  <2>3. 1 \in 1 .. n /\ order[1] = t
    BY <2>2, McsFirst, Zenon
  <2>4. QED
    BY <1>1, <2>1, <2>2, <2>3 DEF McsInv, McsQueue
<1>5. McsQueue'
  BY <1>2, <1>3, Zenon DEF McsInv, McsQueue
<1>6. \A i \in 1 .. n : mnext'[order[i]] = mnext[order[i]]
        /\ mprev'[order[i]] = mprev[order[i]] /\ mlocked'[order[i]] = mlocked[order[i]]
  BY <1>2, Zenon
<1>7. \A i \in 1 .. n : i # 1 => pc'[order[i]] = pc[order[i]]
  BY <1>4, Zenon
<1>8. ASSUME NEW i \in 1 .. n
      PROVE  IF i = 1 THEN pc'[order[i]] \in McsServed \/ (pc'[order[i]] = "spin" /\ ~ mlocked'[order[i]])
                ELSE pc'[order[i]] \in {"link", "spin"} /\ mlocked'[order[i]]
  BY <1>4, <1>6, <1>7 DEF McsInv, McsWaiters
<1>9. ASSUME NEW i \in 1 .. n, pc'[order[i]] = "link"
      PROVE  mprev'[order[i]] = order[i - 1]
  <2>1. pc[order[i]] = "link"
    BY <1>4, <1>9, Zenon DEF McsServed
  <2>2. QED
    BY <1>6, <2>1, Zenon DEF McsInv, McsWaiters
<1>10. ASSUME NEW i \in 1 .. n
       PROVE  mnext'[order[i]] = IF i = n \/ pc'[order[i + 1]] = "link"
                                 THEN NULL ELSE order[i + 1]
  <2>1. i = n \/ (i + 1 \in 1 .. n /\ i + 1 # 1)
    BY <1>2
  <2>2. i = n \/ pc'[order[i + 1]] = pc[order[i + 1]]
    BY <1>7, <2>1, Zenon
  <2>3. QED
    BY <1>6, <2>2 DEF McsInv, McsWaiters
<1>11. McsWaiters'
  BY <1>8, <1>9, <1>10, Zenon DEF McsWaiters
<1>12. QED
  BY <1>5, <1>11, Zenon

\* A node is put at the end of the queue.
LEMMA McsJoins ==
  ASSUME McsInv, NEW t \in Threads, NEW l \in {"wr", "link"}, Goto(t, l),
         pc[t] \in {"swap", "trycas"}, Join(t), msl' = t,
         mnext' = mnext, mlocked' = mlocked,
         \A u \in Threads : u # t => mprev'[u] = mprev[u],
         l = "wr" => msl = NULL,
         l = "link" => msl # NULL /\ mprev'[t] = msl /\ mlocked[t]
  PROVE  McsQueue' /\ McsWaiters' /\ order' \in Seq(Threads)
<1> DEFINE n == Len(order)
<1>1. /\ pc'[t] = l
      /\ \A u \in Threads : u # t => pc'[u] = pc[u]
  BY McsMoves, Zenon DEF McsLabels
<1>2. /\ order \in Seq(Threads) /\ n \in Nat
      /\ \A i \in 1 .. n : order[i] \in Threads /\ pc[order[i]] \in McsQueued
  BY McsOrder, Zenon DEF McsInv, McsQueue
<1>3. \A i \in 1 .. n : order[i] # t
  BY <1>2, Zenon DEF McsQueued
<1>4. /\ order' \in Seq(Threads) /\ Len(order') = n + 1 /\ order'[n + 1] = t
      /\ \A i \in 1 .. n : order'[i] = order[i]
  BY <1>2 DEF Join
<1>5. /\ \A i \in 1 .. (n + 1) : i \in 1 .. n \/ i = n + 1
      /\ \A i \in 1 .. n : i \in 1 .. (n + 1) /\ i # n + 1 /\ (i = n \/ i + 1 \in 1 .. n)
      /\ n + 1 \in 1 .. (n + 1) /\ n + 1 # 0
  BY <1>2
<1>6. \A i \in 1 .. n : pc'[order'[i]] = pc[order[i]]
  BY <1>1, <1>2, <1>3, <1>4, Zenon
<1>7. IF n = 0 THEN l = "wr" ELSE l = "link" /\ msl = order[n] /\ n \in 1 .. n
  <2>1. msl = IF n = 0 THEN NULL ELSE order[n]
    BY Zenon DEF McsInv, McsQueue
  <2>2. n # 0 => n \in 1 .. n /\ order[n] # NULL
    BY <1>2, McsOrder
  <2>3. QED
    BY <2>1, <2>2, Zenon
<1> HIDE DEF n
<1>8. McsQueue'
  <2>1. \A i, j \in 1 .. (n + 1) : order'[i] = order'[j] => i = j
    BY <1>3, <1>4, <1>5 DEF McsInv, McsQueue, n
  <2>2. \A i \in 1 .. (n + 1) : pc'[order'[i]] \in McsQueued
    BY <1>1, <1>2, <1>4, <1>5, <1>6, Zenon DEF McsQueued
  <2>3. ASSUME NEW u \in Threads, pc'[u] \in McsQueued
        PROVE  \E i \in 1 .. (n + 1) : order'[i] = u
    <3>1. CASE u = t
      BY <1>4, <1>5, <3>1, Zenon
    <3>2. CASE u # t
      <4>1. PICK i \in 1 .. n : order[i] = u
        BY <1>1, <2>3, <3>2, Zenon DEF McsInv, McsQueue, n
      <4>2. QED
        BY <1>4, <1>5, <4>1, Zenon
    <3>3. QED
      BY <3>1, <3>2, Zenon
  <2>4. QED
    BY <1>2, <1>4, <2>1, <2>2, <2>3 DEF McsQueue
<1>9. ASSUME NEW i \in 1 .. (n + 1)
      PROVE  IF i = 1 THEN pc'[order'[i]] \in McsServed \/ (pc'[order'[i]] = "spin" /\ ~ mlocked[order'[i]])
                ELSE pc'[order'[i]] \in {"link", "spin"} /\ mlocked[order'[i]]
  <2>1. CASE i \in 1 .. n
    BY <1>4, <1>6, <2>1, Zenon DEF McsInv, McsWaiters, n
  <2>2. CASE i = n + 1 /\ n = 0
    BY <1>1, <1>4, <1>7, <2>2 DEF McsServed
  <2>3. CASE i = n + 1 /\ n # 0
    <3>1. i # 1
      BY <1>2, <2>3
    <3>2. QED
      BY <1>1, <1>4, <1>7, <2>3, <3>1, Zenon
  <2>4. QED
    BY <1>5, <2>1, <2>2, <2>3, Zenon
<1>10. ASSUME NEW i \in 1 .. (n + 1), pc'[order'[i]] = "link"
       PROVE  mprev'[order'[i]] = order'[i - 1]
  <2>1. CASE i \in 1 .. n
    <3>1. pc[order[i]] = "link" /\ order[i] \in Threads /\ order[i] # t
      BY <1>2, <1>3, <1>6, <1>10, <2>1, Zenon
    <3>2. i # 1
      BY <2>1, <3>1, Zenon DEF McsInv, McsWaiters, McsServed, n
    <3>3. i - 1 \in 1 .. n
      BY <1>2, <2>1, <3>2
    <3>4. mprev[order[i]] = order[i - 1]
      BY <2>1, <3>1, Zenon DEF McsInv, McsWaiters, n
    <3>5. QED
      BY <1>4, <2>1, <3>1, <3>3, <3>4, Zenon
  <2>2. CASE i = n + 1
    <3>1. n # 0 /\ i - 1 = n
      BY <1>1, <1>2, <1>4, <1>7, <1>10, <2>2
    <3>2. QED
      BY <1>1, <1>4, <1>7, <1>10, <2>2, <3>1, Zenon
  <2>3. QED
    BY <1>5, <2>1, <2>2, Zenon
<1>11. ASSUME NEW i \in 1 .. (n + 1)
       PROVE  mnext[order'[i]] = IF i = n + 1 \/ pc'[order'[i + 1]] = "link"
                                 THEN NULL ELSE order'[i + 1]
  <2>1. CASE i \in 1 .. n /\ i # n
    BY <1>4, <1>5, <1>6, <2>1 DEF McsInv, McsWaiters, n
  <2>2. CASE i \in 1 .. n /\ i = n
    <3>1. n # 0 /\ pc'[order'[n + 1]] = "link"
      BY <1>1, <1>2, <1>4, <1>7, <2>2
    <3>2. mnext[order[n]] = NULL
      BY <2>2, Zenon DEF McsInv, McsWaiters, n
    <3>3. QED
      BY <1>4, <2>2, <3>1, <3>2, Zenon
  <2>3. CASE i = n + 1
    BY <1>4, <2>3, Zenon DEF McsInv, McsLocal
  <2>4. QED
    BY <1>5, <2>1, <2>2, <2>3, Zenon
<1>12. McsWaiters'
  BY <1>4, <1>9, <1>10, <1>11, Zenon DEF McsWaiters
<1>13. QED
  BY <1>4, <1>8, <1>12, Zenon


\* The first leaves: the second may take the lock and everyone moves up.
LEMMA McsLeaves ==
  ASSUME McsInv, NEW t \in Threads, pc[t] \in McsServed, Goto(t, "out"), Leave,
         mnext' = mnext, mprev' = mprev,
         msl' = IF Len(order) = 1 THEN NULL ELSE msl,
         Len(order) # 1 => pc[order[2]] = "spin" /\ ~ mlocked'[order[2]],
         \A i \in 3 .. Len(order) : mlocked'[order[i]] = mlocked[order[i]]
  PROVE  McsQueue' /\ McsWaiters' /\ order' \in Seq(Threads)
<1> DEFINE n == Len(order)
<1>1. /\ pc'[t] = "out"
      /\ \A u \in Threads : u # t => pc'[u] = pc[u]
  BY McsMoves, Zenon DEF McsLabels
<1>2. order[1] = t /\ 1 \in 1 .. n
  BY McsFirst, Zenon
<1>3. /\ order \in Seq(Threads) /\ n \in Nat /\ n >= 1
      /\ \A i \in 1 .. n : order[i] \in Threads
  BY <1>2, McsOrder
<1>4. /\ order' \in Seq(Threads) /\ Len(order') = n - 1
      /\ \A i \in 1 .. (n - 1) : order'[i] = order[i + 1]
  BY <1>2, <1>3 DEF Leave
<1>5. \A i \in 1 .. (n - 1) : i + 1 \in 1 .. n /\ i + 1 # 1
        /\ (i = 1 => i + 1 = 2) /\ (i # 1 => i + 1 \in 3 .. n)
        /\ (i + 1 = n <=> i = n - 1) /\ (i # n - 1 => i + 1 \in 1 .. (n - 1))
        /\ (i # 1 => i - 1 \in 1 .. (n - 1) /\ (i - 1) + 1 = (i + 1) - 1)
        /\ n # 1
  BY <1>3
<1>6. \A i \in 1 .. (n - 1) : order[i + 1] \in Threads /\ order[i + 1] # t
        /\ pc'[order'[i]] = pc[order[i + 1]]
  <2>1. \A i \in 1 .. (n - 1) : order[i + 1] \in Threads /\ order[i + 1] # t
    BY <1>2, <1>3, <1>5, Zenon DEF McsInv, McsQueue
  <2>2. QED
    BY <1>1, <1>4, <2>1, Zenon
<1> HIDE DEF n
<1>7. McsQueue'
  <2>1. \A i, j \in 1 .. (n - 1) : order'[i] = order'[j] => i = j
    <3>1. \A i, j \in 1 .. (n - 1) : order[i + 1] = order[j + 1] => i + 1 = j + 1
      BY <1>5, Zenon DEF McsInv, McsQueue, n
    <3>2. \A i, j \in 1 .. (n - 1) : i + 1 = j + 1 => i = j
      BY <1>3
    <3>3. QED
      BY <1>4, <3>1, <3>2
  <2>2. \A i \in 1 .. (n - 1) : pc'[order'[i]] \in McsQueued
    BY <1>5, <1>6, Zenon DEF McsInv, McsQueue, n
  <2>3. ASSUME NEW u \in Threads, pc'[u] \in McsQueued
        PROVE  \E i \in 1 .. (n - 1) : order'[i] = u
    <3>1. u # t
      BY <1>1, <2>3, Zenon DEF McsQueued
    <3>2. PICK j \in 1 .. n : order[j] = u
      BY <1>1, <2>3, <3>1, Zenon DEF McsInv, McsQueue, n
    <3>3. j # 1
      BY <1>2, <3>1, <3>2, Zenon
    <3>4. j - 1 \in 1 .. (n - 1) /\ (j - 1) + 1 = j
      BY <1>3, <3>2, <3>3
    <3>5. QED
      BY <1>4, <3>2, <3>4, Zenon
  <2>4. msl' = IF n - 1 = 0 THEN NULL ELSE order'[n - 1]
    <3>1. CASE n = 1
      BY <3>1 DEF n
    <3>2. CASE n # 1
      <4>1. n - 1 \in 1 .. (n - 1) /\ (n - 1) + 1 = n /\ n - 1 # 0 /\ n # 0
        BY <1>3, <3>2
      <4>2. msl = order[n]
        BY <4>1, Zenon DEF McsInv, McsQueue, n
      <4>3. QED
        BY <1>4, <3>2, <4>1, <4>2, Zenon DEF n
    <3>3. QED
      BY <3>1, <3>2, Zenon
  <2>5. QED
    BY <1>4, <2>1, <2>2, <2>3, <2>4, Zenon DEF McsQueue
<1>8. ASSUME NEW i \in 1 .. (n - 1)
      PROVE  IF i = 1 THEN pc'[order'[i]] \in McsServed \/ (pc'[order'[i]] = "spin" /\ ~ mlocked'[order'[i]])
                ELSE pc'[order'[i]] \in {"link", "spin"} /\ mlocked'[order'[i]]
  <2>1. CASE i = 1
    BY <1>4, <1>5, <1>6, <2>1, Zenon DEF n
  <2>2. CASE i # 1
    <3>1. pc[order[i + 1]] \in {"link", "spin"} /\ mlocked[order[i + 1]]
      BY <1>5, Zenon DEF McsInv, McsWaiters, n
    <3>2. QED
      BY <1>4, <1>5, <1>6, <2>2, <3>1, Zenon DEF n
  <2>3. QED
    BY <2>1, <2>2, Zenon
<1>9. ASSUME NEW i \in 1 .. (n - 1), pc'[order'[i]] = "link"
      PROVE  mprev[order'[i]] = order'[i - 1]
  <2>1. pc[order[i + 1]] = "link"
    BY <1>6, <1>9, Zenon
  <2>2. mprev[order[i + 1]] = order[(i + 1) - 1]
    BY <1>5, <2>1, Zenon DEF McsInv, McsWaiters, n
  <2>3. i # 1
    BY <1>5, <2>1, Zenon DEF n
  <2>4. QED
    BY <1>4, <1>5, <2>2, <2>3, Zenon
<1>10. ASSUME NEW i \in 1 .. (n - 1)
       PROVE  mnext[order'[i]] = IF i = n - 1 \/ pc'[order'[i + 1]] = "link"
                                 THEN NULL ELSE order'[i + 1]
  <2>1. mnext[order[i + 1]] = IF i + 1 = n \/ pc[order[(i + 1) + 1]] = "link"
                              THEN NULL ELSE order[(i + 1) + 1]
    BY <1>5, Zenon DEF McsInv, McsWaiters, n
  <2>2. QED
    BY <1>4, <1>5, <1>6, <2>1, Zenon
<1>11. McsWaiters'
  BY <1>4, <1>8, <1>9, <1>10, Zenon DEF McsWaiters
<1>12. QED
  BY <1>4, <1>7, <1>11, Zenon

-----------------------------------------------------------------------------
LEMMA McsQuietStep ==
  ASSUME McsInv, NEW t \in Threads,
         \/ McsNode(t) \/ McsTryNode(t) \/ McsSpin(t)
         \/ McsUnlock(t) \/ McsSuccessor(t)
         \/ McsTryLock(t) /\ msl # NULL
         \/ McsRelease(t) /\ msl # t
  PROVE  McsInv'
<1>1. PICK l \in McsLabels : /\ Goto(t, l)
        /\ \/ pc[t] \notin McsQueued /\ l \notin McsQueued
           \/ l \in McsServed /\ (pc[t] \in McsServed \/ (pc[t] = "spin" /\ ~ mlocked[t]))
  BY Zenon DEF McsNode, McsTryNode, McsSpin, McsUnlock, McsSuccessor, McsTryLock, McsRelease,
         mcsvars, McsLabels, McsQueued, McsServed
<1>2. /\ order' = order /\ msl' = msl /\ mprev' = mprev
      /\ mnext' = mnext \/ (mnext' = [mnext EXCEPT ![t] = NULL] /\ pc[t] = "out")
      /\ mlocked' = mlocked \/ (mlocked' = [mlocked EXCEPT ![t] = TRUE] /\ pc[t] = "out")
  BY Zenon DEF McsNode, McsTryNode, McsSpin, McsUnlock, McsSuccessor, McsTryLock, McsRelease, mcsvars
<1>3. \A u \in Threads : pc[u] \in McsQueued =>
        mnext'[u] = mnext[u] /\ mprev'[u] = mprev[u] /\ mlocked'[u] = mlocked[u]
  BY <1>2, Zenon DEF McsInv, McsTypeOK, McsQueued
<1>4. McsQueue' /\ McsWaiters'
  BY <1>1, <1>2, <1>3, McsQueueStays, Zenon
<1>5. McsTypeOK'
  BY <1>1, <1>2, McsMoves, Zenon DEF McsInv, McsTypeOK
<1>6. McsLocal'
  <2>1. \A u \in Threads : u # t => pc'[u] = pc[u] /\ mnext'[u] = mnext[u]
                                   /\ mlocked'[u] = mlocked[u]
    BY <1>1, <1>2, McsMoves, Zenon DEF McsInv, McsTypeOK
  <2>2. /\ pc'[t] = "swap" => mlocked'[t]
        /\ pc'[t] \in {"swap", "trycas"} => mnext'[t] = NULL
        /\ pc'[t] = "succ" => msl # t
        /\ pc'[t] = "pass" => mnext'[t] # NULL
    BY Zenon DEF McsNode, McsTryNode, McsSpin, McsUnlock, McsSuccessor, McsTryLock, McsRelease,
           mcsvars, Goto, McsInv, McsTypeOK
  <2>3. QED
    BY <1>2, <2>1, <2>2 DEF McsInv, McsLocal
<1>7. QED
  BY <1>4, <1>5, <1>6, Zenon DEF McsInv

LEMMA McsJoinStep ==
  ASSUME McsInv, NEW t \in Threads, McsExchange(t) \/ (McsTryLock(t) /\ msl = NULL)
  PROVE  McsInv'
<1>1. PICK l \in {"wr", "link"} : Goto(t, l)
  BY Zenon DEF McsExchange, McsTryLock
<1>2. /\ pc[t] \in {"swap", "trycas"} /\ Join(t) /\ msl' = t
      /\ mnext' = mnext /\ mlocked' = mlocked
      /\ mprev' \in [Threads -> Threads \cup {NULL}]
      /\ \A u \in Threads : u # t => mprev'[u] = mprev[u]
  BY Zenon DEF McsExchange, McsTryLock, McsInv, McsTypeOK
<1>3. /\ pc' \in [Threads -> McsLabels] /\ pc'[t] = l
      /\ \A u \in Threads : u # t => pc'[u] = pc[u]
  BY <1>1, McsMoves, Zenon DEF McsLabels
<1>4. /\ l = "wr" => msl = NULL
      /\ l = "link" => msl # NULL /\ mprev'[t] = msl /\ mlocked[t]
  BY <1>3, Zenon DEF McsExchange, McsTryLock, Goto, McsInv, McsTypeOK, McsLocal
<1>5. McsQueue' /\ McsWaiters' /\ order' \in Seq(Threads)
  BY <1>1, <1>2, <1>4, McsJoins, Zenon
<1>6. McsTypeOK'
  BY <1>2, <1>3, <1>5, Zenon DEF McsInv, McsTypeOK
<1>7. McsLocal'
  BY <1>2, <1>3, Zenon DEF McsInv, McsLocal
<1>8. QED
  BY <1>5, <1>6, <1>7, Zenon DEF McsInv

LEMMA McsLeaveStep ==
  ASSUME McsInv, NEW t \in Threads, McsPass(t) \/ (McsRelease(t) /\ msl = t)
  PROVE  McsInv'
<1> DEFINE n == Len(order)
<1>1. /\ pc[t] \in McsServed /\ Goto(t, "out") /\ Leave
      /\ mnext' = mnext /\ mprev' = mprev
  BY Zenon DEF McsPass, McsRelease, McsServed
<1>2. /\ order[1] = t /\ 1 \in 1 .. n /\ n \in Nat
      /\ \A i \in 1 .. n : order[i] \in Threads
  BY <1>1, McsFirst, McsOrder, Zenon
<1>3. msl = order[n] /\ n \in 1 .. n
  BY <1>2 DEF McsInv, McsQueue
<1>4. CASE McsRelease(t) /\ msl = t
  <2>1. n = 1
    BY <1>2, <1>3, <1>4, Zenon DEF McsInv, McsQueue
  <2>2. msl' = NULL /\ mlocked' = mlocked
    BY <1>4, Zenon DEF McsRelease
  <2>3. McsQueue' /\ McsWaiters' /\ order' \in Seq(Threads)
    BY <1>1, <2>1, <2>2, McsLeaves, Zenon
  <2>4. McsTypeOK'
    BY <1>1, <2>2, <2>3, McsMoves, Zenon DEF McsInv, McsTypeOK, McsLabels
  <2>5. McsLocal'
    <3>1. /\ pc'[t] = "out" /\ msl' = NULL
          /\ \A u \in Threads : u # t => pc'[u] = pc[u]
      BY <1>1, <2>2, McsMoves, Zenon DEF McsLabels
    <3>2. QED
      BY <1>1, <2>2, <3>1, McsOrder, Zenon DEF McsInv, McsLocal
  <2>6. QED
    BY <2>3, <2>4, <2>5, Zenon DEF McsInv
<1>5. CASE McsPass(t)
  <2>1. mnext[t] # NULL
    BY <1>5, Zenon DEF McsPass, McsInv, McsLocal
  <2>2. mnext[t] = IF 1 = n \/ pc[order[2]] = "link" THEN NULL ELSE order[2]
    <3>1. mnext[t] = IF 1 = n \/ pc[order[1 + 1]] = "link" THEN NULL ELSE order[1 + 1]
      BY <1>2, Zenon DEF McsInv, McsWaiters
    <3>2. 1 + 1 = 2
      OBVIOUS
    <3>3. QED
      BY <3>1, <3>2, Zenon
  <2>3. n # 1 /\ 2 \in 1 .. n /\ mnext[t] = order[2] /\ pc[order[2]] # "link"
    <3>1. n # 1 /\ mnext[t] = order[2] /\ pc[order[2]] # "link"
      BY <2>1, <2>2, Zenon
    <3>2. 2 \in 1 .. n
      BY <1>2, <3>1
    <3>3. QED
      BY <3>1, <3>2, Zenon
  <2>4. pc[order[2]] = "spin" /\ order[2] \in Threads
    BY <1>2, <2>3 DEF McsInv, McsWaiters
  <2>5. mlocked' = [mlocked EXCEPT ![order[2]] = FALSE] /\ msl' = msl
    BY <1>5, <2>3, Zenon DEF McsPass
  <2>6. \A i \in 3 .. n : mlocked'[order[i]] = mlocked[order[i]]
    <3>1. \A i \in 3 .. n : order[i] # order[2] /\ order[i] \in Threads
      BY <1>2, <2>3 DEF McsInv, McsQueue
    <3>2. QED
      BY <2>5, <3>1, Zenon DEF McsInv, McsTypeOK
  <2>7. ~ mlocked'[order[2]] /\ mlocked' \in [Threads -> BOOLEAN]
    BY <2>4, <2>5, Zenon DEF McsInv, McsTypeOK
  <2>8. McsQueue' /\ McsWaiters' /\ order' \in Seq(Threads)
    BY <1>1, <2>3, <2>4, <2>5, <2>6, <2>7, McsLeaves, Zenon
  <2>9. McsTypeOK'
    BY <1>1, <2>5, <2>7, <2>8, McsMoves, Zenon DEF McsInv, McsTypeOK, McsLabels
  <2>10. McsLocal'
    <3>1. /\ pc'[t] = "out"
          /\ \A u \in Threads : u # t => pc'[u] = pc[u]
      BY <1>1, McsMoves, Zenon DEF McsLabels
    <3>2. \A u \in Threads : pc[u] = "swap" => mlocked'[u] = mlocked[u]
      BY <2>4, <2>5, Zenon DEF McsInv, McsTypeOK
    <3>3. QED
      BY <1>1, <2>5, <3>1, <3>2, Zenon DEF McsInv, McsLocal
  <2>11. QED
    BY <2>8, <2>9, <2>10, Zenon DEF McsInv
<1>6. QED
  BY <1>4, <1>5, Zenon

\* A thread writes itself into the node before its own.
LEMMA McsLinkStep == ASSUME McsInv, NEW t \in Threads, McsLink(t) PROVE McsInv'
<1> DEFINE n == Len(order)
<1>1. /\ pc[t] = "link" /\ Goto(t, "spin") /\ mnext' = [mnext EXCEPT ![mprev[t]] = t]
      /\ mprev' = [mprev EXCEPT ![t] = NULL]
      /\ order' = order /\ msl' = msl /\ mlocked' = mlocked
  BY Zenon DEF McsLink
<1>2. n \in Nat /\ \A i \in 1 .. n : order[i] \in Threads
  BY McsOrder, Zenon
<1>3. PICK k \in 1 .. n : order[k] = t
  BY <1>1, Zenon DEF McsInv, McsQueue, McsQueued
<1>4. k # 1 /\ mprev[t] = order[k - 1]
  BY <1>1, <1>3, Zenon DEF McsInv, McsWaiters, McsServed
<1> DEFINE p == order[k - 1]
<1>5. /\ k - 1 \in 1 .. n /\ (k - 1) + 1 = k /\ p \in Threads /\ p # t
      /\ \A i \in 1 .. n : i = k - 1 <=> order[i] = p
  <2>1. k - 1 \in 1 .. n /\ (k - 1) + 1 = k /\ k - 1 # k
    BY <1>2, <1>4
  <2>2. QED
    BY <1>2, <1>3, <2>1, Zenon DEF McsInv, McsQueue
<1>6. /\ pc' \in [Threads -> McsLabels] /\ pc'[t] = "spin"
      /\ \A u \in Threads : u # t => pc'[u] = pc[u]
  BY <1>1, McsMoves, Zenon DEF McsLabels
<1> HIDE DEF p
<1>7. /\ mnext'[p] = t /\ \A u \in Threads : u # p => mnext'[u] = mnext[u]
      /\ \A u \in Threads : u # t => mprev'[u] = mprev[u]
      /\ mnext' \in [Threads -> Threads \cup {NULL}]
      /\ mprev' \in [Threads -> Threads \cup {NULL}]
  BY <1>1, <1>4, <1>5, Zenon DEF McsInv, McsTypeOK, p
<1>8. McsTypeOK'
  BY <1>1, <1>6, <1>7, Zenon DEF McsInv, McsTypeOK
<1>9. \A i \in 1 .. n : IF i = k THEN order[i] = t ELSE order[i] # t /\ pc'[order[i]] = pc[order[i]]
  BY <1>2, <1>3, <1>6, Zenon DEF McsInv, McsQueue
<1>10. McsQueue'
  <2>1. \A u \in Threads : pc'[u] \in McsQueued <=> pc[u] \in McsQueued
    BY <1>1, <1>6, Zenon DEF McsQueued
  <2>2. QED
    BY <1>1, <1>2, <2>1, Zenon DEF McsInv, McsQueue
<1>11. \A i \in 1 .. n :
         IF i = 1 THEN pc'[order[i]] \in McsServed \/ (pc'[order[i]] = "spin" /\ ~ mlocked[order[i]])
                  ELSE pc'[order[i]] \in {"link", "spin"} /\ mlocked[order[i]]
  <2> TAKE i \in 1 .. n
  <2>1. IF i = 1 THEN pc[order[i]] \in McsServed \/ (pc[order[i]] = "spin" /\ ~ mlocked[order[i]])
                 ELSE pc[order[i]] \in {"link", "spin"} /\ mlocked[order[i]]
    BY Zenon DEF McsInv, McsWaiters
  <2>2. CASE i = k
    BY <1>3, <1>4, <1>6, <2>1, <2>2, Zenon
  <2>3. CASE i # k
    BY <1>9, <2>1, <2>3, Zenon
  <2>4. QED
    BY <2>2, <2>3, Zenon
<1>12. ASSUME NEW i \in 1 .. n, pc'[order[i]] = "link"
       PROVE  mprev'[order[i]] = order[i - 1]
  BY <1>2, <1>6, <1>7, <1>9, <1>12, Zenon DEF McsInv, McsWaiters
<1>13. ASSUME NEW i \in 1 .. n
       PROVE  mnext'[order[i]] = IF i = n \/ pc'[order[i + 1]] = "link"
                                 THEN NULL ELSE order[i + 1]
  <2>1. CASE i = k - 1
    <3>1. i # n /\ i + 1 = k
      BY <1>2, <2>1
    <3>2. QED
      BY <1>3, <1>5, <1>6, <1>7, <2>1, <3>1, Zenon
  <2>2. CASE i # k - 1
    <3>1. order[i] # p /\ order[i] \in Threads
      BY <1>2, <1>5, <2>2, Zenon
    <3>2. i = n \/ (i + 1 \in 1 .. n /\ i + 1 # k)
      BY <1>2, <2>2
    <3>3. i = n \/ pc'[order[i + 1]] = pc[order[i + 1]]
      BY <1>9, <3>2, Zenon
    <3>4. mnext[order[i]] = IF i = n \/ pc[order[i + 1]] = "link" THEN NULL ELSE order[i + 1]
      BY Zenon DEF McsInv, McsWaiters
    <3>5. mnext'[order[i]] = mnext[order[i]]
      BY <1>7, <3>1, Zenon
    <3>6. QED
      BY <3>3, <3>4, <3>5, Zenon
  <2>3. QED
    BY <2>1, <2>2, Zenon
<1>14. McsWaiters'
  BY <1>1, <1>11, <1>12, <1>13 DEF McsWaiters
<1>15. McsLocal'
  <2>1. pc[p] \in McsQueued
    BY <1>5, Zenon DEF McsInv, McsQueue, p
  <2>2. \A u \in Threads : pc'[u] \in {"swap", "trycas"} => mnext'[u] = NULL
    BY <1>6, <1>7, <2>1, Zenon DEF McsInv, McsLocal, McsQueued
  <2>3. \A u \in Threads : pc'[u] = "pass" => mnext'[u] # NULL
    BY <1>6, <1>7, McsOrder, Zenon DEF McsInv, McsLocal
  <2>4. QED
    BY <1>1, <1>6, <2>2, <2>3, Zenon DEF McsInv, McsLocal
<1>16. QED
  BY <1>8, <1>10, <1>14, <1>15, Zenon DEF McsInv

-----------------------------------------------------------------------------
LEMMA McsInvStep == McsInv /\ [McsNext]_<<base, mcsvars>> => McsInv'
<1> SUFFICES ASSUME McsInv, [McsNext]_<<base, mcsvars>> PROVE McsInv'
  BY Zenon
<1>1. CASE UNCHANGED <<base, mcsvars>>
  BY <1>1, Zenon DEF base, mcsvars, McsInv, McsTypeOK, McsQueue, McsWaiters, McsLocal
<1>2. QED
  BY <1>1, McsQuietStep, McsJoinStep, McsLeaveStep, McsLinkStep, Zenon
     DEF McsNext, McsCall, McsStep

\* For any number of threads that lock, try and unlock the queue lock of
\* rte_mcslock.h: one thread is inside, and it is the one whose node was put in
\* the queue first.  A node is linked some time after it is queued: the owner that
\* finds no successor neither forgets one that is not linked yet nor hands the
\* lock to anyone but the next of the queue.
THEOREM McsExclusive == McsSpec => [](Exclusion /\ InOrder)
<1>1. McsInv => Exclusion /\ InOrder
  <2> SUFFICES ASSUME McsInv PROVE Exclusion /\ InOrder
    BY Zenon
  <2>1. \A t \in Threads : pc[t] = "wr" => order[1] = t
    BY McsFirst, Zenon DEF McsServed
  <2>2. \A t \in Threads : pc[t] # "rd"
    BY Zenon DEF McsInv, McsTypeOK, McsLabels
  <2>3. Exclusion
    BY <2>1, <2>2, Zenon DEF Exclusion
  <2>4. order # <<>> => Head(order) = order[1]
    BY McsOrder
  <2>5. QED
    BY <2>1, <2>3, <2>4, Zenon DEF InOrder
<1>2. QED
  BY McsInvInit, McsInvStep, <1>1, PTL DEF McsSpec

-----------------------------------------------------------------------------
(***************************************************************************)
(* rte_pflock.h: a writer is alone, writers take turns in the order of their*)
(* tickets although both tickets and reader counts wrap, and a reader waits*)
(* for one writer at most.                                                 *)
(***************************************************************************)

PfLabels == {"out", "rd", "rspin", "wspin", "phase", "flush", "wr", "wnext"}
PfQueued == {"wspin", "phase", "flush", "wr", "wnext"} \* a writer with a ticket
PfServing == {"phase", "flush", "wr", "wnext"}         \* and it is its turn

\* The number k places after i, among n numbers that wrap.
Ahead(i, k, n) == IF i + k < n THEN i + k ELSE i + k - n

PfCount == PfMod \div RINC    \* how many reader counts there are
Arrived == rin \div RINC
Departed == rout \div RINC
Phase == PRES + PHID(wout)    \* the bits of the writer whose turn it is
Announced == \E t \in Threads : pc[t] \in {"flush", "wr"}

\* The readers in the lock, and those of them who came before the phase that
\* was announced last.
Readers == {t \in Threads : pc[t] \in {"rd", "rspin"}}
EarlyReaders == {t \in Threads : pc[t] = "rd" \/ (pc[t] = "rspin" /\ pfl[t] # Phase)}

PfTypeOK ==
  /\ pc \in [Threads -> PfLabels]
  /\ order \in Seq(Threads)
  /\ rin \in 0 .. (PfMod - 1) /\ rout \in 0 .. (PfMod - 1) /\ rout % RINC = 0
  /\ win \in 0 .. (WriterMod - 1) /\ wout \in 0 .. (WriterMod - 1)
  /\ pfl \in [Threads -> Nat]
  /\ phases \in [Threads -> Nat]

PfQueue ==
  /\ \A i, j \in 1 .. Len(order) : order[i] = order[j] => i = j
  /\ \A i \in 1 .. Len(order) : pc[order[i]] \in PfQueued
  /\ \A t \in Threads : pc[t] \in PfQueued => \E i \in 1 .. Len(order) : order[i] = t
  /\ win = Ahead(wout, Len(order), WriterMod)
  /\ \A i \in 1 .. Len(order) :
       pc[order[i]] \in {"wspin", "phase"} => pfl[order[i]] = Ahead(wout, i - 1, WriterMod)
  /\ \A t \in Threads : pc[t] \in PfServing => order[1] = t

\* rd.in and rd.out count the readers, and the count that the writer waits for
\* counts the early ones.
PfCounts ==
  /\ Arrived = Ahead(Departed, Cardinality(Readers), PfCount)
  /\ \A t \in Threads : pc[t] = "flush" =>
       /\ pfl[t] % RINC = 0
       /\ pfl[t] \div RINC = Ahead(Departed, Cardinality(EarlyReaders), PfCount)

\* A reader waits with the bits of the phase it met.
PfPhases ==
  /\ rin % RINC = IF Announced THEN Phase ELSE 0
  /\ \A t \in Threads : pc[t] = "rspin" => pfl[t] \in {PRES, PRES + 1}
  /\ \A w, t \in Threads : pc[w] = "wr" => pc[t] # "rd"
  /\ \A w, t \in Threads : pc[w] \in {"wr", "wnext"} /\ pc[t] = "rspin" => pfl[t] = Phase
  /\ (\A w \in Threads : pc[w] \notin {"flush", "wr", "wnext"}) =>
       \A t \in Threads : pc[t] = "rspin" => pfl[t] # Phase

PfWaits ==
  /\ \A t \in Threads : phases[t] <= (IF pc[t] = "rspin" THEN 1 ELSE 0)
  /\ \A w, t \in Threads :
       pc[w] = "flush" /\ pc[t] = "rspin" /\ pfl[t] = Phase => phases[t] = 0

PfInv == PfTypeOK /\ PfQueue /\ PfCounts /\ PfPhases /\ PfWaits


-----------------------------------------------------------------------------
LEMMA PfSizeFacts ==
  /\ PfMod \in Nat /\ PfCount \in Nat /\ PfMod = 16 * PfCount /\ PfCount > 0
  /\ Cardinality(Threads) \in Nat /\ Cardinality(Threads) < PfCount
  /\ WriterMod \in Nat /\ WriterMod > 0 /\ WriterMod % 2 = 0
  /\ Cardinality(Threads) <= WriterMod
BY PfSizes, LockThreads, FS_CardinalityType DEF PfCount, RINC

\* A number at most one turn ahead wraps at most once.
LEMMA WrapAhead ==
  ASSUME NEW n \in Nat, n > 0, NEW a \in 0 .. (n - 1), NEW k \in 0 .. n
  PROVE  /\ (a + k) % n = Ahead(a, k, n)
         /\ Ahead(a, k, n) \in 0 .. (n - 1)
<1> DEFINE y == Ahead(a, k, n)
           q == IF a + k < n THEN 0 ELSE 1
           x == a + k
<1>1. /\ x \in Int /\ y \in Int /\ q \in Int
      /\ x = y + n * q /\ 0 <= y /\ y < n
  BY DEF Ahead
<1> HIDE DEF x, y, q
<1>2. x % n = y
  BY <1>1, RemainderShift, Zenon
<1>3. y \in 0 .. (n - 1)
  BY <1>1
<1>4. QED
  BY <1>2, <1>3, Zenon DEF x, y

LEMMA AheadStep ==
  ASSUME NEW n \in Nat, n > 0, NEW a \in 0 .. (n - 1), NEW k \in 0 .. (n - 1)
  PROVE  /\ Ahead(Ahead(a, k, n), 1, n) = Ahead(a, k + 1, n)
         /\ Ahead(Ahead(a, 1, n), k, n) = Ahead(a, k + 1, n)
         /\ Ahead(a, 0, n) = a
         /\ Ahead(a, k, n) = a => k = 0
BY DEF Ahead

\* One reader more in rd.in or rd.out.
LEMMA CountUp ==
  ASSUME NEW x \in 0 .. (PfMod - 1)
  PROVE  /\ (x + RINC) % PfMod \in 0 .. (PfMod - 1)
         /\ ((x + RINC) % PfMod) % RINC = x % RINC
         /\ ((x + RINC) % PfMod) \div RINC = Ahead(x \div RINC, 1, PfCount)
<1> DEFINE y == (x + RINC) % PfMod
<1>1. RINC \in 0 .. PfMod
  BY PfSizeFacts DEF RINC
<1>2. y = Ahead(x, RINC, PfMod)
  BY <1>1, PfSizeFacts, WrapAhead
<1> HIDE DEF y
<1>3. y = IF x + 16 < 16 * PfCount THEN x + 16 ELSE x + 16 - 16 * PfCount
  BY <1>2, PfSizeFacts, Zenon DEF RINC, Ahead
<1>4. y \in 0 .. (PfMod - 1)
  BY <1>3, PfSizeFacts
<1>5. y % 16 = x % 16
  BY <1>3, PfSizeFacts
<1>6. y \div 16 = IF (x \div 16) + 1 < PfCount THEN (x \div 16) + 1 ELSE (x \div 16) + 1 - PfCount
  BY <1>3, PfSizeFacts
<1>7. QED
  BY <1>4, <1>5, <1>6, Zenon DEF y, RINC, Ahead

\* The bits of a phase, set and cleared.
LEMMA PhaseBits ==
  ASSUME NEW x \in 0 .. (PfMod - 1), NEW b \in {2, 3}
  PROVE  /\ x % RINC = 0 => /\ (x + b) % PfMod \in 0 .. (PfMod - 1)
                            /\ ((x + b) % PfMod) % RINC = b
                            /\ ((x + b) % PfMod) \div RINC = x \div RINC
         /\ LSB(x) \in 0 .. (PfMod - 1)
         /\ LSB(x) % RINC = 0
         /\ LSB(x) \div RINC = x \div RINC
<1>1. ASSUME x % RINC = 0
      PROVE  /\ (x + b) % PfMod \in 0 .. (PfMod - 1)
             /\ ((x + b) % PfMod) % RINC = b
             /\ ((x + b) % PfMod) \div RINC = x \div RINC
  <2>1. x % 16 = 0 /\ x + b < PfMod /\ x + b \in Int /\ 0 <= x + b
    BY <1>1, PfSizeFacts DEF RINC
  <2>2. b \in 0 .. PfMod
    BY PfSizeFacts
  <2>3. (x + b) % PfMod = x + b
    BY <2>1, <2>2, PfSizeFacts, WrapAhead DEF Ahead
  <2>4. x + b \in 0 .. (PfMod - 1) /\ (x + b) % 16 = b /\ (x + b) \div 16 = x \div 16
    BY <2>1, PfSizeFacts
  <2>5. QED
    BY <2>3, <2>4, Zenon DEF RINC
<1>2. /\ LSB(x) \in 0 .. (PfMod - 1)
      /\ LSB(x) % RINC = 0
      /\ LSB(x) \div RINC = x \div RINC
  BY PfSizeFacts DEF LSB, RINC
<1>3. QED
  BY <1>1, <1>2, Zenon

LEMMA PfFacts ==
  ASSUME PfInv
  PROVE  /\ Phase \in {2, 3}
         /\ WBITS(rin) = IF Announced THEN Phase ELSE 0
         /\ Arrived \in 0 .. (PfCount - 1) /\ Departed \in 0 .. (PfCount - 1)
         /\ rout = RINC * Departed
         /\ IsFiniteSet(Readers) /\ Cardinality(Readers) \in 0 .. (PfCount - 1)
         /\ IsFiniteSet(EarlyReaders) /\ Cardinality(EarlyReaders) \in 0 .. (PfCount - 1)
         /\ Cardinality(Readers) <= Cardinality(Threads)
<1>1. Phase \in {2, 3}
  BY PfSizeFacts DEF PfInv, PfTypeOK, Phase, PRES, PHID
<1>2. rin % 16 = IF Announced THEN Phase ELSE 0
  BY Zenon DEF PfInv, PfPhases, RINC
<1>3. WBITS(rin) = IF Announced THEN Phase ELSE 0
  <2>1. rin \in Nat
    BY PfSizeFacts DEF PfInv, PfTypeOK
  <2>2. CASE Announced
    <3>1. rin % 16 = Phase
      BY <1>2, <2>2, Zenon
    <3>2. rin % 4 = Phase
      BY <1>1, <2>1, <3>1
    <3>3. QED
      BY <2>2, <3>2, Zenon DEF WBITS
  <2>3. CASE ~ Announced
    <3>1. rin % 16 = 0
      BY <1>2, <2>3, Zenon
    <3>2. rin % 4 = 0
      BY <2>1, <3>1
    <3>3. QED
      BY <2>3, <3>2, Zenon DEF WBITS
  <2>4. QED
    BY <2>2, <2>3, Zenon
<1>4. /\ Arrived \in 0 .. (PfCount - 1) /\ Departed \in 0 .. (PfCount - 1)
      /\ rout = RINC * Departed
  BY PfSizeFacts DEF PfInv, PfTypeOK, Arrived, Departed, RINC
<1>5. Readers \subseteq Threads /\ EarlyReaders \subseteq Threads
  BY Zenon DEF Readers, EarlyReaders
<1>6. /\ IsFiniteSet(Readers) /\ Cardinality(Readers) <= Cardinality(Threads)
      /\ IsFiniteSet(EarlyReaders) /\ Cardinality(EarlyReaders) <= Cardinality(Threads)
  BY <1>5, LockThreads, FS_Subset, Zenon
<1>7. Cardinality(Readers) \in Nat /\ Cardinality(EarlyReaders) \in Nat
  BY <1>6, FS_CardinalityType, Zenon
<1>8. QED
  BY <1>1, <1>3, <1>4, <1>6, <1>7, PfSizeFacts


-----------------------------------------------------------------------------
LEMMA PfInvInit == BaseInit /\ PfInit => PfInv
<1> SUFFICES ASSUME BaseInit, PfInit PROVE PfInv
  BY Zenon
<1>1. /\ order = <<>> /\ Len(order) = 0 /\ rin = 0 /\ rout = 0 /\ win = 0 /\ wout = 0
      /\ \A t \in Threads : pc[t] = "out" /\ phases[t] = 0
  BY Zenon DEF BaseInit, PfInit
<1>2. PfTypeOK
  BY <1>1, PfSizeFacts DEF BaseInit, PfInit, PfTypeOK, PfLabels, RINC
<1>3. PfQueue
  BY <1>1, PfSizeFacts DEF PfQueue, PfQueued, PfServing, Ahead
<1>4. Readers = {}
  BY <1>1, Zenon DEF Readers
<1>5. Arrived = 0 /\ Departed = 0 /\ Cardinality(Readers) = 0
  BY <1>1, <1>4, FS_EmptySet DEF Arrived, Departed, RINC
<1>6. PfCounts
  BY <1>1, <1>5, PfSizeFacts DEF PfCounts, Ahead
<1>7. PfPhases /\ PfWaits
  BY <1>1 DEF PfPhases, PfWaits, Announced, RINC
<1>8. QED
  BY <1>2, <1>3, <1>6, <1>7, Zenon DEF PfInv

LEMMA PfMoves ==
  ASSUME PfInv, NEW t \in Threads, NEW l \in PfLabels, Goto(t, l)
  PROVE  /\ pc' \in [Threads -> PfLabels]
         /\ pc'[t] = l
         /\ \A u \in Threads : u # t => pc'[u] = pc[u]
BY Zenon DEF PfInv, PfTypeOK, Goto

\* It is the turn of one writer at a time.
LEMMA PfOneServing ==
  ASSUME PfInv, NEW t \in Threads, NEW u \in Threads,
         pc[t] \in PfServing, pc[u] \in PfServing
  PROVE  t = u
BY Zenon DEF PfInv, PfQueue

LEMMA PfQueueLength ==
  ASSUME PfInv
  PROVE  /\ order \in Seq(Threads) /\ Len(order) \in 0 .. WriterMod
         /\ \A i \in 1 .. Len(order) : order[i] \in Threads
         /\ \A t \in Threads : pc[t] \notin PfQueued => Len(order) < WriterMod
<1> DEFINE n == Len(order)
           S == 1 .. n
<1>1. order \in Seq(Threads) /\ n \in Nat
  BY DEF PfInv, PfTypeOK
<1>2. order \in [S -> Threads]
  BY <1>1
<1>3. order \in Injection(S, Threads)
  BY <1>2, Zenon DEF PfInv, PfQueue, Injection, IsInjective
<1>4. /\ Cardinality(S) <= Cardinality(Threads)
      /\ Cardinality(S) = Cardinality(Threads) <=> order \in Surjection(S, Threads)
  BY <1>3, LockThreads, FS_Injection, Zenon
<1>5. Cardinality(S) = n
  BY <1>1, FS_Interval
<1>6. ASSUME NEW t \in Threads, pc[t] \notin PfQueued PROVE n # Cardinality(Threads)
  <2>1. order \notin Surjection(S, Threads)
    BY <1>6, Zenon DEF PfInv, PfQueue, Surjection
  <2>2. QED
    BY <1>4, <1>5, <2>1, Zenon
<1>7. QED
  BY <1>1, <1>2, <1>4, <1>5, <1>6, PfSizeFacts

\* Nobody draws a ticket or gives one up.
LEMMA PfQueueStays ==
  ASSUME PfInv, NEW t \in Threads, NEW l \in PfLabels, Goto(t, l),
         order' = order, win' = win, wout' = wout,
         \A u \in Threads : u # t => pfl'[u] = pfl[u],
         pc[t] \in PfQueued <=> l \in PfQueued,
         l # "wspin",
         l \in PfServing => order[1] = t,
         l = "phase" => pc[t] \in {"wspin", "phase"} /\ pfl'[t] = pfl[t]
  PROVE  PfQueue'
<1>1. /\ pc'[t] = l
      /\ \A u \in Threads : u # t => pc'[u] = pc[u]
  BY PfMoves, Zenon
<1>2. \A i \in 1 .. Len(order) : order[i] \in Threads
  BY PfQueueLength, Zenon
<1>3. \A u \in Threads : pc'[u] \in PfQueued <=> pc[u] \in PfQueued
  BY <1>1, Zenon
<1>4. \A u \in Threads : pc'[u] \in {"wspin", "phase"} =>
        pc[u] \in {"wspin", "phase"} /\ pfl'[u] = pfl[u]
  BY <1>1, Zenon
<1>5. \A i \in 1 .. Len(order) : pc'[order[i]] \in {"wspin", "phase"} =>
        pfl'[order[i]] = Ahead(wout, i - 1, WriterMod)
  BY <1>2, <1>4, Zenon DEF PfInv, PfQueue
<1>6. \A u \in Threads : pc'[u] \in PfServing => order[1] = u
  BY <1>1, Zenon DEF PfInv, PfQueue
<1>7. /\ \A i \in 1 .. Len(order) : pc'[order[i]] \in PfQueued
      /\ \A u \in Threads : pc'[u] \in PfQueued => \E i \in 1 .. Len(order) : order[i] = u
  BY <1>2, <1>3, Zenon DEF PfInv, PfQueue
<1>8. Ahead(wout, Len(order), WriterMod)' = Ahead(wout, Len(order), WriterMod)
  BY Zenon DEF Ahead
<1>9. /\ win = Ahead(wout, Len(order), WriterMod)
      /\ \A i, j \in 1 .. Len(order) : order[i] = order[j] => i = j
  BY Zenon DEF PfInv, PfQueue
<1>10. QED
  BY <1>5, <1>6, <1>7, <1>8, <1>9, Zenon DEF PfQueue, Ahead

\* A writer draws a ticket.
LEMMA PfQueueJoins ==
  ASSUME PfInv, NEW t \in Threads, PfWriteLock(t)
  PROVE  PfQueue' /\ order' \in Seq(Threads) /\ win' \in 0 .. (WriterMod - 1)
<1> DEFINE n == Len(order)
<1>1. /\ pc[t] = "out" /\ win' = (win + 1) % WriterMod
      /\ pfl' = [pfl EXCEPT ![t] = win] /\ order' = Append(order, t)
      /\ Goto(t, "wspin") /\ wout' = wout
  BY Zenon DEF PfWriteLock, Join
<1>2. /\ pc'[t] = "wspin"
      /\ \A u \in Threads : u # t => pc'[u] = pc[u]
  BY <1>1, PfMoves, Zenon DEF PfLabels
<1>3. /\ pfl'[t] = win
      /\ \A u \in Threads : u # t => pfl'[u] = pfl[u]
  BY <1>1, Zenon DEF PfInv, PfTypeOK
<1>4. /\ order \in Seq(Threads) /\ n \in 0 .. (WriterMod - 1)
      /\ wout \in 0 .. (WriterMod - 1) /\ win \in 0 .. (WriterMod - 1)
      /\ \A i \in 1 .. n : order[i] \in Threads
  <2>1. pc[t] \notin PfQueued
    BY <1>1, Zenon DEF PfQueued
  <2>2. /\ order \in Seq(Threads) /\ n \in 0 .. WriterMod /\ n < WriterMod
        /\ \A i \in 1 .. n : order[i] \in Threads
    BY <2>1, PfQueueLength, Zenon
  <2>3. wout \in 0 .. (WriterMod - 1) /\ win \in 0 .. (WriterMod - 1)
    BY Zenon DEF PfInv, PfTypeOK
  <2>4. QED
    BY <2>2, <2>3, PfSizeFacts
<1>5. \A i \in 1 .. n : order[i] # t
  BY <1>1, Zenon DEF PfInv, PfQueue, PfQueued
<1>6. /\ order' \in Seq(Threads) /\ Len(order') = n + 1
      /\ order'[n + 1] = t
      /\ \A i \in 1 .. n : order'[i] = order[i]
  BY <1>1, <1>4
<1>7. win = Ahead(wout, n, WriterMod)
  BY Zenon DEF PfInv, PfQueue
<1>8. win' = Ahead(wout, n + 1, WriterMod) /\ win' \in 0 .. (WriterMod - 1)
  <2>1. 1 \in 0 .. WriterMod
    BY PfSizeFacts
  <2>2. win' = Ahead(win, 1, WriterMod) /\ win' \in 0 .. (WriterMod - 1)
    BY <1>1, <1>4, <2>1, PfSizeFacts, WrapAhead, Zenon
  <2>3. QED
    BY <1>4, <1>7, <2>2, PfSizeFacts, AheadStep, Zenon
<1>9. /\ \A i \in 1 .. (n + 1) : i \in 1 .. n \/ i = n + 1
      /\ \A i \in 1 .. n : i \in 1 .. (n + 1)
      /\ n + 1 \in 1 .. (n + 1) /\ (n + 1) - 1 = n
  BY <1>4
<1> HIDE DEF n
<1>10. \A i, j \in 1 .. (n + 1) : order'[i] = order'[j] => i = j
  BY <1>5, <1>6, <1>9, Zenon DEF PfInv, PfQueue, n
<1>11. \A i \in 1 .. (n + 1) : pc'[order'[i]] \in PfQueued
  BY <1>2, <1>4, <1>5, <1>6, <1>9 DEF PfInv, PfQueue, n, PfQueued
<1>12. ASSUME NEW u \in Threads, pc'[u] \in PfQueued
       PROVE  \E i \in 1 .. (n + 1) : order'[i] = u
  <2>1. CASE u = t
    BY <1>6, <1>9, <2>1, Zenon
  <2>2. CASE u # t
    <3>1. PICK i \in 1 .. n : order[i] = u
      BY <1>2, <1>12, <2>2, Zenon DEF PfInv, PfQueue, n
    <3>2. QED
      BY <1>6, <1>9, <3>1, Zenon
  <2>3. QED
    BY <2>1, <2>2, Zenon
<1>13. ASSUME NEW i \in 1 .. (n + 1), pc'[order'[i]] \in {"wspin", "phase"}
       PROVE  pfl'[order'[i]] = Ahead(wout, i - 1, WriterMod)
  <2>1. CASE i = n + 1
    BY <1>3, <1>6, <1>7, <1>9, <2>1, Zenon
  <2>2. CASE i \in 1 .. n
    BY <1>2, <1>3, <1>4, <1>5, <1>6, <1>13, <2>2 DEF PfInv, PfQueue, n
  <2>3. QED
    BY <1>9, <2>1, <2>2, Zenon
<1>14. ASSUME NEW u \in Threads, pc'[u] \in PfServing PROVE order'[1] = u
  <2>1. order[1] = u /\ pc[u] \in PfQueued
    BY <1>2, <1>14, Zenon DEF PfInv, PfQueue, PfServing, PfQueued
  <2>2. 1 \in 1 .. n
    <3>1. \E i \in 1 .. n : order[i] = u
      BY <2>1, Zenon DEF PfInv, PfQueue, n
    <3>2. QED
      BY <1>4, <3>1
  <2>3. QED
    BY <1>6, <2>1, <2>2, Zenon
<1>15. PfQueue'
  BY <1>1, <1>6, <1>8, <1>10, <1>11, <1>12, <1>13, <1>14, Zenon DEF PfQueue, Ahead
<1>16. QED
  BY <1>6, <1>8, <1>15, Zenon

\* The writer whose turn it was leaves: every other moves up by one, and so does
\* wr.out.
LEMMA PfQueueLeaves ==
  ASSUME PfInv, NEW t \in Threads, PfWriteNext(t)
  PROVE  PfQueue' /\ order' \in Seq(Threads) /\ wout' \in 0 .. (WriterMod - 1)
<1> DEFINE n == Len(order)
<1>1. /\ pc[t] = "wnext" /\ wout' = (wout + 1) % WriterMod
      /\ pfl' = pfl /\ order' = Tail(order)
      /\ Goto(t, "out") /\ win' = win
  BY Zenon DEF PfWriteNext, Leave
<1>2. /\ pc'[t] = "out"
      /\ \A u \in Threads : u # t => pc'[u] = pc[u]
  BY <1>1, PfMoves, Zenon DEF PfLabels
<1>3. /\ order \in Seq(Threads) /\ n \in 0 .. WriterMod
      /\ wout \in 0 .. (WriterMod - 1) /\ win \in 0 .. (WriterMod - 1)
      /\ \A i \in 1 .. n : order[i] \in Threads
  BY PfQueueLength, Zenon DEF PfInv, PfTypeOK
<1>4. order[1] = t /\ 1 \in 1 .. n /\ n >= 1
  <2>1. \E i \in 1 .. n : order[i] = t
    BY <1>1, Zenon DEF PfInv, PfQueue, PfQueued
  <2>2. QED
    BY <1>1, <1>3, <2>1 DEF PfInv, PfQueue, PfServing
<1>5. /\ order' \in Seq(Threads) /\ Len(order') = n - 1
      /\ \A i \in 1 .. (n - 1) : order'[i] = order[i + 1]
  BY <1>1, <1>3, <1>4
<1>6. \A i \in 1 .. (n - 1) : i + 1 \in 1 .. n /\ order[i + 1] \in Threads /\ order[i + 1] # t
  <2>1. \A i \in 1 .. (n - 1) : i + 1 \in 1 .. n /\ i + 1 # 1
    BY <1>3
  <2>2. QED
    BY <1>3, <1>4, <2>1, Zenon DEF PfInv, PfQueue
<1>7. wout' = Ahead(wout, 1, WriterMod) /\ wout' \in 0 .. (WriterMod - 1)
  <2>1. 1 \in 0 .. WriterMod
    BY PfSizeFacts
  <2>2. QED
    BY <1>1, <1>3, <2>1, PfSizeFacts, WrapAhead, Zenon
<1>8. \A k \in 0 .. (WriterMod - 1) : Ahead(wout', k, WriterMod) = Ahead(wout, k + 1, WriterMod)
  BY <1>3, <1>7, PfSizeFacts, AheadStep, Zenon
<1>9. win' = Ahead(wout', n - 1, WriterMod)
  <2>1. n - 1 \in 0 .. (WriterMod - 1) /\ (n - 1) + 1 = n
    BY <1>3, <1>4, PfSizeFacts
  <2>2. Ahead(wout', n - 1, WriterMod) = Ahead(wout, n, WriterMod)
    BY <1>8, <2>1, Zenon
  <2>3. QED
    BY <1>1, <2>2, Zenon DEF PfInv, PfQueue
<1> HIDE DEF n
<1>10. \A i, j \in 1 .. (n - 1) : order'[i] = order'[j] => i = j
  <2>1. \A i, j \in 1 .. (n - 1) : order[i + 1] = order[j + 1] => i + 1 = j + 1
    BY <1>6, Zenon DEF PfInv, PfQueue, n
  <2>2. \A i, j \in 1 .. (n - 1) : i + 1 = j + 1 => i = j
    BY <1>3
  <2>3. QED
    BY <1>5, <2>1, <2>2, Zenon
<1>11. \A i \in 1 .. (n - 1) : pc'[order'[i]] \in PfQueued
  BY <1>2, <1>5, <1>6 DEF PfInv, PfQueue, n
<1>12. ASSUME NEW u \in Threads, pc'[u] \in PfQueued
       PROVE  \E i \in 1 .. (n - 1) : order'[i] = u
  <2>1. u # t
    BY <1>2, <1>12, Zenon DEF PfQueued
  <2>2. PICK j \in 1 .. n : order[j] = u
    BY <1>2, <1>12, <2>1, Zenon DEF PfInv, PfQueue, n
  <2>3. j # 1
    BY <1>4, <2>1, <2>2, Zenon
  <2>4. j - 1 \in 1 .. (n - 1) /\ (j - 1) + 1 = j
    BY <1>3, <2>2, <2>3
  <2>5. QED
    BY <1>5, <2>2, <2>4, Zenon
<1>13. ASSUME NEW i \in 1 .. (n - 1), pc'[order'[i]] \in {"wspin", "phase"}
       PROVE  pfl[order'[i]] = Ahead(wout', i - 1, WriterMod)
  <2>1. pfl[order'[i]] = Ahead(wout, (i + 1) - 1, WriterMod)
    BY <1>2, <1>5, <1>6, <1>13, Zenon DEF PfInv, PfQueue, n
  <2>2. i - 1 \in 0 .. (WriterMod - 1) /\ (i - 1) + 1 = (i + 1) - 1
    BY <1>3, PfSizeFacts
  <2>3. Ahead(wout', i - 1, WriterMod) = Ahead(wout, (i + 1) - 1, WriterMod)
    BY <1>8, <2>2, Zenon
  <2>4. QED
    BY <2>1, <2>3, Zenon
<1>14. \A u \in Threads : pc'[u] \notin PfServing
  BY <1>1, <1>2, PfOneServing, Zenon DEF PfServing
<1>15. PfQueue'
  BY <1>1, <1>5, <1>9, <1>10, <1>11, <1>12, <1>13, <1>14, Zenon DEF PfQueue, Ahead
<1>16. QED
  BY <1>5, <1>7, <1>15, Zenon


-----------------------------------------------------------------------------
LEMMA PfReadLockStep == ASSUME PfInv, NEW t \in Threads, PfReadLock(t) PROVE PfInv'
<1> DEFINE l == IF WBITS(rin) = 0 THEN "rd" ELSE "rspin"
<1>1. /\ pc[t] = "out" /\ rin' = (rin + RINC) % PfMod
      /\ pfl' = [pfl EXCEPT ![t] = WBITS(rin)] /\ Goto(t, l)
      /\ order' = order /\ rout' = rout /\ win' = win /\ wout' = wout /\ phases' = phases
  BY Zenon DEF PfReadLock
<1>2. /\ l \in {"rd", "rspin"} /\ l = (IF Announced THEN "rspin" ELSE "rd")
      /\ WBITS(rin) \in Nat /\ (l = "rspin" => WBITS(rin) = Phase) /\ Phase \in {2, 3}
  BY PfFacts
<1> HIDE DEF l
<1>3. /\ pc' \in [Threads -> PfLabels] /\ pc'[t] = l
      /\ \A u \in Threads : u # t => pc'[u] = pc[u]
  BY <1>1, <1>2, PfMoves, Zenon DEF PfLabels
<1>4. /\ pfl' \in [Threads -> Nat] /\ pfl'[t] = WBITS(rin)
      /\ \A u \in Threads : u # t => pfl'[u] = pfl[u]
  BY <1>1, <1>2, Zenon DEF PfInv, PfTypeOK
<1>5. /\ rin' \in 0 .. (PfMod - 1) /\ rin' % RINC = rin % RINC
      /\ rin' \div RINC = Ahead(Arrived, 1, PfCount)
  BY <1>1, CountUp, Zenon DEF PfInv, PfTypeOK, Arrived
<1>6. PfTypeOK'
  BY <1>1, <1>3, <1>4, <1>5, Zenon DEF PfInv, PfTypeOK
<1>7. PfQueue'
  BY <1>1, <1>2, <1>4, PfQueueStays, Zenon DEF PfLabels, PfQueued, PfServing
<1>8. Phase' = Phase /\ (Announced' <=> Announced)
  BY <1>1, <1>2, <1>3, Zenon DEF Phase, Announced
<1>9. PfCounts'
  <2>1. Readers' = Readers \cup {t} /\ t \notin Readers
    BY <1>1, <1>2, <1>3, Zenon DEF Readers
  <2>2. Cardinality(Readers') = Cardinality(Readers) + 1
    BY <2>1, PfFacts, FS_AddElement, Zenon
  <2>3. Arrived' = Ahead(Ahead(Departed, Cardinality(Readers), PfCount), 1, PfCount)
    BY <1>5, Zenon DEF PfInv, PfCounts, Arrived
  <2>4. Arrived' = Ahead(Departed, Cardinality(Readers) + 1, PfCount)
    BY <2>3, PfFacts, PfSizeFacts, AheadStep, Zenon
  <2>5. Departed' = Departed
    BY <1>1, Zenon DEF Departed
  <2>6. ASSUME NEW w \in Threads, pc'[w] = "flush"
        PROVE  pfl'[w] = pfl[w] /\ pc[w] = "flush" /\ EarlyReaders' = EarlyReaders
    <3>1. w # t /\ pc[w] = "flush" /\ Announced
      BY <1>2, <1>3, <2>6, Zenon DEF Announced
    <3>2. pc'[t] = "rspin" /\ pfl'[t] = Phase
      BY <1>2, <1>3, <1>4, <3>1, Zenon
    <3>3. QED
      BY <1>1, <1>3, <1>4, <1>8, <3>1, <3>2, Zenon DEF EarlyReaders
  <2>7. Arrived' = Ahead(Departed', Cardinality(Readers'), PfCount)
    BY <2>2, <2>4, <2>5, Zenon
  <2>8. \A w \in Threads : pc'[w] = "flush" =>
          /\ pfl'[w] % RINC = 0
          /\ pfl'[w] \div RINC = Ahead(Departed', Cardinality(EarlyReaders'), PfCount)
    BY <2>5, <2>6, Zenon DEF PfInv, PfCounts
  <2>9. QED
    BY <2>7, <2>8, Zenon DEF PfCounts, Ahead, RINC, PfCount
<1>10. PfPhases'
  <2>1. rin' % RINC = IF Announced' THEN Phase' ELSE 0
    BY <1>5, <1>8, Zenon DEF PfInv, PfPhases
  <2>2. \A u \in Threads : pc'[u] = "rspin" => pfl'[u] \in {PRES, PRES + 1}
    BY <1>2, <1>3, <1>4 DEF PfInv, PfPhases, PRES
  <2>3. \A w, u \in Threads : pc'[w] = "wr" => pc'[u] # "rd"
    BY <1>2, <1>3, Zenon DEF PfInv, PfPhases, Announced
  <2>4. \A w, u \in Threads : pc'[w] \in {"wr", "wnext"} /\ pc'[u] = "rspin" => pfl'[u] = Phase'
    BY <1>2, <1>3, <1>4, <1>8, Zenon DEF PfInv, PfPhases
  <2>5. ASSUME \A w \in Threads : pc'[w] \notin {"flush", "wr", "wnext"},
               NEW u \in Threads, pc'[u] = "rspin"
        PROVE  pfl'[u] # Phase'
    <3>1. \A w \in Threads : pc[w] \notin {"flush", "wr", "wnext"}
      BY <1>1, <1>3, <2>5, Zenon
    <3>2. ~ Announced
      BY <3>1, Zenon DEF Announced
    <3>3. u # t
      BY <1>2, <1>3, <2>5, <3>2, Zenon
    <3>4. QED
      BY <1>3, <1>4, <1>8, <2>5, <3>1, <3>3, Zenon DEF PfInv, PfPhases
  <2>6. QED
    BY <2>1, <2>2, <2>3, <2>4, <2>5, Zenon DEF PfPhases, RINC, PRES
<1>11. PfWaits'
  <2>1. phases[t] = 0
    BY <1>1 DEF PfInv, PfTypeOK, PfWaits
  <2>2. QED
    BY <1>1, <1>2, <1>3, <1>4, <1>8, <2>1 DEF PfInv, PfWaits
<1>12. QED
  BY <1>6, <1>7, <1>9, <1>10, <1>11, Zenon DEF PfInv

LEMMA PfReadSpinStep == ASSUME PfInv, NEW t \in Threads, PfReadSpin(t) PROVE PfInv'
<1>1. /\ pc[t] = "rspin" /\ WBITS(rin) # pfl[t] /\ Goto(t, "rd")
      /\ pfl' = [pfl EXCEPT ![t] = 0] /\ phases' = [phases EXCEPT ![t] = 0]
      /\ order' = order /\ rin' = rin /\ rout' = rout /\ win' = win /\ wout' = wout
  BY Zenon DEF PfReadSpin
<1>2. /\ pc' \in [Threads -> PfLabels] /\ pc'[t] = "rd"
      /\ \A u \in Threads : u # t => pc'[u] = pc[u]
  BY <1>1, PfMoves, Zenon DEF PfLabels
<1>3. /\ pfl' \in [Threads -> Nat] /\ phases' \in [Threads -> Nat] /\ phases'[t] = 0
      /\ \A u \in Threads : u # t => pfl'[u] = pfl[u] /\ phases'[u] = phases[u]
  BY <1>1, Zenon DEF PfInv, PfTypeOK
<1>4. PfTypeOK'
  BY <1>1, <1>2, <1>3, Zenon DEF PfInv, PfTypeOK
<1>5. PfQueue'
  BY <1>1, <1>3, PfQueueStays, Zenon DEF PfLabels, PfQueued, PfServing
<1>6. Phase' = Phase /\ (Announced' <=> Announced) /\ Arrived' = Arrived /\ Departed' = Departed
  BY <1>1, <1>2, Zenon DEF Phase, Announced, Arrived, Departed
<1>7. Announced => pfl[t] # Phase
  BY <1>1, PfFacts, Zenon
<1>8. \A w \in Threads : pc[w] # "wr"
  BY <1>1, <1>7, Zenon DEF PfInv, PfPhases, Announced
<1>9. PfCounts'
  <2>1. Readers' = Readers
    BY <1>1, <1>2, Zenon DEF Readers
  <2>2. Announced => EarlyReaders' = EarlyReaders
    BY <1>1, <1>2, <1>3, <1>6, <1>7, Zenon DEF EarlyReaders
  <2>3. ASSUME NEW w \in Threads, pc'[w] = "flush"
        PROVE  pfl'[w] = pfl[w] /\ pc[w] = "flush" /\ EarlyReaders' = EarlyReaders
    BY <1>2, <1>3, <2>2, <2>3, Zenon DEF Announced
  <2>4. Arrived' = Ahead(Departed', Cardinality(Readers'), PfCount)
    BY <1>6, <2>1, Zenon DEF PfInv, PfCounts
  <2>5. \A w \in Threads : pc'[w] = "flush" =>
          /\ pfl'[w] % RINC = 0
          /\ pfl'[w] \div RINC = Ahead(Departed', Cardinality(EarlyReaders'), PfCount)
    BY <1>6, <2>3, Zenon DEF PfInv, PfCounts
  <2>6. QED
    BY <2>4, <2>5, Zenon DEF PfCounts, Ahead, RINC, PfCount
<1>10. PfPhases'
  <2>1. rin' % RINC = IF Announced' THEN Phase' ELSE 0
    BY <1>1, <1>6, Zenon DEF PfInv, PfPhases
  <2>2. \A u \in Threads : pc'[u] = "rspin" => pfl'[u] \in {PRES, PRES + 1}
    BY <1>2, <1>3, Zenon DEF PfInv, PfPhases
  <2>3. \A w, u \in Threads : pc'[w] = "wr" => pc'[u] # "rd"
    BY <1>2, <1>8, Zenon
  <2>4. \A w, u \in Threads : pc'[w] \in {"wr", "wnext"} /\ pc'[u] = "rspin" => pfl'[u] = Phase'
    BY <1>2, <1>3, <1>6, Zenon DEF PfInv, PfPhases
  <2>5. (\A w \in Threads : pc'[w] \notin {"flush", "wr", "wnext"}) =>
          \A u \in Threads : pc'[u] = "rspin" => pfl'[u] # Phase'
    BY <1>1, <1>2, <1>3, <1>6, Zenon DEF PfInv, PfPhases
  <2>6. QED
    BY <2>1, <2>2, <2>3, <2>4, <2>5, Zenon DEF PfPhases, RINC, PRES
<1>11. PfWaits'
  BY <1>1, <1>2, <1>3, <1>6 DEF PfInv, PfWaits
<1>12. QED
  BY <1>4, <1>5, <1>9, <1>10, <1>11, Zenon DEF PfInv

LEMMA PfReadUnlockStep == ASSUME PfInv, NEW t \in Threads, PfReadUnlock(t) PROVE PfInv'
<1>1. /\ pc[t] = "rd" /\ rout' = (rout + RINC) % PfMod /\ Goto(t, "out")
      /\ order' = order /\ rin' = rin /\ win' = win /\ wout' = wout
      /\ pfl' = pfl /\ phases' = phases
  BY Zenon DEF PfReadUnlock
<1>2. /\ pc' \in [Threads -> PfLabels] /\ pc'[t] = "out"
      /\ \A u \in Threads : u # t => pc'[u] = pc[u]
  BY <1>1, PfMoves, Zenon DEF PfLabels
<1>3. /\ rout' \in 0 .. (PfMod - 1) /\ rout' % RINC = rout % RINC
      /\ Departed' = Ahead(Departed, 1, PfCount)
  BY <1>1, CountUp, Zenon DEF PfInv, PfTypeOK, Departed
<1>4. PfTypeOK'
  BY <1>1, <1>2, <1>3, Zenon DEF PfInv, PfTypeOK
<1>5. PfQueue'
  BY <1>1, PfQueueStays, Zenon DEF PfLabels, PfQueued, PfServing
<1>6. Phase' = Phase /\ (Announced' <=> Announced) /\ Arrived' = Arrived
  BY <1>1, <1>2, Zenon DEF Phase, Announced, Arrived
<1>7. ASSUME NEW S, IsFiniteSet(S), t \in S, Cardinality(S) \in 0 .. (PfCount - 1)
      PROVE  Ahead(Departed', Cardinality(S \ {t}), PfCount) = Ahead(Departed, Cardinality(S), PfCount)
  <2>1. Cardinality(S \ {t}) = Cardinality(S) - 1
    BY <1>7, FS_RemoveElement, Zenon
  <2>2. S # {}
    BY <1>7, Zenon
  <2>3. Cardinality(S) # 0
    BY <1>7, <2>2, FS_EmptySet, Zenon
  <2>4. /\ Cardinality(S) - 1 \in 0 .. (PfCount - 1)
        /\ (Cardinality(S) - 1) + 1 = Cardinality(S)
    BY <1>7, <2>3, PfSizeFacts
  <2>5. QED
    BY <1>3, <2>1, <2>4, PfFacts, PfSizeFacts, AheadStep
<1>8. PfCounts'
  <2>1. Readers' = Readers \ {t} /\ t \in Readers
    BY <1>1, <1>2, Zenon DEF Readers
  <2>2. EarlyReaders' = EarlyReaders \ {t} /\ t \in EarlyReaders
    BY <1>1, <1>2, <1>6, Zenon DEF EarlyReaders
  <2>3. Arrived' = Ahead(Departed', Cardinality(Readers'), PfCount)
    BY <1>6, <1>7, <2>1, PfFacts, Zenon DEF PfInv, PfCounts
  <2>4. Ahead(Departed', Cardinality(EarlyReaders'), PfCount)
          = Ahead(Departed, Cardinality(EarlyReaders), PfCount)
    BY <1>7, <2>2, PfFacts, Zenon
  <2>5. \A w \in Threads : pc'[w] = "flush" => pc[w] = "flush"
    BY <1>2, Zenon
  <2>6. \A w \in Threads : pc'[w] = "flush" =>
          /\ pfl'[w] % RINC = 0
          /\ pfl'[w] \div RINC = Ahead(Departed', Cardinality(EarlyReaders'), PfCount)
    BY <1>1, <2>4, <2>5, Zenon DEF PfInv, PfCounts
  <2>7. QED
    BY <2>3, <2>6, Zenon DEF PfCounts, Ahead, RINC, PfCount
<1>9. PfPhases'
  <2>1. rin' % RINC = IF Announced' THEN Phase' ELSE 0
    BY <1>1, <1>6, Zenon DEF PfInv, PfPhases
  <2>2. \A u \in Threads : \A l \in {"rspin", "flush", "wr", "wnext"} : pc'[u] = l <=> pc[u] = l
    BY <1>1, <1>2, Zenon
  <2>3. /\ \A u \in Threads : pc'[u] = "rspin" => pfl'[u] \in {PRES, PRES + 1}
        /\ \A w, u \in Threads : pc'[w] = "wr" => pc'[u] # "rd"
        /\ \A w, u \in Threads : pc'[w] \in {"wr", "wnext"} /\ pc'[u] = "rspin" => pfl'[u] = Phase'
        /\ (\A w \in Threads : pc'[w] \notin {"flush", "wr", "wnext"}) =>
             \A u \in Threads : pc'[u] = "rspin" => pfl'[u] # Phase'
    BY <1>1, <1>2, <1>6, <2>2, Zenon DEF PfInv, PfPhases
  <2>4. QED
    BY <2>1, <2>3, Zenon DEF PfPhases, RINC, PRES
<1>10. PfWaits'
  BY <1>1, <1>2, <1>6, Zenon DEF PfInv, PfWaits
<1>11. QED
  BY <1>4, <1>5, <1>8, <1>9, <1>10, Zenon DEF PfInv


\* A thread that is no reader before or after, and announces nothing.
LEMMA PfReadersStay ==
  ASSUME PfInv, NEW t \in Threads, NEW l \in {"wspin", "phase"}, Goto(t, l),
         pc[t] \in {"out", "wspin"}, rin' = rin, rout' = rout, wout' = wout,
         phases' = phases, \A u \in Threads : u # t => pfl'[u] = pfl[u]
  PROVE  PfCounts' /\ PfPhases' /\ PfWaits'
<1>1. /\ pc'[t] = l /\ \A u \in Threads : u # t => pc'[u] = pc[u]
  BY PfMoves, Zenon DEF PfLabels
<1>2. Phase' = Phase /\ (Announced' <=> Announced) /\ Arrived' = Arrived /\ Departed' = Departed
  BY <1>1, Zenon DEF Phase, Announced, Arrived, Departed
<1>3. Readers' = Readers /\ EarlyReaders' = EarlyReaders
  BY <1>1, <1>2, Zenon DEF Readers, EarlyReaders
<1>4. \A u \in Threads : pc'[u] \in {"rd", "rspin", "flush", "wr", "wnext"} =>
        pc'[u] = pc[u] /\ pfl'[u] = pfl[u]
  BY <1>1, Zenon
<1>5. \A u \in Threads : pc[u] \in {"rd", "rspin", "flush", "wr", "wnext"} => pc'[u] = pc[u]
  BY <1>1, Zenon
<1>6. PfCounts'
  <2>1. Arrived' = Ahead(Departed', Cardinality(Readers'), PfCount)
    BY <1>2, <1>3, Zenon DEF PfInv, PfCounts
  <2>2. \A w \in Threads : pc'[w] = "flush" =>
          /\ pfl'[w] % RINC = 0
          /\ pfl'[w] \div RINC = Ahead(Departed', Cardinality(EarlyReaders'), PfCount)
    BY <1>2, <1>3, <1>4, Zenon DEF PfInv, PfCounts
  <2>3. QED
    BY <2>1, <2>2, Zenon DEF PfCounts, Ahead, RINC, PfCount
<1>7. PfPhases'
  <2>1. rin' % RINC = IF Announced' THEN Phase' ELSE 0
    BY <1>2, Zenon DEF PfInv, PfPhases
  <2>2. /\ \A u \in Threads : pc'[u] = "rspin" => pfl'[u] \in {PRES, PRES + 1}
        /\ \A w, u \in Threads : pc'[w] = "wr" => pc'[u] # "rd"
        /\ \A w, u \in Threads : pc'[w] \in {"wr", "wnext"} /\ pc'[u] = "rspin" => pfl'[u] = Phase'
    BY <1>2, <1>4, Zenon DEF PfInv, PfPhases
  <2>3. (\A w \in Threads : pc'[w] \notin {"flush", "wr", "wnext"}) =>
             \A u \in Threads : pc'[u] = "rspin" => pfl'[u] # Phase'
    BY <1>2, <1>4, <1>5, Zenon DEF PfInv, PfPhases
  <2>4. QED
    BY <2>1, <2>2, <2>3, Zenon DEF PfPhases, RINC, PRES
<1>8. PfWaits'
  <2>1. \A u \in Threads : phases[u] <= (IF pc'[u] = "rspin" THEN 1 ELSE 0)
    BY <1>1, Zenon DEF PfInv, PfWaits
  <2>2. QED
    BY <1>2, <1>4, <2>1, Zenon DEF PfInv, PfWaits
<1>9. QED
  BY <1>6, <1>7, <1>8, Zenon

LEMMA PfWriteLockStep == ASSUME PfInv, NEW t \in Threads, PfWriteLock(t) PROVE PfInv'
<1>1. /\ pc[t] = "out" /\ Goto(t, "wspin") /\ pfl' = [pfl EXCEPT ![t] = win]
      /\ rin' = rin /\ rout' = rout /\ wout' = wout /\ phases' = phases
  BY Zenon DEF PfWriteLock
<1>2. pfl' \in [Threads -> Nat] /\ \A u \in Threads : u # t => pfl'[u] = pfl[u]
  BY <1>1, PfSizeFacts DEF PfInv, PfTypeOK
<1>3. PfQueue' /\ order' \in Seq(Threads) /\ win' \in 0 .. (WriterMod - 1)
  BY PfQueueJoins, Zenon
<1>4. PfTypeOK'
  BY <1>1, <1>2, <1>3, PfMoves, Zenon DEF PfInv, PfTypeOK, PfLabels
<1>5. PfCounts' /\ PfPhases' /\ PfWaits'
  BY <1>1, <1>2, PfReadersStay, Zenon
<1>6. QED
  BY <1>3, <1>4, <1>5, Zenon DEF PfInv

LEMMA PfWriteTurnStep == ASSUME PfInv, NEW t \in Threads, PfWriteTurn(t) PROVE PfInv'
<1>1. /\ pc[t] = "wspin" /\ wout = pfl[t] /\ Goto(t, "phase") /\ order' = order
      /\ rin' = rin /\ rout' = rout /\ win' = win /\ wout' = wout
      /\ pfl' = pfl /\ phases' = phases
  BY Zenon DEF PfWriteTurn, pfvars
<1>2. order[1] = t
  <2>1. PICK i \in 1 .. Len(order) : order[i] = t
    BY <1>1, Zenon DEF PfInv, PfQueue, PfQueued
  <2>2. Ahead(wout, i - 1, WriterMod) = wout
    BY <1>1, <2>1, Zenon DEF PfInv, PfQueue
  <2>3. i \in Nat /\ i >= 1 /\ i <= WriterMod /\ wout \in 0 .. (WriterMod - 1)
    BY PfQueueLength, PfSizeFacts DEF PfInv, PfTypeOK
  <2>4. i = 1
    BY <2>2, <2>3, PfSizeFacts DEF Ahead
  <2>5. QED
    BY <2>1, <2>4, Zenon
<1>3. PfQueue'
  BY <1>1, <1>2, PfQueueStays, Zenon DEF PfLabels, PfQueued
<1>4. PfTypeOK'
  BY <1>1, PfMoves, Zenon DEF PfInv, PfTypeOK, PfLabels
<1>5. PfCounts' /\ PfPhases' /\ PfWaits'
  BY <1>1, PfReadersStay, Zenon
<1>6. QED
  BY <1>3, <1>4, <1>5, Zenon DEF PfInv

\* The writer announces its phase: the readers in the lock are the early ones.
LEMMA PfWritePhaseStep == ASSUME PfInv, NEW t \in Threads, PfWritePhase(t) PROVE PfInv'
<1>1. /\ pc[t] = "phase" /\ rin' = (rin + PRES + PHID(pfl[t])) % PfMod
      /\ pfl' = [pfl EXCEPT ![t] = rin] /\ Goto(t, "flush")
      /\ order' = order /\ rout' = rout /\ win' = win /\ wout' = wout /\ phases' = phases
  BY Zenon DEF PfWritePhase
<1>2. /\ pc' \in [Threads -> PfLabels] /\ pc'[t] = "flush"
      /\ \A u \in Threads : u # t => pc'[u] = pc[u]
  BY <1>1, PfMoves, Zenon DEF PfLabels
<1>3. /\ pfl' \in [Threads -> Nat] /\ pfl'[t] = rin
      /\ \A u \in Threads : u # t => pfl'[u] = pfl[u]
  BY <1>1, PfSizeFacts DEF PfInv, PfTypeOK
<1>4. order[1] = t /\ 1 \in 1 .. Len(order)
  <2>1. \E i \in 1 .. Len(order) : order[i] = t
    BY <1>1, Zenon DEF PfInv, PfQueue, PfQueued
  <2>2. order[1] = t
    BY <1>1, Zenon DEF PfInv, PfQueue, PfServing
  <2>3. Len(order) \in Nat
    BY PfQueueLength, SMT
  <2>4. 1 \in 1 .. Len(order)
    BY <2>1, <2>3, SMT
  <2>5. QED
    BY <2>2, <2>4, Zenon
<1>5. pfl[t] = wout
  <2>1. pfl[t] = Ahead(wout, 1 - 1, WriterMod)
    BY <1>1, <1>4, Zenon DEF PfInv, PfQueue
  <2>2. wout \in 0 .. (WriterMod - 1)
    BY Zenon DEF PfInv, PfTypeOK
  <2>3. QED
    BY <2>1, <2>2, PfSizeFacts DEF Ahead
<1>6. \A w \in Threads : pc[w] \notin {"flush", "wr", "wnext"}
  BY <1>1, PfOneServing, Zenon DEF PfServing
<1>7. ~ Announced /\ rin % RINC = 0
  BY <1>6, Zenon DEF PfInv, PfPhases, Announced
<1>8. rin + PRES + PHID(pfl[t]) = rin + Phase
  <2>1. rin \in Nat /\ PRES \in Nat /\ wout % 2 \in Nat
    BY PfSizeFacts DEF PfInv, PfTypeOK, PRES
  <2>2. QED
    BY <1>5, <2>1 DEF Phase, PHID
<1>9. /\ rin' \in 0 .. (PfMod - 1) /\ rin' % RINC = Phase
      /\ rin' \div RINC = rin \div RINC
  <2>1. rin' = (rin + Phase) % PfMod
    BY <1>1, <1>8, Zenon
  <2>2. QED
    BY <1>7, <2>1, PfFacts, PhaseBits, Zenon DEF PfInv, PfTypeOK
<1>10. Phase' = Phase /\ Announced' /\ Arrived' = Arrived /\ Departed' = Departed
  BY <1>1, <1>2, <1>9, Zenon DEF Phase, Announced, Arrived, Departed
<1>11. PfTypeOK'
  BY <1>1, <1>2, <1>3, <1>9, Zenon DEF PfInv, PfTypeOK
<1>12. PfQueue'
  BY <1>1, <1>3, <1>4, PfQueueStays, Zenon DEF PfLabels, PfQueued
<1>13. \A u \in Threads : pc[u] = "rspin" => pfl[u] # Phase
  BY <1>6, Zenon DEF PfInv, PfPhases
<1>14. PfCounts'
  <2>1. Readers' = Readers /\ EarlyReaders' = Readers
    BY <1>1, <1>2, <1>3, <1>10, <1>13, Zenon DEF Readers, EarlyReaders
  <2>2. Arrived' = Ahead(Departed', Cardinality(Readers'), PfCount)
    BY <1>10, <2>1, Zenon DEF PfInv, PfCounts
  <2>3. ASSUME NEW w \in Threads, pc'[w] = "flush"
        PROVE  /\ pfl'[w] % RINC = 0
               /\ pfl'[w] \div RINC = Ahead(Departed', Cardinality(EarlyReaders'), PfCount)
    <3>1. w = t
      BY <1>2, <1>6, <2>3, Zenon
    <3>2. pfl'[w] = rin /\ rin \div RINC = Arrived
      BY <1>3, <3>1, Zenon DEF Arrived
    <3>3. QED
      BY <1>7, <1>10, <2>1, <2>2, <3>2, Zenon
  <2>4. QED
    BY <2>2, <2>3, Zenon DEF PfCounts, Ahead, RINC, PfCount
<1>15. PfPhases'
  <2>1. rin' % RINC = IF Announced' THEN Phase' ELSE 0
    BY <1>9, <1>10, Zenon
  <2>2. /\ \A u \in Threads : pc'[u] = "rspin" => pfl'[u] \in {PRES, PRES + 1}
        /\ \A w \in Threads : pc'[w] \notin {"wr", "wnext"}
    BY <1>2, <1>3, <1>6, Zenon DEF PfInv, PfPhases
  <2>3. QED
    BY <1>2, <2>1, <2>2, Zenon DEF PfPhases, RINC, PRES
<1>16. PfWaits'
  <2>1. \A u \in Threads : phases[u] <= (IF pc'[u] = "rspin" THEN 1 ELSE 0)
    BY <1>1, <1>2, Zenon DEF PfInv, PfWaits
  <2>2. \A u \in Threads : pc'[u] = "rspin" => pfl'[u] # Phase'
    BY <1>2, <1>3, <1>10, <1>13, Zenon
  <2>3. QED
    BY <1>1, <2>1, <2>2, Zenon DEF PfWaits
<1>17. QED
  BY <1>11, <1>12, <1>14, <1>15, <1>16, Zenon DEF PfInv

\* The writer enters when no early reader is left.
LEMMA PfWriteFlushStep == ASSUME PfInv, NEW t \in Threads, PfWriteFlush(t) PROVE PfInv'
<1>1. /\ pc[t] = "flush" /\ rout = pfl[t] /\ Goto(t, "wr")
      /\ phases' = [u \in Threads |-> IF pc[u] = "rspin" THEN phases[u] + 1 ELSE 0]
      /\ pfl' = [pfl EXCEPT ![t] = 0]
      /\ order' = order /\ rin' = rin /\ rout' = rout /\ win' = win /\ wout' = wout
  BY Zenon DEF PfWriteFlush
<1>2. /\ pc' \in [Threads -> PfLabels] /\ pc'[t] = "wr"
      /\ \A u \in Threads : u # t => pc'[u] = pc[u]
  BY <1>1, PfMoves, Zenon DEF PfLabels
<1>3. /\ pfl' \in [Threads -> Nat] /\ phases' \in [Threads -> Nat]
      /\ \A u \in Threads : u # t => pfl'[u] = pfl[u]
  BY <1>1 DEF PfInv, PfTypeOK
<1>4. PfTypeOK'
  BY <1>1, <1>2, <1>3, Zenon DEF PfInv, PfTypeOK
<1>5. order[1] = t
  BY <1>1, Zenon DEF PfInv, PfQueue, PfServing
<1>6. PfQueue'
  BY <1>1, <1>3, <1>5, PfQueueStays, Zenon DEF PfLabels, PfQueued
<1>7. /\ Phase' = Phase /\ Announced /\ Announced'
      /\ Arrived' = Arrived /\ Departed' = Departed
  BY <1>1, <1>2, Zenon DEF Phase, Announced, Arrived, Departed
<1>8. EarlyReaders = {}
  <2>1. Departed = Ahead(Departed, Cardinality(EarlyReaders), PfCount)
    BY <1>1, Zenon DEF PfInv, PfCounts, Departed
  <2>2. Cardinality(EarlyReaders) = 0
    BY <2>1, PfFacts, PfSizeFacts, AheadStep, Zenon
  <2>3. QED
    BY <2>2, PfFacts, FS_EmptySet, Zenon
<1>9. \A u \in Threads : pc[u] # "rd" /\ (pc[u] = "rspin" => pfl[u] = Phase /\ phases[u] = 0)
  BY <1>1, <1>8, Zenon DEF EarlyReaders, PfInv, PfWaits
<1>10. \A w \in Threads : pc'[w] # "flush"
  BY <1>1, <1>2, PfOneServing, Zenon DEF PfServing
<1>11. PfCounts'
  <2>1. Readers' = Readers
    BY <1>1, <1>2, Zenon DEF Readers
  <2>2. Arrived' = Ahead(Departed', Cardinality(Readers'), PfCount)
    BY <1>7, <2>1, Zenon DEF PfInv, PfCounts
  <2>3. QED
    BY <1>10, <2>2, Zenon DEF PfCounts, Ahead, PfCount
<1>12. PfPhases'
  <2>1. rin' % RINC = IF Announced' THEN Phase' ELSE 0
    BY <1>1, <1>7, Zenon DEF PfInv, PfPhases
  <2>2. \A u \in Threads : pc'[u] # "rd" /\ (pc'[u] = "rspin" => pfl'[u] = Phase')
    BY <1>2, <1>3, <1>7, <1>9, Zenon
  <2>3. \A u \in Threads : pc'[u] = "rspin" => pfl'[u] \in {PRES, PRES + 1}
    BY <1>2, <1>3, Zenon DEF PfInv, PfPhases
  <2>4. QED
    BY <1>2, <2>1, <2>2, <2>3, Zenon DEF PfPhases, RINC, PRES
<1>13. PfWaits'
  <2>1. ASSUME NEW u \in Threads PROVE phases'[u] <= (IF pc'[u] = "rspin" THEN 1 ELSE 0)
    <3>1. CASE pc[u] = "rspin"
      BY <1>1, <1>2, <1>9, <3>1
    <3>2. CASE pc[u] # "rspin"
      BY <1>1, <1>2, <3>2
    <3>3. QED
      BY <3>1, <3>2, Zenon
  <2>2. QED
    BY <1>10, <2>1, Zenon DEF PfWaits
<1>14. QED
  BY <1>4, <1>6, <1>11, <1>12, <1>13, Zenon DEF PfInv

LEMMA PfWriteUnlockStep == ASSUME PfInv, NEW t \in Threads, PfWriteUnlock(t) PROVE PfInv'
<1>1. /\ pc[t] = "wr" /\ rin' = LSB(rin) /\ Goto(t, "wnext")
      /\ order' = order /\ rout' = rout /\ win' = win /\ wout' = wout
      /\ pfl' = pfl /\ phases' = phases
  BY Zenon DEF PfWriteUnlock
<1>2. /\ pc' \in [Threads -> PfLabels] /\ pc'[t] = "wnext"
      /\ \A u \in Threads : u # t => pc'[u] = pc[u]
  BY <1>1, PfMoves, Zenon DEF PfLabels
<1>3. rin' \in 0 .. (PfMod - 1) /\ rin' % RINC = 0 /\ rin' \div RINC = rin \div RINC
  BY <1>1, PfFacts, PhaseBits, Zenon DEF PfInv, PfTypeOK
<1>4. PfTypeOK'
  BY <1>1, <1>2, <1>3, Zenon DEF PfInv, PfTypeOK
<1>5. order[1] = t
  BY <1>1, Zenon DEF PfInv, PfQueue, PfServing
<1>6. PfQueue'
  BY <1>1, <1>5, PfQueueStays, Zenon DEF PfLabels, PfQueued
<1>7. \A w \in Threads : pc'[w] \notin {"flush", "wr"}
  BY <1>1, <1>2, PfOneServing, Zenon DEF PfServing
<1>8. /\ Phase' = Phase /\ ~ Announced' /\ Arrived' = Arrived /\ Departed' = Departed
  BY <1>1, <1>3, <1>7, Zenon DEF Phase, Announced, Arrived, Departed
<1>9. PfCounts'
  <2>1. Readers' = Readers
    BY <1>1, <1>2, Zenon DEF Readers
  <2>2. Arrived' = Ahead(Departed', Cardinality(Readers'), PfCount)
    BY <1>8, <2>1, Zenon DEF PfInv, PfCounts
  <2>3. QED
    BY <1>7, <2>2, Zenon DEF PfCounts, Ahead, PfCount
<1>10. PfPhases'
  <2>1. rin' % RINC = IF Announced' THEN Phase' ELSE 0
    BY <1>3, <1>8, Zenon
  <2>2. \A u \in Threads : pc'[u] = "rspin" => pfl'[u] = Phase' /\ pfl'[u] \in {PRES, PRES + 1}
    BY <1>1, <1>2, <1>8, Zenon DEF PfInv, PfPhases
  <2>3. QED
    BY <1>2, <1>7, <2>1, <2>2, Zenon DEF PfPhases, RINC, PRES
<1>11. PfWaits'
  <2>1. \A u \in Threads : phases[u] <= (IF pc'[u] = "rspin" THEN 1 ELSE 0)
    BY <1>1, <1>2, Zenon DEF PfInv, PfWaits
  <2>2. QED
    BY <1>1, <1>7, <2>1, Zenon DEF PfWaits
<1>12. QED
  BY <1>4, <1>6, <1>9, <1>10, <1>11, Zenon DEF PfInv

\* The next phase has the other bits.
LEMMA PfWriteNextStep == ASSUME PfInv, NEW t \in Threads, PfWriteNext(t) PROVE PfInv'
<1>1. /\ pc[t] = "wnext" /\ wout' = (wout + 1) % WriterMod /\ Goto(t, "out")
      /\ rin' = rin /\ rout' = rout /\ win' = win /\ pfl' = pfl /\ phases' = phases
  BY Zenon DEF PfWriteNext
<1>2. /\ pc' \in [Threads -> PfLabels] /\ pc'[t] = "out"
      /\ \A u \in Threads : u # t => pc'[u] = pc[u]
  BY <1>1, PfMoves, Zenon DEF PfLabels
<1>3. PfQueue' /\ order' \in Seq(Threads) /\ wout' \in 0 .. (WriterMod - 1)
  BY PfQueueLeaves, Zenon
<1>4. PfTypeOK'
  BY <1>1, <1>2, <1>3, Zenon DEF PfInv, PfTypeOK
<1>5. \A w \in Threads : pc[w] \notin {"flush", "wr"} /\ pc'[w] \notin {"flush", "wr", "wnext"}
  BY <1>1, <1>2, PfOneServing, Zenon DEF PfServing
<1>6. Phase' # Phase
  <2>1. wout + 1 \in Nat /\ wout \in Nat
    BY PfSizeFacts DEF PfInv, PfTypeOK
  <2>2. wout' % 2 = (wout + 1) % 2
    BY <1>1, <2>1, PfSizeFacts, RemainderParity, Zenon
  <2>3. wout' % 2 # wout % 2
    BY <2>1, <2>2
  <2>4. Phase = 2 + (wout % 2) /\ Phase' = 2 + (wout' % 2)
    BY Zenon DEF Phase, PHID, PRES
  <2>5. wout' \in Int
    BY <1>3
  <2>6. wout' % 2 \in Int /\ wout % 2 \in Int
    BY <2>1, <2>5
  <2>7. QED
    BY <2>3, <2>4, <2>6
<1>7. /\ ~ Announced /\ ~ Announced' /\ Arrived' = Arrived /\ Departed' = Departed
  BY <1>1, <1>5, Zenon DEF Announced, Arrived, Departed
<1>8. PfCounts'
  <2>1. Readers' = Readers
    BY <1>1, <1>2, Zenon DEF Readers
  <2>2. Arrived' = Ahead(Departed', Cardinality(Readers'), PfCount)
    BY <1>7, <2>1, Zenon DEF PfInv, PfCounts
  <2>3. QED
    BY <1>5, <2>2, Zenon DEF PfCounts, Ahead, PfCount
<1>9. PfPhases'
  <2>1. rin' % RINC = IF Announced' THEN Phase' ELSE 0
    BY <1>1, <1>7, Zenon DEF PfInv, PfPhases
  <2>2. \A u \in Threads : pc'[u] = "rspin" => pfl'[u] = Phase /\ pfl'[u] \in {PRES, PRES + 1}
    BY <1>1, <1>2, Zenon DEF PfInv, PfPhases
  <2>3. QED
    BY <1>5, <1>6, <2>1, <2>2, Zenon DEF PfPhases, RINC, PRES
<1>10. PfWaits'
  <2>1. \A u \in Threads : phases[u] <= (IF pc'[u] = "rspin" THEN 1 ELSE 0)
    BY <1>1, <1>2, Zenon DEF PfInv, PfWaits
  <2>2. QED
    BY <1>1, <1>5, <2>1, Zenon DEF PfWaits
<1>11. QED
  BY <1>3, <1>4, <1>8, <1>9, <1>10, Zenon DEF PfInv

-----------------------------------------------------------------------------
LEMMA PfInvStep == PfInv /\ [PfNext]_<<base, pfvars>> => PfInv'
<1> SUFFICES ASSUME PfInv, [PfNext]_<<base, pfvars>> PROVE PfInv'
  BY Zenon
<1>1. CASE UNCHANGED <<base, pfvars>>
  <2>1. /\ pc' = pc /\ order' = order /\ rin' = rin /\ rout' = rout /\ win' = win
        /\ wout' = wout /\ pfl' = pfl /\ phases' = phases
    BY <1>1, Zenon DEF base, pfvars
  <2>2. PfTypeOK' /\ PfQueue'
    BY <2>1, Zenon DEF PfInv, PfTypeOK, PfQueue, Ahead
  <2>3. /\ Arrived' = Arrived /\ Departed' = Departed /\ Readers' = Readers
        /\ Phase' = Phase /\ EarlyReaders' = EarlyReaders
        /\ Announced' <=> Announced
    BY <2>1, Zenon DEF Arrived, Departed, Readers, EarlyReaders, Phase, PHID, Announced
  <2>4. PfCounts' /\ PfPhases' /\ PfWaits'
    BY <2>1, <2>3, Zenon DEF PfInv, PfCounts, PfPhases, PfWaits, Ahead
  <2>5. QED
    BY <2>2, <2>4, Zenon DEF PfInv
<1>2. QED
  BY <1>1, PfReadLockStep, PfReadSpinStep, PfReadUnlockStep, PfWriteLockStep, PfWriteTurnStep,
     PfWritePhaseStep, PfWriteFlushStep, PfWriteUnlockStep, PfWriteNextStep, Zenon
     DEF PfNext, PfCall, PfStep

\* For fewer threads than rd.in can count and no more than wr.in can, whatever
\* the width of the words: a writer of the phase-fair lock is alone, writers enter
\* in the order in which they asked, and a reader waits for one write phase at
\* most.  The words wrap, and a reader learns from one bit that the phase it met
\* has ended: it cannot mistake a later phase for that one, for the next writer
\* does not enter before the reader has left.
THEOREM PfExclusive == PfSpec => [](Exclusion /\ InOrder /\ PhaseFair)
<1>1. PfInv => Exclusion /\ InOrder /\ PhaseFair
  <2> SUFFICES ASSUME PfInv PROVE Exclusion /\ InOrder /\ PhaseFair
    BY Zenon
  <2>1. \A t \in Threads : pc[t] = "wr" => order[1] = t
    BY Zenon DEF PfInv, PfQueue, PfServing
  <2>2. \A t, u \in Threads : pc[t] = "wr" => pc[u] # "rd"
    BY Zenon DEF PfInv, PfPhases
  <2>3. Exclusion
    BY <2>1, <2>2, Zenon DEF Exclusion
  <2>4. order # <<>> => Head(order) = order[1]
    BY PfQueueLength
  <2>5. PhaseFair
    BY DEF PfInv, PfTypeOK, PfWaits, PhaseFair
  <2>6. QED
    BY <2>1, <2>3, <2>4, <2>5, Zenon DEF InOrder
<1>2. QED
  BY PfInvInit, PfInvStep, <1>1, PTL DEF PfSpec
=============================================================================
