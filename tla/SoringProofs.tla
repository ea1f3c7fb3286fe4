---------------------------- MODULE SoringProofs ----------------------------
(***************************************************************************)
(* Proofs about the staged ordered ring.  Every stage has a region of       *)
(* positions from its tail, or from where a finalize has got, to its head.  *)
(* The regions do not overlap; each acquired or released batch of elements  *)
(* lies in the region of its stage, apart from the others, and no state but *)
(* that of the first position of a batch is other than zero.                *)
(***************************************************************************)
EXTENDS Soring, TLAPS

-----------------------------------------------------------------------------
(* Quotients and remainders, for the words that wrap                        *)

\* A number is determined by quotient and remainder.
LEMMA DivMod ==
  ASSUME NEW a \in Int, NEW b \in Nat, b > 0
  PROVE  /\ a = b * (a \div b) + (a % b)
         /\ a \div b \in Int
         /\ a % b \in 0 .. (b - 1)
OBVIOUS

\* A multiple of b that is smaller than b in absolute value is 0.
LEMMA SmallMultiple ==
  ASSUME NEW b \in Nat, b > 0, NEW q \in Int, NEW r \in Int,
         -b < r, r < b, b * q + r = 0
  PROVE  r = 0
<1>1. CASE q = 0
  BY <1>1
<1>2. CASE q >= 1
  <2>1. b * q >= b
    BY <1>2
  <2>2. QED
    BY <2>1
<1>3. CASE q <= -1
  <2>1. b * q <= -b
    BY <1>3
  <2>2. QED
    BY <2>1
<1>4. QED
  BY <1>1, <1>2, <1>3

\* Two numbers less than b apart with the same remainder are equal.
LEMMA SameRemainder ==
  ASSUME NEW b \in Nat, b > 0, NEW x \in Int, NEW y \in Int,
         x - y < b, y - x < b, x % b = y % b
  PROVE  x = y
<1> DEFINE qx == x \div b
           qy == y \div b
<1>1. x = b * qx + (x % b) /\ y = b * qy + (y % b) /\ qx \in Int /\ qy \in Int
  BY DivMod, Zenon
<1> HIDE DEF qx, qy
<1>2. x % b \in Int
  BY DivMod
<1>3. b * (qx - qy) = b * qx - b * qy
  BY <1>1
<1>4. b * (qx - qy) + (y - x) = 0
  BY <1>1, <1>2, <1>3
<1>5. qx - qy \in Int /\ y - x \in Int /\ -b < y - x /\ y - x < b
  BY <1>1
<1>6. y - x = 0
  BY <1>4, <1>5, SmallMultiple, Zenon
<1>7. QED
  BY <1>6

\* Adding a multiple does not change the remainder.
LEMMA RemainderShift ==
  ASSUME NEW b \in Nat, b > 0, NEW x \in Int, NEW y \in Int, NEW q \in Int,
         x = y + b * q, 0 <= y, y < b
  PROVE  x % b = y
<1> DEFINE d == x \div b
           r == x % b
<1>1. x = b * d + r /\ d \in Int /\ r \in 0 .. (b - 1)
  BY DivMod, Zenon
<1> HIDE DEF d, r
<1>2. b * (d - q) = b * d - b * q
  BY <1>1
<1>3. b * (d - q) + (r - y) = 0
  BY <1>1, <1>2
<1>4. d - q \in Int /\ r - y \in Int /\ -b < r - y /\ r - y < b
  BY <1>1
<1>5. r - y = 0
  BY <1>3, <1>4, SmallMultiple, Zenon
<1>6. r = y
  BY <1>5, <1>1
<1>7. QED
  BY <1>6, Zenon DEF r

\* A difference of words is exact when it fits into one.
LEMMA WordExact ==
  ASSUME NEW m \in Nat, m > 0, NEW c \in Int, NEW x \in Int, NEW y \in Int,
         0 <= c + x - y, c + x - y < m
  PROVE  (c + (x % m) - (y % m)) % m = c + x - y
<1> DEFINE qx == x \div m
           qy == y \div m
           rx == x % m
           ry == y % m
<1>1. x = m * qx + rx /\ y = m * qy + ry
      /\ qx \in Int /\ qy \in Int /\ rx \in Int /\ ry \in Int
  BY DivMod
<1> HIDE DEF qx, qy, rx, ry
<1>2. m * (qy - qx) = m * qy - m * qx
  BY <1>1
<1> DEFINE z == c + rx - ry
           d == c + x - y
           q == qy - qx
<1>3. z \in Int /\ d \in Int /\ q \in Int /\ z = d + m * q /\ 0 <= d /\ d < m
  BY <1>1, <1>2
<1> HIDE DEF z, d, q
<1>4. z % m = d
  BY <1>3, RemainderShift, Zenon
<1> QED  BY <1>4, Zenon DEF z, d, rx, ry

\* for the number, and is not above the range.
LEMMA WordMask ==
  ASSUME NEW m \in Nat, m > 0, NEW z \in Nat, z > 0, m % z = 0, NEW p \in Int
  PROVE  (p % m) % z = p % z /\ z <= m
<1> DEFINE k == m \div z
           a == p \div m
           r == p % m
           b == r \div z
           e == r % z
<1>1. m = z * k /\ k \in Int
  BY DivMod
<1>2. p = m * a + r /\ a \in Int /\ r \in Int
  BY DivMod
<1>3. r = z * b + e /\ b \in Int /\ e \in 0 .. (z - 1)
  BY <1>2, DivMod, Zenon
<1> HIDE DEF k, a, r, b, e
<1>4. m * a = z * (k * a) /\ k * a \in Int
  BY <1>1, <1>2
<1> DEFINE ka == k * a
           q == ka + b
<1>5. m * a = z * ka /\ ka \in Int
  BY <1>4, Zenon
<1> HIDE DEF ka
<1>6. z * (ka + b) = z * ka + z * b
  BY <1>3, <1>5
<1>7. p = e + z * q /\ q \in Int
  BY <1>2, <1>3, <1>5, <1>6
<1> HIDE DEF q
<1>8. e \in Int /\ 0 <= e /\ e < z
  BY <1>3
<1>9. p % z = e
  BY <1>7, <1>8, RemainderShift, Zenon
<1>10. (p % m) % z = p % z
  BY <1>9, Zenon DEF e, r
<1>11. z <= m
  <2>1. SUFFICES ASSUME k <= 0 PROVE FALSE
    BY <1>1
  <2>2. z * k <= 0
    BY <2>1, <1>1
  <2> QED  BY <2>2, <1>1
<1> QED  BY <1>10, <1>11, Zenon

-----------------------------------------------------------------------------
(* The inductive invariant                                                  *)

Labels == {"idle", "fload", "fcas", "fhead", "fwalk", "fstore", "atail", "again", "acas",
           "astate", "own", "rfinish", "dtail"}
Elements == [no : Int, passed : Nat]
Locals == [pc : Labels, peek : BOOLEAN, s : Nat, num : Nat, beh : Behavior, retry : BOOLEAN,
           n : Nat, head : Nat, avail : Nat, objs : Seq(Elements), fs : Nat, maxn : Nat,
           ot : Nat, fn : Nat, fi : Nat, ret : {"idle", "again"}]
States == [tok : Nat, st : {"none", "start", "finish"}, num : Nat]

SoType ==
  /\ nbStage \in StageCounts
  /\ prod \in [head : Nat, tail : Nat] /\ cons \in [head : Nat, tail : Nat]
  /\ stg \in [Stages -> [head : Nat, tail : Nat, sync : {0, 1}]]
  /\ slot \in [Index -> States] /\ elem \in [Index -> Elements]
  /\ tkr \in Nat /\ usr \in [Users -> Locals]

\* The positions in their order, every pair of them.
SoOrder ==
  /\ cons.tail <= cons.head
  /\ \A s \in Stages :
       cons.head <= stg[s].tail /\ stg[s].tail <= stg[s].head /\ stg[s].head <= prod.tail
  /\ \A r, s \in Stages : r < s => stg[s].head <= stg[r].tail
  /\ prod.tail + tkr <= prod.head /\ prod.head <= cons.tail + SoCapacity
  /\ tkr = 0 => prod.head = prod.tail

\* Where a call is; v is the record of its user.
Finalizing(v) == v.pc \in {"fhead", "fwalk", "fstore"}
Claims(v) == v.pc \in {"astate", "own", "rfinish"}
Marked(v) == v.pc \in {"own", "rfinish"}
Loading(v) == v.pc \in {"atail", "acas"}

\* (ss: the stages)
CallOK(ss, u, v) ==
  /\ v.s \in ss /\ v.fs \in ss
  /\ Claims(v) \/ Loading(v) => u \in Workers
  /\ v.pc = "dtail" => u = Consumer
  /\ Loading(v) /\ ~ v.retry => v.s > 0
  /\ v.pc \notin {"fwalk", "fstore"} => v.fi = 0

\* A head that was read is the present one or an older one, and what was found
\* behind it is still there.  (g: the stages, p: the producer's tail)
Before(g, p, s) == IF s = 0 THEN p ELSE g[s - 1].tail
LoadOK(v, g, p) ==
  Loading(v) =>
    /\ v.head <= g[v.s].head /\ g[v.s].head - v.head < SoMod
    /\ v.pc = "acas" =>
         /\ v.n > 0
         /\ v.head = g[v.s].head => v.head + v.n <= Before(g, p, v.s)

\* The elements e at the positions from a to b - 1 have passed k stages.
Passed(e, a, b, k) == \A p \in a .. b - 1 : e[Idx(p)] = ElemAt(p, k)

\* What the finalize of a stage has not yet gone over.
Region(g, us, s) ==
  {q \in g[s].tail .. g[s].head - 1 :
     \A u \in Users : Finalizing(us[u]) /\ us[u].fs = s => us[u].ot + us[u].fi <= q}

FinalizeOK(v, g, e) ==
  Finalizing(v) =>
    /\ g[v.fs].sync = 1 /\ v.ot = g[v.fs].tail
    /\ v.ot + v.fi <= g[v.fs].head
    /\ v.pc = "fwalk" => v.ot + v.fn <= g[v.fs].head
    /\ Passed(e, v.ot, v.ot + v.fi, v.fs + 1)
OneFinalizes ==
  \A u, v \in Users :
    Finalizing(usr[u]) /\ Finalizing(usr[v]) /\ usr[u].fs = usr[v].fs => u = v

\* A batch that a worker has acquired.  (sl: the states)
ClaimOK(v, h, sl, e) ==
  Claims(v) =>
    /\ v.n > 0 /\ v.head + v.n <= h
    /\ Marked(v) => sl[Idx(v.head)] = Start(v.s, v.head, v.n)
    /\ ~ Marked(v) => sl[Idx(v.head)] = Zero
    /\ v.pc # "rfinish" => Passed(e, v.head, v.head + v.n, v.s)
    /\ v.pc = "rfinish" => Passed(e, v.head, v.head + v.n, v.s + 1)
    /\ v.pc = "own" => Len(v.objs) = v.n /\ Are(v.objs, v.head, v.s)

\* A batch that is released.
Released(sl, q) == sl[Idx(q)].st = "finish"
End(sl, q) == q + sl[Idx(q)].num
ReleasedOK(sl, e, h, s, q) ==
  /\ sl[Idx(q)].tok = Ftkn(q, s) /\ sl[Idx(q)].num > 0
  /\ End(sl, q) <= h /\ Passed(e, q, End(sl, q), s + 1)

\* Batches do not overlap.
TwoClaims(v, w) ==
  Claims(v) /\ Claims(w) /\ v.s = w.s => v.head + v.n <= w.head \/ w.head + w.n <= v.head
TwoReleased(sl, q, r) == Released(sl, q) /\ Released(sl, r) /\ q < r => End(sl, q) <= r
OneOfEach(sl, s, q, v) ==
  Released(sl, q) /\ Claims(v) /\ v.s = s => End(sl, q) <= v.head \/ v.head + v.n <= q

\* Every state that is not zero is that of a batch.
SlotOK(ss, sl, us, g, i) ==
  /\ sl[i].st = "none" => sl[i] = Zero
  /\ sl[i].st = "start" => \E u \in Users : Marked(us[u]) /\ Idx(us[u].head) = i
  /\ sl[i].st = "finish" => \E s \in ss : \E q \in Region(g, us, s) : Idx(q) = i

DequeueOK ==
  LET u == usr[Consumer] IN
  IF u.pc = "dtail"
  THEN Len(u.objs) = cons.head - cons.tail /\ Are(u.objs, cons.tail, nbStage)
  ELSE u.objs = <<>> /\ cons.head = cons.tail

CallsOK == \A u \in Users : CallOK(Stages, u, usr[u]) /\ LoadOK(usr[u], stg, prod.tail)
FinalizesOK == OneFinalizes /\ \A u \in Users : FinalizeOK(usr[u], stg, elem)
ClaimsOK ==
  \A u \in Users :
    /\ Claims(usr[u]) => usr[u].head \in Region(stg, usr, usr[u].s)
    /\ ClaimOK(usr[u], stg[usr[u].s].head, slot, elem)
ClaimsApart == \A u, v \in Users : u # v => TwoClaims(usr[u], usr[v])
BatchesOK ==
  \A s \in Stages : \A q \in Region(stg, usr, s) :
    /\ Released(slot, q) => ReleasedOK(slot, elem, stg[s].head, s, q)
    /\ \A r \in Region(stg, usr, s) : TwoReleased(slot, q, r)
    /\ \A u \in Users : OneOfEach(slot, s, q, usr[u])
SlotsOK == \A i \in Index : SlotOK(Stages, slot, usr, stg, i)

\* The elements that wait for a stage, and for the consumer.
FrontOK ==
  /\ \A s \in Stages : Passed(elem, stg[s].head, Before(stg, prod.tail + tkr, s), s)
  /\ Passed(elem, cons.tail, stg[LastStage].tail, nbStage)

SoInv ==
  /\ SoType /\ SoOrder
  /\ CallsOK /\ FinalizesOK /\ ClaimsOK /\ ClaimsApart
  /\ BatchesOK /\ SlotsOK /\ FrontOK /\ DequeueOK

-----------------------------------------------------------------------------
(* Positions and slots                                                      *)

LEMMA SoSizes ==
  /\ SoMod \in Nat /\ SoMod > 0 /\ SoSize \in Nat /\ SoSize > 0
  /\ SoCapacity \in Nat /\ SoCapacity < SoSize /\ SoSize <= SoMod
  /\ SoMod % SoSize = 0 /\ SoBase \in Nat
<1>1. /\ SoMod \in Nat /\ SoMod > 0 /\ SoSize \in Nat /\ SoSize > 0
      /\ SoCapacity \in Nat /\ SoCapacity < SoSize
      /\ SoMod % SoSize = 0 /\ SoBase \in Nat /\ 0 \in Int
  BY SoringSizes, SMT
<1>2. SoSize <= SoMod
  BY <1>1, WordMask, Zenon
<1> QED  BY <1>1, <1>2, Zenon

\* r->nb_stage is not zero.
LEMMA StageFacts ==
  ASSUME nbStage \in StageCounts
  PROVE  /\ nbStage \in Nat /\ nbStage > 0 /\ Stages \subseteq Nat
         /\ 0 \in Stages /\ LastStage \in Stages /\ LastStage = nbStage - 1
         /\ \A s \in Stages : s > 0 => s - 1 \in Stages
         /\ \A s \in Stages : s # LastStage => s < LastStage
BY SoringSizes, SMT DEF Stages, LastStage

\* Masking a position gives an index.
LEMMA IdxIn ==
  ASSUME NEW p \in Int
  PROVE  Idx(p) = p % SoSize /\ Idx(p) \in Index
<1>1. Idx(p) = p % SoSize
  BY SoSizes, WordMask, Zenon DEF Idx, U32
<1>2. p % SoSize \in 0 .. SoSize - 1
  BY SoSizes, DivMod, Zenon
<1> QED  BY <1>1, <1>2, Zenon DEF Index

\* Positions less than the size apart have different indices.
LEMMA IdxApart ==
  ASSUME NEW p \in Int, NEW q \in Int, p - q < SoSize, q - p < SoSize, Idx(p) = Idx(q)
  PROVE  p = q
<1>1. p % SoSize = q % SoSize
  BY IdxIn, Zenon
<1> DEFINE m == SoSize
<1> HIDE DEF m
<1>2. m \in Nat /\ m > 0 /\ p - q < m /\ q - p < m /\ p % m = q % m
  BY <1>1, SoSizes, Zenon DEF m
<1> QED  BY <1>2, SameRemainder, Zenon

\* Comparing words compares positions less than a lap apart, ...
LEMMA WordSame ==
  ASSUME NEW p \in Int, NEW q \in Int, p - q < SoMod, q - p < SoMod, U32(p) = U32(q)
  PROVE  p = q
<1>1. p % SoMod = q % SoMod
  BY Zenon DEF U32
<1> DEFINE m == SoMod
<1> HIDE DEF m
<1>2. m \in Nat /\ m > 0 /\ p - q < m /\ q - p < m /\ p % m = q % m
  BY <1>1, SoSizes, Zenon DEF m
<1> QED  BY <1>2, SameRemainder, Zenon

\* ... and subtracting them subtracts the positions.
LEMMA DistIs ==
  ASSUME NEW c \in Int, NEW p \in Int, NEW q \in Int, 0 <= c + q - p, c + q - p < SoMod
  PROVE  U32(c + U32(q) - U32(p)) = c + q - p
BY SoSizes, WordExact, ZenonT(60) DEF U32

LEMMA DistExact ==
  ASSUME NEW p \in Int, NEW q \in Int, 0 <= q - p, q - p < SoMod
  PROVE  Dist(p, q) = q - p
<1>1. U32(p) \in Int /\ U32(q) \in Int
  BY SoSizes, DivMod, SMT DEF U32
<1>2. 0 + q - p = q - p /\ 0 + U32(q) - U32(p) = U32(q) - U32(p) /\ 0 \in Int
  BY <1>1, SMT
<1>3. U32(0 + U32(q) - U32(p)) = 0 + q - p
  BY <1>2, DistIs, Zenon
<1> QED  BY <1>2, <1>3, Zenon DEF Dist

\* A word is a natural number.
LEMMA WordNat ==
  ASSUME NEW x \in Int PROVE U32(x) \in Nat /\ Idx(x) \in Index
BY SoSizes, DivMod, IdxIn, SMT DEF U32


-----------------------------------------------------------------------------
(* The state                                                                *)

LEMMA LocalFields ==
  ASSUME NEW v \in Locals
  PROVE  /\ v.pc \in Labels /\ v.s \in Nat /\ v.num \in Nat /\ v.beh \in Behavior
         /\ v.retry \in BOOLEAN /\ v.n \in Nat /\ v.head \in Nat /\ v.avail \in Nat
         /\ v.objs \in Seq(Elements) /\ v.fs \in Nat /\ v.maxn \in Nat /\ v.ot \in Nat
         /\ v.fn \in Nat /\ v.fi \in Nat /\ v.ret \in {"idle", "again"} /\ v.peek \in BOOLEAN
BY Zenon DEF Locals

LEMMA StageFields ==
  ASSUME SoType, NEW s \in Stages
  PROVE  /\ stg[s] \in [head : Nat, tail : Nat, sync : {0, 1}]
         /\ stg[s].head \in Nat /\ stg[s].tail \in Nat /\ stg[s].sync \in {0, 1}
         /\ s \in Nat
BY StageFacts, Zenon DEF SoType

LEMMA EndFields ==
  ASSUME SoType
  PROVE  /\ prod.head \in Nat /\ prod.tail \in Nat /\ cons.head \in Nat /\ cons.tail \in Nat
         /\ tkr \in Nat
BY Zenon DEF SoType

\* The positions of a stage between those of the consumer and of the producer.
LEMMA Window ==
  ASSUME SoType, SoOrder, NEW s \in Stages
  PROVE  /\ cons.tail <= stg[s].tail /\ cons.head <= stg[s].tail
         /\ stg[s].tail <= stg[s].head /\ stg[s].head <= prod.tail
         /\ prod.tail <= prod.head /\ prod.head <= cons.tail + SoCapacity
         /\ stg[s].head - stg[s].tail < SoMod
<1>1. /\ cons.tail <= cons.head /\ cons.head <= stg[s].tail /\ stg[s].tail <= stg[s].head
      /\ stg[s].head <= prod.tail /\ prod.tail + tkr <= prod.head
      /\ prod.head <= cons.tail + SoCapacity
  BY Zenon DEF SoOrder
<1> QED  BY <1>1, StageFields, EndFields, SoSizes, SMT

\* Live positions are told apart by their indices.
LEMMA Live ==
  ASSUME SoType, NEW p \in Int, NEW q \in Int, cons.tail <= p, p < cons.tail + SoSize,
         cons.tail <= q, q < cons.tail + SoSize, Idx(p) = Idx(q)
  PROVE  p = q
<1>1. p - q < SoSize /\ q - p < SoSize
  BY EndFields, SoSizes, SMT
<1> QED  BY <1>1, IdxApart, Zenon

LEMMA InRegion ==
  ASSUME SoType, SoOrder, NEW s \in Stages, NEW q \in Region(stg, usr, s)
  PROVE  /\ q \in Nat /\ q \in Int /\ stg[s].tail <= q /\ q < stg[s].head
         /\ cons.tail <= q /\ q < prod.tail /\ q < cons.tail + SoSize
         /\ \A u \in Users : Finalizing(usr[u]) /\ usr[u].fs = s => usr[u].ot + usr[u].fi <= q
<1>1. q \in stg[s].tail .. stg[s].head - 1
      /\ \A u \in Users : Finalizing(usr[u]) /\ usr[u].fs = s => usr[u].ot + usr[u].fi <= q
  BY Zenon DEF Region
<1>2. /\ q \in Nat /\ q \in Int /\ stg[s].tail <= q /\ q < stg[s].head
      /\ cons.tail <= q /\ q < prod.tail /\ q < cons.tail + SoSize
  BY <1>1, Window, StageFields, EndFields, SoSizes, SMT
<1> QED  BY <1>1, <1>2, Zenon

LEMMA IsInRegion ==
  ASSUME SoType, NEW s \in Stages, NEW q \in Int, stg[s].tail <= q, q < stg[s].head,
         \A u \in Users : Finalizing(usr[u]) /\ usr[u].fs = s => usr[u].ot + usr[u].fi <= q
  PROVE  q \in Region(stg, usr, s)
<1>1. q \in stg[s].tail .. stg[s].head - 1
  BY StageFields, SMT
<1> QED  BY <1>1, Zenon DEF Region

\* The stages do not overlap.
LEMMA StagesApart ==
  ASSUME SoType, SoOrder, NEW s \in Stages, NEW r \in Stages, NEW q \in Int,
         stg[s].tail <= q, q < stg[s].head, stg[r].tail <= q, q < stg[r].head
  PROVE  r = s
<1>1. s \in Nat /\ r \in Nat
  BY StageFields, Zenon
<1>2. CASE r < s
  <2>1. stg[s].head <= stg[r].tail
    BY <1>2, Zenon DEF SoOrder
  <2> QED  BY <2>1, StageFields, SMT
<1>3. CASE s < r
  <2>1. stg[r].head <= stg[s].tail
    BY <1>3, Zenon DEF SoOrder
  <2> QED  BY <2>1, StageFields, SMT
<1> QED  BY <1>1, <1>2, <1>3, SMT

LEMMA SameBatch ==
  ASSUME SoType, SoOrder, NEW s \in Stages, NEW r \in Stages,
         NEW q \in Region(stg, usr, s), NEW p \in Region(stg, usr, r), Idx(q) = Idx(p)
  PROVE  q = p /\ s = r
<1>1. /\ q \in Int /\ stg[s].tail <= q /\ q < stg[s].head
      /\ cons.tail <= q /\ q < cons.tail + SoSize
  BY InRegion, Zenon
<1>2. /\ p \in Int /\ stg[r].tail <= p /\ p < stg[r].head
      /\ cons.tail <= p /\ p < cons.tail + SoSize
  BY InRegion, Zenon
<1>3. q = p
  BY <1>1, <1>2, Live, Zenon
<1>4. s = r
  BY <1>1, <1>2, <1>3, StagesApart, Zenon
<1> QED  BY <1>3, <1>4, Zenon

\* What __enqueue_elems leaves in the table.
LEMMA StoredIs ==
  ASSUME SoType, NEW p \in Nat, NEW objs \in Seq(Elements), Len(objs) <= SoSize
  PROVE  /\ Stored(p, objs) \in [Index -> Elements]
         /\ \A k \in 1 .. Len(objs) : Stored(p, objs)[Idx(p + k - 1)] = objs[k]
         /\ \A i \in Index : (\A k \in 1 .. Len(objs) : Idx(p + k - 1) # i) =>
              Stored(p, objs)[i] = elem[i]
<1>1. Len(objs) \in Nat /\ DOMAIN objs = 1 .. Len(objs) /\ \A k \in 1 .. Len(objs) : objs[k] \in Elements
  BY SMT
<1> DEFINE here(i) == {k \in DOMAIN objs : Idx(p + k - 1) = i}
<1>2. Stored(p, objs) =
        [i \in Index |-> IF here(i) # {} THEN objs[CHOOSE k \in here(i) : TRUE] ELSE elem[i]]
  BY Zenon DEF Stored
<1>3. \A i : here(i) # {} => (CHOOSE k \in here(i) : TRUE) \in here(i)
  <2> HIDE DEF here
  <2> QED  BY Zenon
<1>4. \A i : \A k \in here(i) : k \in 1 .. Len(objs) /\ Idx(p + k - 1) = i
  BY <1>1, Zenon
<1>5. \A k \in 1 .. Len(objs) : k \in here(Idx(p + k - 1))
  BY <1>1, Zenon
<1>6. \A i : (\A k \in 1 .. Len(objs) : Idx(p + k - 1) # i) => here(i) = {}
  BY <1>1, Zenon
<1> HIDE DEF here
<1>7. ASSUME NEW i \in Index
      PROVE  (IF here(i) # {} THEN objs[CHOOSE k \in here(i) : TRUE] ELSE elem[i]) \in Elements
  <2>1. elem[i] \in Elements
    BY Zenon DEF SoType
  <2>2. here(i) # {} => objs[CHOOSE k \in here(i) : TRUE] \in Elements
    BY <1>1, <1>3, <1>4, Zenon
  <2> QED  BY <2>1, <2>2, Zenon
<1>8. Stored(p, objs) \in [Index -> Elements]
  BY <1>2, <1>7, Zenon
<1>9. ASSUME NEW k \in 1 .. Len(objs) PROVE Stored(p, objs)[Idx(p + k - 1)] = objs[k]
  <2>1. PICK i : i = Idx(p + k - 1)
    BY Zenon
  <2>2. p + k - 1 \in Int /\ k \in Int
    BY <1>1, SMT
  <2>3. i \in Index /\ k \in here(i)
    BY <1>5, <2>1, <2>2, IdxIn, Zenon
  <2>4. PICK j : j = CHOOSE h \in here(i) : TRUE
    BY Zenon
  <2>5. j \in 1 .. Len(objs) /\ Idx(p + j - 1) = i
    BY <1>3, <1>4, <2>3, <2>4, Zenon
  <2>6. p + j - 1 \in Int /\ (p + j - 1) - (p + k - 1) < SoSize /\ (p + k - 1) - (p + j - 1) < SoSize
    BY <1>1, <2>5, SoSizes, SMT
  <2>7. p + j - 1 = p + k - 1
    BY <2>1, <2>2, <2>5, <2>6, IdxApart, Zenon
  <2>8. j = k
    BY <1>1, <2>2, <2>5, <2>7, SMT
  <2>9. Stored(p, objs)[i] = objs[j]
    BY <1>2, <2>3, <2>4, Zenon
  <2> QED  BY <2>1, <2>8, <2>9, Zenon
<1>10. ASSUME NEW i \in Index, \A k \in 1 .. Len(objs) : Idx(p + k - 1) # i
       PROVE  Stored(p, objs)[i] = elem[i]
  BY <1>2, <1>6, <1>10, Zenon
<1> QED  BY <1>8, <1>9, <1>10, Zenon


\* Reading the same elements.
LEMMA PassedKept ==
  ASSUME NEW e, NEW f, NEW lo \in Int, NEW hi \in Int, NEW a \in Int, NEW b \in Int, NEW k,
         lo <= a, b <= hi, \A p \in lo .. hi - 1 : f[Idx(p)] = e[Idx(p)], Passed(e, a, b, k)
  PROVE  Passed(f, a, b, k)
<1>1. \A p \in a .. b - 1 : p \in lo .. hi - 1
  BY SMT
<1> QED  BY <1>1, Zenon DEF Passed

\* A batch lies between the positions of its stage.
LEMMA ClaimFacts ==
  ASSUME SoInv, NEW u \in Users, Claims(usr[u])
  PROVE  LET v == usr[u] IN
         /\ v \in Locals /\ v.s \in Stages /\ v.head \in Nat /\ v.n \in Nat /\ v.n > 0
         /\ v.head \in Region(stg, usr, v.s) /\ v.head + v.n <= stg[v.s].head
         /\ stg[v.s].tail <= v.head /\ cons.tail <= v.head /\ v.head + v.n <= prod.tail
         /\ v.head < stg[v.s].head
<1>0. SoType /\ SoOrder
  BY Zenon DEF SoInv
<1>1. PICK v : v = usr[u]
  BY Zenon
<1>2. v \in Locals
  BY <1>0, <1>1, Zenon DEF SoType
<1>3. v.s \in Stages /\ v.head \in Region(stg, usr, v.s) /\ v.n > 0 /\ v.head + v.n <= stg[v.s].head
  BY <1>1, Zenon DEF SoInv, CallsOK, CallOK, ClaimsOK, ClaimOK
<1>4. v.head \in Nat /\ v.n \in Nat
  BY <1>2, LocalFields, Zenon
<1>5. PICK s \in Stages : s = v.s
  BY <1>3, Zenon
<1>6. stg[s].tail <= v.head /\ v.head < stg[s].head /\ cons.tail <= v.head /\ stg[s].head <= prod.tail
  BY <1>0, <1>3, <1>5, InRegion, Window, Zenon
<1>7. v.head + v.n <= prod.tail
  BY <1>0, <1>3, <1>4, <1>5, <1>6, StageFields, EndFields, SMT
<1> QED  BY <1>1, <1>2, <1>3, <1>4, <1>5, <1>6, <1>7, Zenon

LEMMA StateFields ==
  ASSUME SoType, NEW i \in Index
  PROVE  /\ slot[i] \in States /\ slot[i].tok \in Nat /\ slot[i].num \in Nat
         /\ slot[i].st \in {"none", "start", "finish"}
BY Zenon DEF SoType, States

LEMMA ReleasedFacts ==
  ASSUME SoInv, NEW s \in Stages, NEW q \in Region(stg, usr, s), Released(slot, q)
  PROVE  /\ ReleasedOK(slot, elem, stg[s].head, s, q)
         /\ End(slot, q) \in Nat /\ q < End(slot, q) /\ End(slot, q) <= stg[s].head
         /\ End(slot, q) <= prod.tail
<1>0. SoType /\ SoOrder /\ ReleasedOK(slot, elem, stg[s].head, s, q)
  BY Zenon DEF SoInv, BatchesOK
<1>1. q \in Nat /\ q \in Int /\ Idx(q) \in Index
  BY <1>0, InRegion, IdxIn, Zenon
<1>2. slot[Idx(q)].num \in Nat
  BY <1>0, <1>1, StateFields, Zenon
<1>3. End(slot, q) = q + slot[Idx(q)].num /\ slot[Idx(q)].num > 0 /\ End(slot, q) <= stg[s].head
  BY <1>0, Zenon DEF ReleasedOK, End
<1>4. stg[s].head <= prod.tail /\ stg[s].head \in Nat /\ prod.tail \in Nat
  BY <1>0, Window, StageFields, EndFields, Zenon
<1>5. End(slot, q) \in Nat /\ q < End(slot, q) /\ End(slot, q) <= prod.tail
  BY <1>1, <1>2, <1>3, <1>4, SMT
<1> QED  BY <1>0, <1>3, <1>5, Zenon

-----------------------------------------------------------------------------
(* Steps that leave the batches alone                                       *)

\* What such a step may not change.
Kept ==
  /\ nbStage' = nbStage /\ slot' = slot
  /\ \A p \in cons.tail .. prod.tail - 1 : elem'[Idx(p)] = elem[Idx(p)]
  /\ \A s \in Stages : stg'[s].head = stg[s].head /\ Region(stg', usr', s) = Region(stg, usr, s)
  /\ \A u \in Users : /\ Claims(usr'[u]) <=> Claims(usr[u])
                      /\ Claims(usr[u]) => usr'[u] = usr[u]

LEMMA KeptClaims ==
  ASSUME SoInv, Kept PROVE ClaimsOK' /\ ClaimsApart'
<1>1. Stages' = Stages /\ SoType /\ SoOrder
  BY Zenon DEF Kept, Stages, SoInv
<1>2. ASSUME NEW u \in Users, Claims(usr'[u])
      PROVE  /\ usr'[u].head \in Region(stg', usr', usr'[u].s)
             /\ ClaimOK(usr'[u], stg'[usr'[u].s].head, slot', elem')
  <2>1. PICK v : v = usr[u]
    BY Zenon
  <2>2. usr'[u] = v /\ Claims(v)
    BY <1>2, <2>1, Zenon DEF Kept
  <2>3. /\ v.s \in Stages /\ v.head \in Nat /\ v.n \in Nat /\ v.n > 0
        /\ v.head \in Region(stg, usr, v.s) /\ v.head + v.n <= stg[v.s].head
        /\ cons.tail <= v.head /\ v.head + v.n <= prod.tail
    BY <2>1, <2>2, ClaimFacts, Zenon
  <2>4. PICK s \in Stages : s = v.s
    BY <2>3, Zenon
  <2>5. stg'[s].head = stg[s].head /\ Region(stg', usr', s) = Region(stg, usr, s)
    BY Zenon DEF Kept
  <2>6. ClaimOK(v, stg[s].head, slot, elem)
    BY <2>1, <2>4, Zenon DEF SoInv, ClaimsOK
  <2>7. v.head \in Int /\ v.head + v.n \in Int /\ cons.tail \in Int /\ prod.tail \in Int
    BY <1>1, <2>3, EndFields, SMT
  <2>8. ASSUME NEW k, Passed(elem, v.head, v.head + v.n, k) PROVE Passed(elem', v.head, v.head + v.n, k)
    <3>1. \A p \in cons.tail .. prod.tail - 1 : elem'[Idx(p)] = elem[Idx(p)]
      BY Zenon DEF Kept
    <3> QED  BY <2>3, <2>7, <2>8, <3>1, PassedKept, Zenon
  <2>9. ClaimOK(v, stg[s].head, slot, elem')
    BY <2>6, <2>8, Zenon DEF ClaimOK
  <2> QED  BY <2>2, <2>3, <2>4, <2>5, <2>9, Zenon DEF Kept
<1>3. ClaimsOK'
  <2>1. \A u \in Users : ~ Claims(usr'[u]) => ClaimOK(usr'[u], stg'[usr'[u].s].head, slot', elem')
    BY Zenon DEF ClaimOK
  <2> QED  BY <1>2, <2>1, Zenon DEF ClaimsOK
<1>4. ClaimsApart'
  BY Zenon DEF SoInv, ClaimsApart, Kept, TwoClaims
<1> QED  BY <1>3, <1>4, Zenon

LEMMA KeptBatches ==
  ASSUME SoInv, Kept PROVE BatchesOK' /\ SlotsOK'
<1>1. Stages' = Stages /\ SoType /\ SoOrder
  BY Zenon DEF Kept, Stages, SoInv
<1>2. ASSUME NEW s \in Stages, NEW q \in Region(stg, usr, s)
      PROVE  /\ Released(slot', q) => ReleasedOK(slot', elem', stg'[s].head, s, q)
             /\ \A r \in Region(stg, usr, s) : TwoReleased(slot', q, r)
             /\ \A u \in Users : OneOfEach(slot', s, q, usr'[u])
  <2>1. ASSUME Released(slot, q) PROVE ReleasedOK(slot, elem', stg[s].head, s, q)
    <3>1. ReleasedOK(slot, elem, stg[s].head, s, q) /\ End(slot, q) \in Nat /\ End(slot, q) <= prod.tail
      BY <2>1, ReleasedFacts, Zenon
    <3>2. q \in Nat /\ cons.tail <= q
      BY <1>1, InRegion, Zenon
    <3>3. q \in Int /\ End(slot, q) \in Int /\ cons.tail \in Int /\ prod.tail \in Int
      BY <1>1, <3>1, <3>2, EndFields, SMT
    <3>4. Passed(elem, q, End(slot, q), s + 1)
      BY <3>1, Zenon DEF ReleasedOK
    <3>5. Passed(elem', q, End(slot, q), s + 1)
      BY <3>1, <3>2, <3>3, <3>4, PassedKept, Zenon DEF Kept
    <3> QED  BY <3>1, <3>5, Zenon DEF ReleasedOK
  <2>2. \A r \in Region(stg, usr, s) : TwoReleased(slot, q, r)
    BY Zenon DEF SoInv, BatchesOK
  <2>3. \A u \in Users : OneOfEach(slot, s, q, usr'[u])
    BY Zenon DEF SoInv, BatchesOK, OneOfEach, Kept
  <2> QED  BY <2>1, <2>2, <2>3, Zenon DEF Kept
<1>3. BatchesOK'
  BY <1>1, <1>2, Zenon DEF BatchesOK, Kept
<1>4. SlotsOK'
  <2>1. ASSUME NEW i \in Index PROVE SlotOK(Stages', slot', usr', stg', i)
    <3>1. SlotOK(Stages, slot, usr, stg, i)
      BY Zenon DEF SoInv, SlotsOK
    <3>2. \A u \in Users : Marked(usr[u]) => usr'[u] = usr[u]
      BY Zenon DEF Kept, Marked, Claims
    <3>3. slot[i].st = "start" => \E u \in Users : Marked(usr'[u]) /\ Idx(usr'[u].head) = i
      BY <3>1, <3>2, Zenon DEF SlotOK
    <3> QED  BY <1>1, <3>1, <3>3, Zenon DEF SlotOK, Kept
  <2> QED  BY <2>1, Zenon DEF SlotsOK
<1> QED  BY <1>3, <1>4, Zenon

\* A step of one user that moves no position and no batch: it may take the
\* lock of a stage.
CallStep(u, v) ==
  /\ UNCHANGED <<nbStage, prod, cons, slot, elem, tkr>>
  /\ usr' = [usr EXCEPT ![u] = v] /\ v \in Locals
  /\ stg' \in [Stages -> [head : Nat, tail : Nat, sync : {0, 1}]]
  /\ \A s \in Stages : stg'[s].head = stg[s].head /\ stg'[s].tail = stg[s].tail
  /\ \A s \in Stages : stg[s].sync = 1 => stg'[s].sync = 1
  /\ ~ Claims(usr[u]) /\ ~ Claims(v)
  /\ CallOK(Stages, u, v) /\ LoadOK(v, stg, prod.tail) /\ FinalizeOK(v, stg', elem)
  /\ u = Consumer => usr[u].pc # "dtail" /\ v.pc # "dtail" /\ v.objs = <<>>
  /\ \/ /\ Finalizing(usr[u]) <=> Finalizing(v)
        /\ Finalizing(v) => v.fs = usr[u].fs /\ v.ot = usr[u].ot /\ v.fi = usr[u].fi
     \/ ~ Finalizing(usr[u]) /\ Finalizing(v) /\ v.fi = 0 /\ stg[v.fs].sync = 0

LEMMA CallRegions ==
  ASSUME SoInv, NEW u \in Users, NEW v, CallStep(u, v)
  PROVE  \A s \in Stages : Region(stg', usr', s) = Region(stg, usr, s)
<1>1. SoType /\ SoOrder /\ SoType
  BY Zenon DEF SoInv
<1>2. usr'[u] = v /\ \A w \in Users : w # u => usr'[w] = usr[w]
  BY <1>1, Zenon DEF CallStep, SoType
<1>3. SUFFICES ASSUME NEW s \in Stages PROVE Region(stg', usr', s) = Region(stg, usr, s)
  BY Zenon
<1>4. PICK R : R = stg[s].tail .. stg[s].head - 1
  BY Zenon
<1>5. /\ Region(stg, usr, s) = {q \in R : \A w \in Users : Finalizing(usr[w]) /\ usr[w].fs = s => usr[w].ot + usr[w].fi <= q}
      /\ Region(stg', usr', s) = {q \in R : \A w \in Users : Finalizing(usr'[w]) /\ usr'[w].fs = s => usr'[w].ot + usr'[w].fi <= q}
  BY <1>4, Zenon DEF Region, CallStep
<1>6. \A q \in R : stg[s].tail <= q
  BY <1>1, <1>4, StageFields, SMT
<1>7. CASE /\ Finalizing(usr[u]) <=> Finalizing(v)
           /\ Finalizing(v) => v.fs = usr[u].fs /\ v.ot = usr[u].ot /\ v.fi = usr[u].fi
  BY <1>2, <1>5, <1>7, ZenonT(60)
<1>8. CASE ~ Finalizing(usr[u]) /\ Finalizing(v) /\ v.fi = 0
  <2>1. v.fs \in Stages /\ v.ot = stg[v.fs].tail /\ v.ot \in Nat
    BY <1>8, LocalFields, Zenon DEF CallStep, CallOK, FinalizeOK
  <2>2. v.fs = s => v.ot + v.fi = stg[s].tail
    BY <1>8, <2>1, SMT
  <2> QED  BY <1>2, <1>5, <1>6, <1>8, <2>2, Zenon
<1> QED  BY <1>7, <1>8, Zenon DEF CallStep

LEMMA CallStepInv ==
  ASSUME SoInv, NEW u \in Users, NEW v, CallStep(u, v)
  PROVE  SoInv'
<1>1. SoType /\ SoOrder
  BY Zenon DEF SoInv
<1>2. usr'[u] = v /\ usr' \in [Users -> Locals] /\ \A w \in Users : w # u => usr'[w] = usr[w]
  BY <1>1, Zenon DEF CallStep, SoType
<1>3. Stages' = Stages /\ LastStage' = LastStage
  BY Zenon DEF CallStep, Stages, LastStage
<1>4. SoType'
  BY <1>1, <1>2, <1>3, Zenon DEF SoType, CallStep
<1>5. SoOrder'
  BY <1>1, <1>3, Zenon DEF SoOrder, CallStep
<1>6. Kept
  BY <1>2, CallRegions, Zenon DEF Kept, CallStep
<1>7. \A s \in Stages : Before(stg', prod.tail, s) = Before(stg, prod.tail, s)
                        /\ Before(stg', prod.tail + tkr, s) = Before(stg, prod.tail + tkr, s)
  BY <1>1, StageFacts, SMT DEF Before, CallStep, SoType
<1>8. ASSUME NEW w \in Users
      PROVE  CallOK(Stages, w, usr'[w]) /\ LoadOK(usr'[w], stg', prod.tail) /\ FinalizeOK(usr'[w], stg', elem)
  <2>1. PICK x : x = usr'[w]
    BY Zenon
  <2>2. CallOK(Stages, w, x) /\ LoadOK(x, stg, prod.tail)
    BY <1>2, <2>1, Zenon DEF CallStep, SoInv, CallsOK
  <2>3. x.s \in Stages /\ x.fs \in Stages
    BY <2>2, Zenon DEF CallOK
  <2>4. LoadOK(x, stg', prod.tail)
    BY <1>7, <2>2, <2>3, Zenon DEF LoadOK, CallStep
  <2>5. w # u => FinalizeOK(x, stg, elem)
    BY <1>2, <2>1, Zenon DEF SoInv, FinalizesOK
  <2>6. w # u => FinalizeOK(x, stg', elem)
    BY <2>3, <2>5, Zenon DEF FinalizeOK, CallStep
  <2> QED  BY <1>2, <2>1, <2>2, <2>4, <2>6, Zenon DEF CallStep
<1>9. CallsOK'
  BY <1>3, <1>8, Zenon DEF CallsOK, CallStep
<1>10. ASSUME NEW w \in Users, w # u, Finalizing(v), Finalizing(usr[w]), usr[w].fs = v.fs PROVE FALSE
  <2>1. stg[v.fs].sync = 1
    BY <1>10, Zenon DEF SoInv, FinalizesOK, FinalizeOK
  <2>2. Finalizing(usr[u]) /\ usr[u].fs = v.fs
    BY <1>10, <2>1, SMT DEF CallStep
  <2> QED  BY <1>10, <2>2, Zenon DEF SoInv, FinalizesOK, OneFinalizes
<1>11. OneFinalizes'
  <2>1. ASSUME NEW x \in Users, NEW y \in Users,
               Finalizing(usr'[x]) /\ Finalizing(usr'[y]) /\ usr'[x].fs = usr'[y].fs
        PROVE  x = y
    <3>1. CASE x # u /\ y # u
      BY <1>2, <2>1, <3>1, Zenon DEF SoInv, FinalizesOK, OneFinalizes
    <3>2. CASE x = u \/ y = u
      BY <1>2, <1>10, <2>1, <3>2, Zenon
    <3> QED  BY <3>1, <3>2, Zenon
  <2> QED  BY <2>1, Zenon DEF OneFinalizes
<1>12. FinalizesOK'
  BY <1>8, <1>11, Zenon DEF FinalizesOK, CallStep
<1>13. FrontOK'
  BY <1>1, <1>3, <1>7, StageFacts, Zenon DEF SoInv, FrontOK, CallStep, SoType
<1>14. DequeueOK'
  <2>1. Consumer \in Users
    BY Zenon DEF Users
  <2>2. CASE u = Consumer
    BY <1>2, <2>2, Zenon DEF SoInv, DequeueOK, CallStep
  <2>3. CASE u # Consumer
    BY <1>2, <2>1, <2>3, Zenon DEF SoInv, DequeueOK, CallStep
  <2> QED  BY <2>2, <2>3, Zenon
<1> QED  BY <1>4, <1>5, <1>6, <1>9, <1>12, <1>13, <1>14, KeptClaims, KeptBatches, Zenon DEF SoInv

-----------------------------------------------------------------------------
(* The steps of finalize and acquire that move nothing                      *)

LEMMA CallFacts ==
  ASSUME SoInv, NEW u \in Users
  PROVE  /\ SoType /\ SoOrder /\ usr[u] \in Locals
         /\ CallOK(Stages, u, usr[u]) /\ LoadOK(usr[u], stg, prod.tail) /\ FinalizeOK(usr[u], stg, elem)
         /\ usr[u].s \in Stages /\ usr[u].fs \in Stages
         /\ u = Consumer /\ usr[u].pc # "dtail" => usr[u].objs = <<>>
<1>1. SoType /\ SoOrder
  BY Zenon DEF SoInv
<1>2. CallOK(Stages, u, usr[u]) /\ LoadOK(usr[u], stg, prod.tail) /\ FinalizeOK(usr[u], stg, elem)
  BY Zenon DEF SoInv, CallsOK, FinalizesOK
<1>3. u = Consumer /\ usr[u].pc # "dtail" => usr[u].objs = <<>>
  BY Zenon DEF SoInv, DequeueOK
<1> QED  BY <1>1, <1>2, <1>3, Zenon DEF SoType, CallOK

LEMMA QuietFacts ==
  /\ Quiet \in Locals /\ Quiet.pc = "idle" /\ Quiet.s = 0 /\ Quiet.fs = 0 /\ Quiet.fi = 0
  /\ Quiet.objs = <<>>
<1>1. <<>> \in Seq(Elements)
  BY SMT
<1>2. 0 \in Nat
  BY SMT
<1>3. Quiet \in Locals
  BY <1>1, <1>2, Zenon DEF Quiet, Locals, Labels, Behavior
<1> QED  BY <1>3, Zenon DEF Quiet

\* A record that neither holds nor loads anything.
LEMMA PlainStep ==
  ASSUME SoInv, NEW u \in Users, NEW v \in Locals,
         UNCHANGED <<nbStage, prod, cons, stg, slot, elem, tkr>>, usr' = [usr EXCEPT ![u] = v],
         usr[u].pc \in {"idle", "fload", "fcas", "atail", "acas", "again"},
         v.pc \in {"idle", "fload", "fcas", "again"}, v.s \in Stages, v.fs \in Stages, v.fi = 0,
         u = Consumer => v.objs = <<>>
  PROVE  SoInv'
<1>1. SoType
  BY Zenon DEF SoInv
<1>2. ~ Claims(usr[u]) /\ ~ Claims(v) /\ ~ Finalizing(usr[u]) /\ ~ Finalizing(v) /\ ~ Loading(v)
      /\ usr[u].pc # "dtail" /\ v.pc # "dtail" /\ v.pc # "atail"
  BY Zenon DEF Claims, Finalizing, Loading
<1>3. CallOK(Stages, u, v) /\ LoadOK(v, stg, prod.tail) /\ FinalizeOK(v, stg', elem)
  BY <1>2, Zenon DEF CallOK, LoadOK, FinalizeOK
<1>4. stg' \in [Stages -> [head : Nat, tail : Nat, sync : {0, 1}]]
  BY <1>1, Zenon DEF SoType
<1>5. CallStep(u, v)
  BY <1>2, <1>3, <1>4, Zenon DEF CallStep
<1> QED  BY <1>5, CallStepInv, Zenon

\* What finalize returns to.
LEMMA BackFacts ==
  ASSUME SoInv, NEW u \in Users, NEW fi \in Nat, Back(u, fi)
  PROVE  \E v \in Locals :
           /\ usr' = [usr EXCEPT ![u] = v] /\ v.pc \in {"idle", "again"}
           /\ v.s \in Stages /\ v.fs \in Stages /\ v.fi = 0
           /\ u = Consumer /\ usr[u].pc # "dtail" => v.objs = <<>>
<1>1. 0 \in Stages
  BY CallFacts, StageFacts, Zenon DEF SoType
<1>2. CASE usr[u].ret = "idle"
  <2>1. usr' = [usr EXCEPT ![u] = Quiet]
    BY <1>2, Zenon DEF Back, Becomes
  <2> QED  BY <1>1, <2>1, QuietFacts, Zenon
<1>3. CASE usr[u].ret # "idle"
  <2>1. PICK v : v = [usr[u] EXCEPT !.pc = usr[u].ret, !.avail = U32(usr[u].avail + fi),
                                 !.fs = 0, !.maxn = 0, !.ot = 0, !.fn = 0, !.fi = 0, !.ret = "idle"]
    BY Zenon
  <2>2. usr' = [usr EXCEPT ![u] = v]
    BY <1>3, <2>1, Zenon DEF Back, Becomes
  <2>3. usr[u] \in Locals /\ usr[u].ret = "again" /\ usr[u].avail \in Nat
    BY <1>3, CallFacts, LocalFields, Zenon
  <2>4. usr[u].avail + fi \in Int /\ 0 \in Nat
    BY <2>3, SMT
  <2>5. U32(usr[u].avail + fi) \in Nat
    BY <2>4, WordNat, Zenon
  <2>6. v \in Locals
    BY <2>1, <2>3, <2>4, <2>5, Zenon DEF Locals, Labels
  <2>7. v.pc = "again" /\ v.s = usr[u].s /\ v.fs = 0 /\ v.fi = 0 /\ v.objs = usr[u].objs
    BY <2>1, <2>3, Zenon DEF Locals
  <2> QED  BY <1>1, <2>2, <2>6, <2>7, CallFacts, Zenon
<1> QED  BY <1>2, <1>3, Zenon

LEMMA FinLoadInv ==
  ASSUME SoInv, NEW u \in Users, FinLoad(u) PROVE SoInv'
<1>0. usr[u].pc = "fload" /\ UNCHANGED <<nbStage, prod, cons, stg, slot, elem, tkr>>
  BY Zenon DEF FinLoad, At
<1>1. CASE Back(u, 0)
  <2>1. 0 \in Nat
    BY SMT
  <2>2. PICK v \in Locals :
           /\ usr' = [usr EXCEPT ![u] = v] /\ v.pc \in {"idle", "again"}
           /\ v.s \in Stages /\ v.fs \in Stages /\ v.fi = 0
           /\ u = Consumer /\ usr[u].pc # "dtail" => v.objs = <<>>
    BY <1>1, <2>1, BackFacts, Zenon
  <2> QED  BY <1>0, <2>2, PlainStep, Zenon
<1>2. CASE Becomes(u, [usr[u] EXCEPT !.pc = "fcas", !.ot = stg[usr[u].fs].tail])
  <2>1. PICK v : v = [usr[u] EXCEPT !.pc = "fcas", !.ot = stg[usr[u].fs].tail]
    BY Zenon
  <2>2. usr[u] \in Locals /\ stg[usr[u].fs].tail \in Nat /\ usr[u].s \in Stages /\ usr[u].fs \in Stages
    BY CallFacts, StageFields, Zenon
  <2>3. v \in Locals
    BY <2>1, <2>2, Zenon DEF Locals, Labels
  <2>4. v.pc = "fcas" /\ v.s = usr[u].s /\ v.fs = usr[u].fs /\ v.fi = usr[u].fi /\ v.objs = usr[u].objs
    BY <2>1, <2>2, Zenon DEF Locals
  <2>5. usr[u].fi = 0
    BY <1>0, CallFacts, Zenon DEF CallOK
  <2>6. usr' = [usr EXCEPT ![u] = v]
    BY <1>2, <2>1, Zenon DEF Becomes
  <2>7. u = Consumer => usr[u].objs = <<>>
    BY <1>0, CallFacts, Zenon
  <2> QED  BY <1>0, <2>2, <2>3, <2>4, <2>5, <2>6, <2>7, PlainStep, Zenon
<1> QED  BY <1>1, <1>2, Zenon DEF FinLoad

\* The head of a stage is not after the tail of the one before it.
LEMMA BeforeFacts ==
  ASSUME SoType, SoOrder, NEW s \in Stages
  PROVE  /\ Before(stg, prod.tail, s) = TailBefore(s) /\ TailBefore(s) \in Nat
         /\ stg[s].head <= TailBefore(s) /\ TailBefore(s) <= prod.tail
         /\ TailBefore(s) - stg[s].head < SoMod
<1>1. Before(stg, prod.tail, s) = TailBefore(s)
  BY Zenon DEF Before, TailBefore
<1>2. CASE s = 0
  <2>1. TailBefore(s) = prod.tail
    BY <1>2, Zenon DEF TailBefore
  <2> QED  BY <1>1, <2>1, Window, StageFields, EndFields, SoSizes, SMT
<1>3. CASE s # 0
  <2>1. s \in Nat /\ nbStage \in StageCounts
    BY StageFields, Zenon DEF SoType
  <2>2. s > 0
    BY <1>3, <2>1, SMT
  <2>3. s - 1 \in Stages /\ s - 1 < s
    BY <2>1, <2>2, StageFacts, SMT
  <2>4. PICK r \in Stages : r = s - 1 /\ r < s
    BY <2>3, Zenon
  <2>5. stg[s].head <= stg[r].tail
    BY <2>4, Zenon DEF SoOrder
  <2>6. TailBefore(s) = stg[r].tail
    BY <1>3, <2>4, Zenon DEF TailBefore
  <2>7. stg[r].tail <= stg[r].head /\ stg[r].head <= prod.tail /\ prod.tail <= prod.head
        /\ prod.head <= cons.tail + SoCapacity /\ cons.tail <= stg[s].tail /\ stg[s].tail <= stg[s].head
    BY Window, Zenon
  <2>8. /\ stg[r].tail \in Nat /\ stg[r].head \in Nat /\ stg[s].head \in Nat /\ stg[s].tail \in Nat
    BY StageFields, Zenon
  <2>9. stg[r].tail <= prod.tail /\ stg[r].tail - stg[s].head < SoMod
    BY <2>5, <2>7, <2>8, EndFields, SoSizes, SMT
  <2> QED  BY <1>1, <2>5, <2>6, <2>8, <2>9, Zenon
<1> QED  BY <1>2, <1>3, Zenon

LEMMA FinCasInv ==
  ASSUME SoInv, NEW u \in Users, FinCas(u) PROVE SoInv'
<1>0. usr[u].pc = "fcas" /\ UNCHANGED <<nbStage, prod, cons, slot, elem, tkr>>
  BY Zenon DEF FinCas, At
<1>1. CASE Back(u, 0) /\ UNCHANGED stg
  <2>1. 0 \in Nat
    BY SMT
  <2>2. PICK v \in Locals :
           /\ usr' = [usr EXCEPT ![u] = v] /\ v.pc \in {"idle", "again"}
           /\ v.s \in Stages /\ v.fs \in Stages /\ v.fi = 0
           /\ u = Consumer /\ usr[u].pc # "dtail" => v.objs = <<>>
    BY <1>1, <2>1, BackFacts, Zenon
  <2> QED  BY <1>0, <1>1, <2>2, PlainStep, Zenon
<1>2. CASE ~ (Back(u, 0) /\ UNCHANGED stg)
  <2>1. PICK s : s = usr[u].fs
    BY Zenon
  <2>2. /\ stg[s].sync = 0 /\ stg' = [stg EXCEPT ![s] = [stg[s] EXCEPT !.sync = 1]]
        /\ usr' = [usr EXCEPT ![u] = [usr[u] EXCEPT !.pc = "fhead", !.ot = stg[s].tail]]
    BY <1>2, <2>1, Zenon DEF FinCas, Becomes
  <2>3. SoType /\ SoOrder /\ usr[u] \in Locals /\ s \in Stages /\ usr[u].s \in Stages /\ usr[u].fi = 0
        /\ (u = Consumer => usr[u].objs = <<>>)
    BY <1>0, <2>1, CallFacts, Zenon DEF CallOK
  <2>4. PICK v : v = [usr[u] EXCEPT !.pc = "fhead", !.ot = stg[s].tail]
    BY Zenon
  <2>5. stg[s] \in [head : Nat, tail : Nat, sync : {0, 1}] /\ stg[s].tail \in Nat /\ stg[s].head \in Nat
        /\ stg \in [Stages -> [head : Nat, tail : Nat, sync : {0, 1}]]
    BY <2>3, StageFields, Zenon DEF SoType
  <2>6. v \in Locals
    BY <2>3, <2>4, <2>5, Zenon DEF Locals, Labels
  <2>7. v.pc = "fhead" /\ v.s = usr[u].s /\ v.fs = s /\ v.fi = 0 /\ v.objs = usr[u].objs /\ v.ot = stg[s].tail
    BY <2>1, <2>3, <2>4, Zenon DEF Locals
  <2>8. stg' \in [Stages -> [head : Nat, tail : Nat, sync : {0, 1}]]
    BY <2>2, <2>5, Zenon
  <2>9. /\ stg'[s].sync = 1 /\ stg'[s].head = stg[s].head /\ stg'[s].tail = stg[s].tail
        /\ \A r \in Stages : r # s => stg'[r] = stg[r]
    BY <2>2, <2>3, <2>5, Zenon
  <2>10. \A r \in Stages : /\ stg'[r].head = stg[r].head /\ stg'[r].tail = stg[r].tail
                           /\ stg[r].sync = 1 => stg'[r].sync = 1
    BY <2>9, Zenon
  <2>11. ~ Claims(usr[u]) /\ ~ Claims(v) /\ ~ Finalizing(usr[u]) /\ Finalizing(v) /\ ~ Loading(v)
    BY <1>0, <2>7, Zenon DEF Claims, Finalizing, Loading
  <2>12. CallOK(Stages, u, v) /\ LoadOK(v, stg, prod.tail)
    BY <2>3, <2>7, <2>11, Zenon DEF CallOK, LoadOK
  <2>13. FinalizeOK(v, stg', elem)
    <3>1. v.ot + v.fi <= stg[s].head
      BY <2>3, <2>5, <2>7, Window, SMT
    <3>2. Passed(elem, v.ot, v.ot + v.fi, v.fs + 1)
      BY <2>5, <2>7, SMT DEF Passed
    <3> QED  BY <2>7, <2>9, <3>1, <3>2, Zenon DEF FinalizeOK
  <2>14. usr' = [usr EXCEPT ![u] = v]
    BY <2>2, <2>4, Zenon
  <2>15. CallStep(u, v)
    BY <1>0, <2>2, <2>3, <2>6, <2>7, <2>8, <2>10, <2>11, <2>12, <2>13, <2>14, Zenon DEF CallStep
  <2> QED  BY <2>15, CallStepInv, Zenon
<1> QED  BY <1>1, <1>2, Zenon

\* The walk goes at most up to the head.
LEMMA FinHeadInv ==
  ASSUME SoInv, NEW u \in Users, FinHead(u) PROVE SoInv'
<1>1. PICK s : s = usr[u].fs
  BY Zenon
<1>2. PICK d : d = Dist(usr[u].ot, stg[s].head)
  BY Zenon
<1>3. PICK fn : fn = IF d < usr[u].maxn THEN d ELSE usr[u].maxn
  BY Zenon
<1>4. PICK v : v = [usr[u] EXCEPT !.pc = "fwalk", !.fn = fn]
  BY Zenon
<1>5. usr[u].pc = "fhead" /\ UNCHANGED <<nbStage, prod, cons, stg, slot, elem, tkr>>
      /\ usr' = [usr EXCEPT ![u] = v]
  BY <1>1, <1>2, <1>3, <1>4, Zenon DEF FinHead, At, Becomes
<1>6. /\ SoType /\ SoOrder /\ usr[u] \in Locals /\ s \in Stages /\ usr[u].s \in Stages /\ usr[u].fi = 0
      /\ (u = Consumer => usr[u].objs = <<>>) /\ FinalizeOK(usr[u], stg, elem)
  BY <1>1, <1>5, CallFacts, Zenon DEF CallOK
<1>7. ~ Claims(usr[u]) /\ Finalizing(usr[u])
  BY <1>5, Zenon DEF Claims, Finalizing
<1>8. usr[u].ot = stg[s].tail /\ stg[s].sync = 1 /\ usr[u].ot + usr[u].fi <= stg[s].head
      /\ Passed(elem, usr[u].ot, usr[u].ot + usr[u].fi, s + 1)
  BY <1>1, <1>6, <1>7, Zenon DEF FinalizeOK
<1>9. usr[u].maxn \in Nat /\ stg[s].tail \in Nat /\ stg[s].head \in Nat /\ stg[s].tail \in Int /\ stg[s].head \in Int
  BY <1>6, LocalFields, StageFields, SMT
<1>10. 0 <= stg[s].head - stg[s].tail /\ stg[s].head - stg[s].tail < SoMod
  BY <1>6, <1>9, Window, SMT
<1>11. d = stg[s].head - stg[s].tail
  BY <1>2, <1>8, <1>9, <1>10, DistExact, Zenon
<1>12. fn \in Nat /\ stg[s].tail + fn <= stg[s].head
  BY <1>3, <1>9, <1>10, <1>11, SMT
<1>13. v \in Locals
  BY <1>4, <1>6, <1>12, Zenon DEF Locals, Labels
<1>14. v.pc = "fwalk" /\ v.s = usr[u].s /\ v.fs = s /\ v.fi = usr[u].fi /\ v.objs = usr[u].objs /\ v.ot = usr[u].ot
       /\ v.fn = fn
  BY <1>1, <1>4, <1>6, Zenon DEF Locals
<1>15. ~ Claims(v) /\ Finalizing(v) /\ ~ Loading(v)
  BY <1>14, Zenon DEF Claims, Finalizing, Loading
<1>16. CallOK(Stages, u, v) /\ LoadOK(v, stg, prod.tail)
  BY <1>6, <1>14, <1>15, Zenon DEF CallOK, LoadOK
<1>17. FinalizeOK(v, stg', elem)
  BY <1>5, <1>8, <1>12, <1>14, Zenon DEF FinalizeOK
<1>18. CallStep(u, v)
  <2>1. stg' \in [Stages -> [head : Nat, tail : Nat, sync : {0, 1}]] /\ stg' = stg
    BY <1>5, <1>6, Zenon DEF SoType
  <2>2. /\ u = Consumer => usr[u].pc # "dtail" /\ v.pc # "dtail" /\ v.objs = <<>>
        /\ v.fs = usr[u].fs /\ v.ot = usr[u].ot /\ v.fi = usr[u].fi
    BY <1>1, <1>5, <1>6, <1>14, Zenon
  <2> QED  BY <1>5, <1>7, <1>13, <1>15, <1>16, <1>17, <2>1, <2>2, Zenon DEF CallStep
<1> QED  BY <1>18, CallStepInv, Zenon

LEMMA FinWalkedInv ==
  ASSUME SoInv, NEW u \in Users, FinWalked(u) PROVE SoInv'
<1>1. PICK v : v = [usr[u] EXCEPT !.pc = "fstore", !.fn = 0, !.maxn = 0]
  BY Zenon
<1>2. usr[u].pc = "fwalk" /\ UNCHANGED <<nbStage, prod, cons, stg, slot, elem, tkr>>
      /\ usr' = [usr EXCEPT ![u] = v]
  BY <1>1, Zenon DEF FinWalked, At, Becomes
<1>3. /\ SoType /\ SoOrder /\ usr[u] \in Locals /\ usr[u].fs \in Stages /\ usr[u].s \in Stages
      /\ (u = Consumer => usr[u].objs = <<>>) /\ FinalizeOK(usr[u], stg, elem)
  BY <1>2, CallFacts, Zenon
<1>4. 0 \in Nat
  BY SMT
<1>5. v \in Locals
  BY <1>1, <1>3, <1>4, Zenon DEF Locals, Labels
<1>6. v.pc = "fstore" /\ v.s = usr[u].s /\ v.fs = usr[u].fs /\ v.fi = usr[u].fi /\ v.objs = usr[u].objs
      /\ v.ot = usr[u].ot
  BY <1>1, <1>3, Zenon DEF Locals
<1>7. ~ Claims(usr[u]) /\ Finalizing(usr[u]) /\ ~ Claims(v) /\ Finalizing(v) /\ ~ Loading(v)
  BY <1>2, <1>6, Zenon DEF Claims, Finalizing, Loading
<1>8. CallOK(Stages, u, v) /\ LoadOK(v, stg, prod.tail)
  BY <1>3, <1>6, <1>7, Zenon DEF CallOK, LoadOK
<1>9. FinalizeOK(v, stg', elem)
  BY <1>2, <1>3, <1>6, <1>7, Zenon DEF FinalizeOK
<1>10. CallStep(u, v)
  BY <1>2, <1>3, <1>5, <1>6, <1>7, <1>8, <1>9, Zenon DEF CallStep, SoType
<1> QED  BY <1>10, CallStepInv, Zenon

\* A record of a worker that has loaded a head.
LEMMA LoadStep ==
  ASSUME SoInv, NEW u \in Workers, NEW v \in Locals,
         UNCHANGED <<nbStage, prod, cons, stg, slot, elem, tkr>>, usr' = [usr EXCEPT ![u] = v],
         usr[u].pc \in {"idle", "atail", "acas", "again"},
         v.pc \in {"atail", "acas"}, v.s \in Stages, v.fs \in Stages, v.fi = 0,
         ~ v.retry => v.s > 0, LoadOK(v, stg, prod.tail)
  PROVE  SoInv'
<1>1. SoType /\ u \in Users /\ u # Consumer
  BY SoringUsers, Zenon DEF SoInv, Users
<1>2. ~ Claims(usr[u]) /\ ~ Claims(v) /\ ~ Finalizing(usr[u]) /\ ~ Finalizing(v)
      /\ usr[u].pc # "dtail" /\ v.pc # "dtail"
  BY Zenon DEF Claims, Finalizing
<1>3. CallOK(Stages, u, v) /\ FinalizeOK(v, stg', elem)
  BY <1>1, <1>2, Zenon DEF CallOK, FinalizeOK
<1>4. stg' \in [Stages -> [head : Nat, tail : Nat, sync : {0, 1}]]
  BY <1>1, Zenon DEF SoType
<1>5. CallStep(u, v)
  BY <1>1, <1>2, <1>3, <1>4, Zenon DEF CallStep
<1> QED  BY <1>1, <1>5, CallStepInv, Zenon

\* A head that was just read.
LEMMA JustLoaded ==
  ASSUME SoInv, NEW v \in Locals, v.s \in Stages, v.pc = "atail", v.head = stg[v.s].head
  PROVE  LoadOK(v, stg, prod.tail)
<1>1. SoType
  BY Zenon DEF SoInv
<1>2. stg[v.s].head \in Nat
  BY <1>1, StageFields, Zenon
<1>3. v.head <= stg[v.s].head /\ stg[v.s].head - v.head < SoMod
  BY <1>2, SoSizes, SMT
<1> QED  BY <1>3, Zenon DEF LoadOK

LEMMA AcqCallInv ==
  ASSUME SoInv, NEW w \in Workers, NEW num \in Nat, NEW beh \in Behavior, AcqCall(w, num, beh) PROVE SoInv'
<1>1. PICK s : s = w % nbStage
  BY Zenon
<1>2. PICK v : v = [Quiet EXCEPT !.pc = "atail", !.s = s, !.num = num, !.beh = beh, !.retry = s = 0,
                                  !.head = stg[s].head]
  BY Zenon
<1>3. usr[w].pc = "idle" /\ UNCHANGED <<nbStage, prod, cons, stg, slot, elem, tkr>>
      /\ usr' = [usr EXCEPT ![w] = v]
  BY <1>1, <1>2, Zenon DEF AcqCall, At, Becomes
<1>4. w \in Users /\ w \in Int
  BY SoringUsers, SMT DEF Users, Workers
<1>5. SoType /\ nbStage \in Nat /\ nbStage > 0 /\ 0 \in Stages
  BY <1>4, CallFacts, StageFacts, Zenon DEF SoType
<1>6. s \in Stages
  BY <1>1, <1>4, <1>5, DivMod, Zenon DEF Stages
<1>7. s \in Nat /\ stg[s].head \in Nat /\ (s = 0) \in BOOLEAN
  BY <1>5, <1>6, StageFields, Zenon
<1>8. v \in Locals
  BY <1>2, <1>7, QuietFacts, Zenon DEF Locals, Labels
<1>9. v.pc = "atail" /\ v.s = s /\ v.retry = (s = 0) /\ v.head = stg[s].head /\ v.fs = Quiet.fs /\ v.fi = Quiet.fi
  BY <1>2, QuietFacts, Zenon DEF Locals
<1>10. ~ v.retry => v.s > 0
  <2>1. s # 0 => s > 0
    BY <1>7, SMT
  <2> QED  BY <1>9, <2>1, Zenon
<1>11. LoadOK(v, stg, prod.tail)
  BY <1>6, <1>8, <1>9, JustLoaded, Zenon
<1> QED  BY <1>3, <1>5, <1>6, <1>8, <1>9, <1>10, <1>11, QuietFacts, LoadStep, Zenon

\* What moving returns never exceeds what is there.
LEMMA MovedFacts ==
  ASSUME NEW n \in Nat, NEW beh \in Behavior, NEW avail \in Nat
  PROVE  Moved(n, beh, avail) \in Nat /\ Moved(n, beh, avail) <= avail
BY SMT DEF Moved

LEMMA AcqTailInv ==
  ASSUME SoInv, NEW w \in Workers, AcqTail(w) PROVE SoInv'
<1> DEFINE u == usr[w]
           avail == Dist(u.head, TailBefore(u.s))
           n == Moved(u.num, IF u.retry THEN u.beh ELSE "FIXED", avail)
<1>14. \/ n > 0 /\ usr' = [usr EXCEPT ![w] = [u EXCEPT !.pc = "acas", !.n = n]]
       \/ n = 0 /\ u.retry /\ usr' = [usr EXCEPT ![w] = Quiet]
       \/ /\ n = 0 /\ ~ u.retry
          /\ Finalize(w, [u EXCEPT !.avail = avail, !.head = 0], u.s - 1, U32(2 * u.num), "again")
  BY Zenon DEF AcqTail, Becomes
<1>1. u = usr[w]
  BY Zenon
<1>2. avail = Dist(u.head, TailBefore(u.s))
  BY Zenon
<1>3. n = Moved(u.num, IF u.retry THEN u.beh ELSE "FIXED", avail)
  BY Zenon
<1> HIDE DEF u, avail, n
<1>4. u.pc = "atail" /\ UNCHANGED <<nbStage, prod, cons, stg, slot, elem, tkr>>
  BY <1>1, Zenon DEF AcqTail, At
<1>5. w \in Users /\ w # Consumer
  BY SoringUsers, Zenon DEF Users
<1>6. /\ SoType /\ SoOrder /\ u \in Locals /\ u.s \in Stages /\ u.fs \in Stages /\ u.fi = 0
      /\ LoadOK(u, stg, prod.tail) /\ CallOK(Stages, w, u)
  BY <1>1, <1>4, <1>5, CallFacts, Zenon DEF CallOK
<1>7. /\ u.head \in Nat /\ TailBefore(u.s) \in Nat /\ u.num \in Nat /\ u.beh \in Behavior /\ u.retry \in BOOLEAN
      /\ stg[u.s].head \in Nat /\ u.s \in Nat
  BY <1>6, LocalFields, BeforeFacts, StageFields, Zenon
<1>8. avail \in Nat
  <2>1. U32(TailBefore(u.s)) \in Nat /\ U32(u.head) \in Nat
    BY <1>7, WordNat, SMT
  <2>2. U32(TailBefore(u.s)) - U32(u.head) \in Int
    BY <2>1, SMT
  <2> QED  BY <1>2, <2>2, WordNat, Zenon DEF Dist
<1>9. n \in Nat /\ n <= avail
  <2>1. (IF u.retry THEN u.beh ELSE "FIXED") \in Behavior
    BY <1>7, Zenon DEF Behavior
  <2> QED  BY <1>3, <1>7, <1>8, <2>1, MovedFacts, Zenon
<1>10. u.head <= stg[u.s].head /\ stg[u.s].head - u.head < SoMod
  BY <1>4, <1>6, Zenon DEF LoadOK, Loading
<1>11. CASE n > 0 /\ usr' = [usr EXCEPT ![w] = [u EXCEPT !.pc = "acas", !.n = n]]
  <2>1. PICK v : v = [u EXCEPT !.pc = "acas", !.n = n]
    BY Zenon
  <2>2. usr' = [usr EXCEPT ![w] = v]
    BY <1>11, <2>1, Zenon
  <2>3. v \in Locals
    BY <1>6, <1>9, <2>1, Zenon DEF Locals, Labels
  <2>4. v.pc = "acas" /\ v.s = u.s /\ v.head = u.head /\ v.n = n /\ v.fs = u.fs /\ v.fi = u.fi
        /\ v.retry = u.retry
    BY <1>6, <2>1, Zenon DEF Locals
  <2>5. ASSUME u.head = stg[u.s].head PROVE u.head + n <= Before(stg, prod.tail, u.s)
    <3>1. Before(stg, prod.tail, u.s) = TailBefore(u.s)
          /\ stg[u.s].head <= TailBefore(u.s) /\ TailBefore(u.s) - stg[u.s].head < SoMod
      BY <1>6, BeforeFacts, Zenon
    <3>2. u.head \in Int /\ TailBefore(u.s) \in Int /\ 0 <= TailBefore(u.s) - u.head
          /\ TailBefore(u.s) - u.head < SoMod
      BY <1>7, <2>5, <3>1, SMT
    <3>3. avail = TailBefore(u.s) - u.head
      BY <1>2, <3>2, DistExact, Zenon
    <3> QED  BY <1>7, <1>9, <3>1, <3>3, SMT
  <2>6. LoadOK(v, stg, prod.tail)
    BY <1>10, <1>11, <2>4, <2>5, Zenon DEF LoadOK
  <2>7. ~ u.retry => u.s > 0
    BY <1>4, <1>6, Zenon DEF CallOK, Loading
  <2> QED  BY <1>1, <1>4, <1>6, <2>2, <2>3, <2>4, <2>6, <2>7, LoadStep, Zenon
<1>12. CASE usr' = [usr EXCEPT ![w] = Quiet]
  <2>2. 0 \in Stages
    BY <1>6, StageFacts, Zenon DEF SoType
  <2> QED  BY <1>1, <1>4, <1>5, <1>12, <2>2, QuietFacts, PlainStep, Zenon
<1>13. CASE /\ ~ u.retry
            /\ Finalize(w, [u EXCEPT !.avail = avail, !.head = 0], u.s - 1, U32(2 * u.num), "again")
  <2>1. PICK rec : rec = [u EXCEPT !.avail = avail, !.head = 0]
    BY Zenon
  <2>2. PICK v : v = [rec EXCEPT !.pc = "fload", !.fs = u.s - 1, !.maxn = U32(2 * u.num), !.ret = "again"]
    BY Zenon
  <2>3. usr' = [usr EXCEPT ![w] = v]
    BY <1>13, <2>1, <2>2, Zenon DEF Becomes, Finalize
  <2>4. 0 \in Nat /\ 2 * u.num \in Int
    BY <1>7, SMT
  <2>5. rec \in Locals
    BY <1>6, <1>8, <2>1, <2>4, Zenon DEF Locals
  <2>6. rec.s = u.s /\ rec.fi = u.fi
    BY <1>6, <2>1, Zenon DEF Locals
  <2>7. u.s > 0
    BY <1>4, <1>6, <1>13, Zenon DEF CallOK, Loading
  <2>8. u.s - 1 \in Stages
    BY <1>6, <2>7, StageFacts, Zenon DEF SoType
  <2>9. U32(2 * u.num) \in Nat
    BY <2>4, WordNat, Zenon
  <2>10. v \in Locals /\ v.pc = "fload" /\ v.s \in Stages /\ v.fs \in Stages /\ v.fi = 0
    <3>1. rec.s \in Stages /\ rec.fi = 0 /\ u.s - 1 \in Nat
      BY <1>6, <2>6, <2>8, StageFields, Zenon
    <3>2. v \in Locals
      BY <2>2, <2>5, <2>9, <3>1, Zenon DEF Locals, Labels
    <3>3. v.pc = "fload" /\ v.s = rec.s /\ v.fs = u.s - 1 /\ v.fi = rec.fi
      BY <2>2, <2>5, Zenon DEF Locals
    <3> QED  BY <2>8, <3>1, <3>2, <3>3, Zenon
  <2> QED  BY <1>1, <1>4, <1>5, <2>3, <2>10, PlainStep, Zenon
<1> QED  BY <1>14, <1>11, <1>12, <1>13, Zenon

LEMMA AcqAgainInv ==
  ASSUME SoInv, NEW w \in Workers, AcqAgain(w) PROVE SoInv'
<1>1. PICK u : u = usr[w]
  BY Zenon
<1>2. u.pc = "again" /\ UNCHANGED <<nbStage, prod, cons, stg, slot, elem, tkr>>
  BY <1>1, Zenon DEF AcqAgain, At
<1>3. w \in Users /\ w # Consumer
  BY SoringUsers, Zenon DEF Users
<1>4. SoType /\ u \in Locals /\ u.s \in Stages /\ u.fs \in Stages /\ u.fi = 0
  BY <1>1, <1>2, <1>3, CallFacts, Zenon DEF CallOK
<1>5. CASE usr' = [usr EXCEPT ![w] = Quiet]
  <2>1. 0 \in Stages
    BY <1>4, StageFacts, Zenon DEF SoType
  <2> QED  BY <1>1, <1>2, <1>3, <1>5, <2>1, QuietFacts, PlainStep, Zenon
<1>6. CASE usr' # [usr EXCEPT ![w] = Quiet]
  <2>1. PICK v : v = [u EXCEPT !.pc = "atail", !.retry = TRUE, !.avail = 0, !.head = stg[u.s].head]
    BY Zenon
  <2>2. usr' = [usr EXCEPT ![w] = v]
    BY <1>1, <1>6, <2>1, Zenon DEF AcqAgain, Becomes
  <2>3. stg[u.s].head \in Nat /\ 0 \in Nat
    BY <1>4, StageFields, SMT
  <2>4. v \in Locals
    BY <1>4, <2>1, <2>3, Zenon DEF Locals, Labels
  <2>5. v.pc = "atail" /\ v.s = u.s /\ v.head = stg[u.s].head /\ v.fs = u.fs /\ v.fi = u.fi /\ v.retry = TRUE
    BY <1>4, <2>1, Zenon DEF Locals
  <2>6. LoadOK(v, stg, prod.tail)
    BY <1>4, <2>4, <2>5, JustLoaded, Zenon
  <2> QED  BY <1>1, <1>2, <1>4, <2>2, <2>4, <2>5, <2>6, LoadStep, Zenon
<1> QED  BY <1>5, <1>6, Zenon

LEMMA AcqCasFailed ==
  ASSUME SoInv, NEW w \in Workers, AcqCas(w), UNCHANGED stg,
         Becomes(w, [usr[w] EXCEPT !.pc = "atail", !.head = stg[usr[w].s].head, !.n = 0])
  PROVE  SoInv'
<1>1. PICK u : u = usr[w]
  BY Zenon
<1>2. u.pc = "acas" /\ UNCHANGED <<nbStage, prod, cons, stg, slot, elem, tkr>>
  BY <1>1, Zenon DEF AcqCas, At
<1>3. w \in Users /\ w # Consumer
  BY SoringUsers, Zenon DEF Users
<1>4. SoType /\ u \in Locals /\ u.s \in Stages /\ u.fs \in Stages /\ u.fi = 0 /\ CallOK(Stages, w, u)
  BY <1>1, <1>2, <1>3, CallFacts, Zenon DEF CallOK
<1>5. PICK v : v = [u EXCEPT !.pc = "atail", !.head = stg[u.s].head, !.n = 0]
  BY Zenon
<1>6. usr' = [usr EXCEPT ![w] = v]
  BY <1>1, <1>5, Zenon DEF Becomes
<1>7. stg[u.s].head \in Nat /\ 0 \in Nat
  BY <1>4, StageFields, SMT
<1>8. v \in Locals
  BY <1>4, <1>5, <1>7, Zenon DEF Locals, Labels
<1>9. v.pc = "atail" /\ v.s = u.s /\ v.head = stg[u.s].head /\ v.fs = u.fs /\ v.fi = u.fi /\ v.retry = u.retry
  BY <1>4, <1>5, Zenon DEF Locals
<1>10. LoadOK(v, stg, prod.tail)
  BY <1>4, <1>8, <1>9, JustLoaded, Zenon
<1>11. ~ v.retry => v.s > 0
  BY <1>2, <1>4, <1>9, Zenon DEF CallOK, Loading
<1> QED  BY <1>1, <1>2, <1>4, <1>6, <1>8, <1>9, <1>10, <1>11, LoadStep, Zenon

-----------------------------------------------------------------------------
(* The tail of a stage                                                      *)

LEMMA PassedJoin ==
  ASSUME NEW e, NEW a \in Int, NEW b \in Int, NEW c \in Int, NEW k, Passed(e, a, b, k), Passed(e, b, c, k)
  PROVE  Passed(e, a, c, k)
<1>1. \A p \in a .. c - 1 : p \in a .. b - 1 \/ p \in b .. c - 1
  BY SMT
<1> QED  BY <1>1, Zenon DEF Passed

\* The record of a stage after the store.
LEMMA FinStoreStages ==
  ASSUME SoInv, NEW u \in Users, FinStore(u)
  PROVE  LET s == usr[u].fs
             t == usr[u].ot + usr[u].fi
         IN  /\ s \in Stages /\ t \in Nat /\ usr[u].ot \in Nat /\ usr[u].fi \in Nat
             /\ stg' \in [Stages -> [head : Nat, tail : Nat, sync : {0, 1}]]
             /\ stg'[s].tail = t /\ stg'[s].head = stg[s].head
             /\ \A r \in Stages : r # s => stg'[r] = stg[r]
             /\ stg[s].tail = usr[u].ot /\ stg[s].tail <= t /\ t <= stg[s].head
             /\ Passed(elem, stg[s].tail, t, s + 1) /\ Finalizing(usr[u])
             /\ \A w \in Users : Finalizing(usr[w]) /\ usr[w].fs = s => w = u
<1>1. PICK s : s = usr[u].fs
  BY Zenon
<1>2. PICK t : t = usr[u].ot + usr[u].fi
  BY Zenon
<1>3. usr[u].pc = "fstore" /\ stg' = [stg EXCEPT ![s] = [stg[s] EXCEPT !.tail = t, !.sync = 0]]
  BY <1>1, <1>2, Zenon DEF FinStore, At
<1>4. /\ SoType /\ SoOrder /\ usr[u] \in Locals /\ s \in Stages /\ FinalizeOK(usr[u], stg, elem)
  BY <1>1, CallFacts, Zenon
<1>5. Finalizing(usr[u])
  BY <1>3, Zenon DEF Finalizing
<1>6. /\ stg[s].tail = usr[u].ot /\ t <= stg[s].head /\ Passed(elem, stg[s].tail, t, s + 1)
  BY <1>1, <1>2, <1>4, <1>5, Zenon DEF FinalizeOK
<1>7. usr[u].ot \in Nat /\ usr[u].fi \in Nat
  BY <1>4, LocalFields, Zenon
<1>8. t \in Nat /\ stg[s].tail <= t
  BY <1>2, <1>6, <1>7, SMT
<1>9. stg \in [Stages -> [head : Nat, tail : Nat, sync : {0, 1}]]
      /\ stg[s] \in [head : Nat, tail : Nat, sync : {0, 1}]
  BY <1>4, Zenon DEF SoType
<1>10. stg' \in [Stages -> [head : Nat, tail : Nat, sync : {0, 1}]]
  BY <1>3, <1>8, <1>9, Zenon
<1>11. /\ stg'[s].tail = t /\ stg'[s].head = stg[s].head
       /\ \A r \in Stages : r # s => stg'[r] = stg[r]
  BY <1>3, <1>4, <1>9, Zenon
<1>12. \A w \in Users : Finalizing(usr[w]) /\ usr[w].fs = s => w = u
  BY <1>1, <1>5, Zenon DEF SoInv, FinalizesOK, OneFinalizes
<1> QED  BY <1>1, <1>2, <1>4, <1>5, <1>6, <1>7, <1>8, <1>10, <1>11, <1>12, Zenon

LEMMA FinStoreInv ==
  ASSUME SoInv, NEW u \in Users, FinStore(u) PROVE SoInv'
<1>1. PICK s : s = usr[u].fs
  BY Zenon
<1>2. PICK t : t = usr[u].ot + usr[u].fi
  BY Zenon
<1>3. /\ s \in Stages /\ t \in Nat /\ usr[u].fi \in Nat
      /\ stg' \in [Stages -> [head : Nat, tail : Nat, sync : {0, 1}]]
      /\ stg'[s].tail = t /\ stg'[s].head = stg[s].head
      /\ \A r \in Stages : r # s => stg'[r] = stg[r]
      /\ stg[s].tail = usr[u].ot /\ stg[s].tail <= t /\ t <= stg[s].head
      /\ Passed(elem, stg[s].tail, t, s + 1) /\ Finalizing(usr[u])
      /\ \A w \in Users : Finalizing(usr[w]) /\ usr[w].fs = s => w = u
  BY <1>1, <1>2, FinStoreStages, Zenon
<1>4. usr[u].pc = "fstore" /\ UNCHANGED <<nbStage, prod, cons, slot, elem, tkr>> /\ Back(u, usr[u].fi)
  BY Zenon DEF FinStore, At
<1>5. PICK v \in Locals :
           /\ usr' = [usr EXCEPT ![u] = v] /\ v.pc \in {"idle", "again"}
           /\ v.s \in Stages /\ v.fs \in Stages /\ v.fi = 0
           /\ u = Consumer /\ usr[u].pc # "dtail" => v.objs = <<>>
  BY <1>3, <1>4, BackFacts, Zenon
<1>6. SoType /\ SoOrder
  BY Zenon DEF SoInv
<1>7. usr'[u] = v /\ usr' \in [Users -> Locals] /\ \A w \in Users : w # u => usr'[w] = usr[w]
  BY <1>5, <1>6, Zenon DEF SoType
<1>8. Stages' = Stages /\ LastStage' = LastStage
  BY <1>4, Zenon DEF Stages, LastStage
<1>9. SoType'
  BY <1>3, <1>4, <1>6, <1>7, <1>8, Zenon DEF SoType
<1>10. /\ \A r \in Stages : /\ stg'[r].head = stg[r].head /\ stg[r].tail <= stg'[r].tail
                            /\ stg'[r].tail <= stg[r].head /\ stg'[r].tail \in Nat
  <2>1. ASSUME NEW r \in Stages
        PROVE  /\ stg'[r].head = stg[r].head /\ stg[r].tail <= stg'[r].tail
               /\ stg'[r].tail <= stg[r].head /\ stg'[r].tail \in Nat
    <3>1. CASE r = s
      BY <1>3, <3>1, Zenon
    <3>2. CASE r # s
      <4>1. stg'[r] = stg[r]
        BY <1>3, <3>2, Zenon
      <4>2. stg[r].tail \in Nat /\ stg[r].tail <= stg[r].head
        BY <1>6, StageFields, Window, Zenon
      <4>3. stg[r].tail <= stg[r].tail
        BY <4>2, SMT
      <4> QED  BY <4>1, <4>2, <4>3, Zenon
    <3> QED  BY <3>1, <3>2, Zenon
  <2> QED  BY <2>1, Zenon
<1>11. SoOrder'
  <2>1. ASSUME NEW r \in Stages
        PROVE  cons.head <= stg'[r].tail /\ stg'[r].tail <= stg'[r].head /\ stg'[r].head <= prod.tail
    <3>1. cons.head <= stg[r].tail /\ stg[r].head <= prod.tail
      BY <1>6, Window, Zenon
    <3>2. stg[r].tail <= stg'[r].tail /\ stg'[r].head = stg[r].head /\ stg'[r].tail <= stg[r].head /\ stg'[r].tail \in Nat
      BY <1>10, Zenon
    <3> QED  BY <1>6, <3>1, <3>2, StageFields, EndFields, SMT
  <2>2. ASSUME NEW r \in Stages, NEW x \in Stages, r < x PROVE stg'[x].head <= stg'[r].tail
    <3>1. stg[x].head <= stg[r].tail
      BY <1>6, <2>2, Zenon DEF SoOrder
    <3>2. stg[r].tail <= stg'[r].tail /\ stg'[x].head = stg[x].head /\ stg'[r].tail \in Nat
      BY <1>10, Zenon
    <3> QED  BY <1>6, <3>1, <3>2, StageFields, SMT
  <2> QED  BY <1>4, <1>6, <1>8, <2>1, <2>2, Zenon DEF SoOrder
<1>12. ~ Claims(usr[u]) /\ ~ Claims(v) /\ ~ Finalizing(v) /\ ~ Loading(v)
  BY <1>4, <1>5, Zenon DEF Claims, Finalizing, Loading
<1>13. ASSUME NEW r \in Stages PROVE Region(stg', usr', r) = Region(stg, usr, r)
  <2>1. CASE r # s
    <3>1. \A w \in Users : Finalizing(usr'[w]) /\ usr'[w].fs = r <=> Finalizing(usr[w]) /\ usr[w].fs = r
      BY <1>1, <1>3, <1>7, <1>12, <2>1, Zenon
    <3>2. \A w \in Users : Finalizing(usr[w]) /\ usr[w].fs = r => usr'[w] = usr[w]
      BY <1>1, <1>7, <2>1, Zenon
    <3>3. stg'[r] = stg[r]
      BY <1>3, <2>1, Zenon
    <3> QED  BY <3>1, <3>2, <3>3, Zenon DEF Region
  <2>2. CASE r = s
    <3>1. \A q \in t .. stg[s].head - 1 : q \in stg[s].tail .. stg[s].head - 1 /\ t <= q
      BY <1>3, <1>6, StageFields, SMT
    <3>2. \A q \in stg[s].tail .. stg[s].head - 1 : t <= q => q \in t .. stg[s].head - 1
      BY <1>3, <1>6, StageFields, SMT
    <3>3. \A w \in Users : ~ (Finalizing(usr'[w]) /\ usr'[w].fs = s)
      BY <1>3, <1>7, <1>12, Zenon
    <3>4. Region(stg', usr', s) = t .. stg[s].head - 1
      BY <1>3, <3>3, Zenon DEF Region
    <3>5. Region(stg, usr, s) = {q \in stg[s].tail .. stg[s].head - 1 : t <= q}
      BY <1>1, <1>2, <1>3, Zenon DEF Region
    <3> QED  BY <2>2, <3>1, <3>2, <3>4, <3>5, Zenon
  <2> QED  BY <2>1, <2>2, Zenon
<1>14. Kept
  BY <1>4, <1>7, <1>10, <1>12, <1>13, Zenon DEF Kept
<1>15. CallsOK'
  <2>1. ASSUME NEW w \in Users PROVE CallOK(Stages, w, usr'[w]) /\ LoadOK(usr'[w], stg', prod.tail)
    <3>1. CASE w = u
      BY <1>5, <1>7, <1>12, <3>1, Zenon DEF CallOK, LoadOK
    <3>2. CASE w # u
      <4>1. PICK x : x = usr[w]
        BY Zenon
      <4>2. usr'[w] = x /\ CallOK(Stages, w, x) /\ LoadOK(x, stg, prod.tail) /\ x.s \in Stages /\ x \in Locals
        BY <1>7, <3>2, <4>1, CallFacts, Zenon
      <4>3. ASSUME x.head + x.n <= Before(stg, prod.tail, x.s) PROVE x.head + x.n <= Before(stg', prod.tail, x.s)
        <5>1. CASE x.s = 0
          BY <4>3, <5>1, Zenon DEF Before
        <5>2. CASE x.s # 0
          <6>1. x.s \in Nat /\ x.head \in Nat /\ x.n \in Nat
            BY <4>2, LocalFields, Zenon
          <6>2. x.s > 0
            BY <5>2, <6>1, SMT
          <6>3. PICK r \in Stages : r = x.s - 1
            BY <1>6, <4>2, <6>2, StageFacts, Zenon DEF SoType
          <6>4. x.head + x.n <= stg[r].tail
            BY <4>3, <5>2, <6>3, Zenon DEF Before
          <6>5. stg[r].tail <= stg'[r].tail /\ stg'[r].tail \in Nat /\ stg[r].tail \in Nat
            BY <1>6, <1>10, StageFields, Zenon
          <6>6. x.head + x.n <= stg'[r].tail
            BY <6>1, <6>4, <6>5, SMT
          <6> QED  BY <5>2, <6>3, <6>6, Zenon DEF Before
        <5> QED  BY <5>1, <5>2, Zenon
      <4>4. LoadOK(x, stg', prod.tail)
        BY <1>10, <4>2, <4>3, Zenon DEF LoadOK
      <4> QED  BY <4>2, <4>4, Zenon
    <3> QED  BY <3>1, <3>2, Zenon
  <2> QED  BY <1>4, <1>8, <2>1, Zenon DEF CallsOK
<1>16. FinalizesOK'
  <2>1. \A w \in Users : Finalizing(usr'[w]) => w # u /\ usr'[w] = usr[w] /\ usr[w].fs # s
    BY <1>3, <1>7, <1>12, Zenon
  <2>2. OneFinalizes'
    BY <2>1, Zenon DEF SoInv, FinalizesOK, OneFinalizes
  <2>3. ASSUME NEW w \in Users PROVE FinalizeOK(usr'[w], stg', elem)
    <3>1. CASE ~ Finalizing(usr'[w])
      BY <3>1, Zenon DEF FinalizeOK
    <3>2. CASE Finalizing(usr'[w])
      <4>1. usr'[w] = usr[w] /\ usr[w].fs # s /\ usr[w].fs \in Stages /\ FinalizeOK(usr[w], stg, elem)
        BY <2>1, <3>2, CallFacts, Zenon
      <4>2. stg'[usr[w].fs] = stg[usr[w].fs]
        BY <1>3, <4>1, Zenon
      <4> QED  BY <4>1, <4>2, Zenon DEF FinalizeOK
    <3> QED  BY <3>1, <3>2, Zenon
  <2> QED  BY <1>4, <2>2, <2>3, Zenon DEF FinalizesOK
<1>17. FrontOK'
  <2>1. ASSUME NEW r \in Stages PROVE Passed(elem, stg'[r].head, Before(stg', prod.tail + tkr, r), r)
    <3>1. Passed(elem, stg[r].head, Before(stg, prod.tail + tkr, r), r) /\ stg'[r].head = stg[r].head
      BY <1>10, Zenon DEF SoInv, FrontOK
    <3>2. CASE r = 0
      BY <3>1, <3>2, Zenon DEF Before
    <3>3. CASE r # 0
      <4>1. r \in Nat
        BY <1>6, StageFields, Zenon
      <4>2. r > 0
        BY <3>3, <4>1, SMT
      <4>3. PICK x \in Stages : x = r - 1
        BY <1>6, <4>2, StageFacts, Zenon DEF SoType
      <4>4. x + 1 = r /\ x \in Nat
        BY <1>6, <4>1, <4>3, StageFields, SMT
      <4>5. Passed(elem, stg[r].head, stg[x].tail, r)
        BY <3>1, <3>3, <4>3, Zenon DEF Before
      <4>6. CASE x # s
        BY <1>3, <3>1, <3>3, <4>3, <4>5, <4>6, Zenon DEF Before
      <4>7. CASE x = s
        <5>1. Passed(elem, stg[s].tail, t, r)
          BY <1>3, <4>4, <4>7, Zenon
        <5>2. stg[r].head \in Int /\ stg[s].tail \in Int /\ t \in Int
          BY <1>3, <1>6, StageFields, SMT
        <5>3. Passed(elem, stg[r].head, t, r)
          BY <4>5, <4>7, <5>1, <5>2, PassedJoin, Zenon
        <5> QED  BY <1>3, <3>1, <3>3, <4>3, <4>7, <5>3, Zenon DEF Before
      <4> QED  BY <4>6, <4>7, Zenon
    <3> QED  BY <3>2, <3>3, Zenon
  <2>2. Passed(elem, cons.tail, stg'[LastStage].tail, nbStage)
    <3>1. Passed(elem, cons.tail, stg[LastStage].tail, nbStage)
      BY Zenon DEF SoInv, FrontOK
    <3>2. LastStage \in Stages /\ nbStage \in Nat /\ LastStage = nbStage - 1
      BY <1>6, StageFacts, Zenon DEF SoType
    <3>3. CASE LastStage # s
      BY <1>3, <3>1, <3>2, <3>3, Zenon
    <3>4. CASE LastStage = s
      <4>1. s + 1 = nbStage
        BY <3>2, <3>4, SMT
      <4>2. cons.tail \in Int /\ stg[s].tail \in Int /\ t \in Int
        BY <1>3, <1>6, StageFields, EndFields, SMT
      <4>3. Passed(elem, stg[s].tail, t, nbStage)
        BY <1>3, <4>1, Zenon
      <4>4. Passed(elem, cons.tail, t, nbStage)
        BY <3>1, <3>4, <4>2, <4>3, PassedJoin, Zenon
      <4> QED  BY <1>3, <3>4, <4>4, Zenon
    <3> QED  BY <3>3, <3>4, Zenon
  <2> QED  BY <1>4, <1>8, <2>1, <2>2, Zenon DEF FrontOK
<1>18. DequeueOK'
  <2>1. Consumer \in Users
    BY Zenon DEF Users
  <2>2. CASE u = Consumer
    BY <1>4, <1>5, <1>7, <2>2, Zenon DEF SoInv, DequeueOK
  <2>3. CASE u # Consumer
    BY <1>4, <1>7, <2>1, <2>3, Zenon DEF SoInv, DequeueOK
  <2> QED  BY <2>2, <2>3, Zenon
<1> QED  BY <1>9, <1>11, <1>14, <1>15, <1>16, <1>17, <1>18, KeptClaims, KeptBatches, Zenon DEF SoInv

-----------------------------------------------------------------------------
(* Steps on the batches                                                     *)

\* A step of one user that moves no position.
BatchStep(u, v) ==
  /\ UNCHANGED <<nbStage, prod, cons, stg, tkr>>
  /\ usr' = [usr EXCEPT ![u] = v] /\ v \in Locals
  /\ slot' \in [Index -> States] /\ elem' \in [Index -> Elements]
  /\ CallOK(Stages, u, v) /\ ~ Loading(v) /\ FinalizeOK(v, stg, elem')
  /\ \A w \in Users : w # u => FinalizeOK(usr[w], stg, elem')
  /\ u = Consumer => usr[u].pc # "dtail" /\ v.pc # "dtail" /\ v.objs = <<>>
  /\ Finalizing(v) => Finalizing(usr[u]) /\ v.fs = usr[u].fs

LEMMA BatchStepInv ==
  ASSUME SoInv, NEW u \in Users, NEW v, BatchStep(u, v)
  PROVE  /\ SoType' /\ SoOrder' /\ CallsOK' /\ FinalizesOK' /\ DequeueOK' /\ Stages' = Stages
         /\ usr'[u] = v /\ \A w \in Users : w # u => usr'[w] = usr[w]
<1>1. SoType /\ SoOrder
  BY Zenon DEF SoInv
<1>2. usr'[u] = v /\ usr' \in [Users -> Locals] /\ \A w \in Users : w # u => usr'[w] = usr[w]
  BY <1>1, Zenon DEF BatchStep, SoType
<1>3. Stages' = Stages
  BY Zenon DEF BatchStep, Stages
<1>4. SoType'
  BY <1>1, <1>2, <1>3, Zenon DEF SoType, BatchStep
<1>5. SoOrder'
  BY <1>1, <1>3, Zenon DEF SoOrder, BatchStep
<1>6. CallsOK'
  <2>1. LoadOK(v, stg, prod.tail)
    BY Zenon DEF LoadOK, BatchStep
  <2> QED  BY <1>2, <1>3, <2>1, Zenon DEF SoInv, CallsOK, BatchStep
<1>7. FinalizesOK'
  <2>1. \A w \in Users : Finalizing(usr'[w]) => Finalizing(usr[w]) /\ usr'[w].fs = usr[w].fs
    BY <1>2, Zenon DEF BatchStep
  <2>2. OneFinalizes'
    BY <2>1, Zenon DEF SoInv, FinalizesOK, OneFinalizes
  <2>3. \A w \in Users : FinalizeOK(usr'[w], stg', elem')
    BY <1>2, Zenon DEF BatchStep
  <2> QED  BY <2>2, <2>3, Zenon DEF FinalizesOK
<1>8. DequeueOK'
  <2>1. Consumer \in Users
    BY Zenon DEF Users
  <2>2. CASE u = Consumer
    BY <1>2, <2>2, Zenon DEF SoInv, DequeueOK, BatchStep
  <2>3. CASE u # Consumer
    BY <1>2, <2>1, <2>3, Zenon DEF SoInv, DequeueOK, BatchStep
  <2> QED  BY <2>2, <2>3, Zenon
<1> QED  BY <1>2, <1>3, <1>4, <1>5, <1>6, <1>7, <1>8, Zenon

\* The elements in front of the stages are not touched.
LEMMA FrontSame ==
  ASSUME SoInv, UNCHANGED <<nbStage, prod, cons, stg, tkr, elem>>
  PROVE  FrontOK'
BY Zenon DEF SoInv, FrontOK, Stages, LastStage

LEMMA ZeroFacts == Zero \in States /\ Zero.st = "none"
<1>1. 0 \in Nat
  BY SMT
<1> QED  BY <1>1, Zenon DEF Zero, States

\* One round of the walk: the batch at the walk's position is released, and the
\* stage's batches that are left begin after its end.
LEMMA FinClearFacts ==
  ASSUME SoInv, NEW u \in Users, FinClear(u)
  PROVE  LET s == usr[u].fs
             q == usr[u].ot + usr[u].fi
         IN  /\ s \in Stages /\ q \in Region(stg, usr, s) /\ Released(slot, q)
             /\ Finalizing(usr[u]) /\ \A w \in Users : Finalizing(usr[w]) /\ usr[w].fs = s => w = u
<1>1. PICK s : s = usr[u].fs
  BY Zenon
<1>2. PICK q : q = usr[u].ot + usr[u].fi
  BY Zenon
<1>3. usr[u].pc = "fwalk" /\ WalksOn(u)
  BY Zenon DEF FinClear, At
<1>4. /\ SoType /\ SoOrder /\ usr[u] \in Locals /\ s \in Stages /\ FinalizeOK(usr[u], stg, elem)
  BY <1>1, CallFacts, Zenon
<1>5. Finalizing(usr[u])
  BY <1>3, Zenon DEF Finalizing
<1>6. /\ stg[s].tail = usr[u].ot /\ usr[u].ot + usr[u].fn <= stg[s].head
  BY <1>1, <1>3, <1>4, <1>5, Zenon DEF FinalizeOK
<1>7. usr[u].ot \in Nat /\ usr[u].fi \in Nat /\ usr[u].fn \in Nat
  BY <1>4, LocalFields, Zenon
<1>8. usr[u].fi < usr[u].fn /\ Released(slot, q)
  BY <1>2, <1>3, Zenon DEF WalksOn, Released
<1>9. q \in Int /\ stg[s].tail <= q /\ q < stg[s].head /\ usr[u].ot + usr[u].fi <= q
  BY <1>2, <1>4, <1>6, <1>7, <1>8, StageFields, SMT
<1>10. \A w \in Users : Finalizing(usr[w]) /\ usr[w].fs = s => w = u
  BY <1>1, <1>5, Zenon DEF SoInv, FinalizesOK, OneFinalizes
<1>11. q \in Region(stg, usr, s)
  BY <1>4, <1>9, <1>10, IsInRegion, Zenon
<1> QED  BY <1>1, <1>2, <1>4, <1>5, <1>8, <1>10, <1>11, Zenon

LEMMA FinClearInv ==
  ASSUME SoInv, NEW u \in Users, FinClear(u) PROVE SoInv'
<1>1. PICK s : s = usr[u].fs
  BY Zenon
<1>2. PICK q : q = usr[u].ot + usr[u].fi
  BY Zenon
<1>3. /\ s \in Stages /\ q \in Region(stg, usr, s) /\ Released(slot, q)
      /\ Finalizing(usr[u]) /\ \A w \in Users : Finalizing(usr[w]) /\ usr[w].fs = s => w = u
  BY <1>1, <1>2, FinClearFacts, Zenon
<1>4. PICK v : v = [usr[u] EXCEPT !.fi = usr[u].fi + slot[Idx(q)].num]
  BY Zenon
<1>5. /\ usr[u].pc = "fwalk" /\ UNCHANGED <<nbStage, prod, cons, stg, elem, tkr>>
      /\ slot' = [slot EXCEPT ![Idx(q)] = Zero] /\ usr' = [usr EXCEPT ![u] = v]
  BY <1>2, <1>4, Zenon DEF FinClear, At, Becomes
<1>6. /\ SoType /\ SoOrder /\ usr[u] \in Locals /\ CallOK(Stages, u, usr[u]) /\ FinalizeOK(usr[u], stg, elem)
      /\ u = Consumer => usr[u].objs = <<>>
  BY <1>5, CallFacts, Zenon
<1>7. PICK z : z = End(slot, q)
  BY Zenon
<1>8. /\ ReleasedOK(slot, elem, stg[s].head, s, q) /\ z \in Nat /\ q < z /\ z <= stg[s].head
  BY <1>3, <1>7, ReleasedFacts, Zenon
<1>9. q \in Nat /\ q \in Int /\ Idx(q) \in Index /\ stg[s].tail <= q
  BY <1>3, <1>6, InRegion, IdxIn, Zenon
<1>10. slot[Idx(q)].num \in Nat /\ usr[u].ot \in Nat /\ usr[u].fi \in Nat
  BY <1>6, <1>9, StateFields, LocalFields, Zenon
<1>11. usr[u].fi + slot[Idx(q)].num \in Nat /\ usr[u].ot + (usr[u].fi + slot[Idx(q)].num) = z
  BY <1>2, <1>7, <1>10, SMT DEF End
<1>12. v \in Locals
  BY <1>4, <1>6, <1>11, Zenon DEF Locals
<1>13. /\ v.pc = usr[u].pc /\ v.fs = usr[u].fs /\ v.ot = usr[u].ot /\ v.fn = usr[u].fn /\ v.s = usr[u].s
       /\ v.objs = usr[u].objs /\ v.fi = usr[u].fi + slot[Idx(q)].num /\ v.retry = usr[u].retry
  BY <1>4, <1>6, Zenon DEF Locals
<1>14. v.ot + v.fi = z /\ Finalizing(v) /\ ~ Claims(v) /\ ~ Claims(usr[u]) /\ ~ Loading(v)
  BY <1>5, <1>11, <1>13, Zenon DEF Finalizing, Claims, Loading
<1>15. FinalizeOK(v, stg, elem)
  <2>1. Passed(elem, usr[u].ot, q, s + 1)
    BY <1>1, <1>2, <1>3, <1>6, Zenon DEF FinalizeOK
  <2>2. Passed(elem, q, z, s + 1)
    BY <1>7, <1>8, Zenon DEF ReleasedOK
  <2>3. usr[u].ot \in Int /\ z \in Int
    BY <1>8, <1>10, SMT
  <2>4. Passed(elem, v.ot, z, v.fs + 1)
    BY <1>1, <1>9, <1>13, <2>1, <2>2, <2>3, PassedJoin, Zenon
  <2> QED  BY <1>1, <1>3, <1>6, <1>8, <1>13, <1>14, <2>4, Zenon DEF FinalizeOK
<1>16. CallOK(Stages, u, v)
  BY <1>5, <1>6, <1>13, <1>14, Zenon DEF CallOK
<1>17. slot' \in [Index -> States] /\ slot'[Idx(q)] = Zero /\ \A i \in Index : i # Idx(q) => slot'[i] = slot[i]
  BY <1>5, <1>6, <1>9, ZeroFacts, Zenon DEF SoType
<1>18. \A w \in Users : w # u => FinalizeOK(usr[w], stg, elem')
  BY <1>5, CallFacts, Zenon
<1>19. elem' \in [Index -> Elements]
  BY <1>5, <1>6, Zenon DEF SoType
<1>20. BatchStep(u, v)
  BY <1>3, <1>5, <1>6, <1>12, <1>13, <1>14, <1>15, <1>16, <1>17, <1>18, <1>19, Zenon DEF BatchStep
<1>21. /\ SoType' /\ SoOrder' /\ CallsOK' /\ FinalizesOK' /\ DequeueOK' /\ Stages' = Stages
       /\ usr'[u] = v /\ \A w \in Users : w # u => usr'[w] = usr[w]
  BY <1>20, BatchStepInv, Zenon
<1>22. ASSUME NEW r \in Stages, r # s PROVE Region(stg', usr', r) = Region(stg, usr, r)
  <2>1. \A w \in Users : Finalizing(usr'[w]) /\ usr'[w].fs = r <=> Finalizing(usr[w]) /\ usr[w].fs = r
    BY <1>1, <1>13, <1>21, <1>22, Zenon
  <2>2. \A w \in Users : Finalizing(usr[w]) /\ usr[w].fs = r => usr'[w] = usr[w]
    BY <1>1, <1>21, <1>22, Zenon
  <2> QED  BY <1>5, <2>1, <2>2, Zenon DEF Region
<1>23. Region(stg', usr', s) = {p \in stg[s].tail .. stg[s].head - 1 : z <= p}
  BY <1>1, <1>3, <1>5, <1>13, <1>14, <1>21, Zenon DEF Region
<1>24. ASSUME NEW r \in Stages, NEW p \in Region(stg', usr', r)
       PROVE  p \in Region(stg, usr, r) /\ p # q /\ slot'[Idx(p)] = slot[Idx(p)]
  <2>1. p \in Region(stg, usr, r) /\ (r = s => p # q)
    <3>1. CASE r # s
      BY <1>22, <1>24, <3>1, Zenon
    <3>2. CASE r = s
      <4>1. p \in stg[s].tail .. stg[s].head - 1 /\ z <= p
        BY <1>23, <1>24, <3>2, Zenon
      <4>2. p \in Int /\ stg[s].tail <= p /\ p < stg[s].head /\ q <= p /\ p # q
        BY <1>3, <1>6, <1>8, <1>9, <4>1, StageFields, SMT
      <4>3. \A w \in Users : Finalizing(usr[w]) /\ usr[w].fs = s => usr[w].ot + usr[w].fi <= p
        BY <1>2, <1>3, <4>2, Zenon
      <4> QED  BY <1>6, <3>2, <4>2, <4>3, IsInRegion, Zenon
    <3> QED  BY <3>1, <3>2, Zenon
  <2>2. Idx(p) # Idx(q)
    BY <1>3, <1>6, <2>1, SameBatch, Zenon
  <2>3. Idx(p) \in Index
    BY <1>6, <2>1, InRegion, IdxIn, Zenon
  <2> QED  BY <1>17, <2>1, <2>2, <2>3, Zenon
<1>25. ASSUME NEW r \in Stages, NEW p \in Region(stg, usr, r), r = s => z <= p
       PROVE  p \in Region(stg', usr', r)
  <2>1. CASE r # s
    BY <1>22, <1>25, <2>1, Zenon
  <2>2. CASE r = s
    <3>1. p \in stg[s].tail .. stg[s].head - 1
      BY <2>2, <1>25, Zenon DEF Region
    <3> QED  BY <1>23, <1>25, <2>2, <3>1, Zenon
  <2> QED  BY <2>1, <2>2, Zenon
<1>26. ASSUME NEW w \in Users, Claims(usr[w])
       PROVE  w # u /\ usr'[w] = usr[w] /\ usr[w].head \in Region(stg', usr', usr[w].s)
  <2>1. /\ usr[w].s \in Stages /\ usr[w].head \in Region(stg, usr, usr[w].s)
        /\ usr[w].head \in Nat /\ usr[w].n \in Nat /\ usr[w].n > 0
    BY <1>26, ClaimFacts, Zenon
  <2>2. ASSUME usr[w].s = s PROVE z <= usr[w].head
    <3>1. z <= usr[w].head \/ usr[w].head + usr[w].n <= q
      BY <1>3, <1>7, <1>26, <2>2, Zenon DEF SoInv, BatchesOK, OneOfEach
    <3>2. q <= usr[w].head
      BY <1>1, <1>2, <1>3, <1>6, <2>1, <2>2, InRegion, Zenon
    <3> QED  BY <1>9, <2>1, <3>1, <3>2, SMT
  <2>3. w # u
    BY <1>14, <1>26, Zenon
  <2> QED  BY <1>21, <1>25, <2>1, <2>2, <2>3, Zenon
<1>27. \A w \in Users : Claims(usr'[w]) => Claims(usr[w])
  BY <1>14, <1>21, Zenon
<1>28. ClaimsOK'
  <2>1. ASSUME NEW w \in Users
        PROVE  /\ Claims(usr'[w]) => usr'[w].head \in Region(stg', usr', usr'[w].s)
               /\ ClaimOK(usr'[w], stg'[usr'[w].s].head, slot', elem')
    <3>1. CASE ~ Claims(usr'[w])
      BY <3>1, Zenon DEF ClaimOK
    <3>2. CASE Claims(usr'[w])
      <4>1. usr'[w] = usr[w] /\ usr[w].head \in Region(stg', usr', usr[w].s) /\ usr[w].s \in Stages
        BY <1>26, <1>27, <3>2, CallFacts, Zenon
      <4>2. slot'[Idx(usr[w].head)] = slot[Idx(usr[w].head)]
        BY <1>24, <4>1, Zenon
      <4>3. ClaimOK(usr[w], stg[usr[w].s].head, slot, elem)
        BY Zenon DEF SoInv, ClaimsOK
      <4>4. ClaimOK(usr[w], stg[usr[w].s].head, slot', elem)
        BY <4>2, <4>3, Zenon DEF ClaimOK
      <4> QED  BY <1>5, <4>1, <4>4, Zenon
    <3> QED  BY <3>1, <3>2, Zenon
  <2> QED  BY <2>1, Zenon DEF ClaimsOK
<1>29. ClaimsApart'
  BY <1>26, <1>27, Zenon DEF SoInv, ClaimsApart, TwoClaims
<1>30. BatchesOK'
  <2>1. ASSUME NEW r \in Stages, NEW p \in Region(stg', usr', r)
        PROVE  /\ Released(slot', p) => ReleasedOK(slot', elem', stg'[r].head, r, p)
               /\ \A o \in Region(stg', usr', r) : TwoReleased(slot', p, o)
               /\ \A w \in Users : OneOfEach(slot', r, p, usr'[w])
    <3>1. p \in Region(stg, usr, r) /\ slot'[Idx(p)] = slot[Idx(p)]
      BY <1>24, Zenon
    <3>2. (Released(slot', p) <=> Released(slot, p)) /\ End(slot', p) = End(slot, p)
      BY <3>1, Zenon DEF Released, End
    <3>3. Released(slot', p) => ReleasedOK(slot', elem', stg'[r].head, r, p)
      BY <1>5, <3>1, <3>2, Zenon DEF SoInv, BatchesOK, ReleasedOK
    <3>4. ASSUME NEW o \in Region(stg', usr', r) PROVE TwoReleased(slot', p, o)
      <4>1. o \in Region(stg, usr, r) /\ slot'[Idx(o)] = slot[Idx(o)]
        BY <1>24, Zenon
      <4>2. TwoReleased(slot, p, o)
        BY <3>1, <4>1, Zenon DEF SoInv, BatchesOK
      <4> QED  BY <3>2, <4>1, <4>2, Zenon DEF TwoReleased, Released
    <3>5. ASSUME NEW w \in Users PROVE OneOfEach(slot', r, p, usr'[w])
      <4>1. OneOfEach(slot, r, p, usr[w])
        BY <3>1, Zenon DEF SoInv, BatchesOK
      <4> QED  BY <1>26, <1>27, <3>2, <4>1, Zenon DEF OneOfEach
    <3> QED  BY <3>3, <3>4, <3>5, Zenon
  <2> QED  BY <1>21, <2>1, Zenon DEF BatchesOK
<1>31. SlotsOK'
  <2>1. ASSUME NEW i \in Index PROVE SlotOK(Stages', slot', usr', stg', i)
    <3>1. CASE i = Idx(q)
      BY <1>17, <3>1, ZeroFacts, Zenon DEF SlotOK
    <3>2. CASE i # Idx(q)
      <4>1. slot'[i] = slot[i] /\ SlotOK(Stages, slot, usr, stg, i)
        BY <1>17, <3>2, Zenon DEF SoInv, SlotsOK
      <4>2. ASSUME slot[i].st = "start" PROVE \E w \in Users : Marked(usr'[w]) /\ Idx(usr'[w].head) = i
        <5>1. PICK w \in Users : Marked(usr[w]) /\ Idx(usr[w].head) = i
          BY <4>1, <4>2, Zenon DEF SlotOK
        <5>2. Claims(usr[w])
          BY <5>1, Zenon DEF Claims, Marked
        <5> QED  BY <1>26, <5>1, <5>2, Zenon
      <4>3. ASSUME slot[i].st = "finish" PROVE \E r \in Stages : \E p \in Region(stg', usr', r) : Idx(p) = i
        <5>1. PICK r \in Stages : \E p \in Region(stg, usr, r) : Idx(p) = i
          BY <4>1, <4>3, Zenon DEF SlotOK
        <5>2. PICK p \in Region(stg, usr, r) : Idx(p) = i
          BY <5>1, Zenon
        <5>3. ASSUME r = s PROVE z <= p
          <6>1. Released(slot, p) /\ p # q
            BY <3>2, <4>3, <5>2, Zenon DEF Released
          <6>2. TwoReleased(slot, q, p)
            BY <1>3, <5>2, <5>3, Zenon DEF SoInv, BatchesOK
          <6>3. q <= p /\ p \in Int
            BY <1>1, <1>2, <1>3, <1>6, <5>2, <5>3, InRegion, Zenon
          <6>4. q < p
            BY <1>9, <6>1, <6>3, SMT
          <6> QED  BY <1>3, <1>7, <6>1, <6>2, <6>4, Zenon DEF TwoReleased
        <5> QED  BY <1>25, <5>2, <5>3, Zenon
      <4> QED  BY <1>21, <4>1, <4>2, <4>3, Zenon DEF SlotOK
    <3> QED  BY <3>1, <3>2, Zenon
  <2> QED  BY <2>1, Zenon DEF SlotsOK
<1>32. FrontOK'
  BY <1>5, FrontSame, Zenon
<1> QED  BY <1>21, <1>28, <1>29, <1>30, <1>31, <1>32, Zenon DEF SoInv

\* Batches of different users have different states.
LEMMA OtherClaim ==
  ASSUME SoInv, NEW w \in Users, NEW x \in Users, x # w, Claims(usr[w]), Claims(usr[x])
  PROVE  Idx(usr[x].head) # Idx(usr[w].head)
<1>1. SUFFICES ASSUME Idx(usr[x].head) = Idx(usr[w].head) PROVE FALSE
  BY Zenon
<1>2. /\ usr[w].s \in Stages /\ usr[w].head \in Nat /\ usr[w].n \in Nat /\ usr[w].n > 0
      /\ usr[w].head \in Region(stg, usr, usr[w].s)
  BY ClaimFacts, Zenon
<1>3. /\ usr[x].s \in Stages /\ usr[x].head \in Nat /\ usr[x].n \in Nat /\ usr[x].n > 0
      /\ usr[x].head \in Region(stg, usr, usr[x].s)
  BY ClaimFacts, Zenon
<1>4. usr[x].head = usr[w].head /\ usr[x].s = usr[w].s
  <2>1. SoType /\ SoOrder
    BY Zenon DEF SoInv
  <2>2. PICK q : q = usr[x].head
    BY Zenon
  <2>3. PICK p : p = usr[w].head
    BY Zenon
  <2>4. PICK s \in Stages : s = usr[x].s
    BY <1>3, Zenon
  <2>5. PICK r \in Stages : r = usr[w].s
    BY <1>2, Zenon
  <2>6. q \in Region(stg, usr, s) /\ p \in Region(stg, usr, r) /\ Idx(q) = Idx(p)
    BY <1>1, <1>2, <1>3, <2>2, <2>3, <2>4, <2>5, Zenon
  <2>7. q = p /\ s = r
    BY <2>1, <2>6, SameBatch, Zenon
  <2> QED  BY <2>2, <2>3, <2>4, <2>5, <2>7, Zenon
<1>5. usr[x].head + usr[x].n <= usr[w].head \/ usr[w].head + usr[w].n <= usr[x].head
  BY <1>4, Zenon DEF SoInv, ClaimsApart, TwoClaims
<1> QED  BY <1>2, <1>3, <1>4, <1>5, SMT

LEMMA RegionsSame ==
  ASSUME SoInv, NEW u \in Users, NEW v, usr' = [usr EXCEPT ![u] = v], UNCHANGED stg,
         ~ Finalizing(usr[u]), ~ Finalizing(v)
  PROVE  \A s \in Stages : Region(stg', usr', s) = Region(stg, usr, s)
<1>1. usr'[u] = v /\ \A w \in Users : w # u => usr'[w] = usr[w]
  BY Zenon DEF SoInv, SoType
<1>2. \A w \in Users : (Finalizing(usr'[w]) <=> Finalizing(usr[w])) /\ (Finalizing(usr[w]) => usr'[w] = usr[w])
  BY <1>1, Zenon
<1> QED  BY <1>2, Zenon DEF Region

\* Marking a batch, and telling finalize that it is released: only the state of
\* the batch's first position changes.
LEMMA MarkFrame ==
  ASSUME SoInv, NEW w \in Users, Claims(usr[w]), NEW st, slot' = [slot EXCEPT ![Idx(usr[w].head)] = st]
  PROVE  /\ Idx(usr[w].head) \in Index /\ slot'[Idx(usr[w].head)] = st
         /\ \A i \in Index : i # Idx(usr[w].head) => slot'[i] = slot[i]
         /\ \A x \in Users : x # w /\ Claims(usr[x]) => slot'[Idx(usr[x].head)] = slot[Idx(usr[x].head)]
         /\ \A r \in Stages : \A p \in Region(stg, usr, r) :
              \/ p = usr[w].head /\ r = usr[w].s
              \/ Idx(p) # Idx(usr[w].head) /\ slot'[Idx(p)] = slot[Idx(p)]
<1>1. SoType /\ SoOrder
  BY Zenon DEF SoInv
<1>2. usr[w].head \in Region(stg, usr, usr[w].s) /\ usr[w].s \in Stages
  BY ClaimFacts, Zenon
<1>3. Idx(usr[w].head) \in Index
  BY <1>1, <1>2, InRegion, IdxIn, Zenon
<1>4. slot'[Idx(usr[w].head)] = st /\ \A i \in Index : i # Idx(usr[w].head) => slot'[i] = slot[i]
  BY <1>1, <1>3, Zenon DEF SoType
<1>5. ASSUME NEW r \in Stages, NEW p \in Region(stg, usr, r)
      PROVE  \/ p = usr[w].head /\ r = usr[w].s
             \/ Idx(p) # Idx(usr[w].head) /\ slot'[Idx(p)] = slot[Idx(p)]
  <2>1. Idx(p) \in Index
    BY <1>1, InRegion, IdxIn, Zenon
  <2>2. Idx(p) = Idx(usr[w].head) => p = usr[w].head /\ r = usr[w].s
    BY <1>1, <1>2, SameBatch, Zenon
  <2> QED  BY <1>4, <2>1, <2>2, Zenon
<1>6. ASSUME NEW x \in Users, x # w, Claims(usr[x]) PROVE slot'[Idx(usr[x].head)] = slot[Idx(usr[x].head)]
  <2>1. usr[x].head \in Region(stg, usr, usr[x].s) /\ usr[x].s \in Stages
    BY <1>6, ClaimFacts, Zenon
  <2>2. Idx(usr[x].head) \in Index
    BY <1>1, <2>1, InRegion, IdxIn, Zenon
  <2> QED  BY <1>4, <1>6, <2>2, OtherClaim, Zenon
<1> QED  BY <1>3, <1>4, <1>5, <1>6, Zenon

\* The elements that acquire copies.
LEMMA CopyFacts ==
  ASSUME SoType, NEW p \in Nat, NEW n \in Nat, NEW k, Passed(elem, p, p + n, k)
  PROVE  /\ Copy(p, n) \in Seq(Elements) /\ Len(Copy(p, n)) = n /\ Are(Copy(p, n), p, k)
         /\ DOMAIN Copy(p, n) = 1 .. n
<1>1. ASSUME NEW i \in 1 .. n
      PROVE  elem[Idx(p + i - 1)] \in Elements /\ elem[Idx(p + i - 1)] = ElemAt(p + i - 1, k)
  <2>1. p + i - 1 \in Int /\ p + i - 1 \in p .. (p + n) - 1
    BY SMT
  <2>2. Idx(p + i - 1) \in Index
    BY <2>1, IdxIn, Zenon
  <2>3. elem[Idx(p + i - 1)] \in Elements
    BY <2>2, Zenon DEF SoType
  <2>4. PICK j : j = p + i - 1
    BY Zenon
  <2>5. elem[Idx(j)] = ElemAt(j, k)
    BY <2>1, <2>4, Zenon DEF Passed
  <2> QED  BY <2>3, <2>4, <2>5, Zenon
<1>2. Copy(p, n) \in [1 .. n -> Elements] /\ \A i \in 1 .. n : Copy(p, n)[i] = ElemAt(p + i - 1, k)
  BY <1>1, Zenon DEF Copy
<1>3. PICK c : c = Copy(p, n)
  BY Zenon
<1>4. c \in [1 .. n -> Elements] /\ DOMAIN c = 1 .. n
  BY <1>2, <1>3, Zenon
<1>5. c \in Seq(Elements) /\ Len(c) = n
  BY <1>4, SMT
<1>6. Are(c, p, k)
  BY <1>2, <1>3, <1>4, Zenon DEF Are
<1> QED  BY <1>3, <1>4, <1>5, <1>6, Zenon

\* What is left to show of a step that marks or releases the batch of w.
MarkStep(w, v, st) ==
  /\ BatchStep(w, v) /\ UNCHANGED elem
  /\ Claims(usr[w]) /\ ~ Finalizing(v)
  /\ slot' = [slot EXCEPT ![Idx(usr[w].head)] = st]

LEMMA MarkStepFacts ==
  ASSUME SoInv, NEW w \in Users, NEW v, NEW st, MarkStep(w, v, st)
  PROVE  /\ SoType' /\ SoOrder' /\ CallsOK' /\ FinalizesOK' /\ DequeueOK' /\ FrontOK' /\ Stages' = Stages
         /\ usr'[w] = v /\ stg' = stg /\ \A x \in Users : x # w => usr'[x] = usr[x]
         /\ \A s \in Stages : Region(stg', usr', s) = Region(stg, usr, s)
         /\ \A x \in Users : x # w =>
              /\ Claims(usr'[x]) => usr'[x].head \in Region(stg', usr', usr'[x].s)
              /\ ClaimOK(usr'[x], stg'[usr'[x].s].head, slot', elem')
<1>1. /\ SoType' /\ SoOrder' /\ CallsOK' /\ FinalizesOK' /\ DequeueOK' /\ Stages' = Stages
      /\ usr'[w] = v /\ \A x \in Users : x # w => usr'[x] = usr[x]
  BY BatchStepInv, Zenon DEF MarkStep
<1>2. /\ UNCHANGED <<nbStage, prod, cons, stg, tkr, elem>> /\ usr' = [usr EXCEPT ![w] = v]
      /\ ~ Finalizing(v) /\ Claims(usr[w]) /\ slot' = [slot EXCEPT ![Idx(usr[w].head)] = st]
  BY Zenon DEF MarkStep, BatchStep
<1>3. ~ Finalizing(usr[w])
  BY <1>2, Zenon DEF Claims, Finalizing
<1>4. FrontOK'
  BY <1>2, FrontSame, Zenon
<1>5. \A s \in Stages : Region(stg', usr', s) = Region(stg, usr, s)
  BY <1>2, <1>3, RegionsSame, Zenon
<1>6. ASSUME NEW x \in Users, x # w
      PROVE  /\ Claims(usr'[x]) => usr'[x].head \in Region(stg', usr', usr'[x].s)
             /\ ClaimOK(usr'[x], stg'[usr'[x].s].head, slot', elem')
  <2>1. usr'[x] = usr[x] /\ usr[x].s \in Stages
    BY <1>1, <1>6, CallFacts, Zenon
  <2>2. ClaimOK(usr[x], stg[usr[x].s].head, slot, elem)
        /\ (Claims(usr[x]) => usr[x].head \in Region(stg, usr, usr[x].s))
    BY Zenon DEF SoInv, ClaimsOK
  <2>3. Claims(usr[x]) => slot'[Idx(usr[x].head)] = slot[Idx(usr[x].head)]
    BY <1>2, <1>6, MarkFrame, Zenon
  <2>4. ClaimOK(usr[x], stg[usr[x].s].head, slot', elem)
    BY <2>2, <2>3, Zenon DEF ClaimOK
  <2> QED  BY <1>2, <1>5, <2>1, <2>2, <2>4, Zenon
<1> QED  BY <1>1, <1>2, <1>4, <1>5, <1>6, Zenon

\* acquire_state_update.
LEMMA AcqStateInv ==
  ASSUME SoInv, NEW w \in Workers, AcqState(w) PROVE SoInv'
<1>1. PICK u : u = usr[w]
  BY Zenon
<1>2. PICK st : st = Start(u.s, u.head, u.n)
  BY Zenon
<1>3. PICK v : v = [u EXCEPT !.pc = "own", !.objs = Copy(u.head, u.n)]
  BY Zenon
<1>4. /\ u.pc = "astate" /\ UNCHANGED <<nbStage, prod, cons, stg, elem, tkr>>
      /\ slot' = [slot EXCEPT ![Idx(u.head)] = st] /\ usr' = [usr EXCEPT ![w] = v]
  BY <1>1, <1>2, <1>3, Zenon DEF AcqState, At, Becomes
<1>5. w \in Users /\ w # Consumer
  BY SoringUsers, Zenon DEF Users
<1>6. /\ SoType /\ SoOrder /\ u \in Locals /\ CallOK(Stages, w, u) /\ Claims(u) /\ ~ Marked(u)
      /\ elem \in [Index -> Elements]
  BY <1>1, <1>4, <1>5, CallFacts, Zenon DEF Claims, Marked, SoType
<1>7. /\ u.s \in Stages /\ u.head \in Nat /\ u.n \in Nat /\ u.n > 0 /\ u.head \in Region(stg, usr, u.s)
      /\ u.head + u.n <= stg[u.s].head
  BY <1>1, <1>5, <1>6, ClaimFacts, Zenon
<1>8. ClaimOK(u, stg[u.s].head, slot, elem)
  BY <1>1, <1>5, Zenon DEF SoInv, ClaimsOK
<1>9. Passed(elem, u.head, u.head + u.n, u.s) /\ slot[Idx(u.head)] = Zero
  BY <1>4, <1>6, <1>8, Zenon DEF ClaimOK
<1>10. Copy(u.head, u.n) \in Seq(Elements) /\ Len(Copy(u.head, u.n)) = u.n /\ Are(Copy(u.head, u.n), u.head, u.s)
  BY <1>6, <1>7, <1>9, CopyFacts, Zenon
<1>11. v \in Locals
  BY <1>3, <1>6, <1>10, Zenon DEF Locals, Labels
<1>12. /\ v.pc = "own" /\ v.s = u.s /\ v.head = u.head /\ v.n = u.n /\ v.objs = Copy(u.head, u.n) /\ v.fs = u.fs
       /\ v.fi = u.fi /\ v.retry = u.retry
  BY <1>3, <1>6, Zenon DEF Locals
<1>13. ~ Finalizing(v) /\ ~ Loading(v) /\ Claims(v) /\ Marked(v)
  BY <1>12, Zenon DEF Finalizing, Loading, Claims, Marked
<1>14. CallOK(Stages, w, v)
  BY <1>4, <1>6, <1>12, <1>13, Zenon DEF CallOK
<1>15. st \in States /\ st.st = "start"
  <2>1. U32(u.head) \in Nat /\ u.s \in Nat
    BY <1>6, <1>7, WordNat, StageFields, SMT
  <2>2. U32(u.head) + u.s \in Int
    BY <2>1, SMT
  <2>3. Ftkn(u.head, u.s) \in Nat
    BY <2>2, WordNat, Zenon DEF Ftkn
  <2> QED  BY <1>2, <1>7, <2>3, Zenon DEF Start, States
<1>16. slot' \in [Index -> States]
  BY <1>4, <1>6, <1>15, Zenon DEF SoType
<1>17. \A x \in Users : x # w => FinalizeOK(usr[x], stg, elem')
  BY <1>4, CallFacts, Zenon
<1>18. FinalizeOK(v, stg, elem')
  BY <1>13, Zenon DEF FinalizeOK
<1>19. BatchStep(w, v)
  BY <1>4, <1>5, <1>6, <1>11, <1>13, <1>14, <1>16, <1>17, <1>18, Zenon DEF BatchStep
<1>20. MarkStep(w, v, st)
  BY <1>1, <1>4, <1>6, <1>13, <1>19, Zenon DEF MarkStep
<1>21. /\ SoType' /\ SoOrder' /\ CallsOK' /\ FinalizesOK' /\ DequeueOK' /\ FrontOK' /\ Stages' = Stages
       /\ usr'[w] = v /\ \A x \in Users : x # w => usr'[x] = usr[x]
       /\ \A s \in Stages : Region(stg', usr', s) = Region(stg, usr, s)
       /\ \A x \in Users : x # w =>
            /\ Claims(usr'[x]) => usr'[x].head \in Region(stg', usr', usr'[x].s)
            /\ ClaimOK(usr'[x], stg'[usr'[x].s].head, slot', elem')
  BY <1>5, <1>20, MarkStepFacts, Zenon
<1>22. /\ Idx(u.head) \in Index /\ slot'[Idx(u.head)] = st
       /\ \A i \in Index : i # Idx(u.head) => slot'[i] = slot[i]
       /\ \A r \in Stages : \A p \in Region(stg, usr, r) :
              \/ p = u.head /\ r = u.s
              \/ Idx(p) # Idx(u.head) /\ slot'[Idx(p)] = slot[Idx(p)]
  <2>1. Claims(usr[w]) /\ slot' = [slot EXCEPT ![Idx(usr[w].head)] = st]
    BY <1>1, <1>4, <1>6, Zenon
  <2>2. /\ Idx(usr[w].head) \in Index /\ slot'[Idx(usr[w].head)] = st
        /\ \A i \in Index : i # Idx(usr[w].head) => slot'[i] = slot[i]
        /\ \A r \in Stages : \A p \in Region(stg, usr, r) :
             \/ p = usr[w].head /\ r = usr[w].s
             \/ Idx(p) # Idx(usr[w].head) /\ slot'[Idx(p)] = slot[Idx(p)]
    BY <1>5, <2>1, MarkFrame, Zenon
  <2> QED  BY <1>1, <2>2, Zenon
<1>23. ClaimOK(v, stg[u.s].head, slot', elem)
  BY <1>2, <1>7, <1>9, <1>10, <1>12, <1>13, <1>22, Zenon DEF ClaimOK
<1>24. ClaimsOK'
  <2>1. v.head \in Region(stg', usr', v.s)
    BY <1>7, <1>12, <1>21, Zenon
  <2> QED  BY <1>4, <1>12, <1>21, <1>23, <2>1, Zenon DEF ClaimsOK
<1>25. \A x \in Users : /\ (Claims(usr'[x]) <=> Claims(usr[x]))
                        /\ usr'[x].s = usr[x].s /\ usr'[x].head = usr[x].head /\ usr'[x].n = usr[x].n
  BY <1>1, <1>6, <1>12, <1>13, <1>21, Zenon
<1>26. ClaimsApart'
  BY <1>25, Zenon DEF SoInv, ClaimsApart, TwoClaims
<1>27. \A r \in Stages : \A p \in Region(stg, usr, r) : Released(slot', p) =>
          Released(slot, p) /\ slot'[Idx(p)] = slot[Idx(p)]
  <2>1. ~ Released(slot', u.head)
    BY <1>15, <1>22, Zenon DEF Released
  <2> QED  BY <1>22, <2>1, Zenon DEF Released
<1>28. BatchesOK'
  <2>1. ASSUME NEW r \in Stages, NEW p \in Region(stg, usr, r)
        PROVE  /\ Released(slot', p) => ReleasedOK(slot', elem', stg'[r].head, r, p)
               /\ \A o \in Region(stg, usr, r) : TwoReleased(slot', p, o)
               /\ \A x \in Users : OneOfEach(slot', r, p, usr'[x])
    <3>1. Released(slot', p) => ReleasedOK(slot', elem', stg'[r].head, r, p)
      BY <1>4, <1>27, Zenon DEF SoInv, BatchesOK, ReleasedOK, End
    <3>2. \A o \in Region(stg, usr, r) : TwoReleased(slot', p, o)
      BY <1>27, Zenon DEF SoInv, BatchesOK, TwoReleased, End
    <3>3. \A x \in Users : OneOfEach(slot', r, p, usr'[x])
      BY <1>25, <1>27, Zenon DEF SoInv, BatchesOK, OneOfEach, End
    <3> QED  BY <3>1, <3>2, <3>3, Zenon
  <2> QED  BY <1>21, <2>1, Zenon DEF BatchesOK
<1>29. SlotsOK'
  <2>1. ASSUME NEW i \in Index PROVE SlotOK(Stages', slot', usr', stg', i)
    <3>1. CASE i = Idx(u.head)
      BY <1>5, <1>12, <1>13, <1>15, <1>21, <1>22, <3>1, Zenon DEF SlotOK
    <3>2. CASE i # Idx(u.head)
      <4>1. slot'[i] = slot[i] /\ SlotOK(Stages, slot, usr, stg, i)
        BY <1>22, <3>2, Zenon DEF SoInv, SlotsOK
      <4>2. \A x \in Users : Marked(usr[x]) => usr'[x] = usr[x]
        BY <1>1, <1>6, <1>21, Zenon
      <4> QED  BY <1>21, <4>1, <4>2, Zenon DEF SlotOK
    <3> QED  BY <3>1, <3>2, Zenon
  <2> QED  BY <2>1, Zenon DEF SlotsOK
<1> QED  BY <1>21, <1>24, <1>26, <1>28, <1>29, Zenon DEF SoInv

\* release: the batch is now finalize's.
LEMMA RelFinishInv ==
  ASSUME SoInv, NEW w \in Workers, RelFinish(w) PROVE SoInv'
<1>1. PICK u : u = usr[w]
  BY Zenon
<1>2. PICK st : st = [slot[Idx(u.head)] EXCEPT !.st = "finish", !.num = u.n]
  BY Zenon
<1>3. PICK v : v = [Quiet EXCEPT !.pc = "fload", !.fs = u.s, !.maxn = SoCapacity, !.ret = "idle"]
  BY Zenon
<1>4. /\ u.pc = "rfinish" /\ UNCHANGED <<nbStage, prod, cons, stg, elem, tkr>>
      /\ slot' = [slot EXCEPT ![Idx(u.head)] = st] /\ usr' = [usr EXCEPT ![w] = v]
  BY <1>1, <1>2, <1>3, Zenon DEF RelFinish, At, Becomes, Finalize
<1>5. w \in Users /\ w # Consumer
  BY SoringUsers, Zenon DEF Users
<1>6. /\ SoType /\ SoOrder /\ u \in Locals /\ CallOK(Stages, w, u) /\ Claims(u) /\ Marked(u)
      /\ elem \in [Index -> Elements]
  BY <1>1, <1>4, <1>5, CallFacts, Zenon DEF Claims, Marked, SoType
<1>7. /\ u.s \in Stages /\ u.head \in Nat /\ u.n \in Nat /\ u.n > 0 /\ u.head \in Region(stg, usr, u.s)
      /\ u.head + u.n <= stg[u.s].head
  BY <1>1, <1>5, <1>6, ClaimFacts, Zenon
<1>8. ClaimOK(u, stg[u.s].head, slot, elem)
  BY <1>1, <1>5, Zenon DEF SoInv, ClaimsOK
<1>9. Passed(elem, u.head, u.head + u.n, u.s + 1) /\ slot[Idx(u.head)] = Start(u.s, u.head, u.n)
  BY <1>4, <1>6, <1>8, Zenon DEF ClaimOK
<1>10. 0 \in Stages /\ u.s \in Nat /\ SoCapacity \in Nat
  BY <1>6, <1>7, StageFacts, StageFields, SoringSizes, Zenon DEF SoType
<1>11. v \in Locals
  BY <1>3, <1>10, QuietFacts, Zenon DEF Locals, Labels
<1>12. /\ v.pc = "fload" /\ v.s = Quiet.s /\ v.fs = u.s /\ v.fi = Quiet.fi
  BY <1>3, QuietFacts, Zenon DEF Locals
<1>13. ~ Finalizing(v) /\ ~ Loading(v) /\ ~ Claims(v) /\ ~ Marked(v)
  BY <1>12, Zenon DEF Finalizing, Loading, Claims, Marked
<1>14. CallOK(Stages, w, v)
  BY <1>7, <1>10, <1>12, <1>13, QuietFacts, Zenon DEF CallOK
<1>15. slot[Idx(u.head)] \in States /\ slot[Idx(u.head)].tok = Ftkn(u.head, u.s)
  <2>1. Idx(u.head) \in Index
    BY <1>6, <1>7, InRegion, IdxIn, Zenon
  <2>2. Start(u.s, u.head, u.n).tok = Ftkn(u.head, u.s)
    BY Zenon DEF Start
  <2>3. slot[Idx(u.head)] \in States
    BY <1>6, <2>1, StateFields, Zenon
  <2> QED  BY <1>9, <2>2, <2>3, Zenon
<1>16. st \in States /\ st.st = "finish" /\ st.num = u.n /\ st.tok = Ftkn(u.head, u.s)
  <2>1. st \in States
    BY <1>2, <1>7, <1>15, Zenon DEF States
  <2>2. st.st = "finish" /\ st.num = u.n /\ st.tok = slot[Idx(u.head)].tok
    BY <1>2, <1>15, Zenon DEF States
  <2> QED  BY <1>15, <2>1, <2>2, Zenon
<1>17. slot' \in [Index -> States]
  BY <1>4, <1>6, <1>16, Zenon DEF SoType
<1>18. \A x \in Users : x # w => FinalizeOK(usr[x], stg, elem')
  BY <1>4, CallFacts, Zenon
<1>19. FinalizeOK(v, stg, elem')
  BY <1>13, Zenon DEF FinalizeOK
<1>20. BatchStep(w, v)
  BY <1>4, <1>5, <1>6, <1>11, <1>13, <1>14, <1>17, <1>18, <1>19, Zenon DEF BatchStep
<1>21. Claims(usr[w]) /\ slot' = [slot EXCEPT ![Idx(usr[w].head)] = st] /\ MarkStep(w, v, st)
  BY <1>1, <1>4, <1>6, <1>13, <1>20, Zenon DEF MarkStep
<1>22. /\ SoType' /\ SoOrder' /\ CallsOK' /\ FinalizesOK' /\ DequeueOK' /\ FrontOK' /\ Stages' = Stages
       /\ usr'[w] = v /\ \A x \in Users : x # w => usr'[x] = usr[x]
       /\ \A s \in Stages : Region(stg', usr', s) = Region(stg, usr, s)
       /\ \A x \in Users : x # w =>
            /\ Claims(usr'[x]) => usr'[x].head \in Region(stg', usr', usr'[x].s)
            /\ ClaimOK(usr'[x], stg'[usr'[x].s].head, slot', elem')
  BY <1>5, <1>21, MarkStepFacts, Zenon
<1>23. /\ Idx(u.head) \in Index /\ slot'[Idx(u.head)] = st
       /\ \A i \in Index : i # Idx(u.head) => slot'[i] = slot[i]
       /\ \A r \in Stages : \A p \in Region(stg, usr, r) :
              \/ p = u.head /\ r = u.s
              \/ Idx(p) # Idx(u.head) /\ slot'[Idx(p)] = slot[Idx(p)]
  <2>1. /\ Idx(usr[w].head) \in Index /\ slot'[Idx(usr[w].head)] = st
        /\ \A i \in Index : i # Idx(usr[w].head) => slot'[i] = slot[i]
        /\ \A r \in Stages : \A p \in Region(stg, usr, r) :
             \/ p = usr[w].head /\ r = usr[w].s
             \/ Idx(p) # Idx(usr[w].head) /\ slot'[Idx(p)] = slot[Idx(p)]
    BY <1>5, <1>21, MarkFrame, Zenon
  <2> QED  BY <1>1, <2>1, Zenon
<1>24. ClaimsOK'
  <2>1. ClaimOK(v, stg'[v.s].head, slot', elem')
    BY <1>13, Zenon DEF ClaimOK
  <2> QED  BY <1>13, <1>22, <2>1, Zenon DEF ClaimsOK
<1>25. \A x \in Users : Claims(usr'[x]) => x # w /\ Claims(usr[x]) /\ usr'[x] = usr[x]
  BY <1>13, <1>22, Zenon
<1>26. ClaimsApart'
  BY <1>25, Zenon DEF SoInv, ClaimsApart, TwoClaims
<1>27. End(slot', u.head) = u.head + u.n /\ ReleasedOK(slot', elem, stg[u.s].head, u.s, u.head)
  <2>1. End(slot', u.head) = u.head + u.n
    BY <1>16, <1>23, Zenon DEF End
  <2> QED  BY <1>7, <1>9, <1>16, <1>23, <2>1, Zenon DEF ReleasedOK
\* A batch released before lies in front of this one or after it.
<1>28. ASSUME NEW o \in Region(stg, usr, u.s), o # u.head, Released(slot', o)
       PROVE  /\ End(slot', o) = End(slot, o) /\ o \in Nat /\ o < End(slot, o) /\ End(slot, o) \in Nat
              /\ End(slot, o) <= u.head \/ u.head + u.n <= o
  <2>1. slot'[Idx(o)] = slot[Idx(o)]
    BY <1>7, <1>23, <1>28, Zenon
  <2>2. Released(slot, o) /\ End(slot', o) = End(slot, o)
    BY <1>28, <2>1, Zenon DEF Released, End
  <2>3. OneOfEach(slot, u.s, o, u)
    BY <1>1, <1>5, <1>7, Zenon DEF SoInv, BatchesOK
  <2>4. o < End(slot, o) /\ End(slot, o) \in Nat /\ o \in Nat
    BY <1>6, <1>7, <2>2, ReleasedFacts, InRegion, Zenon
  <2> QED  BY <1>6, <2>2, <2>3, <2>4, Zenon DEF OneOfEach
<1>29. BatchesOK'
  <2>1. ASSUME NEW r \in Stages, NEW p \in Region(stg, usr, r)
        PROVE  /\ Released(slot', p) => ReleasedOK(slot', elem', stg'[r].head, r, p)
               /\ \A o \in Region(stg, usr, r) : TwoReleased(slot', p, o)
               /\ \A x \in Users : OneOfEach(slot', r, p, usr'[x])
    <3>1. CASE p = u.head /\ r = u.s
      <4>1. ReleasedOK(slot', elem', stg'[r].head, r, p)
        BY <1>4, <1>27, <3>1, Zenon
      <4>2. ASSUME NEW o \in Region(stg, usr, r), Released(slot', o), p < o PROVE End(slot', p) <= o
        <5>1. o \in Region(stg, usr, u.s)
          BY <3>1, <4>2, Zenon
        <5>2. o \in Nat /\ u.head < o
          BY <1>6, <3>1, <4>2, InRegion, Zenon
        <5>3. o # u.head
          BY <1>7, <5>2, SMT
        <5>4. o < End(slot, o) /\ End(slot, o) \in Nat /\ (End(slot, o) <= u.head \/ u.head + u.n <= o)
          BY <1>28, <4>2, <5>1, <5>3, Zenon
        <5>5. u.head + u.n <= o
          BY <1>7, <5>2, <5>4, SMT
        <5> QED  BY <1>27, <3>1, <5>5, Zenon
      <4>3. ASSUME NEW x \in Users PROVE OneOfEach(slot', r, p, usr'[x])
        <5>1. Claims(usr'[x]) /\ usr'[x].s = r =>
                u.head + u.n <= usr[x].head \/ usr[x].head + usr[x].n <= u.head
          BY <1>1, <1>5, <1>6, <1>25, <3>1, Zenon DEF SoInv, ClaimsApart, TwoClaims
        <5> QED  BY <1>25, <1>27, <3>1, <5>1, Zenon DEF OneOfEach
      <4> QED  BY <4>1, <4>2, <4>3, Zenon DEF TwoReleased
    <3>2. CASE Idx(p) # Idx(u.head) /\ slot'[Idx(p)] = slot[Idx(p)]
      <4>1. (Released(slot', p) <=> Released(slot, p)) /\ End(slot', p) = End(slot, p)
        BY <3>2, Zenon DEF Released, End
      <4>2. Released(slot', p) => ReleasedOK(slot', elem', stg'[r].head, r, p)
        BY <1>4, <3>2, <4>1, Zenon DEF SoInv, BatchesOK, ReleasedOK
      <4>3. ASSUME NEW o \in Region(stg, usr, r), Released(slot', p), Released(slot', o), p < o
            PROVE  End(slot', p) <= o
        <5>1. CASE o = u.head /\ r = u.s
          <6>1. p \in Region(stg, usr, u.s) /\ p # u.head
            BY <3>2, <5>1, Zenon
          <6>2. p \in Nat /\ End(slot', p) = End(slot, p) /\ (End(slot, p) <= u.head \/ u.head + u.n <= p)
            BY <1>28, <4>3, <6>1, Zenon
          <6>3. ~ (u.head + u.n <= p)
            BY <1>7, <4>3, <5>1, <6>2, SMT
          <6> QED  BY <5>1, <6>2, <6>3, Zenon
        <5>2. CASE slot'[Idx(o)] = slot[Idx(o)]
          BY <4>1, <4>3, <5>2, Zenon DEF SoInv, BatchesOK, TwoReleased, Released
        <5> QED  BY <1>23, <5>1, <5>2, Zenon
      <4>4. \A x \in Users : OneOfEach(slot', r, p, usr'[x])
        BY <1>25, <4>1, Zenon DEF SoInv, BatchesOK, OneOfEach
      <4> QED  BY <4>2, <4>3, <4>4, Zenon DEF TwoReleased
    <3> QED  BY <1>23, <3>1, <3>2, Zenon
  <2> QED  BY <1>22, <2>1, Zenon DEF BatchesOK
<1>30. SlotsOK'
  <2>1. ASSUME NEW i \in Index PROVE SlotOK(Stages', slot', usr', stg', i)
    <3>1. CASE i = Idx(u.head)
      <4>1. u.head \in Region(stg', usr', u.s) /\ u.s \in Stages'
        BY <1>7, <1>22, Zenon
      <4> QED  BY <1>16, <1>23, <3>1, <4>1, Zenon DEF SlotOK
    <3>2. CASE i # Idx(u.head)
      <4>1. slot'[i] = slot[i] /\ SlotOK(Stages, slot, usr, stg, i)
        BY <1>23, <3>2, Zenon DEF SoInv, SlotsOK
      <4>2. \A x \in Users : Idx(usr[x].head) = i => usr'[x] = usr[x]
        BY <1>1, <1>22, <3>2, Zenon
      <4> QED  BY <1>22, <4>1, <4>2, Zenon DEF SlotOK
    <3> QED  BY <3>1, <3>2, Zenon
  <2> QED  BY <2>1, Zenon DEF SlotsOK
<1> QED  BY <1>22, <1>24, <1>26, <1>29, <1>30, Zenon DEF SoInv

-----------------------------------------------------------------------------
(* Steps that write elements                                                *)

\* Writing elements at live positions changes those and no others.
LEMMA StoredAt ==
  ASSUME SoType, NEW p \in Nat, NEW objs \in Seq(Elements), NEW k, cons.tail <= p,
         p + Len(objs) <= cons.tail + SoSize, Are(objs, p, k)
  PROVE  /\ Stored(p, objs) \in [Index -> Elements]
         /\ Passed(Stored(p, objs), p, p + Len(objs), k)
         /\ \A q \in cons.tail .. (cons.tail + SoSize) - 1 :
              q < p \/ p + Len(objs) <= q => Stored(p, objs)[Idx(q)] = elem[Idx(q)]
<1>1. Len(objs) \in Nat /\ cons.tail \in Nat /\ SoSize \in Nat /\ DOMAIN objs = 1 .. Len(objs)
  BY EndFields, SoSizes, SMT
<1>2. Len(objs) <= SoSize
  BY <1>1, SMT
<1>3. PICK e : e = Stored(p, objs)
  BY Zenon
<1>4. /\ e \in [Index -> Elements]
      /\ \A j \in 1 .. Len(objs) : e[Idx(p + j - 1)] = objs[j]
      /\ \A i \in Index : (\A j \in 1 .. Len(objs) : Idx(p + j - 1) # i) => e[i] = elem[i]
  BY <1>2, <1>3, StoredIs, Zenon
<1>5. ASSUME NEW q \in p .. (p + Len(objs)) - 1 PROVE e[Idx(q)] = ElemAt(q, k)
  <2>1. PICK j : j = q - p + 1
    BY Zenon
  <2>2. j \in 1 .. Len(objs) /\ p + j - 1 = q
    BY <1>1, <2>1, SMT
  <2>3. objs[j] = ElemAt(p + j - 1, k)
    BY <1>1, <2>2, Zenon DEF Are
  <2> QED  BY <1>4, <2>2, <2>3, Zenon
<1>6. ASSUME NEW q \in cons.tail .. (cons.tail + SoSize) - 1, q < p \/ p + Len(objs) <= q
      PROVE  e[Idx(q)] = elem[Idx(q)]
  <2>1. q \in Int /\ cons.tail <= q /\ q < cons.tail + SoSize
    BY <1>1, SMT
  <2>2. Idx(q) \in Index
    BY <2>1, IdxIn, Zenon
  <2>3. ASSUME NEW j \in 1 .. Len(objs) PROVE Idx(p + j - 1) # Idx(q)
    <3>1. PICK x : x = p + j - 1
      BY Zenon
    <3>2. x \in Int /\ cons.tail <= x /\ x < cons.tail + SoSize /\ x # q
      BY <1>1, <1>6, <2>1, <3>1, SMT
    <3> QED  BY <2>1, <3>1, <3>2, Live, Zenon
  <2> QED  BY <1>4, <2>2, <2>3, Zenon
<1>7. Passed(e, p, p + Len(objs), k)
  BY <1>5, Zenon DEF Passed
<1> QED  BY <1>3, <1>4, <1>6, <1>7, Zenon

\* Elements that are not written stay.
LEMMA PassedOutside ==
  ASSUME SoType, NEW e, NEW f, NEW p \in Int, NEW z \in Int, NEW a \in Int, NEW b \in Int, NEW k,
         \A q \in cons.tail .. (cons.tail + SoSize) - 1 : q < p \/ z <= q => f[Idx(q)] = e[Idx(q)],
         cons.tail <= a, b <= cons.tail + SoSize, b <= p \/ z <= a, Passed(e, a, b, k)
  PROVE  Passed(f, a, b, k)
<1>1. \A q \in a .. b - 1 : q \in cons.tail .. (cons.tail + SoSize) - 1 /\ (q < p \/ z <= q)
  BY EndFields, SoSizes, SMT
<1> QED  BY <1>1, Zenon DEF Passed

\* What a worker makes of its elements.
LEMMA WorkedFacts ==
  ASSUME NEW objs \in Seq(Elements), NEW p \in Int, NEW k \in Nat, Are(objs, p, k)
  PROVE  /\ Worked(objs) \in Seq(Elements) /\ Len(Worked(objs)) = Len(objs) /\ Are(Worked(objs), p, k + 1)
<1>1. Len(objs) \in Nat /\ DOMAIN objs = 1 .. Len(objs) /\ k + 1 \in Nat
  BY SMT
<1>2. ASSUME NEW i \in 1 .. Len(objs)
      PROVE  [objs[i] EXCEPT !.passed = objs[i].passed + 1] = ElemAt(p + i - 1, k + 1)
             /\ ElemAt(p + i - 1, k + 1) \in Elements
  <2>1. objs[i] = ElemAt(p + i - 1, k)
    BY <1>1, Zenon DEF Are
  <2>2. PICK x : x = p + i - 1
    BY Zenon
  <2>3. x \in Int /\ x + 1 - SoBase \in Int
    BY <1>1, <2>2, SoringSizes, SMT
  <2>4. [ElemAt(x, k) EXCEPT !.passed = ElemAt(x, k).passed + 1] = ElemAt(x, k + 1)
    BY SMT DEF ElemAt
  <2>5. ElemAt(x, k + 1) \in Elements
    BY <1>1, <2>3, Zenon DEF ElemAt, Elements
  <2> QED  BY <2>1, <2>2, <2>4, <2>5, Zenon
<1>3. PICK n : n = Len(objs)
  BY Zenon
<1>4. PICK c : c = Worked(objs)
  BY Zenon
<1>5. c = [i \in 1 .. n |-> [objs[i] EXCEPT !.passed = objs[i].passed + 1]]
  BY <1>1, <1>3, <1>4, Zenon DEF Worked
<1>6. c \in [1 .. n -> Elements] /\ DOMAIN c = 1 .. n /\ \A i \in 1 .. n : c[i] = ElemAt(p + i - 1, k + 1)
  BY <1>2, <1>3, <1>5, Zenon
<1>7. c \in Seq(Elements) /\ Len(c) = n
  BY <1>1, <1>3, <1>6, SMT
<1>8. Are(c, p, k + 1)
  BY <1>6, Zenon DEF Are
<1> QED  BY <1>3, <1>4, <1>7, <1>8, Zenon

\* The elements in front of a stage are not in another stage's hands.
LEMMA FrontAway ==
  ASSUME SoType, SoOrder, NEW s \in Stages, NEW r \in Stages
  PROVE  LET b == Before(stg, prod.tail + tkr, r) IN
         /\ b \in Nat /\ b <= prod.head /\ (b <= stg[s].tail \/ stg[s].head <= stg[r].head)
<1>1. PICK b : b = Before(stg, prod.tail + tkr, r)
  BY Zenon
<1>2. r \in Nat /\ s \in Nat /\ stg[r].head \in Nat /\ stg[s].tail \in Nat /\ stg[s].head \in Nat
      /\ stg[r].tail \in Nat /\ stg[r].tail <= stg[r].head /\ prod.tail + tkr <= prod.head
  BY StageFields, Window, Zenon DEF SoOrder
<1>3. CASE r = 0
  <2>1. b = prod.tail + tkr
    BY <1>1, <1>3, Zenon DEF Before
  <2>2. r < s => stg[s].head <= stg[r].tail
    BY Zenon DEF SoOrder
  <2>3. r = s => stg[s].head <= stg[r].head
    BY <1>2, SMT
  <2>4. r < s \/ r = s
    BY <1>2, <1>3, SMT
  <2>5. b \in Nat /\ b <= prod.head
    BY <1>2, <2>1, EndFields, SMT
  <2>6. stg[s].head <= stg[r].head
    BY <1>2, <2>2, <2>3, <2>4, SMT
  <2> QED  BY <1>1, <2>5, <2>6, Zenon
<1>4. CASE r # 0
  <2>1. r > 0
    BY <1>2, <1>4, SMT
  <2>2. PICK x \in Stages : x = r - 1
    BY <2>1, StageFacts, Zenon DEF SoType
  <2>3. b = stg[x].tail
    BY <1>1, <1>4, <2>2, Zenon DEF Before
  <2>4. x \in Nat /\ stg[x].tail \in Nat /\ stg[x].head \in Nat /\ stg[x].tail <= stg[x].head
        /\ stg[x].head <= prod.tail /\ prod.tail <= prod.head
    BY StageFields, Window, Zenon
  <2>5. b \in Nat /\ b <= prod.head
    BY <2>3, <2>4, EndFields, SMT
  <2>6. /\ r < s => stg[s].head <= stg[r].tail
        /\ s < x => stg[x].head <= stg[s].tail
    BY Zenon DEF SoOrder
  <2>7. r < s \/ r = s \/ s < x \/ s = x
    BY <1>2, <2>2, <2>4, SMT
  <2>8. CASE s = x
    <3>1. b <= stg[s].tail
      BY <2>3, <2>4, <2>8, SMT
    <3> QED  BY <1>1, <2>5, <3>1, Zenon
  <2>9. CASE s < x
    <3>1. b <= stg[s].tail
      BY <1>2, <2>3, <2>4, <2>6, <2>9, SMT
    <3> QED  BY <1>1, <2>5, <3>1, Zenon
  <2>10. CASE r < s
    <3>1. stg[s].head <= stg[r].head
      BY <1>2, <2>6, <2>10, SMT
    <3> QED  BY <1>1, <2>5, <3>1, Zenon
  <2>11. CASE r = s
    <3>1. stg[s].head <= stg[r].head
      BY <1>2, <2>11, SMT
    <3> QED  BY <1>1, <2>5, <3>1, Zenon
  <2> QED  BY <2>7, <2>8, <2>9, <2>10, <2>11, Zenon
<1> QED  BY <1>3, <1>4, Zenon

LEMMA LastTail ==
  ASSUME SoType, SoOrder, NEW s \in Stages
  PROVE  LastStage \in Stages /\ stg[LastStage].tail \in Nat /\ stg[LastStage].tail <= stg[s].tail
<1>1. LastStage \in Stages /\ (s # LastStage => s < LastStage)
  BY StageFacts, Zenon DEF SoType
<1>2. PICK z \in Stages : z = LastStage
  BY <1>1, Zenon
<1>3. stg[z].tail \in Nat /\ stg[z].head \in Nat /\ stg[s].tail \in Nat /\ stg[z].tail <= stg[z].head
  BY StageFields, Window, Zenon
<1>4. s < z => stg[z].head <= stg[s].tail
  BY Zenon DEF SoOrder
<1>5. s = z => stg[z].tail <= stg[s].tail
  BY <1>3, SMT
<1>6. s < z => stg[z].tail <= stg[s].tail
  BY <1>3, <1>4, SMT
<1> QED  BY <1>1, <1>2, <1>3, <1>5, <1>6, Zenon

\* Two positions of stages: the stages are the same, or one's positions are all
\* before the other's.
LEMMA StagesOrdered ==
  ASSUME SoType, SoOrder, NEW s \in Stages, NEW r \in Stages, r # s
  PROVE  stg[s].head <= stg[r].tail \/ stg[r].head <= stg[s].tail
<1>1. s \in Nat /\ r \in Nat
  BY StageFields, Zenon
<1>2. r < s \/ s < r
  BY <1>1, SMT
<1> QED  BY <1>2, Zenon DEF SoOrder

\* A step of one user that writes elements of its own batch.
LEMMA WrittenElsewhere ==
  ASSUME SoInv, NEW w \in Users, Claims(usr[w]), NEW e,
         \A q \in cons.tail .. (cons.tail + SoSize) - 1 :
           q < usr[w].head \/ usr[w].head + usr[w].n <= q => e[Idx(q)] = elem[Idx(q)]
  PROVE  /\ \A x \in Users : FinalizeOK(usr[x], stg, e)
         /\ \A x \in Users : x # w => ClaimOK(usr[x], stg[usr[x].s].head, slot, e)
         /\ \A s \in Stages : \A q \in Region(stg, usr, s) :
              Released(slot, q) => ReleasedOK(slot, e, stg[s].head, s, q)
         /\ \A s \in Stages : Passed(e, stg[s].head, Before(stg, prod.tail + tkr, s), s)
         /\ Passed(e, cons.tail, stg[LastStage].tail, nbStage)
<1>0. SoType /\ SoOrder
  BY Zenon DEF SoInv
<1>1. PICK u : u = usr[w]
  BY Zenon
<1>2. PICK z : z = u.head + u.n
  BY Zenon
<1>3. /\ u.s \in Stages /\ u.head \in Nat /\ u.n \in Nat /\ u.n > 0
      /\ u.head \in Region(stg, usr, u.s) /\ z <= stg[u.s].head
      /\ stg[u.s].tail <= u.head /\ cons.tail <= u.head /\ z <= prod.tail
  BY <1>1, <1>2, ClaimFacts, Zenon
<1>4. z \in Nat /\ u.head \in Int /\ z \in Int /\ cons.tail \in Nat /\ SoSize \in Nat /\ prod.tail \in Nat
      /\ stg[u.s].tail \in Nat /\ stg[u.s].head \in Nat
  BY <1>0, <1>2, <1>3, EndFields, StageFields, SoSizes, SMT
<1>5. \A q \in cons.tail .. (cons.tail + SoSize) - 1 : q < u.head \/ z <= q => e[Idx(q)] = elem[Idx(q)]
  BY <1>1, <1>2, Zenon
<1>6. prod.head <= cons.tail + SoSize /\ prod.tail <= cons.tail + SoSize /\ prod.head \in Nat
  BY <1>0, <1>3, <1>4, Window, EndFields, SoSizes, SMT
\* Positions a to b - 1 of stage r that are apart from the batch.
<1>7. ASSUME NEW a \in Int, NEW b \in Int, NEW k, cons.tail <= a, b <= prod.head,
             b <= u.head \/ z <= a, Passed(elem, a, b, k)
      PROVE  Passed(e, a, b, k)
  <2>1. b <= cons.tail + SoSize
    BY <1>4, <1>6, <1>7, SMT
  <2> QED  BY <1>0, <1>4, <1>5, <1>7, <2>1, PassedOutside, Zenon
<1>8. ASSUME NEW r \in Stages, NEW a \in Int, NEW b \in Int, NEW k, stg[r].tail <= a, b <= stg[r].head,
             r = u.s => b <= u.head \/ z <= a, Passed(elem, a, b, k)
      PROVE  Passed(e, a, b, k)
  <2>1. cons.tail <= stg[r].tail /\ stg[r].head <= prod.tail /\ prod.tail <= prod.head
        /\ stg[r].head \in Nat /\ stg[r].tail \in Nat
    BY <1>0, Window, StageFields, Zenon
  <2>2. cons.tail <= a /\ b <= prod.head
    BY <1>4, <1>6, <1>8, <2>1, SMT
  <2>3. b <= u.head \/ z <= a
    <3>1. CASE r = u.s
      BY <1>8, <3>1, Zenon
    <3>2. CASE r # u.s
      <4>1. stg[u.s].head <= stg[r].tail \/ stg[r].head <= stg[u.s].tail
        BY <1>0, <1>3, <3>2, StagesOrdered, Zenon
      <4> QED  BY <1>3, <1>4, <1>8, <2>1, <4>1, SMT
    <3> QED  BY <3>1, <3>2, Zenon
  <2> QED  BY <1>7, <1>8, <2>2, <2>3, Zenon
<1>9. ASSUME NEW x \in Users PROVE FinalizeOK(usr[x], stg, e)
  <2>1. CASE ~ Finalizing(usr[x])
    BY <2>1, Zenon DEF FinalizeOK
  <2>2. CASE Finalizing(usr[x])
    <3>1. PICK v : v = usr[x]
      BY Zenon
    <3>2. v \in Locals /\ v.fs \in Stages /\ FinalizeOK(v, stg, elem)
      BY <3>1, CallFacts, Zenon
    <3>3. v.ot = stg[v.fs].tail /\ v.ot + v.fi <= stg[v.fs].head /\ Passed(elem, v.ot, v.ot + v.fi, v.fs + 1)
      BY <2>2, <3>1, <3>2, Zenon DEF FinalizeOK
    <3>4. v.ot \in Nat /\ v.fi \in Nat
      BY <3>2, LocalFields, Zenon
    <3>5. v.ot \in Int /\ v.ot + v.fi \in Int /\ stg[v.fs].tail <= v.ot
      BY <3>3, <3>4, SMT
    <3>6. v.fs = u.s => v.ot + v.fi <= u.head
      BY <1>0, <1>3, <2>2, <3>1, InRegion, Zenon
    <3>7. Passed(e, v.ot, v.ot + v.fi, v.fs + 1)
      BY <1>8, <3>2, <3>3, <3>5, <3>6, Zenon
    <3> QED  BY <3>1, <3>2, <3>7, Zenon DEF FinalizeOK
  <2> QED  BY <2>1, <2>2, Zenon
<1>10. ASSUME NEW x \in Users, x # w PROVE ClaimOK(usr[x], stg[usr[x].s].head, slot, e)
  <2>1. CASE ~ Claims(usr[x])
    BY <2>1, Zenon DEF ClaimOK
  <2>2. CASE Claims(usr[x])
    <3>1. PICK v : v = usr[x]
      BY Zenon
    <3>2. /\ v.s \in Stages /\ v.head \in Nat /\ v.n \in Nat /\ stg[v.s].tail <= v.head
          /\ v.head + v.n <= stg[v.s].head
      BY <2>2, <3>1, ClaimFacts, Zenon
    <3>3. v.head \in Int /\ v.head + v.n \in Int
      BY <3>2, SMT
    <3>4. v.s = u.s => v.head + v.n <= u.head \/ z <= v.head
      BY <1>1, <1>2, <1>10, <2>2, <3>1, Zenon DEF SoInv, ClaimsApart, TwoClaims
    <3>5. ASSUME NEW k, Passed(elem, v.head, v.head + v.n, k) PROVE Passed(e, v.head, v.head + v.n, k)
      BY <1>8, <3>2, <3>3, <3>4, <3>5, Zenon
    <3>6. ClaimOK(v, stg[v.s].head, slot, elem)
      BY <3>1, Zenon DEF SoInv, ClaimsOK
    <3>7. ClaimOK(v, stg[v.s].head, slot, e)
      BY <3>5, <3>6, Zenon DEF ClaimOK
    <3> QED  BY <3>1, <3>7, Zenon
  <2> QED  BY <2>1, <2>2, Zenon
<1>11. ASSUME NEW s \in Stages, NEW q \in Region(stg, usr, s), Released(slot, q)
       PROVE  ReleasedOK(slot, e, stg[s].head, s, q)
  <2>1. /\ ReleasedOK(slot, elem, stg[s].head, s, q)
        /\ End(slot, q) \in Nat /\ End(slot, q) <= stg[s].head
    BY <1>11, ReleasedFacts, Zenon
  <2>2. q \in Int /\ stg[s].tail <= q
    BY <1>0, InRegion, Zenon
  <2>3. End(slot, q) \in Int
    BY <2>1, SMT
  <2>4. OneOfEach(slot, s, q, usr[w])
    BY Zenon DEF SoInv, BatchesOK
  <2>5. s = u.s => End(slot, q) <= u.head \/ z <= q
    BY <1>1, <1>2, <1>11, <2>4, Zenon DEF OneOfEach
  <2>6. Passed(elem, q, End(slot, q), s + 1)
    BY <2>1, Zenon DEF ReleasedOK
  <2>7. Passed(e, q, End(slot, q), s + 1)
    BY <1>8, <2>1, <2>2, <2>3, <2>5, <2>6, Zenon
  <2> QED  BY <2>1, <2>7, Zenon DEF ReleasedOK
<1>12. ASSUME NEW s \in Stages PROVE Passed(e, stg[s].head, Before(stg, prod.tail + tkr, s), s)
  <2>1. PICK b : b = Before(stg, prod.tail + tkr, s)
    BY Zenon
  <2>2. b \in Nat /\ b <= prod.head /\ (b <= stg[u.s].tail \/ stg[u.s].head <= stg[s].head)
    BY <1>0, <1>3, <2>1, FrontAway, Zenon
  <2>3. stg[s].head \in Int /\ b \in Int /\ cons.tail <= stg[s].head
    BY <1>0, <1>4, <2>2, StageFields, Window, SMT
  <2>4. b <= u.head \/ z <= stg[s].head
    BY <1>3, <1>4, <2>2, <2>3, SMT
  <2>5. Passed(elem, stg[s].head, b, s)
    BY <2>1, Zenon DEF SoInv, FrontOK
  <2> QED  BY <1>7, <2>1, <2>2, <2>3, <2>4, <2>5, Zenon
<1>13. Passed(e, cons.tail, stg[LastStage].tail, nbStage)
  <2>1. PICK b : b = stg[LastStage].tail
    BY Zenon
  <2>2. b \in Nat /\ b <= stg[u.s].tail /\ stg[u.s].head <= prod.tail /\ prod.tail <= prod.head
    BY <1>0, <1>3, <2>1, LastTail, Window, Zenon
  <2>3. b \in Int /\ cons.tail \in Int /\ b <= prod.head /\ b <= u.head /\ cons.tail <= cons.tail
    BY <1>2, <1>3, <1>4, <1>6, <2>2, SMT
  <2>4. Passed(elem, cons.tail, b, nbStage)
    BY <2>1, Zenon DEF SoInv, FrontOK
  <2> QED  BY <1>7, <2>1, <2>3, <2>4, Zenon
<1> QED  BY <1>9, <1>10, <1>11, <1>12, <1>13, Zenon

\* release: the elements are copied back.
LEMMA RelWriteInv ==
  ASSUME SoInv, NEW w \in Workers, RelWrite(w) PROVE SoInv'
<1>1. PICK u : u = usr[w]
  BY Zenon
<1>2. PICK v : v = [u EXCEPT !.pc = "rfinish", !.objs = <<>>]
  BY Zenon
<1>3. PICK e : e = Stored(u.head, Worked(u.objs))
  BY Zenon
<1>4. /\ u.pc = "own" /\ UNCHANGED <<nbStage, prod, cons, stg, slot, tkr>>
      /\ elem' = e /\ usr' = [usr EXCEPT ![w] = v]
  BY <1>1, <1>2, <1>3, Zenon DEF RelWrite, At, Becomes
<1>5. w \in Users /\ w # Consumer
  BY SoringUsers, Zenon DEF Users
<1>6. /\ SoType /\ SoOrder /\ u \in Locals /\ CallOK(Stages, w, u) /\ Claims(u) /\ Marked(u)
      /\ slot \in [Index -> States]
  BY <1>1, <1>4, <1>5, CallFacts, Zenon DEF Claims, Marked, SoType
<1>7. /\ u.s \in Stages /\ u.head \in Nat /\ u.n \in Nat /\ u.n > 0 /\ u.head \in Region(stg, usr, u.s)
      /\ u.head + u.n <= stg[u.s].head /\ cons.tail <= u.head /\ u.head + u.n <= prod.tail
  BY <1>1, <1>5, <1>6, ClaimFacts, Zenon
<1>8. ClaimOK(u, stg[u.s].head, slot, elem)
  BY <1>1, <1>5, Zenon DEF SoInv, ClaimsOK
<1>9. /\ Len(u.objs) = u.n /\ Are(u.objs, u.head, u.s) /\ slot[Idx(u.head)] = Start(u.s, u.head, u.n)
  BY <1>4, <1>6, <1>8, Zenon DEF ClaimOK
<1>10. u.objs \in Seq(Elements) /\ u.s \in Nat /\ u.head \in Int
  BY <1>6, <1>7, LocalFields, StageFields, SMT
<1>11. Worked(u.objs) \in Seq(Elements) /\ Len(Worked(u.objs)) = u.n /\ Are(Worked(u.objs), u.head, u.s + 1)
  BY <1>9, <1>10, WorkedFacts, Zenon
<1>12. u.head + u.n <= cons.tail + SoSize
  BY <1>6, <1>7, Window, EndFields, SoSizes, SMT
<1>13. /\ e \in [Index -> Elements] /\ Passed(e, u.head, u.head + u.n, u.s + 1)
       /\ \A q \in cons.tail .. (cons.tail + SoSize) - 1 :
            q < u.head \/ u.head + u.n <= q => e[Idx(q)] = elem[Idx(q)]
  <2>1. PICK o \in Seq(Elements) : o = Worked(u.objs)
    BY <1>11, Zenon
  <2>2. Len(o) = u.n /\ u.head + Len(o) <= cons.tail + SoSize /\ Are(o, u.head, u.s + 1) /\ e = Stored(u.head, o)
    BY <1>3, <1>11, <1>12, <2>1, Zenon
  <2>3. /\ e \in [Index -> Elements] /\ Passed(e, u.head, u.head + Len(o), u.s + 1)
        /\ \A q \in cons.tail .. (cons.tail + SoSize) - 1 :
            q < u.head \/ u.head + Len(o) <= q => e[Idx(q)] = elem[Idx(q)]
    BY <1>6, <1>7, <2>2, StoredAt, Zenon
  <2> QED  BY <2>2, <2>3, Zenon
<1>14. /\ \A x \in Users : FinalizeOK(usr[x], stg, e)
       /\ \A x \in Users : x # w => ClaimOK(usr[x], stg[usr[x].s].head, slot, e)
       /\ \A s \in Stages : \A q \in Region(stg, usr, s) :
            Released(slot, q) => ReleasedOK(slot, e, stg[s].head, s, q)
       /\ \A s \in Stages : Passed(e, stg[s].head, Before(stg, prod.tail + tkr, s), s)
       /\ Passed(e, cons.tail, stg[LastStage].tail, nbStage)
  <2>1. /\ Claims(usr[w])
        /\ \A q \in cons.tail .. (cons.tail + SoSize) - 1 :
             q < usr[w].head \/ usr[w].head + usr[w].n <= q => e[Idx(q)] = elem[Idx(q)]
    BY <1>1, <1>6, <1>13, Zenon
  <2> QED  BY <1>5, <2>1, WrittenElsewhere, Zenon
<1>15. <<>> \in Seq(Elements)
  BY SMT
<1>16. v \in Locals
  BY <1>2, <1>6, <1>15, Zenon DEF Locals, Labels
<1>17. /\ v.pc = "rfinish" /\ v.s = u.s /\ v.head = u.head /\ v.n = u.n /\ v.fs = u.fs
       /\ v.fi = u.fi /\ v.retry = u.retry
  BY <1>2, <1>6, Zenon DEF Locals
<1>18. ~ Finalizing(v) /\ ~ Loading(v) /\ Claims(v) /\ Marked(v) /\ ~ Finalizing(usr[w])
  BY <1>1, <1>4, <1>17, Zenon DEF Finalizing, Loading, Claims, Marked
<1>19. CallOK(Stages, w, v)
  BY <1>4, <1>6, <1>17, <1>18, Zenon DEF CallOK
<1>20. FinalizeOK(v, stg, elem')
  BY <1>18, Zenon DEF FinalizeOK
<1>21. BatchStep(w, v)
  BY <1>4, <1>5, <1>6, <1>13, <1>14, <1>16, <1>18, <1>19, <1>20, Zenon DEF BatchStep
<1>22. /\ SoType' /\ SoOrder' /\ CallsOK' /\ FinalizesOK' /\ DequeueOK' /\ Stages' = Stages
       /\ usr'[w] = v /\ \A x \in Users : x # w => usr'[x] = usr[x]
  BY <1>5, <1>21, BatchStepInv, Zenon
<1>23. \A s \in Stages : Region(stg', usr', s) = Region(stg, usr, s)
  BY <1>4, <1>5, <1>18, RegionsSame, Zenon
<1>24. ClaimOK(v, stg[u.s].head, slot, e)
  BY <1>7, <1>9, <1>13, <1>17, <1>18, Zenon DEF ClaimOK
<1>25. ClaimsOK'
  <2>1. ASSUME NEW x \in Users
        PROVE  /\ Claims(usr'[x]) => usr'[x].head \in Region(stg', usr', usr'[x].s)
               /\ ClaimOK(usr'[x], stg'[usr'[x].s].head, slot', elem')
    <3>1. CASE x = w
      BY <1>4, <1>7, <1>17, <1>22, <1>23, <1>24, <3>1, Zenon
    <3>2. CASE x # w
      <4>1. usr'[x] = usr[x] /\ usr[x].s \in Stages
        BY <1>22, <3>2, CallFacts, Zenon
      <4>2. Claims(usr[x]) => usr[x].head \in Region(stg, usr, usr[x].s)
        BY Zenon DEF SoInv, ClaimsOK
      <4> QED  BY <1>4, <1>14, <1>23, <3>2, <4>1, <4>2, Zenon
    <3> QED  BY <3>1, <3>2, Zenon
  <2> QED  BY <2>1, Zenon DEF ClaimsOK
<1>26. \A x \in Users : /\ (Claims(usr'[x]) <=> Claims(usr[x])) /\ (Marked(usr'[x]) <=> Marked(usr[x]))
                        /\ usr'[x].s = usr[x].s /\ usr'[x].head = usr[x].head /\ usr'[x].n = usr[x].n
  BY <1>1, <1>6, <1>17, <1>18, <1>22, Zenon
<1>27. ClaimsApart'
  BY <1>26, Zenon DEF SoInv, ClaimsApart, TwoClaims
<1>28. BatchesOK'
  <2>1. ASSUME NEW r \in Stages, NEW p \in Region(stg, usr, r)
        PROVE  /\ Released(slot, p) => ReleasedOK(slot, e, stg[r].head, r, p)
               /\ \A o \in Region(stg, usr, r) : TwoReleased(slot, p, o)
               /\ \A x \in Users : OneOfEach(slot, r, p, usr'[x])
    <3>1. Released(slot, p) => ReleasedOK(slot, e, stg[r].head, r, p)
      BY <1>14, Zenon
    <3>2. \A o \in Region(stg, usr, r) : TwoReleased(slot, p, o)
      BY Zenon DEF SoInv, BatchesOK
    <3>3. \A x \in Users : OneOfEach(slot, r, p, usr'[x])
      BY <1>26, Zenon DEF SoInv, BatchesOK, OneOfEach
    <3> QED  BY <3>1, <3>2, <3>3, Zenon
  <2> QED  BY <1>4, <1>22, <1>23, <2>1, Zenon DEF BatchesOK
<1>29. SlotsOK'
  BY <1>4, <1>22, <1>23, <1>26, Zenon DEF SoInv, SlotsOK, SlotOK
<1>30. FrontOK'
  <2>1. LastStage' = LastStage
    BY <1>4, Zenon DEF LastStage
  <2> QED  BY <1>4, <1>14, <1>22, <2>1, Zenon DEF FrontOK
<1> QED  BY <1>22, <1>25, <1>27, <1>28, <1>29, <1>30, Zenon DEF SoInv

-----------------------------------------------------------------------------
(* The head of a stage                                                      *)

\* What waits for a stage belongs to no stage.
LEMMA GapFacts ==
  ASSUME SoType, SoOrder, NEW s \in Stages, NEW p \in Int, stg[s].head <= p, p < TailBefore(s), NEW r \in Stages
  PROVE  ~ (stg[r].tail <= p /\ p < stg[r].head)
<1>1. r \in Nat /\ s \in Nat /\ stg[r].head \in Nat /\ stg[s].tail \in Nat /\ stg[s].head \in Nat
      /\ stg[r].tail \in Nat /\ stg[s].tail <= stg[s].head
  BY StageFields, Window, Zenon
<1>2. CASE r = s
  BY <1>1, <1>2, SMT
<1>3. CASE s < r
  <2>1. stg[r].head <= stg[s].tail
    BY <1>3, Zenon DEF SoOrder
  <2> QED  BY <1>1, <2>1, SMT
<1>4. CASE r < s
  <2>1. s > 0 /\ s # 0
    BY <1>1, <1>4, SMT
  <2>2. PICK x \in Stages : x = s - 1
    BY <2>1, StageFacts, Zenon DEF SoType
  <2>3. TailBefore(s) = stg[x].tail
    BY <2>1, <2>2, Zenon DEF TailBefore
  <2>4. x \in Nat /\ stg[x].tail \in Nat /\ stg[x].head \in Nat /\ stg[x].tail <= stg[x].head
    BY StageFields, Window, Zenon
  <2>5. r < x => stg[x].head <= stg[r].tail
    BY Zenon DEF SoOrder
  <2>6. r < x \/ r = x
    BY <1>1, <1>4, <2>2, <2>4, SMT
  <2>7. CASE r = x
    BY <2>3, <2>4, <2>7, SMT
  <2>8. CASE r < x
    BY <1>1, <2>3, <2>4, <2>5, <2>8, SMT
  <2> QED  BY <2>6, <2>7, <2>8, Zenon
<1>5. r = s \/ s < r \/ r < s
  BY <1>1, SMT
<1> QED  BY <1>2, <1>3, <1>4, <1>5, Zenon

LEMMA GapStates ==
  ASSUME SoInv, NEW s \in Stages, NEW p \in Int, stg[s].head <= p, p < TailBefore(s)
  PROVE  slot[Idx(p)] = Zero /\ ~ Released(slot, p)
<1>0. SoType /\ SoOrder
  BY Zenon DEF SoInv
<1>1. \A r \in Stages : ~ (stg[r].tail <= p /\ p < stg[r].head)
  BY <1>0, GapFacts, Zenon
<1>2. Idx(p) \in Index
  BY IdxIn, Zenon
<1>3. cons.tail <= p /\ p < cons.tail + SoSize
  <2>1. stg[s].head \in Nat /\ cons.tail <= stg[s].tail /\ stg[s].tail <= stg[s].head /\ stg[s].tail \in Nat
        /\ TailBefore(s) \in Nat /\ TailBefore(s) <= prod.tail
        /\ prod.tail <= prod.head /\ prod.head <= cons.tail + SoCapacity
    BY <1>0, StageFields, Window, BeforeFacts, Zenon
  <2> QED  BY <1>0, <2>1, EndFields, SoSizes, SMT
<1>4. ASSUME NEW r \in Stages, NEW q \in Region(stg, usr, r) PROVE Idx(q) # Idx(p)
  <2>1. q \in Int /\ stg[r].tail <= q /\ q < stg[r].head /\ cons.tail <= q /\ q < cons.tail + SoSize
    BY <1>0, InRegion, Zenon
  <2>2. q # p
    BY <1>1, <2>1, Zenon
  <2> QED  BY <1>0, <1>3, <2>1, <2>2, Live, Zenon
<1>5. SlotOK(Stages, slot, usr, stg, Idx(p))
  BY <1>2, Zenon DEF SoInv, SlotsOK
<1>6. slot[Idx(p)].st # "finish"
  BY <1>4, <1>5, Zenon DEF SlotOK
<1>7. slot[Idx(p)].st # "start"
  <2>1. SUFFICES ASSUME NEW u \in Users, Marked(usr[u]), Idx(usr[u].head) = Idx(p) PROVE FALSE
    BY <1>5, Zenon DEF SlotOK
  <2>2. Claims(usr[u])
    BY <2>1, Zenon DEF Marked, Claims
  <2>3. usr[u].head \in Region(stg, usr, usr[u].s) /\ usr[u].s \in Stages
    BY <2>2, ClaimFacts, Zenon
  <2> QED  BY <1>4, <2>1, <2>3, Zenon
<1>8. slot[Idx(p)].st \in {"none", "start", "finish"}
  BY <1>0, <1>2, StateFields, Zenon
<1>9. slot[Idx(p)] = Zero
  BY <1>5, <1>6, <1>7, <1>8, Zenon DEF SlotOK
<1> QED  BY <1>6, <1>9, Zenon DEF Released

\* The compare-and-swap finds the head it has read, and the elements behind it
\* are still there.
LEMMA AcqCasFacts ==
  ASSUME SoInv, NEW w \in Workers, At(w, "acas"), U32(stg[usr[w].s].head) = U32(usr[w].head)
  PROVE  LET u == usr[w] IN
         /\ w \in Users /\ w # Consumer /\ u \in Locals /\ u.s \in Stages
         /\ u.n \in Nat /\ u.n > 0 /\ stg[u.s].head + u.n <= TailBefore(u.s)
<1>1. PICK u : u = usr[w]
  BY Zenon
<1>2. w \in Users /\ w # Consumer
  BY SoringUsers, Zenon DEF Users
<1>3. SoType /\ SoOrder /\ u \in Locals /\ u.s \in Stages /\ LoadOK(u, stg, prod.tail)
  BY <1>1, <1>2, CallFacts, Zenon
<1>4. u.pc = "acas" /\ U32(stg[u.s].head) = U32(u.head) /\ Loading(u)
  BY <1>1, Zenon DEF At, Loading
<1>5. u.head <= stg[u.s].head /\ stg[u.s].head - u.head < SoMod /\ u.n > 0
      /\ (u.head = stg[u.s].head => u.head + u.n <= Before(stg, prod.tail, u.s))
  BY <1>3, <1>4, Zenon DEF LoadOK
<1>6. u.head \in Nat /\ stg[u.s].head \in Nat /\ u.n \in Nat
  BY <1>3, LocalFields, StageFields, Zenon
<1>7. u.head \in Int /\ stg[u.s].head \in Int /\ u.head - stg[u.s].head < SoMod
  BY <1>5, <1>6, SoSizes, SMT
<1>8. u.head = stg[u.s].head
  BY <1>4, <1>5, <1>7, WordSame, Zenon
<1>9. stg[u.s].head + u.n <= TailBefore(u.s)
  BY <1>3, <1>5, <1>8, BeforeFacts, Zenon
<1> QED  BY <1>1, <1>2, <1>3, <1>5, <1>6, <1>9, Zenon

\* The tail before a stage is that of the nearest stage.
LEMMA TailsBefore ==
  ASSUME SoType, SoOrder, NEW s \in Stages, NEW r \in Stages, r < s
  PROVE  TailBefore(s) <= stg[r].tail
<1>1. r \in Nat /\ s \in Nat /\ stg[r].tail \in Nat
  BY StageFields, Zenon
<1>2. s > 0 /\ s # 0
  BY <1>1, SMT
<1>3. PICK x \in Stages : x = s - 1
  BY <1>2, StageFacts, Zenon DEF SoType
<1>4. TailBefore(s) = stg[x].tail
  BY <1>2, <1>3, Zenon DEF TailBefore
<1>5. x \in Nat /\ stg[x].tail \in Nat /\ stg[x].head \in Nat /\ stg[x].tail <= stg[x].head
  BY StageFields, Window, Zenon
<1>6. r < x => stg[x].head <= stg[r].tail
  BY Zenon DEF SoOrder
<1>7. r < x \/ r = x
  BY <1>1, <1>3, <1>5, SMT
<1>8. CASE r = x
  BY <1>4, <1>5, <1>8, SMT
<1>9. CASE r < x
  BY <1>1, <1>4, <1>5, <1>6, <1>9, SMT
<1> QED  BY <1>7, <1>8, <1>9, Zenon

\* acquire takes the n elements from H on for stage s.
Acquired(w, s, H, n, v) ==
  /\ s \in Stages /\ H = stg[s].head /\ n \in Nat /\ n > 0 /\ H + n <= TailBefore(s)
  /\ NotLapped(s, n) /\ ~ Claims(usr[w]) /\ ~ Finalizing(usr[w])
  /\ stg' = [stg EXCEPT ![s] = [stg[s] EXCEPT !.head = H + n]]
  /\ usr' = [usr EXCEPT ![w] = v]
  /\ v = [Quiet EXCEPT !.pc = "astate", !.s = s, !.head = H, !.n = n]
  /\ UNCHANGED <<nbStage, prod, cons, slot, elem, tkr>>

AcquiredState(w, s, H, n, v) ==
  /\ SoType /\ SoOrder /\ SoType' /\ Stages' = Stages /\ LastStage' = LastStage /\ w \in Users /\ w # Consumer
  /\ s \in Stages /\ H \in Nat /\ H \in Int /\ n \in Nat /\ n > 0 /\ H + n \in Nat /\ H + n \in Int
  /\ v \in Locals /\ v.pc = "astate" /\ v.s = s /\ v.head = H /\ v.n = n /\ v.fi = 0 /\ v.fs \in Stages
  /\ Claims(v) /\ ~ Marked(v) /\ ~ Finalizing(v) /\ ~ Loading(v)
  /\ usr'[w] = v /\ \A x \in Users : x # w => usr'[x] = usr[x]
  /\ stg'[s].head = H + n /\ \A r \in Stages : r # s => stg'[r].head = stg[r].head
  /\ \A r \in Stages : stg'[r].tail = stg[r].tail /\ stg'[r].sync = stg[r].sync
  /\ \A r \in Stages : stg[r].head <= stg'[r].head /\ stg'[r].head \in Nat

LEMMA AcquiredFacts ==
  ASSUME SoInv, NEW w \in Workers, NEW s, NEW H, NEW n, NEW v, Acquired(w, s, H, n, v)
  PROVE  AcquiredState(w, s, H, n, v)
<1>0. /\ s \in Stages /\ H = stg[s].head /\ n \in Nat /\ n > 0
      /\ stg' = [stg EXCEPT ![s] = [stg[s] EXCEPT !.head = H + n]] /\ usr' = [usr EXCEPT ![w] = v]
      /\ v = [Quiet EXCEPT !.pc = "astate", !.s = s, !.head = H, !.n = n]
      /\ UNCHANGED <<nbStage, prod, cons, slot, elem, tkr>>
  BY Zenon DEF Acquired
<1>1. SoType /\ SoOrder /\ w \in Users /\ w # Consumer
  BY SoringUsers, Zenon DEF Users, SoInv
<1>2. s \in Nat /\ H \in Nat
  BY <1>0, <1>1, StageFields, Zenon
<1>3. H \in Int /\ H + n \in Nat /\ H + n \in Int /\ H <= H + n
  BY <1>0, <1>2, SMT
<1>4. v \in Locals
  BY <1>0, <1>2, QuietFacts, Zenon DEF Locals, Labels
<1>5. v.pc = "astate" /\ v.s = s /\ v.head = H /\ v.n = n /\ v.fi = Quiet.fi /\ v.fs = Quiet.fs
  BY <1>0, QuietFacts, Zenon DEF Locals
<1>6. v.fi = 0 /\ v.fs \in Stages
  BY <1>1, <1>5, QuietFacts, StageFacts, Zenon DEF SoType
<1>7. Claims(v) /\ ~ Marked(v) /\ ~ Finalizing(v) /\ ~ Loading(v)
  BY <1>5, Zenon DEF Claims, Marked, Finalizing, Loading
<1>8. Stages' = Stages /\ LastStage' = LastStage
  BY <1>0, Zenon DEF Stages, LastStage
<1>9. usr' \in [Users -> Locals] /\ usr'[w] = v /\ \A x \in Users : x # w => usr'[x] = usr[x]
  BY <1>0, <1>1, <1>4, Zenon DEF SoType
<1>10. stg \in [Stages -> [head : Nat, tail : Nat, sync : {0, 1}]] /\ stg[s] \in [head : Nat, tail : Nat, sync : {0, 1}]
  BY <1>0, <1>1, Zenon DEF SoType
<1>11. stg' \in [Stages -> [head : Nat, tail : Nat, sync : {0, 1}]]
  BY <1>0, <1>3, <1>10, Zenon
<1>12. /\ stg'[s].head = H + n /\ stg'[s].tail = stg[s].tail /\ stg'[s].sync = stg[s].sync
       /\ \A r \in Stages : r # s => stg'[r] = stg[r]
  BY <1>0, <1>10, Zenon
<1>13. SoType'
  BY <1>0, <1>1, <1>8, <1>9, <1>11, Zenon DEF SoType
<1>14. \A r \in Stages : stg[r].head \in Nat /\ stg[r].head <= stg[r].head
  BY <1>1, StageFields, SMT
<1>15. \A r \in Stages : stg[r].head <= stg'[r].head /\ stg'[r].head \in Nat
  BY <1>0, <1>3, <1>12, <1>14, Zenon
<1> QED  BY <1>0, <1>1, <1>2, <1>3, <1>4, <1>5, <1>6, <1>7, <1>8, <1>9, <1>12, <1>13, <1>15, Zenon DEF AcquiredState

\* The stage's region grows by what is acquired.
LEMMA AcquiredRegions ==
  ASSUME SoInv, NEW w \in Workers, NEW s, NEW H, NEW n, NEW v, Acquired(w, s, H, n, v)
  PROVE  /\ \A r \in Stages : \A q \in Region(stg, usr, r) : q \in Region(stg', usr', r)
         /\ H \in Region(stg', usr', s)
         /\ \A r \in Stages : \A q \in Region(stg', usr', r) :
              q \in Region(stg, usr, r) \/ (r = s /\ q \in Int /\ H <= q /\ q < H + n)
<1>1. /\ SoType /\ SoOrder /\ s \in Stages /\ H \in Nat /\ n \in Nat /\ n > 0 /\ H + n \in Nat /\ ~ Finalizing(v)
      /\ usr'[w] = v /\ \A x \in Users : x # w => usr'[x] = usr[x]
      /\ stg'[s].head = H + n /\ \A r \in Stages : r # s => stg'[r].head = stg[r].head
      /\ \A r \in Stages : stg'[r].tail = stg[r].tail
  <2>1. AcquiredState(w, s, H, n, v)
    BY AcquiredFacts, Zenon
  <2> QED  BY <2>1, Zenon DEF AcquiredState
<1>2. H = stg[s].head /\ ~ Finalizing(usr[w])
  BY Zenon DEF Acquired
<1>3. \A x \in Users : (Finalizing(usr'[x]) <=> Finalizing(usr[x])) /\ (Finalizing(usr[x]) => usr'[x] = usr[x])
  BY <1>1, <1>2, Zenon
<1>4. ASSUME NEW r \in Stages, r # s PROVE Region(stg', usr', r) = Region(stg, usr, r)
  BY <1>1, <1>3, <1>4, Zenon DEF Region
<1>5. stg[s].tail \in Nat /\ stg[s].tail <= H
  BY <1>1, <1>2, StageFields, Window, Zenon
<1>6. /\ \A q \in stg[s].tail .. H - 1 : q \in stg[s].tail .. (H + n) - 1
      /\ \A q \in stg[s].tail .. (H + n) - 1 : q \in Int /\ q < H + n /\ (H <= q \/ q \in stg[s].tail .. H - 1)
      /\ H \in stg[s].tail .. (H + n) - 1
  BY <1>1, <1>5, SMT
<1>7. ASSUME NEW q \in Region(stg, usr, s) PROVE q \in Region(stg', usr', s)
  <2>1. q \in stg[s].tail .. H - 1
        /\ \A x \in Users : Finalizing(usr[x]) /\ usr[x].fs = s => usr[x].ot + usr[x].fi <= q
    BY <1>2, <1>7, Zenon DEF Region
  <2>2. q \in stg'[s].tail .. stg'[s].head - 1
    BY <1>1, <1>6, <2>1, Zenon
  <2>3. \A x \in Users : Finalizing(usr'[x]) /\ usr'[x].fs = s => usr'[x].ot + usr'[x].fi <= q
    BY <1>3, <2>1, Zenon
  <2> QED  BY <2>2, <2>3, Zenon DEF Region
<1>8. ASSUME NEW q \in Region(stg', usr', s)
      PROVE  q \in Region(stg, usr, s) \/ (q \in Int /\ H <= q /\ q < H + n)
  <2>1. q \in stg[s].tail .. (H + n) - 1
        /\ \A x \in Users : Finalizing(usr'[x]) /\ usr'[x].fs = s => usr'[x].ot + usr'[x].fi <= q
    BY <1>1, <1>8, Zenon DEF Region
  <2>2. \A x \in Users : Finalizing(usr[x]) /\ usr[x].fs = s => usr[x].ot + usr[x].fi <= q
    BY <1>3, <2>1, Zenon
  <2>3. q \in stg[s].tail .. stg[s].head - 1 => q \in Region(stg, usr, s)
    BY <2>2, Zenon DEF Region
  <2> QED  BY <1>2, <1>6, <2>1, <2>3, Zenon
<1>9. H \in Region(stg', usr', s)
  <2>1. \A x \in Users : Finalizing(usr[x]) /\ usr[x].fs = s => usr[x].ot + usr[x].fi <= H
    BY <1>2, CallFacts, Zenon DEF FinalizeOK
  <2>2. \A x \in Users : Finalizing(usr'[x]) /\ usr'[x].fs = s => usr'[x].ot + usr'[x].fi <= H
    BY <1>3, <2>1, Zenon
  <2>3. H \in stg'[s].tail .. stg'[s].head - 1
    BY <1>1, <1>6, Zenon
  <2> QED  BY <2>2, <2>3, Zenon DEF Region
<1> QED  BY <1>4, <1>7, <1>8, <1>9, Zenon

LEMMA AcquiredOrder ==
  ASSUME SoInv, NEW w \in Workers, NEW s, NEW H, NEW n, NEW v, Acquired(w, s, H, n, v)
  PROVE  SoOrder' /\ FrontOK' /\ Passed(elem, H, H + n, s)
<1>0. AcquiredState(w, s, H, n, v)
  BY AcquiredFacts, Zenon
<1>1. /\ SoType /\ SoOrder /\ s \in Stages /\ H \in Nat /\ n \in Nat /\ n > 0 /\ H + n \in Nat
      /\ stg'[s].head = H + n /\ \A r \in Stages : r # s => stg'[r].head = stg[r].head
      /\ \A r \in Stages : stg'[r].tail = stg[r].tail
      /\ Stages' = Stages /\ LastStage' = LastStage /\ H \in Int /\ H + n \in Int
  BY <1>0, Zenon DEF AcquiredState
<1>2. /\ H = stg[s].head /\ H + n <= TailBefore(s)
      /\ UNCHANGED <<nbStage, prod, cons, slot, elem, tkr>>
  BY Zenon DEF Acquired
<1>3. TailBefore(s) \in Nat /\ TailBefore(s) <= prod.tail /\ prod.tail \in Nat
  BY <1>1, BeforeFacts, EndFields, Zenon
<1>4. H + n <= prod.tail
  BY <1>1, <1>2, <1>3, SMT
<1>5. stg[s].tail <= H + n
  <2>1. stg[s].tail \in Nat /\ stg[s].tail <= H
    BY <1>1, <1>2, StageFields, Window, Zenon
  <2> QED  BY <1>1, <2>1, SMT
<1>6. SoOrder'
  <2>1. ASSUME NEW r \in Stages
        PROVE  cons.head <= stg'[r].tail /\ stg'[r].tail <= stg'[r].head /\ stg'[r].head <= prod.tail
    <3>1. cons.head <= stg[r].tail /\ stg[r].tail <= stg[r].head /\ stg[r].head <= prod.tail
      BY <1>1, Window, Zenon
    <3> QED  BY <1>1, <1>4, <1>5, <3>1, Zenon
  <2>2. ASSUME NEW r \in Stages, NEW x \in Stages, r < x PROVE stg'[x].head <= stg'[r].tail
    <3>1. stg[x].head <= stg[r].tail
      BY <1>1, <2>2, Zenon DEF SoOrder
    <3>2. x = s => TailBefore(s) <= stg[r].tail /\ stg[r].tail \in Nat
      BY <1>1, <2>2, TailsBefore, StageFields, Zenon
    <3>3. x = s => H + n <= stg[r].tail
      BY <1>1, <1>2, <1>3, <3>2, SMT
    <3> QED  BY <1>1, <3>1, <3>3, Zenon
  <2> QED  BY <1>1, <1>2, <2>1, <2>2, Zenon DEF SoOrder
<1>7. \A r \in Stages : Before(stg', prod.tail + tkr, r) = Before(stg, prod.tail + tkr, r)
  BY <1>1, StageFacts, SMT DEF Before, SoType
<1>8. PICK b : b = Before(stg, prod.tail + tkr, s)
  BY Zenon
<1>9. b \in Nat /\ TailBefore(s) <= b
  <2>1. b \in Nat
    BY <1>1, <1>8, FrontAway, Zenon
  <2>2. CASE s = 0
    <3>1. b = prod.tail + tkr /\ tkr \in Nat
      BY <1>1, <1>8, <2>2, EndFields, Zenon DEF Before
    <3> QED  BY <1>3, <2>1, <3>1, SMT
  <2>3. CASE s # 0
    <3>1. b = TailBefore(s)
      BY <1>8, <2>3, Zenon DEF Before, TailBefore
    <3> QED  BY <1>3, <2>1, <3>1, SMT
  <2> QED  BY <2>2, <2>3, Zenon
<1>10. Passed(elem, H, b, s)
  BY <1>1, <1>2, <1>8, Zenon DEF SoInv, FrontOK
<1>11. /\ \A p \in H .. (H + n) - 1 : p \in H .. b - 1
       /\ \A p \in H + n .. b - 1 : p \in H .. b - 1
  BY <1>1, <1>2, <1>3, <1>9, SMT
<1>12. Passed(elem, H, H + n, s) /\ Passed(elem, H + n, b, s)
  BY <1>10, <1>11, Zenon DEF Passed
<1>13. FrontOK'
  <2>1. \A r \in Stages : Passed(elem, stg'[r].head, Before(stg', prod.tail + tkr, r), r)
    BY <1>1, <1>7, <1>8, <1>12, Zenon DEF SoInv, FrontOK
  <2>2. LastStage \in Stages
    BY <1>1, StageFacts, Zenon DEF SoType
  <2> QED  BY <1>1, <1>2, <2>1, <2>2, Zenon DEF SoInv, FrontOK
<1> QED  BY <1>6, <1>12, <1>13, Zenon

LEMMA AcquiredCalls ==
  ASSUME SoInv, NEW w \in Workers, NEW s, NEW H, NEW n, NEW v, Acquired(w, s, H, n, v)
  PROVE  CallsOK' /\ FinalizesOK' /\ DequeueOK'
<1>0. AcquiredState(w, s, H, n, v)
  BY AcquiredFacts, Zenon
<1>1. /\ SoType /\ SoOrder /\ s \in Stages /\ H \in Nat /\ n \in Nat /\ n > 0 /\ H + n \in Nat
      /\ stg'[s].head = H + n /\ \A r \in Stages : r # s => stg'[r].head = stg[r].head
      /\ \A r \in Stages : stg'[r].tail = stg[r].tail /\ stg'[r].sync = stg[r].sync
      /\ \A r \in Stages : stg[r].head <= stg'[r].head /\ stg'[r].head \in Nat
      /\ Stages' = Stages /\ w \in Users /\ w # Consumer
  BY <1>0, Zenon DEF AcquiredState
<1>2. /\ v.pc = "astate" /\ v.s = s /\ v.fi = 0 /\ v.fs \in Stages
      /\ Claims(v) /\ ~ Finalizing(v) /\ ~ Loading(v)
      /\ usr'[w] = v /\ \A x \in Users : x # w => usr'[x] = usr[x]
  BY <1>0, Zenon DEF AcquiredState
<1>3. /\ H = stg[s].head /\ NotLapped(s, n) /\ ~ Finalizing(usr[w])
      /\ UNCHANGED <<nbStage, prod, cons, slot, elem, tkr>>
  BY Zenon DEF Acquired
<1>4. \A r \in Stages : Before(stg', prod.tail, r) = Before(stg, prod.tail, r)
  BY <1>1, StageFacts, SMT DEF Before, SoType
<1>5. ASSUME NEW x \in Users PROVE CallOK(Stages, x, usr'[x]) /\ LoadOK(usr'[x], stg', prod.tail)
  <2>1. CASE x = w
    BY <1>1, <1>2, <2>1, Zenon DEF CallOK, LoadOK
  <2>2. CASE x # w
    <3>1. PICK y : y = usr[x]
      BY Zenon
    <3>2. usr'[x] = y /\ CallOK(Stages, x, y) /\ LoadOK(y, stg, prod.tail) /\ y.s \in Stages /\ y \in Locals
      BY <1>2, <2>2, <3>1, CallFacts, Zenon
    <3>3. CASE ~ Loading(y)
      BY <3>2, <3>3, Zenon DEF LoadOK
    <3>4. CASE Loading(y) /\ y.s # s
      BY <1>1, <1>4, <3>2, <3>4, Zenon DEF LoadOK
    <3>5. CASE Loading(y) /\ y.s = s
      <4>1. x \in Workers /\ y.pc \in {"atail", "acas"}
        BY <3>2, <3>5, Zenon DEF CallOK, Loading
      <4>2. H + n - y.head < SoMod
        BY <1>3, <3>1, <3>5, <4>1, Zenon DEF NotLapped
      <4>3. y.head <= H /\ (y.pc = "acas" => y.n > 0)
        BY <1>3, <3>2, <3>5, Zenon DEF LoadOK
      <4>4. y.head \in Nat
        BY <3>2, LocalFields, Zenon
      <4>5. y.head <= H + n /\ y.head # H + n /\ (H + n) - y.head < SoMod
        BY <1>1, <4>2, <4>3, <4>4, SoSizes, SMT
      <4> QED  BY <1>1, <3>2, <3>5, <4>3, <4>5, Zenon DEF LoadOK
    <3> QED  BY <3>3, <3>4, <3>5, Zenon
  <2> QED  BY <2>1, <2>2, Zenon
<1>6. CallsOK'
  BY <1>1, <1>3, <1>5, Zenon DEF CallsOK
<1>7. ASSUME NEW x \in Users PROVE FinalizeOK(usr'[x], stg', elem)
  <2>1. CASE ~ Finalizing(usr'[x])
    BY <2>1, Zenon DEF FinalizeOK
  <2>2. CASE Finalizing(usr'[x])
    <3>1. PICK y : y = usr[x]
      BY Zenon
    <3>2. usr'[x] = y /\ y \in Locals /\ y.fs \in Stages /\ FinalizeOK(y, stg, elem) /\ Finalizing(y)
      BY <1>2, <2>2, <3>1, CallFacts, Zenon
    <3>3. PICK r \in Stages : r = y.fs
      BY <3>2, Zenon
    <3>4. y.ot \in Nat /\ y.fi \in Nat /\ y.fn \in Nat /\ stg[r].head \in Nat /\ stg'[r].head \in Nat
          /\ stg[r].head <= stg'[r].head
      BY <1>1, <3>2, LocalFields, StageFields, Zenon
    <3>5. y.ot + y.fi <= stg[r].head => y.ot + y.fi <= stg'[r].head
      BY <3>4, SMT
    <3>6. y.ot + y.fn <= stg[r].head => y.ot + y.fn <= stg'[r].head
      BY <3>4, SMT
    <3> QED  BY <1>1, <3>2, <3>3, <3>5, <3>6, Zenon DEF FinalizeOK
  <2> QED  BY <2>1, <2>2, Zenon
<1>8. FinalizesOK'
  <2>1. OneFinalizes'
    BY <1>2, <1>3, Zenon DEF SoInv, FinalizesOK, OneFinalizes
  <2> QED  BY <1>3, <1>7, <2>1, Zenon DEF FinalizesOK
<1>9. DequeueOK'
  <2>1. Consumer \in Users
    BY Zenon DEF Users
  <2> QED  BY <1>1, <1>2, <1>3, <2>1, Zenon DEF SoInv, DequeueOK
<1> QED  BY <1>6, <1>8, <1>9, Zenon

LEMMA AcquiredBatches ==
  ASSUME SoInv, NEW w \in Workers, NEW s, NEW H, NEW n, NEW v, Acquired(w, s, H, n, v)
  PROVE  ClaimsOK' /\ ClaimsApart' /\ BatchesOK' /\ SlotsOK'
<1>0. AcquiredState(w, s, H, n, v)
  BY AcquiredFacts, Zenon
<1>1. /\ SoType /\ SoOrder /\ s \in Stages /\ H \in Nat /\ H \in Int /\ n \in Nat /\ n > 0 /\ H + n \in Nat
      /\ stg'[s].head = H + n /\ \A r \in Stages : r # s => stg'[r].head = stg[r].head
      /\ \A r \in Stages : stg[r].head <= stg'[r].head /\ stg'[r].head \in Nat
      /\ Stages' = Stages /\ w \in Users
  BY <1>0, Zenon DEF AcquiredState
<1>2. /\ v.s = s /\ v.head = H /\ v.n = n /\ v.pc = "astate"
      /\ Claims(v) /\ ~ Marked(v)
      /\ usr'[w] = v /\ \A x \in Users : x # w => usr'[x] = usr[x]
  BY <1>0, Zenon DEF AcquiredState
<1>3. /\ H = stg[s].head /\ ~ Claims(usr[w]) /\ H + n <= TailBefore(s)
      /\ UNCHANGED <<nbStage, prod, cons, slot, elem, tkr>>
  BY Zenon DEF Acquired
<1>4. /\ \A r \in Stages : \A q \in Region(stg, usr, r) : q \in Region(stg', usr', r)
      /\ H \in Region(stg', usr', s)
      /\ \A r \in Stages : \A q \in Region(stg', usr', r) :
           q \in Region(stg, usr, r) \/ (r = s /\ q \in Int /\ H <= q /\ q < H + n)
  BY AcquiredRegions, Zenon
\* The states of what is acquired are zero.
<1>5. ASSUME NEW q \in Int, H <= q, q < H + n PROVE slot[Idx(q)] = Zero /\ ~ Released(slot, q)
  <2>1. TailBefore(s) \in Nat
    BY <1>1, BeforeFacts, Zenon
  <2>2. stg[s].head <= q /\ q < TailBefore(s)
    BY <1>1, <1>3, <1>5, <2>1, SMT
  <2> QED  BY <1>1, <2>2, GapStates, Zenon
<1>6. slot[Idx(H)] = Zero
  <2>1. H <= H /\ H < H + n
    BY <1>1, SMT
  <2> QED  BY <1>1, <1>5, <2>1, Zenon
<1>7. Passed(elem, H, H + n, s)
  BY AcquiredOrder, Zenon
<1>8. ASSUME NEW x \in Users, x # w, Claims(usr[x])
      PROVE  /\ usr'[x] = usr[x] /\ usr[x].s \in Stages /\ usr[x].head \in Region(stg', usr', usr[x].s)
             /\ usr[x].head + usr[x].n <= stg[usr[x].s].head
             /\ usr[x].head + usr[x].n <= stg'[usr[x].s].head
  <2>1. PICK y : y = usr[x]
    BY Zenon
  <2>2. /\ y.s \in Stages /\ y.head \in Nat /\ y.n \in Nat /\ y.head \in Region(stg, usr, y.s)
        /\ y.head + y.n <= stg[y.s].head
    BY <1>8, <2>1, ClaimFacts, Zenon
  <2>3. stg[y.s].head \in Nat /\ stg'[y.s].head \in Nat /\ stg[y.s].head <= stg'[y.s].head
    BY <1>1, <2>2, StageFields, Zenon
  <2>4. y.head + y.n <= stg'[y.s].head
    BY <2>2, <2>3, SMT
  <2> QED  BY <1>2, <1>4, <1>8, <2>1, <2>2, <2>4, Zenon
<1>9. ClaimsOK'
  <2>1. ASSUME NEW x \in Users
        PROVE  /\ Claims(usr'[x]) => usr'[x].head \in Region(stg', usr', usr'[x].s)
               /\ ClaimOK(usr'[x], stg'[usr'[x].s].head, slot, elem)
    <3>1. CASE x = w
      <4>1. H + n <= H + n
        BY <1>1, SMT
      <4>2. ClaimOK(v, H + n, slot, elem)
        BY <1>1, <1>2, <1>6, <1>7, <4>1, Zenon DEF ClaimOK
      <4> QED  BY <1>1, <1>2, <1>4, <3>1, <4>2, Zenon
    <3>2. CASE x # w /\ ~ Claims(usr'[x])
      BY <3>2, Zenon DEF ClaimOK
    <3>3. CASE x # w /\ Claims(usr'[x])
      <4>1. Claims(usr[x]) /\ usr'[x] = usr[x]
        BY <1>2, <3>3, Zenon
      <4>2. ClaimOK(usr[x], stg[usr[x].s].head, slot, elem)
        BY Zenon DEF SoInv, ClaimsOK
      <4>3. /\ usr[x].head \in Region(stg', usr', usr[x].s)
            /\ usr[x].head + usr[x].n <= stg'[usr[x].s].head
        BY <1>8, <3>3, <4>1, Zenon
      <4>4. ClaimOK(usr[x], stg'[usr[x].s].head, slot, elem)
        BY <4>2, <4>3, Zenon DEF ClaimOK
      <4> QED  BY <4>1, <4>3, <4>4, Zenon
    <3> QED  BY <3>1, <3>2, <3>3, Zenon
  <2> QED  BY <1>3, <2>1, Zenon DEF ClaimsOK
<1>10. ClaimsApart'
  <2>1. ASSUME NEW x \in Users, NEW y \in Users, x # y PROVE TwoClaims(usr'[x], usr'[y])
    <3>1. CASE x = w
      <4>1. y # w /\ (Claims(usr'[y]) => Claims(usr[y]) /\ usr'[y] = usr[y])
        BY <1>2, <2>1, <3>1, Zenon
      <4>2. Claims(usr[y]) /\ usr[y].s = s => usr[y].head + usr[y].n <= H
        BY <1>3, <1>8, <4>1, Zenon
      <4> QED  BY <1>2, <3>1, <4>1, <4>2, Zenon DEF TwoClaims
    <3>2. CASE y = w
      <4>1. x # w /\ (Claims(usr'[x]) => Claims(usr[x]) /\ usr'[x] = usr[x])
        BY <1>2, <2>1, <3>2, Zenon
      <4>2. Claims(usr[x]) /\ usr[x].s = s => usr[x].head + usr[x].n <= H
        BY <1>3, <1>8, <4>1, Zenon
      <4> QED  BY <1>2, <3>2, <4>1, <4>2, Zenon DEF TwoClaims
    <3>3. CASE x # w /\ y # w
      BY <1>2, <2>1, <3>3, Zenon DEF SoInv, ClaimsApart
    <3> QED  BY <3>1, <3>2, <3>3, Zenon
  <2> QED  BY <2>1, Zenon DEF ClaimsApart
<1>11. BatchesOK'
  <2>1. ASSUME NEW r \in Stages, NEW p \in Region(stg', usr', r), Released(slot, p)
        PROVE  p \in Region(stg, usr, r)
    BY <1>4, <1>5, <2>1, Zenon
  <2>2. ASSUME NEW r \in Stages, NEW p \in Region(stg', usr', r)
        PROVE  /\ Released(slot, p) => ReleasedOK(slot, elem, stg'[r].head, r, p)
               /\ \A o \in Region(stg', usr', r) : TwoReleased(slot, p, o)
               /\ \A x \in Users : OneOfEach(slot, r, p, usr'[x])
    <3>1. CASE ~ Released(slot, p)
      BY <3>1, Zenon DEF TwoReleased, OneOfEach
    <3>2. CASE Released(slot, p)
      <4>1. p \in Region(stg, usr, r)
        BY <2>1, <3>2, Zenon
      <4>2. ReleasedOK(slot, elem, stg[r].head, r, p) /\ End(slot, p) \in Nat /\ End(slot, p) <= stg[r].head
        BY <3>2, <4>1, ReleasedFacts, Zenon
      <4>3. stg[r].head \in Nat /\ stg'[r].head \in Nat /\ stg[r].head <= stg'[r].head
        BY <1>1, StageFields, Zenon
      <4>4. End(slot, p) <= stg'[r].head
        BY <4>2, <4>3, SMT
      <4>5. ReleasedOK(slot, elem, stg'[r].head, r, p)
        BY <4>2, <4>4, Zenon DEF ReleasedOK
      <4>6. ASSUME NEW o \in Region(stg', usr', r) PROVE TwoReleased(slot, p, o)
        <5>1. CASE ~ Released(slot, o)
          BY <5>1, Zenon DEF TwoReleased
        <5>2. CASE Released(slot, o)
          <6>1. o \in Region(stg, usr, r)
            BY <2>1, <5>2, Zenon
          <6> QED  BY <4>1, <6>1, Zenon DEF SoInv, BatchesOK
        <5> QED  BY <5>1, <5>2, Zenon
      <4>7. ASSUME NEW x \in Users PROVE OneOfEach(slot, r, p, usr'[x])
        <5>1. CASE x = w
          BY <1>2, <1>3, <4>2, <5>1, Zenon DEF OneOfEach
        <5>2. CASE x # w
          BY <1>2, <4>1, <5>2, Zenon DEF SoInv, BatchesOK
        <5> QED  BY <5>1, <5>2, Zenon
      <4> QED  BY <4>5, <4>6, <4>7, Zenon
    <3> QED  BY <3>1, <3>2, Zenon
  <2> QED  BY <1>1, <1>3, <2>2, Zenon DEF BatchesOK
<1>12. SlotsOK'
  <2>1. \A x \in Users : Marked(usr[x]) => usr'[x] = usr[x]
    BY <1>2, <1>3, Zenon DEF Marked, Claims
  <2>2. ASSUME NEW i \in Index PROVE SlotOK(Stages', slot', usr', stg', i)
    <3>1. SlotOK(Stages, slot, usr, stg, i)
      BY Zenon DEF SoInv, SlotsOK
    <3>2. slot[i].st = "start" => \E x \in Users : Marked(usr'[x]) /\ Idx(usr'[x].head) = i
      BY <2>1, <3>1, Zenon DEF SlotOK
    <3>3. slot[i].st = "finish" => \E r \in Stages : \E q \in Region(stg', usr', r) : Idx(q) = i
      BY <1>4, <3>1, Zenon DEF SlotOK
    <3> QED  BY <1>1, <1>3, <3>1, <3>2, <3>3, Zenon DEF SlotOK
  <2> QED  BY <2>2, Zenon DEF SlotsOK
<1> QED  BY <1>9, <1>10, <1>11, <1>12, Zenon

LEMMA AcqCasInv ==
  ASSUME SoInv, NEW w \in Workers, AcqCas(w) PROVE SoInv'
<1> DEFINE u == usr[w]
           ok == U32(stg[u.s].head) = U32(u.head)
<1>1. /\ At(w, "acas")
      /\ \/ /\ ok /\ NotLapped(u.s, u.n)
            /\ stg' = [stg EXCEPT ![u.s] = [stg[u.s] EXCEPT !.head = stg[u.s].head + u.n]]
            /\ Owns(w, u)
         \/ /\ ~ ok
            /\ Becomes(w, [u EXCEPT !.pc = "atail", !.head = stg[u.s].head, !.n = 0])
            /\ UNCHANGED stg
      /\ UNCHANGED <<nbStage, prod, cons, slot, elem, tkr>>
  BY Zenon DEF AcqCas
<1>2. CASE ok
  <2>1. /\ u \in Locals /\ u.s \in Stages
        /\ u.n \in Nat /\ u.n > 0 /\ stg[u.s].head + u.n <= TailBefore(u.s)
    BY <1>1, <1>2, AcqCasFacts, Zenon
  <2>2. PICK v : v = [Quiet EXCEPT !.pc = "astate", !.s = u.s, !.head = stg[u.s].head, !.n = u.n]
    BY Zenon
  <2>3. /\ NotLapped(u.s, u.n) /\ stg' = [stg EXCEPT ![u.s] = [stg[u.s] EXCEPT !.head = stg[u.s].head + u.n]]
        /\ usr' = [usr EXCEPT ![w] = v] /\ UNCHANGED <<nbStage, prod, cons, slot, elem, tkr>>
    BY <1>1, <1>2, <2>2, Zenon DEF Owns, Becomes
  <2>4. ~ Claims(u) /\ ~ Finalizing(u)
    BY <1>1, Zenon DEF At, Claims, Finalizing
  <2>5. Acquired(w, u.s, stg[u.s].head, u.n, v)
    BY <2>1, <2>2, <2>3, <2>4, Zenon DEF Acquired
  <2>6. SoType' /\ SoOrder' /\ FrontOK'
    <3>1. AcquiredState(w, u.s, stg[u.s].head, u.n, v)
      BY <2>5, AcquiredFacts, Zenon
    <3>2. SoType'
      BY <3>1, Zenon DEF AcquiredState
    <3> QED  BY <2>5, <3>2, AcquiredOrder, Zenon
  <2>7. CallsOK' /\ FinalizesOK' /\ DequeueOK'
    BY <2>5, AcquiredCalls, Zenon
  <2>8. ClaimsOK' /\ ClaimsApart' /\ BatchesOK' /\ SlotsOK'
    BY <2>5, AcquiredBatches, Zenon
  <2> QED  BY <2>6, <2>7, <2>8, Zenon DEF SoInv
<1>3. CASE ~ ok
  <2>1. /\ UNCHANGED stg
        /\ Becomes(w, [usr[w] EXCEPT !.pc = "atail", !.head = stg[usr[w].s].head, !.n = 0])
    BY <1>1, <1>3, Zenon
  <2> QED  BY <2>1, AcqCasFailed, Zenon
<1> QED  BY <1>2, <1>3, Zenon

-----------------------------------------------------------------------------
(* The producer                                                             *)

LEMMA ProducerStep ==
  ASSUME SoInv, UNCHANGED <<nbStage, cons, stg, slot, usr>>, prod.tail <= prod'.tail,
         \A p \in cons.tail .. prod.tail - 1 : elem'[Idx(p)] = elem[Idx(p)],
         SoType', SoOrder', FrontOK'
  PROVE  SoInv'
<1>1. SoType /\ SoOrder /\ Stages' = Stages
  BY Zenon DEF SoInv, Stages
<1>2. prod.tail \in Nat /\ cons.tail \in Nat /\ prod'.tail \in Nat
  <2>1. prod'.tail \in Nat
    BY Zenon DEF SoType
  <2> QED  BY <1>1, <2>1, EndFields, Zenon
<1>3. Kept
  BY Zenon DEF Kept
<1>4. CallsOK'
  <2>1. ASSUME NEW x \in Users PROVE CallOK(Stages, x, usr[x]) /\ LoadOK(usr[x], stg, prod'.tail)
    <3>1. PICK y : y = usr[x]
      BY Zenon
    <3>2. CallOK(Stages, x, y) /\ LoadOK(y, stg, prod.tail) /\ y \in Locals
      BY <3>1, CallFacts, Zenon
    <3>3. y.head \in Nat /\ y.n \in Nat
      BY <3>2, LocalFields, Zenon
    <3>4. y.head + y.n <= prod.tail => y.head + y.n <= prod'.tail
      BY <1>2, <3>3, SMT
    <3>5. y.head + y.n <= Before(stg, prod.tail, y.s) => y.head + y.n <= Before(stg, prod'.tail, y.s)
      BY <3>4, Zenon DEF Before
    <3>6. LoadOK(y, stg, prod'.tail)
      BY <3>2, <3>5, Zenon DEF LoadOK
    <3> QED  BY <3>1, <3>2, <3>6, Zenon
  <2> QED  BY <1>1, <2>1, Zenon DEF CallsOK
<1>5. FinalizesOK'
  <2>1. ASSUME NEW x \in Users PROVE FinalizeOK(usr[x], stg, elem')
    <3>1. CASE ~ Finalizing(usr[x])
      BY <3>1, Zenon DEF FinalizeOK
    <3>2. CASE Finalizing(usr[x])
      <4>1. PICK y : y = usr[x]
        BY Zenon
      <4>2. FinalizeOK(y, stg, elem) /\ y \in Locals /\ y.fs \in Stages /\ Finalizing(y)
        BY <3>2, <4>1, CallFacts, Zenon
      <4>3. y.ot = stg[y.fs].tail /\ y.ot + y.fi <= stg[y.fs].head /\ Passed(elem, y.ot, y.ot + y.fi, y.fs + 1)
        BY <4>2, Zenon DEF FinalizeOK
      <4>4. /\ y.ot \in Nat /\ y.fi \in Nat /\ stg[y.fs].head <= prod.tail /\ cons.tail <= stg[y.fs].tail
            /\ stg[y.fs].head \in Nat
        BY <1>1, <4>2, LocalFields, Window, StageFields, Zenon
      <4>5. /\ y.ot \in Int /\ y.ot + y.fi \in Int /\ cons.tail <= y.ot /\ y.ot + y.fi <= prod.tail
            /\ cons.tail \in Int /\ prod.tail \in Int
        BY <1>2, <4>3, <4>4, SMT
      <4>6. Passed(elem', y.ot, y.ot + y.fi, y.fs + 1)
        BY <4>3, <4>5, PassedKept, Zenon
      <4> QED  BY <4>1, <4>2, <4>6, Zenon DEF FinalizeOK
    <3> QED  BY <3>1, <3>2, Zenon
  <2> QED  BY <2>1, Zenon DEF SoInv, FinalizesOK, OneFinalizes
<1>6. DequeueOK'
  BY Zenon DEF SoInv, DequeueOK
<1> QED  BY <1>3, <1>4, <1>5, <1>6, KeptClaims, KeptBatches, Zenon DEF SoInv

LEMMA ProdTailInv ==
  ASSUME SoInv, ProdTail PROVE SoInv'
<1>1. SoType /\ SoOrder /\ Stages' = Stages /\ LastStage' = LastStage
  BY Zenon DEF SoInv, Stages, LastStage, ProdTail
<1>2. PICK t : t = prod.tail + tkr
  BY Zenon
<1>3. prod' = [head |-> t, tail |-> t] /\ tkr' = 0 /\ UNCHANGED <<nbStage, cons, stg, slot, elem, usr>>
  BY <1>2, Zenon DEF ProdTail
<1>4. prod'.head = t /\ prod'.tail = t
  BY <1>3, Zenon
<1>5. prod.tail \in Nat /\ tkr \in Nat /\ prod.head \in Nat /\ cons.tail \in Nat /\ SoCapacity \in Nat
  BY <1>1, EndFields, SoringSizes, Zenon
<1>6. t \in Nat /\ prod.tail <= t /\ t + 0 = t /\ 0 \in Nat
  BY <1>2, <1>5, SMT
<1>7. SoType'
  <2>1. prod' \in [head : Nat, tail : Nat]
    BY <1>3, <1>6, Zenon
  <2> QED  BY <1>1, <1>3, <1>6, <2>1, Zenon DEF SoType
<1>8. SoOrder'
  <2>1. ASSUME NEW s \in Stages PROVE stg[s].head <= t
    <3>1. stg[s].head \in Nat /\ stg[s].head <= prod.tail
      BY <1>1, StageFields, Window, Zenon
    <3> QED  BY <1>5, <1>6, <3>1, SMT
  <2>2. t <= prod.head /\ prod.head <= cons.tail + SoCapacity
    BY <1>1, <1>2, Zenon DEF SoOrder
  <2>3. t + 0 <= t /\ t <= cons.tail + SoCapacity
    BY <1>5, <1>6, <2>2, SMT
  <2> QED  BY <1>1, <1>3, <1>4, <2>1, <2>3, Zenon DEF SoOrder
<1>9. FrontOK'
  <2>1. prod'.tail + tkr' = prod.tail + tkr
    BY <1>2, <1>3, <1>4, <1>6, Zenon
  <2> QED  BY <1>1, <1>3, <2>1, Zenon DEF SoInv, FrontOK
<1>10. prod.tail <= prod'.tail
  BY <1>4, <1>6, Zenon
<1> QED  BY <1>3, <1>7, <1>8, <1>9, <1>10, ProducerStep, Zenon

LEMMA ProdWriteInv ==
  ASSUME SoInv, NEW num \in Nat, NEW beh \in Behavior, NEW k, ProdWrite(num, beh, k) PROVE SoInv'
<1>1. SoType /\ SoOrder /\ Stages' = Stages /\ LastStage' = LastStage
  BY Zenon DEF SoInv, Stages, LastStage, ProdWrite
<1>2. PICK a : a = U32(SoCapacity + U32(cons.tail) - U32(prod.head))
  BY Zenon
<1>3. PICK n : n = Moved(num, beh, a)
  BY Zenon
<1>4. PICK o : o = [i \in 1 .. k |-> ElemAt(prod.tail + i - 1, 0)]
  BY Zenon
<1>5. /\ tkr = 0 /\ k \in 1 .. n /\ prod' = [prod EXCEPT !.head = prod.head + n]
      /\ elem' = Stored(prod.tail, o) /\ tkr' = k /\ UNCHANGED <<nbStage, cons, stg, slot, usr>>
  BY <1>2, <1>3, <1>4, Zenon DEF ProdWrite
<1>6. prod.tail \in Nat /\ prod.head \in Nat /\ cons.tail \in Nat /\ SoCapacity \in Nat /\ SoCapacity < SoMod
      /\ SoCapacity < SoSize /\ SoSize \in Nat /\ SoBase \in Nat
      /\ prod \in [head : Nat, tail : Nat] /\ SoMod \in Nat
  <2>1. SoCapacity < SoMod
    BY SoSizes, SMT
  <2> QED  BY <1>1, <2>1, EndFields, SoSizes, Zenon DEF SoType
<1>7. prod.head = prod.tail /\ prod.head <= cons.tail + SoCapacity
  BY <1>1, <1>5, Zenon DEF SoOrder
<1>8. cons.tail <= prod.tail
  <2>1. 0 \in Stages
    BY <1>1, StageFacts, Zenon DEF SoType
  <2>2. /\ cons.tail <= stg[0].tail /\ stg[0].tail <= stg[0].head /\ stg[0].head <= prod.tail
        /\ stg[0].tail \in Nat /\ stg[0].head \in Nat
    BY <1>1, <2>1, Window, StageFields, Zenon
  <2> QED  BY <1>6, <2>2, SMT
<1>9. SoCapacity \in Int /\ prod.head \in Int /\ cons.tail \in Int
      /\ 0 <= SoCapacity + cons.tail - prod.head /\ SoCapacity + cons.tail - prod.head < SoMod
  BY <1>6, <1>7, <1>8, SMT
<1>10. a = SoCapacity + cons.tail - prod.head
  BY <1>2, <1>9, DistIs, Zenon
<1>11. a \in Nat
  BY <1>6, <1>9, <1>10, SMT
<1>12. n \in Nat /\ n <= a
  BY <1>3, <1>11, MovedFacts, Zenon
<1>13. /\ k \in Nat /\ k > 0 /\ k <= n /\ prod.head + n \in Nat /\ prod.tail + k <= prod.head + n
       /\ prod.head + n <= cons.tail + SoCapacity /\ prod.tail + k <= cons.tail + SoSize /\ k # 0
       /\ prod.tail + k \in Nat /\ prod.tail + 0 = prod.tail
  BY <1>5, <1>6, <1>7, <1>10, <1>12, SMT
<1>14. prod'.tail = prod.tail /\ prod'.head = prod.head + n /\ prod' \in [head : Nat, tail : Nat]
  BY <1>5, <1>6, <1>13, Zenon
<1>15. o \in Seq(Elements) /\ Len(o) = k /\ Are(o, prod.tail, 0)
  <2>1. ASSUME NEW i \in 1 .. k PROVE ElemAt(prod.tail + i - 1, 0) \in Elements
    <3>1. (prod.tail + i - 1) + 1 - SoBase \in Int /\ 0 \in Nat
      BY <1>6, <1>13, SMT
    <3> QED  BY <3>1, Zenon DEF ElemAt, Elements
  <2>2. o \in [1 .. k -> Elements] /\ DOMAIN o = 1 .. k /\ \A i \in 1 .. k : o[i] = ElemAt(prod.tail + i - 1, 0)
    BY <1>4, <2>1, Zenon
  <2>3. o \in Seq(Elements) /\ Len(o) = k
    BY <1>13, <2>2, SMT
  <2> QED  BY <2>2, <2>3, Zenon DEF Are
<1>16. PICK e : e = Stored(prod.tail, o)
  BY Zenon
<1>17. /\ e \in [Index -> Elements] /\ Passed(e, prod.tail, prod.tail + k, 0)
       /\ \A q \in cons.tail .. (cons.tail + SoSize) - 1 :
            q < prod.tail \/ prod.tail + k <= q => e[Idx(q)] = elem[Idx(q)]
  <2>1. prod.tail + Len(o) <= cons.tail + SoSize
    BY <1>13, <1>15, Zenon
  <2>2. /\ e \in [Index -> Elements] /\ Passed(e, prod.tail, prod.tail + Len(o), 0)
        /\ \A q \in cons.tail .. (cons.tail + SoSize) - 1 :
            q < prod.tail \/ prod.tail + Len(o) <= q => e[Idx(q)] = elem[Idx(q)]
    BY <1>1, <1>6, <1>8, <1>15, <1>16, <2>1, StoredAt, Zenon
  <2> QED  BY <1>15, <2>2, Zenon
<1>18. elem' = e
  BY <1>5, <1>16, Zenon
<1>19. \A q \in cons.tail .. prod.tail - 1 : e[Idx(q)] = elem[Idx(q)]
  <2>1. \A q \in cons.tail .. prod.tail - 1 : q \in cons.tail .. (cons.tail + SoSize) - 1 /\ q < prod.tail
    BY <1>6, <1>7, SMT
  <2> QED  BY <1>17, <2>1, Zenon
<1>20. SoType'
  BY <1>1, <1>5, <1>13, <1>14, <1>17, <1>18, Zenon DEF SoType
<1>21. SoOrder'
  BY <1>1, <1>5, <1>13, <1>14, Zenon DEF SoOrder
<1>22. cons.tail \in Int /\ prod.tail \in Int /\ prod.tail <= prod.tail /\ cons.tail <= cons.tail
  BY <1>6, SMT
<1>23. FrontOK'
  <2>1. ASSUME NEW s \in Stages PROVE Passed(e, stg[s].head, Before(stg, prod.tail + k, s), s)
    <3>1. Passed(elem, stg[s].head, Before(stg, prod.tail + tkr, s), s)
      BY Zenon DEF SoInv, FrontOK
    <3>2. PICK b : b = TailBefore(s)
      BY Zenon
    <3>3. b \in Nat /\ b <= prod.tail /\ stg[s].head \in Nat /\ cons.tail <= stg[s].tail /\ stg[s].tail <= stg[s].head
          /\ stg[s].tail \in Nat
      BY <1>1, <3>2, BeforeFacts, StageFields, Window, Zenon
    <3>4. Passed(elem, stg[s].head, b, s)
      <4>1. Before(stg, prod.tail + tkr, s) = b
        BY <1>5, <1>13, <3>2, Zenon DEF Before, TailBefore
      <4> QED  BY <3>1, <4>1, Zenon
    <3>5. stg[s].head \in Int /\ b \in Int /\ cons.tail <= stg[s].head
      BY <1>6, <3>3, SMT
    <3>6. Passed(e, stg[s].head, b, s)
      BY <1>19, <1>22, <3>3, <3>4, <3>5, PassedKept, Zenon
    <3>7. CASE s # 0
      BY <3>2, <3>6, <3>7, Zenon DEF Before, TailBefore
    <3>8. CASE s = 0
      <4>1. b = prod.tail /\ Before(stg, prod.tail + k, s) = prod.tail + k
        BY <3>2, <3>8, Zenon DEF Before, TailBefore
      <4>2. prod.tail + k \in Int
        BY <1>13, SMT
      <4>3. Passed(e, stg[s].head, prod.tail, 0)
        BY <3>6, <3>8, <4>1, Zenon
      <4>4. Passed(e, stg[s].head, prod.tail + k, 0)
        BY <1>17, <1>22, <3>5, <4>2, <4>3, PassedJoin, Zenon
      <4> QED  BY <3>8, <4>1, <4>4, Zenon
    <3> QED  BY <3>7, <3>8, Zenon
  <2>2. Passed(e, cons.tail, stg[LastStage].tail, nbStage)
    <3>1. LastStage \in Stages
      BY <1>1, StageFacts, Zenon DEF SoType
    <3>2. stg[LastStage].tail \in Nat /\ stg[LastStage].head \in Nat /\ stg[LastStage].tail <= stg[LastStage].head
          /\ stg[LastStage].head <= prod.tail
      BY <1>1, <3>1, StageFields, Window, Zenon
    <3>3. stg[LastStage].tail \in Int /\ stg[LastStage].tail <= prod.tail
      BY <1>6, <3>2, SMT
    <3>4. Passed(elem, cons.tail, stg[LastStage].tail, nbStage)
      BY Zenon DEF SoInv, FrontOK
    <3> QED  BY <1>19, <1>22, <3>3, <3>4, PassedKept, Zenon
  <2> QED  BY <1>1, <1>5, <1>14, <1>18, <2>1, <2>2, Zenon DEF FrontOK
<1> QED  BY <1>5, <1>14, <1>18, <1>19, <1>20, <1>21, <1>22, <1>23, ProducerStep, Zenon

-----------------------------------------------------------------------------
(* The consumer                                                             *)

LEMMA ConsumerStep ==
  ASSUME SoInv, NEW v \in Locals, usr' = [usr EXCEPT ![Consumer] = v],
         UNCHANGED <<nbStage, prod, stg, slot, elem, tkr>>, cons' \in [head : Nat, tail : Nat],
         usr[Consumer].pc \in {"idle", "again", "dtail"}, v.pc \in {"idle", "dtail"},
         v.s = 0, v.fs = 0, v.fi = 0, SoOrder', FrontOK', DequeueOK'
  PROVE  SoInv'
<1>1. SoType /\ SoOrder /\ Consumer \in Users /\ Stages' = Stages
  BY Zenon DEF SoInv, Users, Stages
<1>2. usr'[Consumer] = v /\ usr' \in [Users -> Locals] /\ \A w \in Users : w # Consumer => usr'[w] = usr[w]
  BY <1>1, Zenon DEF SoType
<1>3. SoType'
  BY <1>1, <1>2, Zenon DEF SoType
<1>4. /\ ~ Claims(usr[Consumer]) /\ ~ Finalizing(usr[Consumer])
      /\ ~ Claims(v) /\ ~ Finalizing(v) /\ ~ Loading(v)
  BY Zenon DEF Claims, Finalizing, Loading
<1>5. Kept
  <2>1. \A s \in Stages : Region(stg', usr', s) = Region(stg, usr, s)
    BY <1>1, <1>4, RegionsSame, Zenon
  <2> QED  BY <1>2, <1>4, <2>1, Zenon DEF Kept
<1>6. CallsOK'
  <2>1. 0 \in Stages
    BY <1>1, StageFacts, Zenon DEF SoType
  <2>2. CallOK(Stages, Consumer, v) /\ LoadOK(v, stg, prod.tail)
    BY <1>4, <2>1, Zenon DEF CallOK, LoadOK
  <2> QED  BY <1>1, <1>2, <2>2, Zenon DEF SoInv, CallsOK
<1>7. FinalizesOK'
  <2>1. \A w \in Users : Finalizing(usr'[w]) => usr'[w] = usr[w]
    BY <1>2, <1>4, Zenon
  <2>2. \A w \in Users : FinalizeOK(usr[w], stg, elem)
    BY Zenon DEF SoInv, FinalizesOK
  <2>3. \A w \in Users : FinalizeOK(usr'[w], stg, elem)
    BY <2>1, <2>2, Zenon DEF FinalizeOK
  <2>4. OneFinalizes'
    BY <2>1, Zenon DEF SoInv, FinalizesOK, OneFinalizes
  <2> QED  BY <2>3, <2>4, Zenon DEF FinalizesOK
<1> QED  BY <1>3, <1>5, <1>6, <1>7, KeptClaims, KeptBatches, Zenon DEF SoInv

\* What there is for the consumer.
LEMMA ReadyIs ==
  ASSUME SoInv
  PROVE  /\ LastStage \in Stages /\ stg[LastStage].tail \in Nat /\ cons.head \in Nat
         /\ Ready \in Nat /\ cons.head + Ready = stg[LastStage].tail
<1>1. SoType /\ SoOrder
  BY Zenon DEF SoInv
<1>2. PICK z \in Stages : z = LastStage
  BY <1>1, StageFacts, Zenon DEF SoType
<1>3. /\ stg[z].tail \in Nat /\ cons.head \in Nat /\ cons.head <= stg[z].tail
      /\ cons.tail <= stg[z].tail /\ cons.tail \in Nat /\ stg[z].head \in Nat /\ prod.tail \in Nat /\ prod.head \in Nat
      /\ stg[z].tail <= stg[z].head /\ stg[z].head <= prod.tail /\ prod.tail <= prod.head
      /\ prod.head <= cons.tail + SoCapacity
  BY <1>1, StageFields, EndFields, Window, Zenon
<1>4. cons.tail <= cons.head
  BY <1>1, Zenon DEF SoOrder
<1>5. /\ cons.head \in Int /\ stg[z].tail \in Int
      /\ 0 <= stg[z].tail - cons.head /\ stg[z].tail - cons.head < SoMod
  BY <1>3, <1>4, SoSizes, SMT
<1>6. Dist(cons.head, stg[z].tail) = stg[z].tail - cons.head
  BY <1>5, DistExact, Zenon
<1>7. Ready = stg[z].tail - cons.head
  BY <1>2, <1>6, Zenon DEF Ready
<1>8. Ready \in Nat /\ cons.head + Ready = stg[z].tail
  BY <1>3, <1>7, SMT
<1> QED  BY <1>2, <1>3, <1>8, Zenon

LEMMA ConsMoveInv ==
  ASSUME SoInv, NEW n \in Nat, NEW u \in Locals, n <= Ready, ConsMove(n, u),
         UNCHANGED <<nbStage, prod, stg, slot, elem, tkr>>, usr[Consumer].pc \in {"idle", "again"}
  PROVE  SoInv'
<1>1. SoType /\ SoOrder /\ Consumer \in Users /\ Stages' = Stages /\ LastStage' = LastStage
  BY Zenon DEF SoInv, Users, Stages, LastStage
<1>2. PICK z \in Stages : z = LastStage
  BY <1>1, StageFacts, Zenon DEF SoType
<1>3. cons.head + Ready = stg[z].tail /\ cons.head \in Nat /\ cons.tail \in Nat /\ stg[z].tail \in Nat /\ Ready \in Nat
  BY <1>1, <1>2, ReadyIs, EndFields, Zenon
<1>4. PICK h : h = cons.head + n
  BY Zenon
<1>5. cons' = [cons EXCEPT !.head = h] /\ cons \in [head : Nat, tail : Nat]
  BY <1>1, <1>4, Zenon DEF ConsMove, SoType
<1>6. h \in Nat /\ cons.head <= h /\ h <= stg[z].tail
  BY <1>3, <1>4, SMT
<1>7. cons' \in [head : Nat, tail : Nat] /\ cons'.head = h /\ cons'.tail = cons.tail
  BY <1>5, <1>6, Zenon
<1>8. SoOrder'
  <2>1. cons.tail <= h
    <3>1. cons.tail <= cons.head
      BY <1>1, Zenon DEF SoOrder
    <3> QED  BY <1>3, <1>6, <3>1, SMT
  <2>2. ASSUME NEW s \in Stages PROVE h <= stg[s].tail
    <3>1. stg[z].tail <= stg[s].tail /\ stg[s].tail \in Nat
      BY <1>1, <1>2, LastTail, StageFields, Zenon
    <3> QED  BY <1>3, <1>6, <3>1, SMT
  <2> QED  BY <1>1, <1>7, <2>1, <2>2, Zenon DEF SoOrder
<1>9. FrontOK'
  BY <1>1, <1>7, Zenon DEF SoInv, FrontOK
<1>10. cons.head = cons.tail
  BY Zenon DEF SoInv, DequeueOK
<1>11. Passed(elem, cons.tail, cons.tail + n, nbStage)
  <2>1. Passed(elem, cons.tail, stg[z].tail, nbStage)
    BY <1>2, Zenon DEF SoInv, FrontOK
  <2>2. \A q \in cons.tail .. (cons.tail + n) - 1 : q \in cons.tail .. stg[z].tail - 1
    BY <1>3, <1>4, <1>6, <1>10, SMT
  <2>3. \A q \in cons.tail .. (cons.tail + n) - 1 : elem[Idx(q)] = ElemAt(q, nbStage)
    BY <2>1, <2>2, Zenon DEF Passed
  <2> QED  BY <2>3, Zenon DEF Passed
<1>12. PICK o : o = Copy(cons.head, n)
  BY Zenon
<1>13. o \in Seq(Elements) /\ Len(o) = n /\ Are(o, cons.tail, nbStage)
  BY <1>1, <1>3, <1>10, <1>11, <1>12, CopyFacts, Zenon
<1>14. PICK v : v = [Quiet EXCEPT !.pc = "dtail", !.peek = u.peek, !.objs = o]
  BY Zenon
<1>15. usr' = [usr EXCEPT ![Consumer] = v]
  BY <1>12, <1>14, Zenon DEF ConsMove, Becomes
<1>16. v \in Locals /\ v.pc = "dtail" /\ v.s = 0 /\ v.fs = 0 /\ v.fi = 0 /\ v.objs = o
  <2>1. u.peek \in BOOLEAN
    BY Zenon DEF Locals
  <2> QED  BY <1>13, <1>14, <2>1, QuietFacts, Zenon DEF Locals, Labels
<1>17. DequeueOK'
  <2>1. usr'[Consumer] = v
    BY <1>1, <1>15, Zenon DEF SoType
  <2>2. h - cons.tail = n
    BY <1>3, <1>4, <1>10, SMT
  <2> QED  BY <1>7, <1>13, <1>16, <2>1, <2>2, Zenon DEF DequeueOK
<1> QED  BY <1>7, <1>8, <1>9, <1>15, <1>16, <1>17, ConsumerStep, Zenon

LEMMA DeqTailInv ==
  ASSUME SoInv, NEW k, DeqTail(k) PROVE SoInv'
<1>1. SoType /\ SoOrder /\ Consumer \in Users /\ Stages' = Stages /\ LastStage' = LastStage
  BY Zenon DEF SoInv, Users, Stages, LastStage, DeqTail
<1>2. PICK u : u = usr[Consumer]
  BY Zenon
<1>3. PICK t : t = cons.tail + k
  BY Zenon
<1>4. /\ u.pc = "dtail" /\ cons' = [head |-> t, tail |-> t] /\ usr' = [usr EXCEPT ![Consumer] = Quiet]
      /\ k \in 1 .. Len(u.objs) \/ k = Len(u.objs)
      /\ UNCHANGED <<nbStage, prod, stg, slot, elem, tkr>>
  BY <1>2, <1>3, Zenon DEF DeqTail, At, Becomes
<1>5. Len(u.objs) = cons.head - cons.tail
  BY <1>2, <1>4, Zenon DEF SoInv, DequeueOK
<1>6. cons.head \in Nat /\ cons.tail \in Nat /\ SoCapacity \in Nat /\ prod.head \in Nat
  BY <1>1, EndFields, SoSizes, Zenon
<1>7. cons.tail <= cons.head /\ prod.head <= cons.tail + SoCapacity
  BY <1>1, Zenon DEF SoOrder
<1>8. t \in Nat /\ cons.tail <= t /\ t <= cons.head /\ prod.head <= t + SoCapacity /\ t <= t
  BY <1>3, <1>4, <1>5, <1>6, <1>7, SMTT(30)
<1>9. cons' \in [head : Nat, tail : Nat] /\ cons'.head = t /\ cons'.tail = t
  BY <1>4, <1>8, Zenon
<1>10. SoOrder'
  <2>1. ASSUME NEW s \in Stages PROVE t <= stg[s].tail
    <3>1. cons.head <= stg[s].tail /\ stg[s].tail \in Nat
      BY <1>1, StageFields, Window, Zenon
    <3> QED  BY <1>6, <1>8, <3>1, SMT
  <2> QED  BY <1>1, <1>4, <1>8, <1>9, <2>1, Zenon DEF SoOrder
<1>11. FrontOK'
  <2>1. PICK b : b = stg[LastStage].tail
    BY Zenon
  <2>2. b \in Nat /\ Passed(elem, cons.tail, b, nbStage)
    BY <2>1, ReadyIs, Zenon DEF SoInv, FrontOK
  <2>3. \A q \in t .. b - 1 : q \in cons.tail .. b - 1
    BY <1>6, <1>8, <2>2, SMT
  <2>4. Passed(elem, t, b, nbStage)
    BY <2>2, <2>3, Zenon DEF Passed
  <2> QED  BY <1>1, <1>4, <1>9, <2>1, <2>4, Zenon DEF SoInv, FrontOK
<1>12. DequeueOK'
  <2>1. usr'[Consumer] = Quiet
    BY <1>1, <1>4, Zenon DEF SoType
  <2> QED  BY <1>9, <2>1, QuietFacts, Zenon DEF DequeueOK
<1> QED  BY <1>2, <1>4, <1>9, <1>10, <1>11, <1>12, QuietFacts, ConsumerStep, Zenon

LEMMA DeqStartInv ==
  ASSUME SoInv, NEW num \in Nat, NEW beh \in Behavior, DeqStart(num, beh) PROVE SoInv'
<1>1. PICK n : n = Moved(num, beh, Ready)
  BY Zenon
<1>2. n \in Nat /\ n <= Ready
  BY <1>1, ReadyIs, MovedFacts, Zenon
<1>3. PICK v : v = [Quiet EXCEPT !.peek = TRUE]
  BY Zenon
<1>4. v \in Locals
  BY <1>3, QuietFacts, Zenon DEF Locals
<1>5. ConsMove(n, v) /\ usr[Consumer].pc = "idle" /\ UNCHANGED <<nbStage, prod, stg, slot, elem, tkr>>
  BY <1>1, <1>3, Zenon DEF DeqStart, At
<1> QED  BY <1>2, <1>4, <1>5, ConsMoveInv, Zenon

LEMMA DeqCallInv ==
  ASSUME SoInv, NEW num \in Nat, NEW beh \in Behavior, DeqCall(num, beh) PROVE SoInv'
<1>1. PICK v : v = [Quiet EXCEPT !.num = num, !.beh = beh, !.avail = Ready]
  BY Zenon
<1>2. Ready \in Nat /\ LastStage \in Stages /\ Consumer \in Users /\ SoType /\ 0 \in Stages /\ LastStage \in Nat
  BY ReadyIs, StageFacts, StageFields, Zenon DEF Users, SoInv, SoType
<1>3. v \in Locals /\ v.s = 0 /\ v.fi = 0 /\ v.objs = <<>>
  BY <1>1, <1>2, QuietFacts, Zenon DEF Locals
<1>4. usr[Consumer].pc = "idle" /\ UNCHANGED <<nbStage, prod, stg, slot, elem, tkr>>
  BY Zenon DEF DeqCall, At
<1>5. CASE num <= Ready
  <2>1. ConsMove(num, v)
    BY <1>1, <1>5, Zenon DEF DeqCall
  <2> QED  BY <1>3, <1>4, <1>5, <2>1, ConsMoveInv, Zenon
<1>6. CASE ~ (num <= Ready)
  <2>1. PICK x : x = U32(2 * num)
    BY Zenon
  <2>2. PICK w : w = [v EXCEPT !.pc = "fload", !.fs = LastStage, !.maxn = x, !.ret = "again"]
    BY Zenon
  <2>3. usr' = [usr EXCEPT ![Consumer] = w] /\ UNCHANGED cons
    BY <1>1, <1>6, <2>1, <2>2, Zenon DEF DeqCall, Finalize, Becomes
  <2>4. x \in Nat
    <3>1. 2 * num \in Int
      BY SMT
    <3> QED  BY <2>1, <3>1, WordNat, Zenon
  <2>5. w \in Locals /\ w.pc = "fload" /\ w.s = 0 /\ w.fs = LastStage /\ w.fi = 0 /\ w.objs = <<>>
    BY <1>2, <1>3, <2>2, <2>4, Zenon DEF Locals, Labels
  <2> QED  BY <1>2, <1>4, <2>3, <2>5, PlainStep, Zenon
<1> QED  BY <1>5, <1>6, Zenon

LEMMA DeqAgainInv ==
  ASSUME SoInv, DeqAgain PROVE SoInv'
<1>1. PICK u : u = usr[Consumer]
  BY Zenon
<1>2. PICK n : n = IF u.avail >= (IF u.beh = "FIXED" THEN u.num ELSE 0) THEN Moved(u.num, u.beh, Ready) ELSE 0
  BY Zenon
<1>3. Consumer \in Users /\ SoType /\ 0 \in Stages
  BY StageFacts, Zenon DEF Users, SoInv, SoType
<1>4. u \in Locals /\ u.num \in Nat /\ u.beh \in Behavior
  BY <1>1, <1>3, Zenon DEF SoType, Locals
<1>5. u.pc = "again" /\ UNCHANGED <<nbStage, prod, stg, slot, elem, tkr>>
  BY <1>1, Zenon DEF DeqAgain, At
<1>6. CASE n > 0
  <2>1. ConsMove(n, u)
    BY <1>1, <1>2, <1>6, Zenon DEF DeqAgain
  <2>2. PICK m : m = Moved(u.num, u.beh, Ready)
    BY Zenon
  <2>3. m \in Nat /\ m <= Ready
    BY <1>4, <2>2, ReadyIs, MovedFacts, Zenon
  <2>4. n = m \/ n = 0
    BY <1>2, <2>2, Zenon
  <2>5. n \in Nat /\ n <= Ready
    BY <1>6, <2>3, <2>4, SMT
  <2> QED  BY <1>1, <1>4, <1>5, <2>1, <2>5, ConsMoveInv, Zenon
<1>7. CASE ~ (n > 0)
  <2>1. usr' = [usr EXCEPT ![Consumer] = Quiet] /\ UNCHANGED cons
    BY <1>1, <1>2, <1>7, Zenon DEF DeqAgain, Becomes
  <2> QED  BY <1>1, <1>3, <1>5, <2>1, QuietFacts, PlainStep, Zenon
<1> QED  BY <1>6, <1>7, Zenon

-----------------------------------------------------------------------------
(* The theorems                                                             *)

LEMMA SoInitInv ==
  ASSUME SoInit PROVE SoInv
<1>1. nbStage \in StageCounts /\ tkr = 0 /\ 0 \in Nat /\ SoBase \in Nat /\ SoBase + 0 = SoBase /\ SoBase <= SoBase
      /\ SoBase <= SoBase + SoCapacity
  BY SoSizes, SMT DEF SoInit
<1>2. /\ prod = [head |-> SoBase, tail |-> SoBase] /\ cons = [head |-> SoBase, tail |-> SoBase]
      /\ prod.head = SoBase /\ prod.tail = SoBase /\ cons.head = SoBase /\ cons.tail = SoBase
  BY Zenon DEF SoInit
<1>3. stg = [s \in Stages |-> [head |-> SoBase, tail |-> SoBase, sync |-> 0]]
      /\ \A s \in Stages : stg[s].head = SoBase /\ stg[s].tail = SoBase
  BY Zenon DEF SoInit
<1>4. slot = [i \in Index |-> Zero] /\ \A i \in Index : slot[i] = Zero
  BY Zenon DEF SoInit
<1>5. \A u \in Users : usr[u] = Quiet
  BY Zenon DEF SoInit
<1>6. SoType
  <2>1. Zero \in States
    BY <1>1, Zenon DEF Zero, States
  <2>2. [no |-> 0, passed |-> 0] \in Elements
    BY SMT DEF Elements
  <2>3. usr \in [Users -> Locals] /\ slot \in [Index -> States] /\ elem \in [Index -> Elements]
    BY <1>4, <2>1, <2>2, QuietFacts, Zenon DEF SoInit
  <2>4. stg \in [Stages -> [head : Nat, tail : Nat, sync : {0, 1}]]
    BY <1>1, <1>3, Zenon
  <2> QED  BY <1>1, <1>2, <2>3, <2>4, Zenon DEF SoType
<1>7. 0 \in Stages /\ LastStage \in Stages /\ Consumer \in Users /\ \A s \in Stages : s # 0 => s - 1 \in Stages
  <2>1. \A s \in Stages : s # 0 => s > 0
    BY <1>1, StageFacts, SMT
  <2> QED  BY <1>1, <2>1, StageFacts, Zenon DEF Users
<1>8. SoOrder
  <2>1. prod.tail + tkr = SoBase
    BY <1>1, <1>2, Zenon
  <2> QED  BY <1>1, <1>2, <1>3, <2>1, Zenon DEF SoOrder
<1>9. ~ Claims(Quiet) /\ ~ Marked(Quiet) /\ ~ Finalizing(Quiet) /\ ~ Loading(Quiet) /\ Quiet.pc # "dtail"
  BY QuietFacts, Zenon DEF Claims, Marked, Finalizing, Loading
<1>10. CallsOK
  BY <1>5, <1>7, <1>9, QuietFacts, Zenon DEF CallsOK, CallOK, LoadOK
<1>11. FinalizesOK
  BY <1>5, <1>9, Zenon DEF FinalizesOK, OneFinalizes, FinalizeOK
<1>12. ClaimsOK /\ ClaimsApart
  BY <1>5, <1>9, Zenon DEF ClaimsOK, ClaimsApart, ClaimOK, TwoClaims
<1>13. \A s \in Stages : Region(stg, usr, s) = {}
  <2>1. SoBase .. SoBase - 1 = {}
    BY <1>1, SMT
  <2>2. \A s \in Stages : stg[s].tail .. stg[s].head - 1 = {}
    BY <1>3, <2>1, Zenon
  <2> QED  BY <2>2, Zenon DEF Region
<1>14. BatchesOK
  BY <1>13, Zenon DEF BatchesOK
<1>15. SlotsOK
  BY <1>4, Zenon DEF SlotsOK, SlotOK, Zero
<1>16. \A k : Passed(elem, SoBase, SoBase, k)
  <2>1. SoBase .. SoBase - 1 = {}
    BY <1>1, SMT
  <2> QED  BY <2>1, Zenon DEF Passed
<1>17. FrontOK
  <2>1. \A s \in Stages : Before(stg, prod.tail + tkr, s) = SoBase
    BY <1>1, <1>2, <1>3, <1>7, Zenon DEF Before
  <2> QED  BY <1>2, <1>3, <1>7, <1>16, <2>1, Zenon DEF FrontOK
<1>18. DequeueOK
  BY <1>2, <1>5, <1>7, <1>9, QuietFacts, Zenon DEF DequeueOK
<1> QED  BY <1>6, <1>8, <1>10, <1>11, <1>12, <1>14, <1>15, <1>17, <1>18, Zenon DEF SoInv

LEMMA FinStepInv ==
  ASSUME SoInv, NEW u \in Users, FinStep(u) PROVE SoInv'
BY FinLoadInv, FinCasInv, FinHeadInv, FinClearInv, FinWalkedInv, FinStoreInv, Zenon DEF FinStep

LEMMA SoNextInv ==
  ASSUME SoInv, [SoNext]_sovars PROVE SoInv'
<1>1. Consumer \in Users /\ Workers \subseteq Users
  BY Zenon DEF Users
<1>2. \A r \in SoReqs[nbStage] : r[1] \in Nat /\ r[2] \in Behavior
  <2>1. SoReqs[nbStage] \subseteq Nat \X Behavior
    BY SoringSizes, Zenon DEF SoInv, SoType
  <2> QED  BY <2>1, Zenon
<1>3. CASE Enqueues
  <2>1. PICK r \in SoReqs[nbStage], k \in 1 .. SoCapacity : ProdWrite(r[1], r[2], k)
    BY <1>3, Zenon DEF Enqueues
  <2> QED  BY <1>2, <2>1, ProdWriteInv, Zenon
<1>4. CASE ProdTail
  BY <1>4, ProdTailInv, Zenon
<1>5. ASSUME NEW w \in Workers, Acquires(w) PROVE SoInv'
  <2>1. PICK r \in SoReqs[nbStage] : AcqCall(w, r[1], r[2])
    BY <1>5, Zenon DEF Acquires
  <2> QED  BY <1>2, <2>1, AcqCallInv, Zenon
<1>6. ASSUME NEW w \in Workers, WorkerStep(w) PROVE SoInv'
  BY <1>1, <1>6, FinStepInv, AcqTailInv, AcqAgainInv, AcqCasInv, AcqStateInv, RelWriteInv, RelFinishInv, Zenon
     DEF WorkerStep
<1>7. CASE Dequeues
  <2>1. PICK r \in SoReqs[nbStage] : DeqCall(r[1], r[2])
    BY <1>7, Zenon DEF Dequeues
  <2> QED  BY <1>2, <2>1, DeqCallInv, Zenon
<1>8. CASE Peeks
  <2>1. PICK r \in SoReqs[nbStage] : DeqStart(r[1], r[2])
    BY <1>8, Zenon DEF Peeks
  <2> QED  BY <1>2, <2>1, DeqStartInv, Zenon
<1>9. CASE ConsStep
  BY <1>1, <1>9, FinStepInv, DeqAgainInv, DeqTailInv, Zenon DEF ConsStep
<1>10. CASE UNCHANGED sovars
  <2>1. Stages' = Stages /\ LastStage' = LastStage /\ \A s \in Stages : Region(stg', usr', s) = Region(stg, usr, s)
    BY <1>10, Zenon DEF sovars, Stages, LastStage
  <2>2. UNCHANGED <<nbStage, prod, cons, stg, slot, elem, tkr, usr>>
    BY <1>10, Zenon DEF sovars
  <2>3. SoType' /\ SoOrder' /\ FrontOK'
    BY <2>1, <2>2, Zenon DEF SoInv, SoType, SoOrder, FrontOK
  <2>4. prod.tail <= prod'.tail
    BY <2>2, EndFields, SMT DEF SoInv
  <2> QED  BY <2>2, <2>3, <2>4, ProducerStep, Zenon
<1> QED  BY <1>3, <1>4, <1>5, <1>6, <1>7, <1>8, <1>9, <1>10, Zenon DEF SoNext

\* The inductive invariant of the staged ordered ring: wherever its threads are
\* in enqueue, acquire, release, finalize and dequeue, and across the wrap of
\* the 32-bit positions, the regions of the stages are disjoint, the batches in
\* them too, and only the first position of a batch has a state that is not zero.
THEOREM SoringInvariant == SoSpec => []SoInv
<1>1. SoInit => SoInv
  BY SoInitInv, Zenon
<1>2. SoInv /\ [SoNext]_sovars => SoInv'
  BY SoNextInv, Zenon
<1> QED  BY <1>1, <1>2, PTL DEF SoSpec

LEMMA CopyIs ==
  ASSUME SoType, NEW p \in Nat, NEW n \in Nat, NEW k, Passed(elem, p, p + n, k),
         NEW o \in Seq(Elements), Len(o) = n, Are(o, p, k)
  PROVE  o = Copy(p, n)
<1>1. PICK c : c = Copy(p, n)
  BY Zenon
<1>2. c \in Seq(Elements) /\ Len(c) = n /\ Are(c, p, k)
  BY <1>1, CopyFacts, Zenon
<1>3. DOMAIN o = 1 .. n /\ DOMAIN c = 1 .. n
  BY <1>2, SMT
<1>4. \A i \in 1 .. n : o[i] = c[i]
  BY <1>2, <1>3, Zenon DEF Are
<1>5. o = c
  BY <1>2, <1>4, SMT
<1> QED  BY <1>1, <1>5, Zenon

LEMMA SoOrderedHolds ==
  ASSUME SoInv PROVE SoOrdered
<1>1. SoType /\ SoOrder
  BY Zenon DEF SoInv
<1>2. ASSUME NEW s \in Stages PROVE stg[s].tail <= stg[s].head /\ stg[s].head <= TailBefore(s)
  <2>1. stg[s].tail <= stg[s].head /\ stg[s].head <= prod.tail
    BY <1>1, Window, Zenon
  <2>2. CASE s = 0
    BY <2>1, <2>2, Zenon DEF TailBefore
  <2>3. CASE s # 0
    <3>1. s > 0 /\ s - 1 < s
      BY <1>1, <2>3, StageFields, SMT
    <3>2. s - 1 \in Stages
      BY <1>1, <3>1, StageFacts, Zenon DEF SoType
    <3>3. stg[s].head <= stg[s - 1].tail
      BY <1>1, <3>1, <3>2, Zenon DEF SoOrder
    <3> QED  BY <2>1, <2>3, <3>3, Zenon DEF TailBefore
  <2> QED  BY <2>2, <2>3, Zenon
<1>3. LastStage \in Stages
  BY <1>1, StageFacts, Zenon DEF SoType
<1>4. cons.tail <= cons.head /\ cons.head <= stg[LastStage].tail /\ prod.tail <= prod.head
      /\ prod.head <= cons.tail + SoCapacity
  BY <1>1, <1>3, Window, Zenon DEF SoOrder
<1> QED  BY <1>2, <1>4, Zenon DEF SoOrdered

LEMMA SoStagedHolds ==
  ASSUME SoInv PROVE SoStaged
<1>1. SoType /\ SoOrder /\ Consumer \in Users /\ Workers \subseteq Users
  BY Zenon DEF SoInv, Users
<1>2. ASSUME NEW w \in Workers, At(w, "own")
      PROVE  Are(usr[w].objs, usr[w].head, usr[w].s) /\ usr[w].objs = Copy(usr[w].head, usr[w].n)
  <2>1. PICK u : u = usr[w]
    BY Zenon
  <2>2. w \in Users /\ u \in Locals /\ u.pc = "own"
    BY <1>1, <1>2, <2>1, CallFacts, Zenon DEF At
  <2>3. Claims(u) /\ u.pc # "rfinish"
    BY <2>2, Zenon DEF Claims
  <2>4. ClaimOK(u, stg[u.s].head, slot, elem)
    BY <2>1, <2>2, Zenon DEF SoInv, ClaimsOK
  <2>5. Len(u.objs) = u.n /\ Are(u.objs, u.head, u.s) /\ Passed(elem, u.head, u.head + u.n, u.s)
    BY <2>2, <2>3, <2>4, Zenon DEF ClaimOK
  <2>6. u.head \in Nat /\ u.n \in Nat /\ u.objs \in Seq(Elements)
    BY <2>2, Zenon DEF Locals
  <2>7. u.objs = Copy(u.head, u.n)
    BY <1>1, <2>5, <2>6, CopyIs, Zenon
  <2> QED  BY <2>1, <2>5, <2>7, Zenon
<1>3. PICK o : o = usr[Consumer].objs
  BY Zenon
<1>4. o \in Seq(Elements) /\ cons.tail \in Nat /\ cons.head \in Nat
  BY <1>1, <1>3, EndFields, Zenon DEF SoType, Locals
<1>5. Len(o) = cons.head - cons.tail /\ Are(o, cons.tail, nbStage)
  <2>1. CASE usr[Consumer].pc = "dtail"
    BY <1>3, <2>1, Zenon DEF SoInv, DequeueOK
  <2>2. CASE usr[Consumer].pc # "dtail"
    <3>1. o = <<>> /\ cons.head = cons.tail
      BY <1>3, <2>2, Zenon DEF SoInv, DequeueOK
    <3>2. DOMAIN o = {} /\ Len(o) = 0 /\ cons.head - cons.tail = 0
      BY <1>4, <3>1, SMT
    <3> QED  BY <3>2, Zenon DEF Are
  <2> QED  BY <2>1, <2>2, Zenon
<1>6. PICK b : b = stg[LastStage].tail
  BY Zenon
<1>7. b \in Nat /\ LastStage \in Stages /\ Passed(elem, cons.tail, b, nbStage)
  BY <1>6, ReadyIs, Zenon DEF SoInv, FrontOK
<1>8. cons.head <= b
  BY <1>1, <1>6, <1>7, Window, Zenon
<1>9. Len(o) \in Nat /\ \A q \in cons.tail .. (cons.tail + Len(o)) - 1 : q \in cons.tail .. b - 1
  BY <1>4, <1>5, <1>7, <1>8, SMT
<1>10. Passed(elem, cons.tail, cons.tail + Len(o), nbStage)
  BY <1>7, <1>9, Zenon DEF Passed
<1>11. o = Copy(cons.tail, Len(o))
  BY <1>1, <1>4, <1>5, <1>9, <1>10, CopyIs, Zenon
<1> QED  BY <1>2, <1>3, <1>5, <1>11, Zenon DEF SoStaged

LEMMA SoVerifiedHolds ==
  ASSUME SoInv PROVE SoVerified
<1>1. ASSUME NEW w \in Workers
      PROVE  /\ At(w, "astate") => slot[Idx(usr[w].head)] = Zero
             /\ usr[w].pc \in {"own", "rfinish"} => slot[Idx(usr[w].head)] = Start(usr[w].s, usr[w].head, usr[w].n)
  <2>1. PICK u : u = usr[w]
    BY Zenon
  <2>2. w \in Users
    BY Zenon DEF Users
  <2>3. ClaimOK(u, stg[u.s].head, slot, elem)
    BY <2>1, <2>2, Zenon DEF SoInv, ClaimsOK
  <2>4. u.pc = "astate" => slot[Idx(u.head)] = Zero
    BY <2>3, Zenon DEF ClaimOK, Claims, Marked
  <2>5. u.pc \in {"own", "rfinish"} => slot[Idx(u.head)] = Start(u.s, u.head, u.n)
    BY <2>3, Zenon DEF ClaimOK, Claims, Marked
  <2> QED  BY <2>1, <2>4, <2>5, Zenon DEF At
<1> QED  BY <1>1, Zenon DEF SoVerified

\* For every number of workers, of stages and of slots: elements go through the
\* stages and to the consumer in the order of their enqueue, each with exactly
\* what the stages before have written, producer, stages and consumer never
\* overtake each other, and soring_verify_state finds nothing to report.
THEOREM SoringKeepsOrder == SoSpec => []SoringOrder
<1>1. SoInv => SoringOrder
  BY SoOrderedHolds, SoStagedHolds, SoVerifiedHolds, Zenon DEF SoringOrder
<1> QED  BY <1>1, SoringInvariant, PTL
=============================================================================
