---------------------------- MODULE RingProofs ------------------------------
(***************************************************************************)
(* Proofs about Ring for any number of threads, any ring size and any mix of*)
(* synchronisation modes.  First 32-bit positions, types, the steps of a    *)
(* call that leave the ring alone, and those that claim positions and copy  *)
(* elements; then that every step keeps the invariant, and what follows     *)
(* from it: no loss, no duplication, and the ring is a FIFO queue.          *)
(***************************************************************************)
EXTENDS Ring, FiniteSetTheorems, TLAPS

-----------------------------------------------------------------------------
(* Quotients and remainders, for the words that wrap                        *)

\* A number is determined by quotient and remainder.
LEMMA DivMod ==
  ASSUME NEW a \in Int, NEW b \in Nat, b > 0
  PROVE  /\ a = b * (a \div b) + (a % b)
         /\ a \div b \in Int
         /\ a % b \in 0 .. (b - 1)
OBVIOUS

\* A multiple of b that is smaller than b in absolute value is 0.
LEMMA SmallMultiple ==
  ASSUME NEW b \in Nat, b > 0, NEW q \in Int, NEW r \in Int,
         -b < r, r < b, b * q + r = 0
  PROVE  r = 0
<1>1. CASE q = 0
  BY <1>1
<1>2. CASE q >= 1
  <2>1. b * q >= b
    BY <1>2
  <2>2. QED
    BY <2>1
<1>3. CASE q <= -1
  <2>1. b * q <= -b
    BY <1>3
  <2>2. QED
    BY <2>1
<1>4. QED
  BY <1>1, <1>2, <1>3

\* Two numbers less than b apart with the same remainder are equal.
LEMMA SameRemainder ==
  ASSUME NEW b \in Nat, b > 0, NEW x \in Int, NEW y \in Int,
         x - y < b, y - x < b, x % b = y % b
  PROVE  x = y
<1> DEFINE qx == x \div b
           qy == y \div b
<1>1. x = b * qx + (x % b) /\ y = b * qy + (y % b) /\ qx \in Int /\ qy \in Int
  BY DivMod, Zenon
<1> HIDE DEF qx, qy
<1>2. x % b \in Int
  BY DivMod
<1>3. b * (qx - qy) = b * qx - b * qy
  BY <1>1
<1>4. b * (qx - qy) + (y - x) = 0
  BY <1>1, <1>2, <1>3
<1>5. qx - qy \in Int /\ y - x \in Int /\ -b < y - x /\ y - x < b
  BY <1>1
<1>6. y - x = 0
  BY <1>4, <1>5, SmallMultiple, Zenon
<1>7. QED
  BY <1>6

\* Adding a multiple does not change the remainder.
LEMMA RemainderShift ==
  ASSUME NEW b \in Nat, b > 0, NEW x \in Int, NEW y \in Int, NEW q \in Int,
         x = y + b * q, 0 <= y, y < b
  PROVE  x % b = y
<1> DEFINE d == x \div b
           r == x % b
<1>1. x = b * d + r /\ d \in Int /\ r \in 0 .. (b - 1)
  BY DivMod, Zenon
<1> HIDE DEF d, r
<1>2. b * (d - q) = b * d - b * q
  BY <1>1
<1>3. b * (d - q) + (r - y) = 0
  BY <1>1, <1>2
<1>4. d - q \in Int /\ r - y \in Int /\ -b < r - y /\ r - y < b
  BY <1>1
<1>5. r - y = 0
  BY <1>3, <1>4, SmallMultiple, Zenon
<1>6. r = y
  BY <1>5, <1>1
<1>7. QED
  BY <1>6, Zenon DEF r

-----------------------------------------------------------------------------
(* 32-bit positions                                                         *)

\* A 32-bit word.
LEMMA U32Type ==
  ASSUME NEW x \in Int
  PROVE  U32(x) \in Nat /\ U32(x) < PosMod
BY RingSizes, DivMod DEF U32

\* Comparing 32-bit words compares positions less than a lap apart.
LEMMA U32Equal ==
  ASSUME NEW x \in Int, NEW y \in Int,
         x - y < PosMod, y - x < PosMod, U32(x) = U32(y)
  PROVE  x = y
<1>1. PosMod \in Nat /\ PosMod > 0
  BY RingSizes
<1>2. x % PosMod = y % PosMod
  BY Zenon DEF U32
<1> DEFINE m == PosMod
<1> HIDE DEF m
<1>3. m \in Nat /\ m > 0 /\ x - y < m /\ y - x < m /\ x % m = y % m
  BY <1>1, <1>2, Zenon DEF m
<1>4. QED
  BY <1>3, SameRemainder, Zenon

\* 32-bit subtraction of positions is exact when the difference fits.
LEMMA U32Exact ==
  ASSUME NEW c \in Int, NEW x \in Int, NEW y \in Int,
         0 <= c + x - y, c + x - y < PosMod
  PROVE  U32(c + U32(x) - U32(y)) = c + x - y
<1> DEFINE qx == x \div PosMod
           qy == y \div PosMod
           rx == x % PosMod
           ry == y % PosMod
<1>0. PosMod \in Nat /\ PosMod > 0
  BY RingSizes
<1>1. x = PosMod * qx + rx /\ y = PosMod * qy + ry
      /\ qx \in Int /\ qy \in Int /\ rx \in Int /\ ry \in Int
  BY <1>0, DivMod
<1>2. U32(x) = rx /\ U32(y) = ry
  BY Zenon DEF U32
<1> HIDE DEF qx, qy, rx, ry
<1>3. PosMod * (qy - qx) = PosMod * qy - PosMod * qx
  BY <1>0, <1>1
<1>4. c + rx - ry = (c + x - y) + PosMod * (qy - qx)
  BY <1>0, <1>1, <1>3
<1>5. (c + rx - ry) % PosMod = c + x - y
  <2> DEFINE z == c + rx - ry
             d == c + x - y
             q == qy - qx
  <2>1. z \in Int /\ d \in Int /\ q \in Int /\ z = d + PosMod * q
        /\ 0 <= d /\ d < PosMod
    BY <1>1, <1>4
  <2> HIDE DEF z, d, q
  <2>2. z % PosMod = d
    BY <1>0, <2>1, RemainderShift, Zenon
  <2>3. QED
    BY <2>2, Zenon DEF z, d
<1>6. QED
  BY <1>2, <1>5, Zenon DEF U32
\* The size divides the range of the positions, so masking the wrapped word
\* picks the same slot as masking the position.
LEMMA SlotOf ==
  ASSUME NEW p \in Int
  PROVE  Slot(p) = p % Size /\ Slot(p) \in 0 .. (Size - 1)
<1> DEFINE k == PosMod \div Size
           a == p \div PosMod
           r == p % PosMod
           b == r \div Size
           e == r % Size
<1>1. /\ Size \in Nat /\ Size > 0 /\ PosMod \in Nat /\ PosMod > 0
      /\ PosMod % Size = 0
  BY RingSizes
<1>2. PosMod = Size * k /\ k \in Int
  BY <1>1, DivMod
<1>3. p = PosMod * a + r /\ a \in Int /\ r \in Int
  BY <1>1, DivMod
<1>4. r = Size * b + e /\ b \in Int /\ e \in 0 .. (Size - 1)
  BY <1>1, <1>3, DivMod, Zenon
<1>5. Slot(p) = e
  BY Zenon DEF Slot, U32
<1> HIDE DEF k, a, r, b, e
<1>6. PosMod * a = Size * (k * a)
  BY <1>1, <1>2, <1>3
<1>7. k * a \in Int
  BY <1>2, <1>3
<1> DEFINE ka == k * a
           q == ka + b
<1>8. PosMod * a = Size * ka /\ ka \in Int
  BY <1>6, <1>7, Zenon
<1> HIDE DEF ka
<1>9. Size * (ka + b) = Size * ka + Size * b
  BY <1>1, <1>4, <1>8
<1>10. p = e + Size * q /\ q \in Int
  BY <1>1, <1>3, <1>4, <1>8, <1>9
<1> HIDE DEF q
<1>11. p % Size = e
  <2>1. e \in Int /\ 0 <= e /\ e < Size
    BY <1>1, <1>4
  <2>2. QED
    BY <1>1, <1>10, <2>1, RemainderShift, Zenon
<1>12. QED
  BY <1>4, <1>5, <1>11, Zenon

\* Positions less than the size apart have different slots.
LEMMA SlotInjective ==
  ASSUME NEW p \in Int, NEW q \in Int,
         p - q < Size, q - p < Size, Slot(p) = Slot(q)
  PROVE  p = q
<1>1. Size \in Nat /\ Size > 0
  BY RingSizes
<1>2. p % Size = q % Size
  BY SlotOf, Zenon
<1> DEFINE m == Size
<1> HIDE DEF m
<1>3. m \in Nat /\ m > 0 /\ p - q < m /\ q - p < m /\ p % m = q % m
  BY <1>1, <1>2, Zenon DEF m
<1>4. QED
  BY <1>3, SameRemainder, Zenon

\* The room of a ring is less than a lap.
LEMMA CapacityFits == Capacity \in Nat /\ Capacity < Size /\ Size <= PosMod
<1> DEFINE k == PosMod \div Size
<1>1. /\ Size \in Nat /\ Size > 0 /\ PosMod \in Nat /\ PosMod > 0
      /\ PosMod % Size = 0 /\ Capacity \in Nat /\ Capacity < Size
  BY RingSizes
<1>2. PosMod = Size * k /\ k \in Int
  BY <1>1, DivMod
<1> HIDE DEF k
<1>3. k >= 1
  <2>1. SUFFICES ASSUME k <= 0 PROVE FALSE
    BY <1>2
  <2>2. Size * k <= 0
    BY <2>1, <1>1, <1>2
  <2>3. QED
    BY <2>2, <1>1, <1>2
<1>4. Size * k >= Size
  BY <1>1, <1>2, <1>3
<1>5. QED
  BY <1>1, <1>2, <1>4, Zenon
-----------------------------------------------------------------------------
(* Types                                                                    *)

\* The two sides and the threads on them.
LEMMA SideFacts ==
  ASSUME NEW t \in Thread
  PROVE  /\ SideOf(t) \in Side /\ Opp(SideOf(t)) \in Side
         /\ Opp(SideOf(t)) # SideOf(t)
         /\ Peers(t) = {u \in Thread : SideOf(u) = SideOf(t)}
         /\ t \in Peers(t)
         /\ Cap(SideOf(t)) \in Nat
BY RingThreads, RingSizes, Zenon
   DEF Thread, Side, SideOf, Opp, Peers, Threads, Cap

\* rte_ring_init establishes the types.
LEMMA TypeInit == Init => TypeOK
<1> SUFFICES ASSUME Init PROVE TypeOK
  BY Zenon
<1>1. NoLocal \in Local
  BY Zenon DEF NoLocal, Local
<1>2. ht \in [Side -> HeadTail]
  BY RingSizes DEF Init, HeadTail, AtBase
<1>3. QED
  BY <1>1, <1>2 DEF Init, TypeOK, Label

\* Leaving a call keeps the types of the thread's own state.
LEMMA TypeReturn ==
  ASSUME TypeOK, NEW t \in Thread, Return(t)
  PROVE  /\ pc' \in [Thread -> Label]
         /\ loc' \in [Thread -> Local]
         /\ obj' \in [Thread -> Seq(Int)]
<1>1. NoLocal \in Local
  BY Zenon DEF NoLocal, Local
<1>2. QED
  BY <1>1 DEF TypeOK, Return, Goto, Label

\* What TypeOK says of the words a thread reads.
LEMMA TypeFacts ==
  ASSUME TypeOK, NEW t \in Thread
  PROVE  /\ Me(t).head \in Nat /\ Me(t).tail \in Nat
         /\ Me(t).hcnt \in Nat /\ Me(t).tcnt \in Nat
         /\ Other(t).head \in Nat /\ Other(t).tail \in Nat
         /\ loc[t] \in Local
         /\ loc[t].num \in Nat /\ loc[t].old \in Nat /\ loc[t].oldc \in Nat
         /\ loc[t].entries \in Nat /\ loc[t].n \in Nat /\ loc[t].i \in Nat
         /\ loc[t].k \in Nat /\ loc[t].ot \in Nat /\ loc[t].otc \in Nat
         /\ loc[t].h \in Nat /\ loc[t].hc \in Nat
<1>1. loc[t] \in Local
  BY Zenon DEF TypeOK
<1>2. ht[SideOf(t)] \in HeadTail /\ ht[Opp(SideOf(t))] \in HeadTail
  BY SideFacts, Zenon DEF TypeOK
<1>3. /\ Me(t).head \in Nat /\ Me(t).tail \in Nat
      /\ Me(t).hcnt \in Nat /\ Me(t).tcnt \in Nat
      /\ Other(t).head \in Nat /\ Other(t).tail \in Nat
  BY <1>2, Zenon DEF HeadTail, Me, Other
<1>4. QED
  BY <1>1, <1>3, Zenon DEF Local

\* Every step keeps the types.
LEMMA TypeStep == TypeOK /\ [Next]_vars => TypeOK'
<1> SUFFICES ASSUME TypeOK, [Next]_vars PROVE TypeOK'
  BY Zenon
<1>1. ASSUME NEW t \in Thread, AnyCall(t) PROVE TypeOK'
  <2>1. PICK num \in 0 .. MaxNum, fixed \in BOOLEAN, peek \in BOOLEAN :
          Call(t, num, fixed, peek)
    BY <1>1, Zenon DEF AnyCall
  <2>2. num \in Nat
    BY RingSizes
  <2>3. loc' \in [Thread -> Local]
    BY <2>1, <2>2, ZenonT(60) DEF Call, TypeOK, Local
  <2>4. QED
    BY <2>1, <2>3, Zenon DEF Call, Goto, TypeOK, Label
<1>2. ASSUME NEW t \in Thread, LoadHead(t) PROVE TypeOK'
  <2>1. loc' \in [Thread -> Local]
    BY <1>2, TypeFacts, ZenonT(60) DEF LoadHead, TypeOK, Local
  <2>2. QED
    BY <1>2, <2>1, Zenon DEF LoadHead, Goto, TypeOK, Label
<1>3. ASSUME NEW t \in Thread, RtsHeadWait(t) PROVE TypeOK'
  BY <1>3, Zenon DEF RtsHeadWait, Goto, TypeOK, Label
<1>4. ASSUME NEW t \in Thread, LoadTail(t) PROVE TypeOK'
  <2> DEFINE n == MoveCount(loc[t].num, loc[t].fixed, Entries(t))
  <2>1. Entries(t) \in Nat
    <3>1. /\ Other(t).tail \in Int /\ loc[t].old \in Int
          /\ Cap(SideOf(t)) \in Int
      BY SideFacts, TypeFacts
    <3>2. U32(Other(t).tail) \in Int /\ U32(loc[t].old) \in Int
      BY <3>1, U32Type
    <3>3. Cap(SideOf(t)) + U32(Other(t).tail) - U32(loc[t].old) \in Int
      BY <3>1, <3>2
    <3>4. QED
      BY <3>3, U32Type, Zenon DEF Entries
  <2>2. n \in Nat
    BY <2>1, TypeFacts, Zenon DEF MoveCount
  <2>3. CASE n = 0
    BY <1>4, <2>3, TypeReturn DEF LoadTail, TypeOK
  <2>4. CASE n > 0
    <3> HIDE DEF n
    <3>1. loc' = [loc EXCEPT ![t] = [@ EXCEPT !.entries = Entries(t), !.n = n]]
          /\ pc' = [pc EXCEPT ![t] = "cas"] /\ UNCHANGED <<ht, ring, obj>>
      BY <1>4, <2>4 DEF LoadTail, Goto, n
    <3>2. loc' \in [Thread -> Local]
      BY <3>1, <2>1, <2>2, Zenon DEF TypeOK, Local
    <3>3. QED
      BY <3>1, <3>2, Zenon DEF TypeOK, Label
  <2>5. QED
    BY <2>2, <2>3, <2>4
<1>5. ASSUME NEW t \in Thread, MoveHead(t) PROVE TypeOK'
  <2> DEFINE o == IF Mode(t) = "ST" THEN loc[t].old ELSE Me(t).head
             c == IF Mode(t) = "RTS" THEN Me(t).hcnt + 1 ELSE Me(t).hcnt
  <2>1. o \in Nat /\ loc[t].n \in Nat /\ c \in Nat
    BY TypeFacts
  <2>2. AfterClaim(t) \in Label
    BY Zenon DEF AfterClaim, Label
  <2>3. /\ ht' = [ht EXCEPT ![SideOf(t)] = [@ EXCEPT !.head = o + loc[t].n,
                                                     !.hcnt = c]]
        /\ loc' = [loc EXCEPT ![t] = [@ EXCEPT !.old = o, !.i = 0]]
    BY <1>5, Zenon DEF MoveHead
  <2> HIDE DEF o, c
  <2>4. ht' \in [Side -> HeadTail]
    <3>1. o + loc[t].n \in Nat
      BY <2>1
    <3>2. QED
      BY <2>1, <2>3, <3>1, SideFacts, Zenon DEF TypeOK, HeadTail
  <2>5. loc' \in [Thread -> Local]
    BY <2>1, <2>3, ZenonT(60) DEF TypeOK, Local
  <2>6. QED
    BY <1>5, <2>2, <2>4, <2>5, Zenon DEF MoveHead, Goto, TypeOK
<1>6. ASSUME NEW t \in Thread, MoveHeadFails(t) PROVE TypeOK'
  <2>1. loc' \in [Thread -> Local]
    <3>1. CASE loc' = [loc EXCEPT ![t] = [@ EXCEPT
                         !.old = Me(t).head, !.entries = 0, !.n = 0]]
      BY <3>1, TypeFacts, Zenon DEF TypeOK, Local
    <3>2. CASE loc' = [loc EXCEPT ![t] = [@ EXCEPT !.entries = 0, !.n = 0]]
      BY <3>2, Zenon DEF TypeOK, Local
    <3>3. QED
      BY <1>6, <3>1, <3>2, Zenon DEF MoveHeadFails
  <2>2. QED
    BY <1>6, <2>1, Zenon DEF MoveHeadFails, Goto, TypeOK, Label
<1>7. ASSUME NEW t \in Thread, CopyElem(t) PROVE TypeOK'
  <2> DEFINE p == loc[t].old + loc[t].i
  <2>1. p \in Nat
    BY TypeFacts
  <2>2. Slot(p) \in 0 .. (Size - 1) /\ p \in Int
    BY <2>1, SlotOf
  <2>3. ring' \in [0 .. (Size - 1) -> Int]
    BY <1>7, <2>2, Zenon DEF CopyElem, TypeOK
  <2>4. obj' \in [Thread -> Seq(Int)]
    <3>1. ring[Slot(p)] \in Int /\ obj[t] \in Seq(Int)
      BY <2>2, Zenon DEF TypeOK
    <3>2. Append(obj[t], ring[Slot(p)]) \in Seq(Int)
      BY <3>1
    <3>3. QED
      BY <1>7, <3>2, Zenon DEF CopyElem, TypeOK
  <2>5. loc' \in [Thread -> Local]
    <3>1. loc[t].i + 1 \in Nat
      BY TypeFacts
    <3>2. loc' = [loc EXCEPT ![t] = [@ EXCEPT !.i = loc[t].i + 1]]
      BY <1>7, Zenon DEF CopyElem
    <3>3. QED
      BY <3>1, <3>2, Zenon DEF TypeOK, Local
  <2>6. QED
    BY <1>7, <2>3, <2>4, <2>5, Zenon DEF CopyElem, Goto, TypeOK, Label
<1>8. ASSUME NEW t \in Thread, UpdateTail(t) PROVE TypeOK'
  <2>1. loc[t].old + loc[t].n \in Nat
    BY TypeFacts
  <2>2. ht' \in [Side -> HeadTail]
    BY <1>8, <2>1, SideFacts, Zenon DEF UpdateTail, TypeOK, HeadTail
  <2>3. QED
    BY <1>8, <2>2, TypeReturn, Zenon DEF UpdateTail, TypeOK
<1>9. ASSUME NEW t \in Thread, RtsLoadTail(t) PROVE TypeOK'
  <2>1. loc' \in [Thread -> Local]
    BY <1>9, TypeFacts, Zenon DEF RtsLoadTail, TypeOK, Local
  <2>2. QED
    BY <1>9, <2>1, Zenon DEF RtsLoadTail, Goto, TypeOK, Label
<1>10. ASSUME NEW t \in Thread, RtsLoadHead(t) PROVE TypeOK'
  <2>1. loc' \in [Thread -> Local]
    BY <1>10, TypeFacts, ZenonT(60) DEF RtsLoadHead, TypeOK, Local
  <2>2. QED
    BY <1>10, <2>1, Zenon DEF RtsLoadHead, Goto, TypeOK, Label
<1>11. ASSUME NEW t \in Thread, RtsUpdateTail(t) PROVE TypeOK'
  <2>1. RtsNewTail(t) \in Nat /\ loc[t].otc + 1 \in Nat
    BY TypeFacts DEF RtsNewTail
  <2>2. ht' \in [Side -> HeadTail]
    BY <1>11, <2>1, SideFacts, Zenon DEF RtsUpdateTail, TypeOK, HeadTail
  <2>3. QED
    BY <1>11, <2>2, TypeReturn, Zenon DEF RtsUpdateTail, TypeOK
<1>12. ASSUME NEW t \in Thread, RtsUpdateTailFails(t) PROVE TypeOK'
  <2>1. loc' \in [Thread -> Local]
    BY <1>12, TypeFacts, ZenonT(60) DEF RtsUpdateTailFails, TypeOK, Local
  <2>2. QED
    BY <1>12, <2>1, Zenon DEF RtsUpdateTailFails, Goto, TypeOK, Label
<1>13. ASSUME NEW t \in Thread, NEW k \in 0 .. MaxNum, PeekFinish(t, k)
       PROVE TypeOK'
  <2>1. FinishCount(t, k) \in Nat
    BY RingSizes DEF FinishCount
  <2>2. loc' \in [Thread -> Local]
    BY <1>13, <2>1, TypeFacts, ZenonT(60) DEF PeekFinish, TypeOK, Local
  <2>3. QED
    BY <1>13, <2>2, Zenon DEF PeekFinish, Goto, TypeOK, Label
<1>14. ASSUME NEW t \in Thread, PeekSetHeadTail(t) PROVE TypeOK'
  <2>1. loc[t].old + loc[t].k \in Nat
    BY TypeFacts
  <2>2. ht' \in [Side -> HeadTail]
    BY <1>14, <2>1, SideFacts, Zenon DEF PeekSetHeadTail, TypeOK, HeadTail
  <2>3. QED
    BY <1>14, <2>2, TypeReturn, Zenon DEF PeekSetHeadTail, TypeOK
<1>15. ASSUME Reset PROVE TypeOK'
  <2> DEFINE q == ht["prod"].head \div PosMod
             zero == PosMod * (q + 1)
  <2>1. ht["prod"].head \in Nat /\ PosMod \in Nat /\ PosMod > 0
    BY RingSizes DEF TypeOK, HeadTail, Side
  <2>2. q \in Nat
    BY <2>1
  <2> HIDE DEF q
  <2>3. zero \in Nat
    BY <2>1, <2>2
  <2>4. ht' = [s \in Side |-> AtBase(zero)]
    BY <1>15, Zenon DEF Reset, q
  <2> HIDE DEF zero
  <2>5. QED
    BY <1>15, <2>3, <2>4 DEF Reset, TypeOK, HeadTail, AtBase
<1>16. CASE UNCHANGED vars
  BY <1>16, Zenon DEF vars, TypeOK
<1>17. QED
  BY <1>1, <1>2, <1>3, <1>4, <1>5, <1>6, <1>7, <1>8, <1>9, <1>10, <1>11,
     <1>12, <1>13, <1>14, <1>15, <1>16, Zenon
     DEF Next, Step
-----------------------------------------------------------------------------
(* Steps that leave the ring alone                                          *)

OthersSame(t) ==
  \A u \in Thread \ {t} :
    pc'[u] = pc[u] /\ loc'[u] = loc[u] /\ obj'[u] = obj[u]

\* A step of a thread that owns no position and changes only its own state
\* preserves the invariant if it preserves what the invariant says of it.
LEMMA LocalStep ==
  ASSUME RingInv, TypeOK', NEW t \in Thread,
         ht' = ht, ring' = ring, OthersSame(t), ~ InFlight(t), ~ InFlight(t)',
         LoadedOK(t)', ControlOK(t)', ObjOK(t)'
  PROVE  RingInv'
<1>1. \A u \in Thread : InFlight(u)' = InFlight(u)
  BY DEF OthersSame, InFlight
<1>2. \A u \in Thread : InFlight(u) => loc'[u] = loc[u]
  BY Zenon DEF OthersSame
<1>3. \A u \in Thread : Me(u)' = Me(u) /\ Other(u)' = Other(u)
  BY Zenon DEF Me, Other
<1>4. \A s \in Side : Flight(s)' = Flight(s)
  BY <1>1, Zenon DEF Flight, Threads, Thread, Side
<1>5. HeadsInOrder'
  BY Zenon DEF RingInv, HeadsInOrder
<1>6. ClaimsUnpublished' /\ RtsDistance' /\ ClaimsDisjoint'
  BY <1>1, <1>2, <1>3, Zenon
     DEF RingInv, ClaimsUnpublished, RtsDistance, ClaimsDisjoint, Mode
<1>7. ASSUME NEW u \in Thread PROVE LoadedOK(u)' /\ ControlOK(u)' /\ ObjOK(u)'
  <2>1. CASE u = t
     BY <2>1, Zenon
  <2>2. CASE u # t
     BY <2>2, <1>3, ZenonT(60)
        DEF RingInv, LoadedOK, ControlOK, ObjOK, OthersSame, Loaded,
            InFlight, InCall, ToCopy, Serial, Mode
  <2> QED BY <2>1, <2>2, Zenon
<1>8. ASSUME NEW u \in Thread PROVE SerialOK(u)' /\ RtsTailOK(u)' /\ RtsHeadOK(u)'
  <2>0. (pc'[u] \in {"updh", "updcas"} => InFlight(u)) /\ (InFlight(u) => pc'[u] = pc[u])
     BY <1>1, Zenon DEF InFlight, OthersSame
  <2>1. SerialOK(u)'
     BY <1>1, <1>2, <1>3, Zenon DEF RingInv, SerialOK, Serial, Mode
  <2>2. RtsTailOK(u)'
     BY <2>0, <1>1, <1>2, <1>3, Zenon DEF RingInv, RtsTailOK
  <2>3. RtsHeadOK(u)'
     <3>1. Peers(u) \subseteq Thread BY SideFacts, Zenon
     <3> QED BY <3>1, <2>0, <1>1, <1>2, <1>3, Zenon DEF RingInv, RtsHeadOK
  <2> QED BY <2>1, <2>2, <2>3, Zenon
<1>9. SerialIdle' /\ RtsCount'
  BY <1>4, Zenon DEF RingInv, SerialIdle, RtsCount
<1>10. DataInv'
  <2>1. ASSUME NEW p PROVE Unwritten(p)' = Unwritten(p)
    BY <1>1, <1>2 DEF Unwritten, Thread
  <2> QED BY <2>1, Zenon DEF RingInv, DataInv
<1> QED BY <1>5, <1>6, <1>7, <1>8, <1>9, <1>10, Zenon DEF RingInv

\* A step of a thread that owns positions and leaves heads, tails and its
\* claim alone preserves the invariant if it preserves what it says of the
\* thread and of the element table.
LEMMA ClaimStep ==
  ASSUME RingInv, TypeOK', NEW t \in Thread,
         ht' = ht, OthersSame(t), InFlight(t), InFlight(t)',
         loc'[t].old = loc[t].old, loc'[t].n = loc[t].n,
         ControlOK(t)', RtsTailOK(t)', RtsHeadOK(t)', ObjOK(t)', DataInv'
  PROVE  RingInv'
<1>1. \A u \in Thread : InFlight(u)' = InFlight(u)
  BY DEF OthersSame, InFlight
<1>2. \A u \in Thread : loc'[u].old = loc[u].old /\ loc'[u].n = loc[u].n
  BY Zenon DEF OthersSame
<1>3. \A u \in Thread : Me(u)' = Me(u) /\ Other(u)' = Other(u)
  BY Zenon DEF Me, Other
<1>4. \A s \in Side : Flight(s)' = Flight(s)
  BY <1>1, Zenon DEF Flight, Threads, Thread, Side
<1>5. HeadsInOrder'
  BY Zenon DEF RingInv, HeadsInOrder
<1>6. ClaimsUnpublished' /\ RtsDistance' /\ ClaimsDisjoint'
  BY <1>1, <1>2, <1>3, Zenon
     DEF RingInv, ClaimsUnpublished, RtsDistance, ClaimsDisjoint, Mode
<1>7. ASSUME NEW u \in Thread
      PROVE  /\ LoadedOK(u)' /\ ControlOK(u)' /\ RtsTailOK(u)'
             /\ RtsHeadOK(u)' /\ ObjOK(u)'
  <2>1. CASE u = t
    BY <2>1, Zenon DEF LoadedOK, Loaded, InFlight
  <2>2. CASE u # t
    <3>1. LoadedOK(u)' /\ ControlOK(u)' /\ RtsTailOK(u)'
      BY <2>2, <1>3, ZenonT(60)
         DEF RingInv, LoadedOK, ControlOK, RtsTailOK, OthersSame, Loaded,
             InFlight, InCall, ToCopy, Serial, Mode
    <3>2. pc'[u] = pc[u] /\ loc'[u] = loc[u] /\ obj'[u] = obj[u]
      BY <2>2, Zenon DEF OthersSame
    <3>3. RtsHeadOK(u)'
      <4>1. Peers(u) \subseteq Thread
        BY SideFacts, Zenon
      <4>2. QED
        BY <3>2, <4>1, <1>1, <1>2, <1>3, Zenon DEF RingInv, RtsHeadOK
    <3>4. ObjOK(u)'
      BY <1>1, <3>2, Zenon DEF RingInv, ObjOK
    <3>5. QED
      BY <3>1, <3>3, <3>4, Zenon
  <2>3. QED
    BY <2>1, <2>2, Zenon
<1>8. ASSUME NEW u \in Thread PROVE SerialOK(u)'
  BY <1>1, <1>2, <1>3, Zenon DEF RingInv, SerialOK, Serial, Mode
<1>9. SerialIdle' /\ RtsCount'
  BY <1>4, Zenon DEF RingInv, SerialIdle, RtsCount
<1>10. QED
  BY <1>5, <1>6, <1>7, <1>8, <1>9, Zenon DEF RingInv

\* The same for a step that copies nothing.
LEMMA FlightStep ==
  ASSUME RingInv, TypeOK', NEW t \in Thread,
         ht' = ht, ring' = ring, OthersSame(t), InFlight(t), InFlight(t)',
         loc'[t].old = loc[t].old, loc'[t].n = loc[t].n, loc'[t].i = loc[t].i,
         obj'[t] = obj[t], ControlOK(t)', RtsTailOK(t)', RtsHeadOK(t)'
  PROVE  RingInv'
<1>1. \A u \in Thread : InFlight(u)' = InFlight(u)
  BY DEF OthersSame, InFlight
<1>2. \A u \in Thread : /\ loc'[u].old = loc[u].old /\ loc'[u].n = loc[u].n
                        /\ loc'[u].i = loc[u].i
  BY Zenon DEF OthersSame
<1>3. ObjOK(t)'
  BY <1>1, <1>2, Zenon DEF RingInv, ObjOK
<1>4. DataInv'
  <2>1. ASSUME NEW p PROVE Unwritten(p)' = Unwritten(p)
    BY <1>1, <1>2, Zenon DEF Unwritten, Thread
  <2>2. QED
    BY <2>1, Zenon DEF RingInv, DataInv
<1>5. QED
  BY <1>3, <1>4, ClaimStep, Zenon

\* How far apart the four words of a ring can be.
LEMMA Spans ==
  ASSUME TypeOK, HeadsInOrder, NEW t \in Thread
  PROVE  /\ Me(t).tail <= Me(t).head
         /\ Me(t).head <= Me(t).tail + Capacity
         /\ Me(t).head <= Other(t).tail + Cap(SideOf(t))
         /\ Other(t).tail + Cap(SideOf(t)) <= Me(t).head + Capacity
<1>1. ht["prod"] \in HeadTail /\ ht["cons"] \in HeadTail
  BY Zenon DEF TypeOK, Side
<1>2. /\ ht["prod"].head \in Nat /\ ht["prod"].tail \in Nat
      /\ ht["cons"].head \in Nat /\ ht["cons"].tail \in Nat
  BY <1>1, Zenon DEF HeadTail
<1>3. /\ ht["prod"].tail <= ht["prod"].head
      /\ ht["prod"].head <= ht["cons"].tail + Capacity
      /\ ht["cons"].tail <= ht["cons"].head
      /\ ht["cons"].head <= ht["prod"].tail + 0
  BY Zenon DEF HeadsInOrder, Side, Opp, Cap
<1>4. CASE SideOf(t) = "prod"
  BY <1>2, <1>3, <1>4, CapacityFits DEF Me, Other, Opp, Cap
<1>5. CASE SideOf(t) = "cons"
  BY <1>2, <1>3, <1>5, CapacityFits DEF Me, Other, Opp, Cap
<1>6. QED
  BY <1>4, <1>5, Zenon DEF SideOf

\* The room computed by move_head is exact for the head value it uses.
LEMMA EntriesExact ==
  ASSUME RingInv, NEW t \in Thread, pc[t] = "tail"
  PROVE  /\ Entries(t) = Cap(SideOf(t)) + Other(t).tail - loc[t].old
         /\ Cap(SideOf(t)) + Other(t).tail - loc[t].old >= 0
<1> DEFINE c == Cap(SideOf(t))
           x == Other(t).tail
           y == loc[t].old
<1>1. c \in Nat /\ x \in Nat /\ y \in Nat /\ Me(t).head \in Nat
  BY TypeFacts, SideFacts, Zenon DEF RingInv
<1>2. y <= Me(t).head /\ Me(t).head + Capacity - y < PosMod
  BY Zenon DEF RingInv, LoadedOK, Loaded
<1>3. Me(t).head <= x + c /\ x + c <= Me(t).head + Capacity
  BY Spans, Zenon DEF RingInv
<1>4. Entries(t) = U32(c + U32(x) - U32(y))
  BY Zenon DEF Entries
<1> HIDE DEF c, x, y
<1>5. PosMod \in Nat /\ Capacity \in Nat
  BY RingSizes, Zenon
<1>6. c + x - y >= 0 /\ c + x - y < PosMod
  BY <1>1, <1>2, <1>3, <1>5
<1>7. U32(c + U32(x) - U32(y)) = c + x - y
  BY <1>1, <1>6, U32Exact
<1>8. QED
  BY <1>4, <1>6, <1>7, Zenon DEF c, x, y
\* What a thread knows of the state outside and inside a call.
LEMMA InvFacts ==
  ASSUME RingInv, NEW t \in Thread
  PROVE  /\ TypeOK /\ HeadsInOrder
         /\ LoadedOK(t) /\ ControlOK(t) /\ SerialOK(t)
         /\ RtsTailOK(t) /\ RtsHeadOK(t) /\ ObjOK(t)
BY Zenon DEF RingInv

\* A thread that owns nothing has copied nothing out.
LEMMA NothingCopied ==
  ASSUME RingInv, NEW t \in Thread, ~ InFlight(t)
  PROVE  Len(obj[t]) = 0
BY Zenon DEF RingInv, ObjOK

\* Entering a call.
LEMMA CallInv ==
  ASSUME RingInv, TypeOK', NEW t \in Thread, AnyCall(t)
  PROVE  RingInv'
<1>1. PICK num \in 0 .. MaxNum, fixed \in BOOLEAN, peek \in BOOLEAN :
        Call(t, num, fixed, peek)
  BY Zenon DEF AnyCall
<1>2. pc[t] = "idle" /\ pc'[t] = "head" /\ loc'[t].peek = peek
      /\ loc'[t].k = loc[t].k
  BY <1>1, Zenon DEF Call, Goto, RingInv, TypeOK, Local
<1>3. OthersSame(t) /\ ht' = ht /\ ring' = ring /\ obj' = obj
  BY <1>1, Zenon DEF Call, Goto, OthersSame, RingInv, TypeOK
<1>4. ~ InFlight(t) /\ ~ InFlight(t)' /\ LoadedOK(t)'
  BY <1>2, Zenon DEF InFlight, LoadedOK, Loaded
<1>5. ControlOK(t)'
  BY <1>1, <1>2, InvFacts, Zenon DEF ControlOK, InFlight, Call, Serial, Mode
<1>6. ObjOK(t)'
  BY <1>3, <1>4, NothingCopied DEF ObjOK
<1>7. QED
  BY <1>3, <1>4, <1>5, <1>6, LocalStep, Zenon

\* The load of the head.
LEMMA LoadHeadInv ==
  ASSUME RingInv, TypeOK', NEW t \in Thread, LoadHead(t)
  PROVE  RingInv'
<1>1. /\ pc[t] = "head" /\ loc'[t].old = Me(t).head
      /\ pc'[t] = IF Mode(t) = "RTS" THEN "htd" ELSE "tail"
      /\ loc'[t].peek = loc[t].peek /\ loc'[t].k = loc[t].k
  BY Zenon DEF LoadHead, Goto, RingInv, TypeOK, Local
<1>2. OthersSame(t) /\ ht' = ht /\ ring' = ring /\ obj' = obj
  BY Zenon DEF LoadHead, Goto, OthersSame, RingInv, TypeOK
<1>3. ~ InFlight(t) /\ ~ InFlight(t)' /\ Me(t)' = Me(t)
  BY <1>1, <1>2, Zenon DEF InFlight, Me
<1>4. ASSUME Mode(t) = "HTS" PROVE Me(t).head = Me(t).tail
  <2>1. U32(Me(t).head) = U32(Me(t).tail)
    BY <1>4, Zenon DEF LoadHead
  <2>2. Me(t).head \in Int /\ Me(t).tail \in Int
    BY TypeFacts DEF RingInv
  <2>3. /\ Me(t).head - Me(t).tail < PosMod
        /\ Me(t).tail - Me(t).head < PosMod
    BY <2>2, Spans, CapacityFits, RingSizes DEF RingInv
  <2>4. QED
    BY <2>1, <2>2, <2>3, U32Equal, Zenon
<1>5. LoadedOK(t)'
  <2>1. Me(t).head \in Nat /\ Capacity \in Nat /\ Capacity < PosMod
    BY TypeFacts, CapacityFits, RingSizes DEF RingInv
  <2>2. Me(t).head + Capacity - Me(t).head < PosMod
    BY <2>1
  <2>3. pc'[t] # "cas" /\ (Mode(t) = "RTS" => pc'[t] = "htd")
    BY <1>1, Zenon
  <2>4. Mode(t)' = Mode(t)
    BY Zenon DEF Mode
  <2>5. QED
    BY <1>1, <1>3, <1>4, <2>1, <2>2, <2>3, <2>4 DEF LoadedOK
<1>6. ControlOK(t)'
  BY <1>1, InvFacts, Zenon DEF ControlOK, InFlight, InCall, Serial, Mode
<1>7. ObjOK(t)'
  BY <1>2, <1>3, NothingCopied DEF ObjOK
<1>8. QED
  BY <1>2, <1>3, <1>5, <1>6, <1>7, LocalStep, Zenon

\* The wait for the RTS distance.
LEMMA RtsHeadWaitInv ==
  ASSUME RingInv, TypeOK', NEW t \in Thread, RtsHeadWait(t)
  PROVE  RingInv'
<1> DEFINE far == U32(U32(loc[t].old) - U32(Me(t).tail)) > HtdMax[SideOf(t)]
<1>1. /\ pc[t] = "htd" /\ pc'[t] = IF far THEN "head" ELSE "tail"
      /\ loc' = loc /\ obj' = obj
  BY Zenon DEF RtsHeadWait, Goto, RingInv, TypeOK
<1>2. OthersSame(t) /\ ht' = ht /\ ring' = ring
  BY Zenon DEF RtsHeadWait, Goto, OthersSame, RingInv, TypeOK
<1>3. ~ InFlight(t) /\ ~ InFlight(t)' /\ Me(t)' = Me(t) /\ Mode(t)' = Mode(t)
  BY <1>1, <1>2, Zenon DEF InFlight, Me, Mode
<1>4. ASSUME ~ far PROVE loc[t].old - Me(t).tail <= HtdMax[SideOf(t)]
  <2> DEFINE x == loc[t].old
             y == Me(t).tail
             d == HtdMax[SideOf(t)]
  <2>1. x \in Nat /\ y \in Nat /\ d \in Nat /\ Me(t).head \in Nat
    BY TypeFacts, SideFacts, RingModes, Zenon DEF RingInv
  <2>2. x <= Me(t).head /\ Me(t).head <= y + Capacity
    BY <1>1, Spans, Zenon DEF RingInv, LoadedOK, Loaded
  <2>3. ~ (U32(U32(x) - U32(y)) > d)
    BY <1>4, Zenon
  <2>4. U32(x) \in Int /\ U32(y) \in Int
    BY <2>1, U32Type
  <2> HIDE DEF x, y, d
  <2>5. CASE x < y
    BY <2>1, <2>5 DEF x, y, d
  <2>6. CASE x >= y
    <3>1. 0 <= 0 + x - y /\ 0 + x - y < PosMod
      BY <2>1, <2>2, <2>6, CapacityFits, RingSizes
    <3>2. U32(0 + U32(x) - U32(y)) = 0 + x - y
      BY <2>1, <3>1, U32Exact
    <3>3. 0 + U32(x) - U32(y) = U32(x) - U32(y)
      BY <2>4
    <3>4. U32(U32(x) - U32(y)) = x - y
      BY <2>1, <3>2, <3>3
    <3>5. QED
      BY <2>1, <2>3, <3>4 DEF x, y, d
  <2>7. QED
    BY <2>1, <2>5, <2>6
<1>5. LoadedOK(t)'
  <2>1. LoadedOK(t)
    BY Zenon DEF RingInv
  <2> HIDE DEF far
  <2>2. QED
    BY <1>1, <1>2, <1>3, <1>4, <2>1, Zenon DEF LoadedOK, Loaded
<1>6. ControlOK(t)'
  BY <1>1, InvFacts, Zenon DEF ControlOK, InFlight, InCall, Serial, Mode
<1>7. ObjOK(t)'
  BY <1>1, <1>3, NothingCopied DEF ObjOK
<1>8. QED
  BY <1>2, <1>3, <1>5, <1>6, <1>7, LocalStep, Zenon
\* A call that returns without having claimed anything.
LEMMA EmptyReturnInv ==
  ASSUME RingInv, TypeOK', NEW t \in Thread, ~ InFlight(t), Return(t),
         ht' = ht, ring' = ring
  PROVE  RingInv'
<1>1. pc'[t] = "idle" /\ loc'[t] = NoLocal /\ obj'[t] = <<>>
  BY Zenon DEF Return, Goto, RingInv, TypeOK
<1>2. OthersSame(t)
  BY Zenon DEF Return, Goto, OthersSame, RingInv, TypeOK
<1>3. ~ InFlight(t)' /\ LoadedOK(t)'
  BY <1>1, Zenon DEF InFlight, LoadedOK, Loaded
<1>4. ControlOK(t)'
  BY <1>1 DEF ControlOK, InCall, InFlight, NoLocal
<1>5. ObjOK(t)'
  BY <1>1, <1>3 DEF ObjOK
<1>6. QED
  BY <1>2, <1>3, <1>4, <1>5, LocalStep, Zenon

\* The load of the opposite tail and the room check.
LEMMA LoadTailInv ==
  ASSUME RingInv, TypeOK', NEW t \in Thread, LoadTail(t)
  PROVE  RingInv'
<1> DEFINE e == Entries(t)
           n == MoveCount(loc[t].num, loc[t].fixed, e)
<1>1. pc[t] = "tail" /\ ht' = ht /\ ring' = ring /\ ~ InFlight(t)
  BY Zenon DEF LoadTail, InFlight
<1>2. CASE n = 0
  BY <1>1, <1>2, EmptyReturnInv DEF LoadTail
<1>3. CASE n > 0
  <2>1. /\ loc' = [loc EXCEPT ![t] = [@ EXCEPT !.entries = e, !.n = n]]
        /\ pc' = [pc EXCEPT ![t] = "cas"] /\ obj' = obj
    BY <1>3 DEF LoadTail, Goto
  <2>2. e = Cap(SideOf(t)) + Other(t).tail - loc[t].old /\ e >= 0
    BY <1>1, EntriesExact, Zenon
  <2>3. /\ loc[t].num \in Nat /\ loc[t].old \in Nat /\ Other(t).tail \in Nat
        /\ Cap(SideOf(t)) \in Nat
    BY TypeFacts, SideFacts, Zenon DEF RingInv
  <2>4. e \in Nat /\ n \in Nat /\ n >= 1 /\ n <= e
    <3> HIDE DEF e
    <3>1. e \in Nat
      BY <2>2, <2>3
    <3>2. QED
      BY <1>3, <2>3, <3>1 DEF MoveCount
  <2> HIDE DEF e, n
  <2>5. /\ pc'[t] = "cas" /\ loc'[t].entries = e /\ loc'[t].n = n
        /\ loc'[t].old = loc[t].old /\ loc'[t].peek = loc[t].peek
        /\ loc'[t].k = loc[t].k
    BY <2>1, Zenon DEF RingInv, TypeOK, Local
  <2>6. OthersSame(t)
    BY <2>1, Zenon DEF OthersSame, RingInv, TypeOK
  <2>7. ~ InFlight(t)' /\ Me(t)' = Me(t) /\ Other(t)' = Other(t)
        /\ Mode(t)' = Mode(t)
    BY <1>1, <2>5, Zenon DEF InFlight, Me, Other, Mode
  <2>8. LoadedOK(t)'
    <3>1. loc[t].old + e <= Other(t).tail + Cap(SideOf(t))
      BY <2>2, <2>3
    <3>2. LoadedOK(t)
      BY Zenon DEF RingInv
    <3>3. QED
      BY <1>1, <2>4, <2>5, <2>7, <3>1, <3>2, Zenon DEF LoadedOK, Loaded
  <2>9. ControlOK(t)'
    BY <1>1, <2>5, InvFacts, Zenon
       DEF ControlOK, InFlight, InCall, Serial, Mode
  <2>10. ObjOK(t)'
    BY <1>1, <2>1, <2>7, NothingCopied DEF ObjOK
  <2>11. QED
    BY <1>1, <2>6, <2>7, <2>8, <2>9, <2>10, LocalStep, Zenon
<1>4. QED
  BY <1>2, <1>3, Zenon DEF LoadTail

\* A failed compare-and-swap of the head.
LEMMA MoveHeadFailsInv ==
  ASSUME RingInv, TypeOK', NEW t \in Thread, MoveHeadFails(t)
  PROVE  RingInv'
<1>1. pc[t] = "cas" /\ ht' = ht /\ ring' = ring /\ obj' = obj /\ ~ InFlight(t)
  BY Zenon DEF MoveHeadFails, InFlight
<1>2. /\ OthersSame(t)
      /\ loc'[t].peek = loc[t].peek /\ loc'[t].k = loc[t].k
      /\ \/ Mode(t) = "MT" /\ pc'[t] = "tail" /\ loc'[t].old = Me(t).head
         \/ pc'[t] = "head"
  <2>1. CASE Mode(t) = "MT" /\ UseC11Model
    <3>1. /\ loc' = [loc EXCEPT ![t] = [@ EXCEPT
                       !.old = Me(t).head, !.entries = 0, !.n = 0]]
          /\ pc' = [pc EXCEPT ![t] = "tail"] /\ obj' = obj
      BY <2>1, Zenon DEF MoveHeadFails, Goto
    <3>2. QED
      BY <2>1, <3>1, Zenon DEF OthersSame, RingInv, TypeOK, Local
  <2>2. CASE ~ (Mode(t) = "MT" /\ UseC11Model)
    <3>1. /\ loc' = [loc EXCEPT ![t] = [@ EXCEPT !.entries = 0, !.n = 0]]
          /\ pc' = [pc EXCEPT ![t] = "head"] /\ obj' = obj
      BY <2>2, Zenon DEF MoveHeadFails, Goto
    <3>2. QED
      BY <3>1, Zenon DEF OthersSame, RingInv, TypeOK, Local
  <2>3. QED
    BY <2>1, <2>2, Zenon
<1>3. ~ InFlight(t)' /\ Me(t)' = Me(t) /\ Mode(t)' = Mode(t)
  BY <1>1, <1>2, Zenon DEF InFlight, Me, Mode
<1>4. LoadedOK(t)'
  <2>1. Me(t).head \in Nat /\ Capacity \in Nat /\ Capacity < PosMod
    BY TypeFacts, CapacityFits, RingSizes DEF RingInv
  <2>2. Me(t).head + Capacity - Me(t).head < PosMod
    BY <2>1
  <2>3. QED
    BY <1>2, <1>3, <2>1, <2>2 DEF LoadedOK, Loaded
<1>5. ControlOK(t)'
  BY <1>1, <1>2, InvFacts, Zenon
     DEF ControlOK, InFlight, InCall, Serial, Mode
<1>6. ObjOK(t)'
  BY <1>1, <1>3, NothingCopied DEF ObjOK
<1>7. QED
  BY <1>1, <1>2, <1>3, <1>4, <1>5, <1>6, LocalStep, Zenon

-----------------------------------------------------------------------------
(* The RTS tail update                                                      *)

\* The unfinished calls of a side are fewer than the positions.
LEMMA FlightFinite ==
  ASSUME NEW s \in Side
  PROVE  /\ IsFiniteSet(Flight(s)) /\ Cardinality(Flight(s)) \in Nat
         /\ Cardinality(Flight(s)) < PosMod
<1>1. IsFiniteSet(Threads(s)) /\ Cardinality(Threads(s)) < PosMod
  BY RingThreads, Zenon DEF Threads, Side
<1>2. Flight(s) \subseteq Threads(s)
  BY Zenon DEF Flight
<1>3. /\ IsFiniteSet(Flight(s))
      /\ Cardinality(Flight(s)) <= Cardinality(Threads(s))
  BY <1>1, <1>2, FS_Subset, Zenon
<1>4. Cardinality(Flight(s)) \in Nat /\ Cardinality(Threads(s)) \in Nat
  BY <1>1, <1>3, FS_CardinalityType, Zenon
<1>5. QED
  BY <1>1, <1>3, <1>4, RingSizes

\* The load of the tail word.
LEMMA RtsLoadTailInv ==
  ASSUME RingInv, TypeOK', NEW t \in Thread, RtsLoadTail(t)
  PROVE  RingInv'
<1>1. /\ pc[t] = "upd" /\ Mode(t) = "RTS" /\ pc'[t] = "updh"
      /\ loc'[t].ot = Me(t).tail /\ loc'[t].otc = Me(t).tcnt
      /\ loc'[t].old = loc[t].old /\ loc'[t].n = loc[t].n
      /\ loc'[t].i = loc[t].i /\ loc'[t].peek = loc[t].peek
      /\ loc'[t].k = loc[t].k
  BY Zenon DEF RtsLoadTail, Goto, RingInv, TypeOK, Local
<1>2. OthersSame(t) /\ ht' = ht /\ ring' = ring /\ obj' = obj
  BY Zenon DEF RtsLoadTail, Goto, OthersSame, RingInv, TypeOK
<1>3. InFlight(t) /\ InFlight(t)' /\ Me(t)' = Me(t)
  BY <1>1, <1>2, Zenon DEF InFlight, Me
<1>4. ControlOK(t)'
  BY <1>1, InvFacts, Zenon DEF ControlOK, InFlight, InCall, Serial, Mode
<1>5. RtsTailOK(t)'
  <2>1. Me(t).hcnt = Me(t).tcnt + Cardinality(Flight(SideOf(t)))
    BY <1>1, SideFacts, Zenon DEF RingInv, RtsCount, Me, Mode
  <2>2. Me(t).tcnt \in Nat /\ Me(t).hcnt \in Nat
    BY TypeFacts, Zenon DEF RingInv
  <2>3. Me(t).hcnt - Me(t).tcnt < PosMod
    BY <2>1, <2>2, FlightFinite, SideFacts
  <2>4. QED
    BY <1>1, <1>3, <2>2, <2>3 DEF RtsTailOK
<1>6. RtsHeadOK(t)'
  BY <1>1, Zenon DEF RtsHeadOK
<1>7. QED
  BY <1>1, <1>2, <1>3, <1>4, <1>5, <1>6, FlightStep, Zenon

\* The load of the head word.
LEMMA RtsLoadHeadInv ==
  ASSUME RingInv, TypeOK', NEW t \in Thread, RtsLoadHead(t)
  PROVE  RingInv'
<1>1. /\ pc[t] = "updh" /\ pc'[t] = "updcas"
      /\ loc'[t].h = Me(t).head /\ loc'[t].hc = Me(t).hcnt
      /\ loc'[t].ot = loc[t].ot /\ loc'[t].otc = loc[t].otc
      /\ loc'[t].old = loc[t].old /\ loc'[t].n = loc[t].n
      /\ loc'[t].i = loc[t].i /\ loc'[t].peek = loc[t].peek
      /\ loc'[t].k = loc[t].k
  BY Zenon DEF RtsLoadHead, Goto, RingInv, TypeOK, Local
<1>2. OthersSame(t) /\ ht' = ht /\ ring' = ring /\ obj' = obj
  BY Zenon DEF RtsLoadHead, Goto, OthersSame, RingInv, TypeOK
<1>3. InFlight(t) /\ InFlight(t)' /\ Me(t)' = Me(t)
  BY <1>1, <1>2, Zenon DEF InFlight, Me
<1>4. ControlOK(t)' /\ Mode(t) = "RTS"
  BY <1>1, InvFacts, Zenon DEF ControlOK, InFlight, InCall, Serial, Mode
<1>5. RtsTailOK(t) /\ RtsTailOK(t)'
  BY <1>1, <1>3, InvFacts, Zenon DEF RtsTailOK
<1>6. RtsHeadOK(t)'
  <2> DEFINE F == Flight(SideOf(t))
  <2>1. Me(t).hcnt = Me(t).tcnt + Cardinality(F)
    BY <1>4, SideFacts, Zenon DEF RingInv, RtsCount, Me, Mode
  <2>2. /\ Me(t).tcnt \in Nat /\ Me(t).hcnt \in Nat /\ Me(t).head \in Nat
        /\ loc[t].otc \in Nat
    BY TypeFacts, Zenon DEF RingInv
  <2>3. IsFiniteSet(F) /\ Cardinality(F) \in Nat
    BY FlightFinite, SideFacts, Zenon
  <2>4. t \in F
    BY <1>3, SideFacts, Zenon DEF Flight, Peers
  <2>5. /\ Cardinality(F \ {t}) = Cardinality(F) - 1
        /\ IsFiniteSet(F \ {t}) /\ Cardinality(F \ {t}) \in Nat
    BY <2>3, <2>4, FS_RemoveElement, FS_CardinalityType, Zenon
  <2>6. loc[t].otc <= Me(t).tcnt
    BY <1>1, <1>5, Zenon DEF RtsTailOK
  <2>7. loc[t].otc < Me(t).hcnt
    BY <2>1, <2>2, <2>3, <2>5, <2>6
  <2>8. ASSUME loc[t].otc = Me(t).tcnt, loc[t].otc + 1 = Me(t).hcnt,
               NEW u \in Peers(t) \ {t}
        PROVE  ~ InFlight(u)
    <3>1. Cardinality(F \ {t}) = 0
      BY <2>1, <2>2, <2>3, <2>5, <2>8
    <3>2. F \ {t} = {}
      BY <2>5, <3>1, FS_EmptySet, Zenon
    <3>3. QED
      BY <2>8, <3>2, Zenon DEF Flight, Peers
  <2>9. loc[t].old + loc[t].n <= Me(t).head
    BY <1>3, Zenon DEF RingInv, ClaimsUnpublished
  <2>10. \A u \in Peers(t) \ {t} : InFlight(u)' = InFlight(u)
    BY <1>2, SideFacts, Zenon DEF OthersSame, InFlight
  <2> HIDE DEF F
  <2>11. QED
    BY <1>1, <1>3, <2>2, <2>7, <2>8, <2>9, <2>10 DEF RtsHeadOK
<1>7. QED
  BY <1>1, <1>2, <1>3, <1>4, <1>5, <1>6, FlightStep, Zenon

\* A failed compare-and-swap of the tail word.
LEMMA RtsUpdateTailFailsInv ==
  ASSUME RingInv, TypeOK', NEW t \in Thread, RtsUpdateTailFails(t)
  PROVE  RingInv'
<1>1. /\ pc[t] = "updcas" /\ pc'[t] = "updh"
      /\ loc'[t].ot = Me(t).tail /\ loc'[t].otc = Me(t).tcnt
      /\ loc'[t].old = loc[t].old /\ loc'[t].n = loc[t].n
      /\ loc'[t].i = loc[t].i /\ loc'[t].peek = loc[t].peek
      /\ loc'[t].k = loc[t].k
  <2>1. /\ loc' = [loc EXCEPT ![t] = [@ EXCEPT
                     !.ot = Me(t).tail, !.otc = Me(t).tcnt,
                     !.h = 0, !.hc = 0]]
        /\ pc' = [pc EXCEPT ![t] = "updh"] /\ pc[t] = "updcas"
    BY Zenon DEF RtsUpdateTailFails, Goto
  <2>2. QED
    BY <2>1, Zenon DEF RingInv, TypeOK, Local
<1>2. OthersSame(t) /\ ht' = ht /\ ring' = ring /\ obj' = obj
  BY Zenon DEF RtsUpdateTailFails, Goto, OthersSame, RingInv, TypeOK
<1>3. InFlight(t) /\ InFlight(t)' /\ Me(t)' = Me(t)
  BY <1>1, <1>2, Zenon DEF InFlight, Me
<1>4. ControlOK(t)' /\ Mode(t) = "RTS"
  BY <1>1, InvFacts, Zenon DEF ControlOK, InFlight, InCall, Serial, Mode
<1>5. RtsTailOK(t)'
  <2>1. Me(t).hcnt = Me(t).tcnt + Cardinality(Flight(SideOf(t)))
    BY <1>4, SideFacts, Zenon DEF RingInv, RtsCount, Me, Mode
  <2>2. Me(t).tcnt \in Nat /\ Me(t).hcnt \in Nat
    BY TypeFacts, Zenon DEF RingInv
  <2>3. Me(t).hcnt - Me(t).tcnt < PosMod
    BY <2>1, <2>2, FlightFinite, SideFacts
  <2>4. QED
    BY <1>1, <1>3, <2>2, <2>3 DEF RtsTailOK
<1>6. RtsHeadOK(t)'
  BY <1>1, Zenon DEF RtsHeadOK
<1>7. QED
  BY <1>1, <1>2, <1>3, <1>4, <1>5, <1>6, FlightStep, Zenon
\* The caller of the peek API confirms what it wants.
LEMMA PeekFinishInv ==
  ASSUME RingInv, TypeOK', NEW t \in Thread, NEW k \in 0 .. MaxNum,
         PeekFinish(t, k)
  PROVE  RingInv'
<1> DEFINE m == FinishCount(t, k)
<1>1. pc[t] = "held" /\ ht' = ht /\ ring' = ring /\ obj' = obj /\ InFlight(t)
  BY Zenon DEF PeekFinish, InFlight
<1>2. /\ loc[t].peek /\ Serial(t) /\ loc[t].n >= 1
      /\ loc[t].i = IF t \in Producers THEN 0 ELSE loc[t].n
      /\ loc[t].old = Me(t).tail /\ loc[t].old + loc[t].n = Me(t).head
  BY <1>1, InvFacts, Zenon DEF ControlOK, SerialOK, InCall
<1>3. m \in Nat /\ m <= loc[t].n
  <2>1. /\ Me(t).head \in Nat /\ Me(t).tail \in Nat /\ loc[t].n \in Nat
        /\ k \in Nat /\ loc[t].old \in Nat
    BY TypeFacts, RingSizes DEF RingInv
  <2> DEFINE x == Me(t).head
             y == Me(t).tail
  <2>2. x - y = loc[t].n /\ 0 <= 0 + x - y /\ 0 + x - y < PosMod
    BY <1>2, <2>1, Spans, CapacityFits, RingSizes DEF RingInv
  <2>3. x \in Int /\ y \in Int /\ U32(x) \in Int /\ U32(y) \in Int
    BY <2>1, U32Type
  <2>4. m = IF U32(U32(x) - U32(y)) >= k THEN k ELSE 0
    BY Zenon DEF FinishCount
  <2> HIDE DEF x, y, m
  <2>5. U32(0 + U32(x) - U32(y)) = 0 + x - y
    BY <2>2, <2>3, U32Exact
  <2>6. 0 + U32(x) - U32(y) = U32(x) - U32(y) /\ 0 + x - y = x - y
    BY <2>3
  <2>7. U32(U32(x) - U32(y)) = loc[t].n
    BY <2>2, <2>5, <2>6, Zenon
  <2>8. QED
    BY <2>1, <2>4, <2>7
<1>4. /\ loc' = [loc EXCEPT ![t] = [@ EXCEPT !.old = Me(t).tail, !.k = m]]
      /\ pc' = [pc EXCEPT ![t] = IF t \in Producers /\ m > 0
                                 THEN "copy" ELSE "set"]
  BY Zenon DEF PeekFinish, Goto
<1> HIDE DEF m
<1>5. /\ loc'[t].old = loc[t].old /\ loc'[t].n = loc[t].n
      /\ loc'[t].i = loc[t].i /\ loc'[t].peek = loc[t].peek
      /\ loc'[t].k = m
      /\ pc'[t] = IF t \in Producers /\ m > 0 THEN "copy" ELSE "set"
  BY <1>2, <1>4, Zenon DEF RingInv, TypeOK, Local
<1>6. OthersSame(t)
  BY <1>1, <1>4, Zenon DEF OthersSame, RingInv, TypeOK
<1>7. InFlight(t)' /\ RtsTailOK(t)' /\ RtsHeadOK(t)'
  BY <1>5, Zenon DEF InFlight, RtsTailOK, RtsHeadOK
<1>8. ControlOK(t)'
  <2>1. Serial(t)' = Serial(t)
    BY Zenon DEF Serial, Mode
  <2>2. loc[t].n \in Nat
    BY TypeFacts, Zenon DEF RingInv
  <2>3. QED
    BY <1>2, <1>3, <1>5, <1>7, <2>1, <2>2 DEF ControlOK, ToCopy
<1>9. QED
  BY <1>1, <1>5, <1>6, <1>7, <1>8, FlightStep, Zenon

-----------------------------------------------------------------------------
(* Claiming positions                                                       *)

\* A successful compare-and-swap saw the head it replaces; in HTS mode also
\* its tail.
LEMMA HeadIsOld ==
  ASSUME RingInv, NEW t \in Thread, pc[t] = "cas", HeadUnchanged(t)
  PROVE  /\ loc[t].old = Me(t).head
         /\ Mode(t) = "HTS" => loc[t].old = Me(t).tail
<1> DEFINE x == Me(t).head
           y == loc[t].old
           z == Me(t).tail
<1>1. x \in Int /\ y \in Int /\ z \in Int /\ PosMod \in Nat /\ Capacity \in Nat
  BY TypeFacts, RingSizes DEF RingInv
<1>2. /\ y <= x /\ x + Capacity - y < PosMod /\ z <= x
      /\ Mode(t) = "ST" => y = x
      /\ Mode(t) = "HTS" => y <= z
  BY Spans, Zenon DEF RingInv, LoadedOK, Loaded
<1>3. Mode(t) \in {"ST", "MT", "RTS", "HTS"}
  BY SideFacts, RingModes, Zenon DEF Mode
<1>4. /\ Mode(t) # "ST" => U32(x) = U32(y)
      /\ Mode(t) = "HTS" => U32(z) = U32(y)
  BY <1>3, Zenon DEF HeadUnchanged
<1> HIDE DEF x, y, z
<1>5. x - y < PosMod /\ y - x < PosMod
  BY <1>1, <1>2
<1>6. y = x
  BY <1>1, <1>2, <1>4, <1>5, U32Equal, Zenon
<1>7. Mode(t) = "HTS" => z - y < PosMod /\ y - z < PosMod
  BY <1>1, <1>2, <1>5
<1>8. Mode(t) = "HTS" => y = z
  BY <1>1, <1>4, <1>7, U32Equal, Zenon
<1>9. QED
  BY <1>6, <1>8, Zenon DEF x, y, z

\* On a side in single-thread mode there is nobody else.
LEMMA SingleThread ==
  ASSUME NEW t \in Thread, NEW u \in Thread, SideOf(t) = SideOf(u),
         Mode(t) = "ST"
  PROVE  t = u
BY RingSingle, RingThreads, Zenon DEF Thread, SideOf, Mode
\* A successful move of the head claims positions nobody else owns.
LEMMA MoveHeadInv ==
  ASSUME RingInv, TypeOK', NEW t \in Thread, MoveHead(t)
  PROVE  RingInv'
<1> DEFINE s == SideOf(t)
           n == loc[t].n
           hd == Me(t).head
           c == IF Mode(t) = "RTS" THEN Me(t).hcnt + 1 ELSE Me(t).hcnt
<1>1. /\ pc[t] = "cas" /\ HeadUnchanged(t) /\ NotLapped(t)
      /\ ring' = ring /\ obj' = obj /\ ~ InFlight(t)
  BY Zenon DEF MoveHead, InFlight
<1>2. loc[t].old = hd /\ (Mode(t) = "HTS" => hd = Me(t).tail)
  BY <1>1, HeadIsOld, Zenon
<1>3. /\ ht' = [ht EXCEPT ![s] = [@ EXCEPT !.head = hd + n, !.hcnt = c]]
      /\ loc' = [loc EXCEPT ![t] = [@ EXCEPT !.old = hd, !.i = 0]]
      /\ pc' = [pc EXCEPT ![t] = AfterClaim(t)]
  BY <1>2, Zenon DEF MoveHead, Goto
<1>4. /\ hd \in Nat /\ n \in Nat /\ Me(t).tail \in Nat /\ Me(t).hcnt \in Nat
      /\ Me(t).tcnt \in Nat /\ Other(t).tail \in Nat /\ Cap(s) \in Nat
      /\ loc[t].entries \in Nat /\ Capacity \in Nat /\ PosMod \in Nat
  BY TypeFacts, SideFacts, RingSizes, Zenon DEF RingInv
<1>5. /\ n >= 1 /\ n <= loc[t].entries
      /\ hd + loc[t].entries <= Other(t).tail + Cap(s)
      /\ Mode(t) = "RTS" => hd - Me(t).tail <= HtdMax[s]
      /\ loc[t].k = 0
      /\ loc[t].peek => Serial(t)
  BY <1>1, <1>2, InvFacts, Zenon DEF LoadedOK, Loaded, ControlOK, InCall
<1>6. s \in Side /\ Opp(s) \in Side /\ Opp(s) # s
  BY SideFacts, Zenon
<1>7. /\ ht'[s].head = hd + n /\ ht'[s].tail = Me(t).tail
      /\ ht'[s].hcnt = c /\ ht'[s].tcnt = Me(t).tcnt
      /\ \A x \in Side : x # s => ht'[x] = ht[x]
      /\ \A x \in Side : ht'[x].tail = ht[x].tail
  BY <1>3, <1>6, Zenon DEF RingInv, TypeOK, HeadTail, Me
<1>8. /\ loc'[t].old = hd /\ loc'[t].i = 0 /\ loc'[t].n = n
      /\ loc'[t].k = loc[t].k /\ loc'[t].peek = loc[t].peek
      /\ pc'[t] = AfterClaim(t)
  BY <1>3, Zenon DEF RingInv, TypeOK, Local
<1>9. OthersSame(t)
  BY <1>1, <1>3, Zenon DEF OthersSame, RingInv, TypeOK
<1>10. InFlight(t)' /\ ~ Loaded(t)' /\ pc'[t] \notin {"updh", "updcas"}
  BY <1>8, Zenon DEF InFlight, AfterClaim, Loaded
<1>11. \A u \in Thread : u # t =>
         /\ InFlight(u)' = InFlight(u) /\ Loaded(u)' = Loaded(u)
         /\ loc'[u] = loc[u] /\ pc'[u] = pc[u]
  BY <1>9, Zenon DEF InFlight, Loaded, OthersSame
<1>12. \A u \in Thread :
         /\ Other(u)'.tail = Other(u).tail /\ Mode(u)' = Mode(u)
         /\ Me(u)'.tail = Me(u).tail /\ Me(u)'.tcnt = Me(u).tcnt
         /\ SideOf(u) # s => Me(u)' = Me(u)
         /\ SideOf(u) = s => /\ Me(u) = Me(t)
                             /\ Me(u)'.head = hd + n
                             /\ Me(u)'.hcnt = c
  BY <1>7, SideFacts, Zenon DEF Me, Other, Mode
<1>13. \A u \in Thread : InFlight(u) =>
         /\ Me(u).tail <= loc[u].old
         /\ loc[u].old + loc[u].n <= Me(u).head
         /\ loc[u].n >= 1
         /\ loc[u].old \in Nat /\ loc[u].n \in Nat
  BY TypeFacts, Zenon DEF RingInv, ClaimsUnpublished, ControlOK
<1>14. Serial(t) => hd = Me(t).tail /\ Flight(s) = {}
  <2>1. ASSUME Mode(t) = "ST" PROVE Flight(s) = {}
    <3>1. ASSUME NEW u \in Flight(s) PROVE FALSE
      <4>1. u \in Thread /\ SideOf(u) = s /\ InFlight(u)
        BY <1>6, <3>1, RingThreads, Zenon
           DEF Flight, Threads, Thread, SideOf, Side
      <4>2. u = t
        BY <2>1, <4>1, SingleThread, Zenon
      <4>3. QED
        BY <1>1, <4>1, <4>2, Zenon
    <3>2. QED
      BY <3>1, Zenon
  <2>2. ASSUME Mode(t) = "HTS", NEW u \in Flight(s) PROVE FALSE
    <3>1. u \in Thread /\ InFlight(u) /\ Me(u) = Me(t)
      BY <1>6, <2>2, RingThreads, Zenon
         DEF Flight, Threads, Thread, SideOf, Me, Side
    <3>2. QED
      BY <1>2, <1>4, <1>13, <2>2, <3>1
  <2>3. Mode(t) = "ST" => hd = Me(t).tail
    BY <1>6, <2>1, Zenon DEF RingInv, SerialIdle, Mode, Me
  <2>4. QED
    BY <1>2, <2>1, <2>2, <2>3, Zenon DEF Serial
<1> HIDE DEF s, n, hd, c
<1>15. HeadsInOrder'
  <2>1. hd + n <= Other(t).tail + Cap(s)
    BY <1>4, <1>5
  <2>2. Me(t).tail <= hd + n
    <3>1. Me(t).tail <= hd
      BY Spans, Zenon DEF RingInv, hd
    <3>2. QED
      BY <1>4, <3>1
  <2>3. Other(t) = ht[Opp(s)]
    BY Zenon DEF Other, s
  <2>4. ASSUME NEW x \in Side
        PROVE /\ ht'[x].tail <= ht'[x].head
              /\ ht'[x].head <= ht'[Opp(x)].tail + Cap(x)
    <3>1. Opp(x) \in Side
      BY Zenon DEF Opp, Side
    <3>2. CASE x = s
      BY <1>6, <1>7, <2>1, <2>2, <2>3, <3>2, Zenon
    <3>3. CASE x # s
      BY <1>7, <3>1, <3>3, Zenon DEF RingInv, HeadsInOrder
    <3>4. QED
      BY <3>2, <3>3, Zenon
  <2>5. QED
    BY <2>4, Zenon DEF HeadsInOrder
<1>16. ClaimsUnpublished'
  <2>1. ASSUME NEW u \in Thread, InFlight(u)'
        PROVE /\ Me(u)'.tail <= loc'[u].old
              /\ loc'[u].old + loc'[u].n <= Me(u)'.head
    <3>1. CASE u = t
      <4>1. Me(t).tail <= hd
        BY Spans, Zenon DEF RingInv, hd
      <4>2. QED
        BY <1>4, <1>8, <1>12, <3>1, <4>1 DEF s
    <3>2. CASE u # t
      <4>1. InFlight(u) /\ loc'[u] = loc[u]
        BY <1>11, <2>1, <3>2, Zenon
      <4>2. SideOf(u) = s => Me(u).head = hd
        BY <1>12, Zenon DEF hd
      <4>3. QED
        BY <1>4, <1>12, <1>13, <4>1, <4>2
    <3>3. QED
      BY <3>1, <3>2, Zenon
  <2>2. QED
    BY <2>1, Zenon DEF ClaimsUnpublished
<1>17. ClaimsDisjoint'
  <2>1. ASSUME NEW u \in Thread, u # t, SideOf(u) = s, InFlight(u)
        PROVE loc[u].old + loc[u].n <= hd
    BY <1>12, <1>13, <2>1, Zenon DEF hd
  <2>2. ASSUME NEW u \in Thread, NEW v \in Thread, u # v,
               SideOf(u) = SideOf(v), InFlight(u)', InFlight(v)'
        PROVE \/ loc'[u].old + loc'[u].n <= loc'[v].old
              \/ loc'[v].old + loc'[v].n <= loc'[u].old
    <3>1. CASE u = t
      BY <1>8, <1>11, <2>1, <2>2, <3>1, Zenon DEF s
    <3>2. CASE v = t
      BY <1>8, <1>11, <2>1, <2>2, <3>2, Zenon DEF s
    <3>3. CASE u # t /\ v # t
      BY <1>11, <2>2, <3>3, Zenon DEF RingInv, ClaimsDisjoint
    <3>4. QED
      BY <3>1, <3>2, <3>3, Zenon
  <2>3. QED
    BY <2>2, Zenon DEF ClaimsDisjoint
<1>18. ASSUME NEW u \in Thread PROVE LoadedOK(u)'
  <2>1. CASE u = t
    BY <1>10, <2>1, Zenon DEF LoadedOK
  <2>2. CASE u # t /\ SideOf(u) # s
    BY <1>11, <1>12, <2>2, Zenon DEF RingInv, LoadedOK, Loaded
  <2>3. CASE u # t /\ SideOf(u) = s
    <3>1. Mode(u) # "ST"
      BY <2>3, SingleThread, Zenon DEF s
    <3>2. ASSUME Loaded(u)
          PROVE loc[u].old <= hd + n /\ hd + n + Capacity - loc[u].old < PosMod
      <4>1. u \in Peers(t)
        BY <2>3, SideFacts, Zenon DEF s
      <4>2. hd + n + Capacity - loc[u].old < PosMod
        BY <1>1, <3>2, <4>1, Zenon DEF NotLapped, hd, n
      <4>3. loc[u].old <= hd
        BY <1>12, <2>3, <3>2, Zenon DEF RingInv, LoadedOK, hd
      <4>4. loc[u].old \in Nat
        BY TypeFacts, Zenon DEF RingInv
      <4>5. QED
        BY <1>4, <4>2, <4>3, <4>4
    <3>3. LoadedOK(u)
      BY Zenon DEF RingInv
    <3>4. QED
      BY <1>11, <1>12, <2>3, <3>1, <3>2, <3>3, Zenon DEF LoadedOK
  <2>4. QED
    BY <2>1, <2>2, <2>3, Zenon
<1>19. ASSUME NEW u \in Thread PROVE ControlOK(u)'
  <2>1. CASE u = t
    <3>1. Serial(t)' = Serial(t)
      BY Zenon DEF Serial, Mode
    <3>2. AfterClaim(t) = "held" \/ AfterClaim(t) = "copy"
      BY Zenon DEF AfterClaim
    <3>3. AfterClaim(t) = "held" => loc[t].peek /\ t \in Producers
      BY Zenon DEF AfterClaim
    <3>4. AfterClaim(t) = "copy" => ~ (loc[t].peek /\ t \in Producers)
      BY Zenon DEF AfterClaim
    <3>5. ToCopy(t)' = IF loc[t].peek /\ t \in Producers THEN 0 ELSE n
      BY <1>5, <1>8, Zenon DEF ToCopy
    <3>6. QED
      BY <1>4, <1>5, <1>8, <1>10, <2>1, <3>1, <3>2, <3>3, <3>4, <3>5
         DEF ControlOK
  <2>2. CASE u # t
    BY <1>11, <1>12, <2>2, Zenon
       DEF RingInv, ControlOK, InCall, ToCopy, Serial
  <2>3. QED
    BY <2>1, <2>2, ZenonT(60)
<1>20. ASSUME NEW u \in Thread PROVE SerialOK(u)'
  <2>1. CASE u = t
    BY <1>8, <1>12, <1>14, <2>1, Zenon DEF SerialOK, Serial, s
  <2>2. CASE u # t /\ SideOf(u) # s
    BY <1>11, <1>12, <2>2, Zenon DEF RingInv, SerialOK, Serial
  <2>3. CASE u # t /\ SideOf(u) = s
    <3>1. ASSUME Serial(u), InFlight(u) PROVE FALSE
      <4>1. Serial(t)
        BY <2>3, <3>1, Zenon DEF Serial, Mode, s
      <4>2. u \in Flight(s)
        BY <2>3, <3>1, SideFacts, Zenon DEF Flight, Peers
      <4>3. QED
        BY <1>14, <4>1, <4>2, Zenon
    <3>2. QED
      BY <1>11, <1>12, <2>3, <3>1, Zenon DEF SerialOK, Serial
  <2>4. QED
    BY <2>1, <2>2, <2>3, Zenon
<1>21. /\ Flight(s)' = Flight(s) \union {t} /\ t \notin Flight(s)
       /\ \A x \in Side : x # s => Flight(x)' = Flight(x)
  <2>1. \A x \in Side : \A u \in Threads(x) : u \in Thread /\ SideOf(u) = x
    BY RingThreads, Zenon DEF Side, Threads, Thread, SideOf
  <2>2. t \in Threads(s)
    BY Zenon DEF Threads, Thread, SideOf, s
  <2>3. QED
    BY <1>1, <1>6, <1>10, <1>11, <2>1, <2>2, Zenon DEF Flight
<1>22. SerialIdle'
  BY <1>7, <1>21, Zenon DEF RingInv, SerialIdle
<1>23. RtsCount'
  <2>1. ASSUME NEW x \in Side, Sync[x] = "RTS"
        PROVE ht'[x].hcnt = ht'[x].tcnt + Cardinality(Flight(x)')
    <3>1. CASE x # s
      BY <1>7, <1>21, <2>1, <3>1, Zenon DEF RingInv, RtsCount
    <3>2. CASE x = s
      <4>1. IsFiniteSet(Flight(s)) /\ Cardinality(Flight(s)) \in Nat
        BY <1>6, FlightFinite, Zenon
      <4>2. Cardinality(Flight(s) \union {t}) = Cardinality(Flight(s)) + 1
        BY <1>21, <4>1, FS_AddElement, Zenon
      <4>3. c = Me(t).hcnt + 1
        BY <2>1, <3>2, Zenon DEF c, Mode, s
      <4>4. Me(t).hcnt = Me(t).tcnt + Cardinality(Flight(s))
        BY <1>6, <2>1, <3>2, Zenon DEF RingInv, RtsCount, Me, s
      <4>5. Cardinality(Flight(x)') = Cardinality(Flight(s)) + 1
        BY <1>21, <3>2, <4>2, Zenon
      <4>6. QED
        BY <1>4, <1>7, <3>2, <4>1, <4>3, <4>4, <4>5
    <3>3. QED
      BY <3>1, <3>2, Zenon
  <2>2. QED
    BY <2>1, Zenon DEF RtsCount
<1>24. ASSUME NEW u \in Thread PROVE RtsTailOK(u)' /\ RtsHeadOK(u)'
  <2>1. CASE u = t
    BY <1>10, <2>1, Zenon DEF RtsTailOK, RtsHeadOK
  <2>2. CASE u # t /\ SideOf(u) # s
    <3>1. RtsTailOK(u)'
      BY <1>11, <1>12, <2>2, Zenon DEF RingInv, RtsTailOK
    <3>2. Peers(u) \subseteq Thread /\ t \notin Peers(u)
      BY <2>2, SideFacts, Zenon DEF s
    <3>3. RtsHeadOK(u)'
      BY <1>11, <1>12, <2>2, <3>2, Zenon DEF RingInv, RtsHeadOK
    <3>4. QED
      BY <3>1, <3>3, Zenon
  <2>3. CASE u # t /\ SideOf(u) = s
    <3>0. /\ loc[u].otc \in Nat /\ loc[u].hc \in Nat /\ loc[u].h \in Nat
          /\ u \in Peers(t) /\ Peers(u) \subseteq Thread
      BY <2>3, TypeFacts, SideFacts, Zenon DEF RingInv, s
    <3>1. ASSUME pc[u] \in {"updh", "updcas"}
          PROVE c - loc[u].otc < PosMod
      <4>1. Me(t).hcnt + 1 - loc[u].otc < PosMod
        BY <1>1, <3>0, <3>1, Zenon DEF NotLapped
      <4>2. QED
        BY <1>4, <3>0, <4>1 DEF c
    <3>2. RtsTailOK(u)'
      BY <1>11, <1>12, <2>3, <3>1, Zenon DEF RingInv, RtsTailOK
    <3>3. RtsHeadOK(u)'
      <4>1. RtsHeadOK(u) /\ Me(u).hcnt = Me(t).hcnt /\ Me(u).head = hd
        BY <1>12, <2>3, Zenon DEF RingInv, hd
      <4>2. c >= Me(t).hcnt
        BY <1>4 DEF c
      <4>3. ASSUME pc[u] = "updcas", loc[u].otc = Me(u).tcnt,
                   loc[u].otc + 1 = loc[u].hc, NEW v \in Peers(u) \ {u},
                   InFlight(v)'
            PROVE loc[u].h <= loc'[v].old
        <5>1. CASE v = t
          BY <1>8, <4>1, <4>3, <5>1, Zenon DEF RtsHeadOK
        <5>2. CASE v # t
          BY <1>11, <3>0, <4>1, <4>3, <5>2, Zenon DEF RtsHeadOK
        <5>3. QED
          BY <5>1, <5>2, Zenon
      <4>4. loc[u].h <= hd => loc[u].h <= hd + n
        BY <1>4, <3>0
      <4>5. loc[u].hc <= Me(t).hcnt => loc[u].hc <= c
        BY <1>4, <3>0, <4>2 DEF c
      <4>6. QED
        BY <1>11, <1>12, <2>3, <4>1, <4>3, <4>4, <4>5, Zenon DEF RtsHeadOK
    <3>4. QED
      BY <3>2, <3>3, Zenon
  <2>4. QED
    BY <2>1, <2>2, <2>3, Zenon
<1>25. ASSUME NEW u \in Thread PROVE ObjOK(u)'
  <2>1. CASE u = t
    BY <1>1, <1>8, <2>1, NothingCopied DEF ObjOK
  <2>2. CASE u # t
    BY <1>1, <1>11, <2>2, Zenon DEF RingInv, ObjOK
  <2>3. QED
    BY <2>1, <2>2, Zenon
<1>26. RtsDistance'
  BY <1>5, <1>8, <1>11, <1>12, Zenon DEF RingInv, RtsDistance, s
<1>27. DataInv'
  <2>1. ASSUME NEW p, Unwritten(p) PROVE Unwritten(p)'
    BY <1>1, <1>11, <2>1, Zenon DEF Unwritten, Thread
  <2>2. ht'["cons"].tail = ht["cons"].tail /\ "cons" \in Side /\ "prod" \in Side
    BY <1>7, Zenon DEF Side
  <2>3. ASSUME NEW p \in ht'["cons"].tail .. (ht'["prod"].head - 1)
        PROVE ring'[Slot(p)] = p \/ Unwritten(p)'
    <3>0. /\ ht["cons"].tail \in Nat /\ ht["prod"].head \in Nat
          /\ ht'["prod"].head \in Nat
      BY <2>2, Zenon DEF RingInv, TypeOK, HeadTail
    <3>1. CASE p < ht["prod"].head
      <4>1. p \in ht["cons"].tail .. (ht["prod"].head - 1)
        BY <2>2, <2>3, <3>0, <3>1
      <4>2. QED
        BY <1>1, <2>1, <4>1, Zenon DEF RingInv, DataInv
    <3>2. CASE p >= ht["prod"].head
      <4>1. t \in Producers
        <5>1. SUFFICES ASSUME s # "prod" PROVE FALSE
          BY Zenon DEF s, SideOf
        <5>2. ht'["prod"] = ht["prod"]
          BY <1>7, <2>2, <5>1, Zenon
        <5>3. QED
          BY <2>2, <2>3, <3>0, <3>2, <5>2
      <4>2. s = "prod" /\ hd = ht["prod"].head
        BY <4>1, Zenon DEF s, SideOf, hd, Me
      <4>3. hd + 0 <= p /\ p < hd + n
        BY <1>4, <1>7, <2>2, <2>3, <3>0, <3>2, <4>2
      <4>4. QED
        BY <1>8, <1>10, <4>1, <4>3, Zenon DEF Unwritten
    <3>3. QED
      BY <2>2, <2>3, <3>0, <3>1, <3>2
  <2>4. QED
    BY <2>3, Zenon DEF DataInv
<1>28. QED
  BY <1>15, <1>16, <1>17, <1>18, <1>19, <1>20, <1>22, <1>23, <1>24, <1>25,
     <1>26, <1>27, Zenon
     DEF RingInv
-----------------------------------------------------------------------------
(* Copying                                                                  *)

\* A claimed position lies between the consumer tail and the producer head.
LEMMA ClaimRange ==
  ASSUME RingInv, NEW t \in Thread, InFlight(t), NEW p \in Int,
         loc[t].old <= p, p < loc[t].old + loc[t].n
  PROVE  /\ p \in ht["cons"].tail .. (ht["prod"].head - 1)
         /\ t \in Consumers => p < ht["prod"].tail
<1>1. /\ ht["prod"].head \in Nat /\ ht["prod"].tail \in Nat
      /\ ht["cons"].head \in Nat /\ ht["cons"].tail \in Nat
      /\ loc[t].old \in Nat /\ loc[t].n \in Nat
  <2>1. ht["prod"] \in HeadTail /\ ht["cons"] \in HeadTail
    BY Zenon DEF RingInv, TypeOK, Side
  <2>2. QED
    BY <2>1, TypeFacts, Zenon DEF HeadTail, RingInv
<1>2. /\ ht["prod"].tail <= ht["prod"].head
      /\ ht["cons"].tail <= ht["cons"].head
      /\ ht["cons"].head <= ht["prod"].tail + 0
  BY Zenon DEF RingInv, HeadsInOrder, Side, Opp, Cap
<1>3. Me(t).tail <= loc[t].old /\ loc[t].old + loc[t].n <= Me(t).head
  BY Zenon DEF RingInv, ClaimsUnpublished
<1>4. CASE t \in Producers
  <2>1. Me(t) = ht["prod"] /\ t \notin Consumers
    BY <1>4, RingThreads, Zenon DEF Me, SideOf
  <2>2. QED
    BY <1>1, <1>2, <1>3, <2>1
<1>5. CASE t \notin Producers
  <2>1. Me(t) = ht["cons"]
    BY <1>5, Zenon DEF Me, SideOf
  <2>2. QED
    BY <1>1, <1>2, <1>3, <2>1
<1>6. QED
  BY <1>4, <1>5, Zenon

\* Positions in the ring have slots of their own.
LEMMA SlotsApart ==
  ASSUME RingInv, NEW p \in ht["cons"].tail .. (ht["prod"].head - 1),
         NEW q \in ht["cons"].tail .. (ht["prod"].head - 1), p # q
  PROVE  Slot(p) # Slot(q)
<1>1. ht["prod"].head \in Nat /\ ht["cons"].tail \in Nat
  BY Zenon DEF RingInv, TypeOK, Side, HeadTail
<1>2. ht["prod"].head <= ht["cons"].tail + Capacity
  BY Zenon DEF RingInv, HeadsInOrder, Side, Opp, Cap
<1>3. p \in Int /\ q \in Int /\ p - q < Size /\ q - p < Size
  BY <1>1, <1>2, CapacityFits, RingSizes
<1>4. QED
  BY <1>3, SlotInjective, Zenon

\* One element is copied into or out of its slot.
LEMMA CopyElemInv ==
  ASSUME RingInv, TypeOK', NEW t \in Thread, CopyElem(t)
  PROVE  RingInv'
<1> DEFINE p == loc[t].old + loc[t].i
           last == loc[t].i + 1 = ToCopy(t)
<1>1. /\ pc[t] = "copy" /\ ht' = ht /\ InFlight(t)
      /\ loc' = [loc EXCEPT ![t] = [@ EXCEPT !.i = loc[t].i + 1]]
      /\ pc' = [pc EXCEPT ![t] = IF ~ last THEN "copy"
                                 ELSE IF ~ loc[t].peek THEN "upd"
                                 ELSE IF t \in Producers THEN "set" ELSE "held"]
  BY Zenon DEF CopyElem, Goto, InFlight
<1>2. /\ loc[t].old \in Nat /\ loc[t].n \in Nat /\ loc[t].i \in Nat
      /\ loc[t].k \in Nat /\ p \in Int
  BY TypeFacts DEF RingInv
<1>3. /\ loc[t].i < ToCopy(t) /\ loc[t].k <= loc[t].n /\ loc[t].n >= 1
      /\ loc[t].peek => Serial(t)
  BY <1>1, InvFacts, Zenon DEF ControlOK, InCall
<1>4. ToCopy(t) \in Nat /\ ToCopy(t) <= loc[t].n
  BY <1>2, <1>3 DEF ToCopy
<1>5. /\ loc'[t].i = loc[t].i + 1 /\ loc'[t].old = loc[t].old
      /\ loc'[t].n = loc[t].n /\ loc'[t].k = loc[t].k
      /\ loc'[t].peek = loc[t].peek
      /\ pc'[t] = IF ~ last THEN "copy"
                  ELSE IF ~ loc[t].peek THEN "upd"
                  ELSE IF t \in Producers THEN "set" ELSE "held"
  <2> HIDE DEF last
  <2>1. QED
    BY <1>1, Zenon DEF RingInv, TypeOK, Local
<1>6. ToCopy(t)' = ToCopy(t) /\ Serial(t)' = Serial(t)
  BY <1>5, Zenon DEF ToCopy, Serial, Mode
<1>7. InFlight(t)' /\ RtsTailOK(t)' /\ RtsHeadOK(t)'
  BY <1>5, Zenon DEF InFlight, RtsTailOK, RtsHeadOK
<1>8. ControlOK(t)'
  <2>1. loc[t].i + 1 <= ToCopy(t)
    BY <1>2, <1>3, <1>4
  <2>2. ~ last => loc[t].i + 1 < ToCopy(t)
    BY <1>2, <1>4, <2>1
  <2>3. loc[t].i + 1 <= loc[t].n
    BY <1>2, <1>4, <2>1
  <2>4. last /\ ~ (loc[t].peek /\ t \in Producers) => loc[t].i + 1 = loc[t].n
    BY Zenon DEF ToCopy
  <2>5. last /\ loc[t].peek /\ t \in Producers => loc[t].i + 1 = loc[t].k
    BY Zenon DEF ToCopy
  <2> HIDE DEF last
  <2>6. QED
    BY <1>3, <1>5, <1>6, <1>7, <2>2, <2>3, <2>4, <2>5, Zenon DEF ControlOK
<1>9. OthersSame(t)
  BY <1>1, Zenon DEF CopyElem, OthersSame, RingInv, TypeOK
<1>10. p \in ht["cons"].tail .. (ht["prod"].head - 1)
       /\ (t \in Consumers => p < ht["prod"].tail)
  <2>1. loc[t].old <= p /\ p < loc[t].old + loc[t].n
    BY <1>2, <1>3, <1>4
  <2> HIDE DEF p
  <2>2. QED
    BY <1>1, <1>2, <2>1, ClaimRange, Zenon
<1>11. CASE t \in Producers
  <2>1. ring' = [ring EXCEPT ![Slot(p)] = p] /\ obj' = obj /\ t \notin Consumers
    BY <1>11, RingThreads, Zenon DEF CopyElem
  <2>2. ObjOK(t)'
    BY <2>1 DEF RingInv, ObjOK
  <2>3. DataInv'
    <3>1. ASSUME NEW q \in ht["cons"].tail .. (ht["prod"].head - 1)
          PROVE ring'[Slot(q)] = q \/ Unwritten(q)'
      <4>0. /\ p \in Int /\ q \in Int
            /\ Slot(p) \in 0 .. (Size - 1) /\ Slot(q) \in 0 .. (Size - 1)
        <5>1. q \in Int
          BY <3>1 DEF RingInv, TypeOK, Side, HeadTail
        <5>2. QED
          BY <1>2, <5>1, SlotOf, Zenon
      <4>1. CASE q = p
        BY <2>1, <4>0, <4>1, Zenon DEF RingInv, TypeOK
      <4>2. CASE q # p
        <5>1. Slot(q) # Slot(p)
          BY <1>10, <4>2, SlotsApart, Zenon
        <5>2. ring'[Slot(q)] = ring[Slot(q)]
          BY <2>1, <4>0, <5>1, Zenon DEF RingInv, TypeOK
        <5>3. ASSUME Unwritten(q) PROVE Unwritten(q)'
          <6>1. PICK u \in Producers : /\ InFlight(u)
                                       /\ loc[u].old + loc[u].i <= q
                                       /\ q < loc[u].old + loc[u].n
            BY <5>3, Zenon DEF Unwritten
          <6>2. CASE u = t
            <7>1. loc'[t].old + loc'[t].i <= q
              BY <1>2, <1>5, <4>0, <4>2, <6>1, <6>2
            <7>2. QED
              BY <1>5, <1>7, <6>1, <6>2, <7>1, Zenon DEF Unwritten
          <6>3. CASE u # t
            BY <1>9, <6>1, <6>3, Zenon
               DEF Unwritten, OthersSame, InFlight, Thread
          <6>4. QED
            BY <6>2, <6>3, Zenon
        <5>4. QED
          BY <5>2, <5>3, Zenon DEF RingInv, DataInv
      <4>3. QED
        BY <4>1, <4>2, Zenon
    <3>2. QED
      BY <1>1, <3>1, Zenon DEF DataInv
  <2>4. QED
    BY <1>1, <1>5, <1>7, <1>8, <1>9, <2>2, <2>3, ClaimStep, Zenon
<1>12. CASE t \notin Producers
  <2>1. t \in Consumers
    BY <1>12, Zenon DEF Thread
  <2>2. ring' = ring /\ obj' = [obj EXCEPT ![t] = Append(@, ring[Slot(p)])]
    BY <1>12, <2>1, Zenon DEF CopyElem
  <2>3. ring[Slot(p)] = p
    <3>1. ~ Unwritten(p)
      <4>1. SUFFICES ASSUME NEW u \in Producers, InFlight(u),
                            loc[u].old + loc[u].i <= p
                     PROVE FALSE
        BY Zenon DEF Unwritten
      <4>2. u \in Thread /\ Me(u) = ht["prod"]
        BY Zenon DEF Thread, Me, SideOf
      <4>3. ht["prod"].tail <= loc[u].old
        BY <4>1, <4>2, Zenon DEF RingInv, ClaimsUnpublished
      <4>4. /\ loc[u].old \in Nat /\ loc[u].i \in Nat
            /\ ht["prod"].tail \in Nat
        BY <4>2, TypeFacts, Zenon DEF RingInv
      <4>5. QED
        BY <1>2, <1>10, <2>1, <4>1, <4>3, <4>4
    <3>2. QED
      BY <1>10, <3>1, Zenon DEF RingInv, DataInv
  <2> HIDE DEF p
  <2>4. obj[t] \in Seq(Int) /\ obj'[t] = Append(obj[t], p)
    BY <2>2, <2>3, Zenon DEF RingInv, TypeOK
  <2>5. /\ Len(obj[t]) = loc[t].i
        /\ \A j \in 1 .. Len(obj[t]) : obj[t][j] = loc[t].old + j - 1
    BY <1>1, <2>1, Zenon DEF RingInv, ObjOK
  <2>6. ObjOK(t)'
    <3>1. Len(obj'[t]) = loc[t].i + 1
      BY <1>2, <2>4, <2>5
    <3>2. ASSUME NEW j \in 1 .. Len(obj'[t])
          PROVE obj'[t][j] = loc[t].old + j - 1
      <4>1. CASE j <= Len(obj[t])
        BY <1>2, <2>4, <2>5, <3>1, <3>2, <4>1
      <4>2. CASE j = Len(obj[t]) + 1
        <5>1. obj'[t][j] = p
          BY <1>2, <2>4, <4>2
        <5>2. QED
          BY <1>2, <2>5, <4>2, <5>1 DEF p
      <4>3. QED
        BY <1>2, <2>5, <3>1, <3>2, <4>1, <4>2
    <3>3. QED
      BY <1>5, <1>7, <2>1, <3>1, <3>2, Zenon DEF ObjOK
  <2>7. DataInv'
    <3>1. ASSUME NEW q, Unwritten(q) PROVE Unwritten(q)'
      BY <1>9, <1>12, <3>1, Zenon DEF Unwritten, OthersSame, InFlight, Thread
    <3>2. QED
      BY <1>1, <2>2, <3>1, Zenon DEF RingInv, DataInv
  <2>8. QED
    BY <1>1, <1>5, <1>7, <1>8, <1>9, <2>6, <2>7, ClaimStep, Zenon
<1>13. QED
  BY <1>11, <1>12, Zenon


-----------------------------------------------------------------------------
(* Publishing                                                               *)

\* In the serialised modes at most one call of a side owns positions.
LEMMA SerialAlone ==
  ASSUME RingInv, NEW t \in Thread, NEW u \in Thread, SideOf(t) = SideOf(u),
         Serial(t), InFlight(t), InFlight(u)
  PROVE  t = u
<1>1. Serial(u) /\ Me(u) = Me(t)
  BY Zenon DEF Serial, Mode, Me
<1>2. loc[t].old = loc[u].old
  BY <1>1, Zenon DEF RingInv, SerialOK
<1>3. loc[t].n >= 1 /\ loc[u].n >= 1
  BY Zenon DEF RingInv, ControlOK
<1>4. /\ loc[t].old \in Nat /\ loc[t].n \in Nat
      /\ loc[u].old \in Nat /\ loc[u].n \in Nat
  BY TypeFacts, Zenon DEF RingInv
<1>5. SUFFICES ASSUME t # u PROVE FALSE
  BY Zenon
<1>6. \/ loc[t].old + loc[t].n <= loc[u].old
      \/ loc[u].old + loc[u].n <= loc[t].old
  BY <1>5, Zenon DEF RingInv, ClaimsDisjoint
<1>7. QED
  BY <1>2, <1>3, <1>4, <1>6

\* A call that ends by moving its side's tail to T and its head to H
\* preserves the invariant if T passes no unfinished claim.
LEMMA ReleaseStep ==
  ASSUME RingInv, TypeOK', NEW t \in Thread, InFlight(t), Return(t),
         ring' = ring, NEW T \in Nat, NEW H \in Nat,
         ht'[SideOf(t)].tail = T, ht'[SideOf(t)].head = H,
         ht'[SideOf(t)].hcnt = Me(t).hcnt,
         \A x \in Side : x # SideOf(t) => ht'[x] = ht[x],
         Me(t).tail <= T, T <= H, H <= Me(t).head,
         Serial(t) => T = H, ~ Serial(t) => H = Me(t).head,
         \A u \in Peers(t) \ {t} : InFlight(u) => T <= loc[u].old,
         Mode(t) = "RTS" => ht'[SideOf(t)].tcnt = Me(t).tcnt + 1,
         t \in Producers => H <= loc[t].old + loc[t].i \/ loc[t].n <= loc[t].i
  PROVE  RingInv'
<1> DEFINE s == SideOf(t)
<1>1. pc'[t] = "idle" /\ loc'[t] = NoLocal /\ obj'[t] = <<>>
  BY Zenon DEF Return, Goto, RingInv, TypeOK
<1>2. OthersSame(t)
  BY Zenon DEF Return, Goto, OthersSame, RingInv, TypeOK
<1>3. ~ InFlight(t)' /\ ~ Loaded(t)'
  BY <1>1, Zenon DEF InFlight, Loaded
<1>4. \A u \in Thread : u # t =>
         /\ InFlight(u)' = InFlight(u) /\ Loaded(u)' = Loaded(u)
         /\ loc'[u] = loc[u] /\ pc'[u] = pc[u] /\ obj'[u] = obj[u]
  BY <1>2, Zenon DEF InFlight, Loaded, OthersSame
<1>5. s \in Side /\ Opp(s) \in Side /\ Opp(s) # s
  BY SideFacts, Zenon
<1>6. /\ Me(t).head \in Nat /\ Me(t).tail \in Nat /\ Me(t).hcnt \in Nat
      /\ Me(t).tcnt \in Nat /\ loc[t].old \in Nat /\ loc[t].n \in Nat
      /\ loc[t].i \in Nat
  BY TypeFacts, Zenon DEF RingInv
<1>7. \A u \in Thread :
         /\ Mode(u)' = Mode(u)
         /\ SideOf(u) # s => /\ Me(u)' = Me(u)
                             /\ Other(u) = Me(t) /\ Other(u)'.tail = T
         /\ SideOf(u) = s => /\ Me(u) = Me(t) /\ Other(u)' = Other(u)
                             /\ Me(u)'.head = H /\ Me(u)'.tail = T
                             /\ Me(u)'.hcnt = Me(t).hcnt
  BY <1>5, SideFacts DEF Me, Other, Mode, Opp, Side
<1>8. ASSUME NEW u \in Thread, u # t, SideOf(u) = s, InFlight(u)
      PROVE  ~ Serial(t) /\ H = Me(t).head /\ T <= loc[u].old
  <2>1. ~ Serial(t)
    BY <1>8, SerialAlone, Zenon
  <2>2. u \in Peers(t) \ {t}
    BY <1>8, SideFacts, Zenon
  <2>3. QED
    BY <1>8, <2>1, <2>2, Zenon
<1>9. HeadsInOrder'
  <2>1. ASSUME NEW x \in Side
        PROVE /\ ht'[x].tail <= ht'[x].head
              /\ ht'[x].head <= ht'[Opp(x)].tail + Cap(x)
    <3>1. /\ Opp(x) \in Side /\ Cap(x) \in Nat
          /\ ht[Opp(x)].tail \in Nat /\ ht[x].head \in Nat
          /\ ht[x].tail <= ht[x].head
          /\ ht[x].head <= ht[Opp(x)].tail + Cap(x)
      BY RingSizes, Zenon
         DEF Opp, Side, Cap, RingInv, TypeOK, HeadTail, HeadsInOrder
    <3>2. CASE x = s
      <4>1. ht'[Opp(x)] = ht[Opp(x)] /\ ht[x] = Me(t)
        BY <1>5, <3>2, Zenon DEF Me
      <4>2. QED
        BY <1>6, <3>1, <3>2, <4>1
    <3>3. CASE x # s
      <4>1. ht'[x] = ht[x] /\ Opp(x) = s /\ ht[s] = Me(t)
        BY <1>5, <3>3 DEF Me, Opp, Side
      <4>2. QED
        BY <1>6, <3>1, <4>1
    <3>4. QED
      BY <3>2, <3>3, Zenon
  <2>2. QED
    BY <2>1, Zenon DEF HeadsInOrder
<1>10. ClaimsUnpublished'
  <2>1. ASSUME NEW u \in Thread, InFlight(u)'
        PROVE /\ Me(u)'.tail <= loc'[u].old
              /\ loc'[u].old + loc'[u].n <= Me(u)'.head
    <3>1. u # t /\ InFlight(u) /\ loc'[u] = loc[u]
      BY <1>3, <1>4, <2>1, Zenon
    <3>2. /\ Me(u).tail <= loc[u].old
          /\ loc[u].old + loc[u].n <= Me(u).head
      BY <3>1, Zenon DEF RingInv, ClaimsUnpublished
    <3>3. QED
      BY <1>7, <1>8, <3>1, <3>2, Zenon
  <2>2. QED
    BY <2>1, Zenon DEF ClaimsUnpublished
<1>11. ClaimsDisjoint'
  <2>1. ASSUME NEW u \in Thread, NEW v \in Thread, u # v,
               SideOf(u) = SideOf(v), InFlight(u)', InFlight(v)'
        PROVE \/ loc'[u].old + loc'[u].n <= loc'[v].old
              \/ loc'[v].old + loc'[v].n <= loc'[u].old
    BY <1>3, <1>4, <2>1, Zenon DEF RingInv, ClaimsDisjoint
  <2>2. QED
    BY <2>1, Zenon DEF ClaimsDisjoint
<1>12. ASSUME NEW u \in Thread PROVE LoadedOK(u)'
  <2>0. /\ LoadedOK(u) /\ loc[u].old \in Nat /\ loc[u].entries \in Nat
        /\ Cap(SideOf(u)) \in Nat /\ HtdMax[SideOf(u)] \in Nat
    BY TypeFacts, SideFacts, RingModes, Zenon DEF RingInv
  <2>1. CASE u = t
    BY <1>3, <2>1, Zenon DEF LoadedOK
  <2>2. CASE u # t /\ SideOf(u) # s
    <3>1. Me(u)' = Me(u) /\ Other(u)'.tail >= Other(u).tail
          /\ Other(u).tail \in Nat /\ Other(u)'.tail \in Nat
      BY <1>6, <1>7, <2>2, Zenon
    <3>2. loc[u].old + loc[u].entries <= Other(u).tail + Cap(SideOf(u)) =>
            loc[u].old + loc[u].entries <= Other(u)'.tail + Cap(SideOf(u))
      BY <2>0, <3>1, SMTT(30)
    <3>3. QED
      BY <1>4, <1>7, <2>0, <2>2, <3>1, <3>2, Zenon DEF LoadedOK
  <2>3. CASE u # t /\ SideOf(u) = s
    <3>1. Mode(u) # "ST" /\ Mode(u) = Mode(t)
      BY <2>3, SingleThread, Zenon DEF Mode
    <3>2. ASSUME Loaded(u)
          PROVE /\ loc[u].old <= H /\ H + Capacity - loc[u].old < PosMod
                /\ Mode(u) = "HTS" => loc[u].old <= T
                /\ loc[u].old - Me(t).tail <= HtdMax[s] =>
                     loc[u].old - T <= HtdMax[s]
      <4>1. /\ loc[u].old <= Me(t).head
            /\ Me(t).head + Capacity - loc[u].old < PosMod
            /\ Mode(u) = "HTS" => loc[u].old <= Me(t).tail
        BY <1>7, <2>0, <2>3, <3>2, ZenonT(60) DEF LoadedOK
      <4>2. Mode(u) = "HTS" => loc[u].old <= T
        BY <1>6, <2>0, <4>1
      <4>3. loc[u].old <= H
        <5>1. CASE Serial(t)
          <6>1. Mode(u) = "HTS"
            BY <3>1, <5>1, Zenon DEF Serial
          <6>2. QED
            BY <2>0, <4>2, <5>1, <6>1, Zenon
        <5>2. CASE ~ Serial(t)
          BY <4>1, <5>2, Zenon
        <5>3. QED
          BY <5>1, <5>2, Zenon
      <4>4. H + Capacity - loc[u].old < PosMod
        BY <1>6, <2>0, <4>1, RingSizes
      <4>5. loc[u].old - Me(t).tail <= HtdMax[s] => loc[u].old - T <= HtdMax[s]
        BY <1>6, <2>0, <2>3
      <4>6. QED
        BY <4>2, <4>3, <4>4, <4>5, Zenon
    <3>3. QED
      BY <1>4, <1>7, <2>0, <2>3, <3>1, <3>2 DEF LoadedOK
  <2>4. QED
    BY <2>1, <2>2, <2>3, Zenon
<1>13. ASSUME NEW u \in Thread PROVE ControlOK(u)'
  <2>1. CASE u = t
    BY <1>1, <1>3, <2>1 DEF ControlOK, InCall, NoLocal
  <2>2. CASE u # t
    BY <1>4, <1>7, <2>2, ZenonT(60) DEF RingInv, ControlOK, InCall, ToCopy, Serial
  <2>3. QED
    BY <2>1, <2>2, ZenonT(60)
<1>14. ASSUME NEW u \in Thread PROVE SerialOK(u)'
  <2>1. CASE u = t
    BY <1>3, <2>1, Zenon DEF SerialOK
  <2>2. CASE u # t /\ SideOf(u) # s
    BY <1>4, <1>7, <2>2, Zenon DEF RingInv, SerialOK, Serial
  <2>3. CASE u # t /\ SideOf(u) = s
    <3>1. Serial(u) => ~ InFlight(u)
      BY <1>8, <2>3, Zenon DEF Serial, Mode
    <3>2. QED
      BY <1>4, <1>7, <2>3, <3>1, Zenon DEF SerialOK, Serial
  <2>4. QED
    BY <2>1, <2>2, <2>3, Zenon
<1>15. /\ Flight(s)' = Flight(s) \ {t} /\ t \in Flight(s)
       /\ \A x \in Side : x # s => Flight(x)' = Flight(x)
  <2>1. \A x \in Side : \A u \in Threads(x) : u \in Thread /\ SideOf(u) = x
    BY RingThreads, Zenon DEF Side, Threads, Thread, SideOf
  <2>2. t \in Threads(s)
    BY Zenon DEF Threads, Thread, SideOf
  <2> HIDE DEF s
  <2>3. QED
    BY <1>3, <1>4, <1>5, <2>1, <2>2, Zenon DEF Flight, s
<1>16. SerialIdle'
  <2>1. Sync[s] \in {"ST", "HTS"} => T = H
    BY Zenon DEF Serial, Mode
  <2>2. QED
    BY <1>15, <2>1, Zenon DEF RingInv, SerialIdle
<1>17. RtsCount'
  <2>1. ASSUME NEW x \in Side, Sync[x] = "RTS"
        PROVE ht'[x].hcnt = ht'[x].tcnt + Cardinality(Flight(x)')
    <3>1. CASE x # s
      BY <1>15, <2>1, <3>1, Zenon DEF RingInv, RtsCount
    <3>2. CASE x = s
      <4>1. IsFiniteSet(Flight(s)) /\ Cardinality(Flight(s)) \in Nat
        BY <1>5, FlightFinite, Zenon
      <4>2. Cardinality(Flight(s) \ {t}) = Cardinality(Flight(s)) - 1
        BY <1>15, <4>1, FS_RemoveElement, Zenon
      <4>3. ht'[s].tcnt = Me(t).tcnt + 1
        BY <2>1, <3>2, Zenon DEF Mode
      <4>4. Me(t).hcnt = Me(t).tcnt + Cardinality(Flight(s))
        BY <1>5, <2>1, <3>2, Zenon DEF RingInv, RtsCount, Me
      <4>5. Cardinality(Flight(x)') = Cardinality(Flight(s)) - 1
        BY <1>15, <3>2, <4>2, Zenon
      <4>6. QED
        BY <1>6, <3>2, <4>1, <4>3, <4>4, <4>5
    <3>3. QED
      BY <3>1, <3>2, Zenon
  <2>2. QED
    BY <2>1, Zenon DEF RtsCount
<1>18. ASSUME NEW u \in Thread PROVE RtsTailOK(u)' /\ RtsHeadOK(u)'
  <2>1. CASE u = t
    BY <1>1, <2>1, Zenon DEF RtsTailOK, RtsHeadOK
  <2>2. CASE u # t /\ SideOf(u) # s
    <3>1. RtsTailOK(u)'
      BY <1>4, <1>7, <2>2, Zenon DEF RingInv, RtsTailOK
    <3>2. Peers(u) \subseteq Thread /\ t \notin Peers(u)
      BY <2>2, SideFacts, Zenon
    <3>3. RtsHeadOK(u)'
      BY <1>4, <1>7, <2>2, <3>2, Zenon DEF RingInv, RtsHeadOK
    <3>4. QED
      BY <3>1, <3>3, Zenon
  <2>3. CASE u # t /\ SideOf(u) = s
    <3>1. ASSUME pc[u] \in {"updh", "updcas"}
          PROVE /\ Me(u)'.tcnt = Me(u).tcnt + 1
                /\ loc[u].otc <= Me(u).tcnt
                /\ loc[u].otc \in Nat /\ Me(u).tcnt \in Nat
      <4>1. Mode(t) = "RTS"
        BY <2>3, <3>1, Zenon DEF RingInv, ControlOK, Mode
      <4>2. Me(u)'.tcnt = Me(u).tcnt + 1
        BY <2>3, <4>1, Zenon DEF Me
      <4>3. QED
        BY <3>1, <4>2, TypeFacts, Zenon DEF RingInv, RtsTailOK
    <3>2. RtsTailOK(u)'
      <4>1. ASSUME pc[u] \in {"updh", "updcas"}
            PROVE /\ loc[u].otc <= Me(u)'.tcnt /\ loc[u].otc # Me(u)'.tcnt
                  /\ Me(u)'.hcnt - loc[u].otc < PosMod
        <5>1. loc[u].otc <= Me(u)'.tcnt /\ loc[u].otc # Me(u)'.tcnt
          BY <3>1, <4>1
        <5>2. Me(u)'.hcnt - loc[u].otc < PosMod
          BY <1>7, <2>3, <4>1, Zenon DEF RingInv, RtsTailOK
        <5>3. QED
          BY <5>1, <5>2, Zenon
      <4>2. QED
        BY <1>4, <2>3, <4>1, Zenon DEF RtsTailOK
    <3>3. RtsHeadOK(u)'
      <4>1. ASSUME pc[u] = "updcas"
            PROVE /\ loc[u].otc # Me(u)'.tcnt
                  /\ loc[u].otc < loc[u].hc /\ loc[u].hc <= Me(u)'.hcnt
        <5>1. loc[u].otc # Me(u)'.tcnt
          BY <3>1, <4>1
        <5>2. loc[u].otc < loc[u].hc /\ loc[u].hc <= Me(u)'.hcnt
          BY <1>7, <2>3, <4>1, ZenonT(60) DEF RingInv, RtsHeadOK
        <5>3. QED
          BY <5>1, <5>2, Zenon
      <4>2. QED
        BY <1>4, <2>3, <4>1, Zenon DEF RtsHeadOK
    <3>4. QED
      BY <3>2, <3>3, Zenon
  <2>4. QED
    BY <2>1, <2>2, <2>3, Zenon
<1>19. ASSUME NEW u \in Thread PROVE ObjOK(u)'
  <2>1. CASE u = t
    BY <1>1, <1>3, <2>1, SMTT(30) DEF ObjOK
  <2>2. CASE u # t
    BY <1>4, <2>2 DEF RingInv, ObjOK
  <2>3. QED
    BY <2>1, <2>2, Zenon
<1>20. RtsDistance'
  <2>1. ASSUME NEW u \in Thread, InFlight(u)', Mode(u) = "RTS"
        PROVE loc'[u].old - Me(u)'.tail <= HtdMax[SideOf(u)]
    <3>1. u # t /\ InFlight(u) /\ loc'[u] = loc[u]
      BY <1>3, <1>4, <2>1, Zenon
    <3>2. loc[u].old - Me(u).tail <= HtdMax[SideOf(u)]
      BY <2>1, <3>1, Zenon DEF RingInv, RtsDistance
    <3>3. /\ loc[u].old \in Nat /\ Me(u).tail \in Nat
          /\ HtdMax[SideOf(u)] \in Nat
      BY TypeFacts, SideFacts, RingModes, Zenon DEF RingInv
    <3>4. QED
      BY <1>6, <1>7, <3>1, <3>2, <3>3
  <2>2. QED
    BY <2>1, ZenonT(60) DEF RtsDistance, Mode
<1>21. DataInv'
  <2>1. /\ ht["cons"].tail \in Nat /\ ht["prod"].head \in Nat
        /\ ht'["cons"].tail \in Nat /\ ht'["prod"].head \in Nat
    BY Zenon DEF RingInv, TypeOK, Side, HeadTail
  <2>2. /\ ht["cons"].tail <= ht'["cons"].tail
        /\ ht'["prod"].head <= ht["prod"].head
        /\ t \in Producers => ht'["prod"].head = H
    BY <1>5, <2>1 DEF Me, Side, SideOf
  <2>3. ASSUME NEW p \in ht'["cons"].tail .. (ht'["prod"].head - 1)
        PROVE ring'[Slot(p)] = p \/ Unwritten(p)'
    <3>1. p \in ht["cons"].tail .. (ht["prod"].head - 1)
      BY <2>1, <2>2, <2>3
    <3>2. ASSUME Unwritten(p) PROVE Unwritten(p)'
      <4>1. PICK u \in Producers : /\ InFlight(u)
                                   /\ loc[u].old + loc[u].i <= p
                                   /\ p < loc[u].old + loc[u].n
        BY <3>2, Zenon DEF Unwritten
      <4>2. u # t
        BY <1>6, <2>1, <2>2, <2>3, <4>1
      <4>3. QED
        BY <1>4, <4>1, <4>2, Zenon DEF Unwritten, Thread
    <3>3. QED
      BY <3>1, <3>2, Zenon DEF RingInv, DataInv
  <2>4. QED
    BY <2>3, Zenon DEF DataInv
<1>22. QED
  BY <1>9, <1>10, <1>11, <1>12, <1>13, <1>14, <1>16, <1>17, <1>18, <1>19,
     <1>20, <1>21, Zenon
     DEF RingInv
\* The plain, waiting and HTS tail updates.
LEMMA UpdateTailInv ==
  ASSUME RingInv, TypeOK', NEW t \in Thread, UpdateTail(t)
  PROVE  RingInv'
<1> DEFINE s == SideOf(t)
           T == loc[t].old + loc[t].n
<1>1. /\ pc[t] = "upd" /\ Mode(t) # "RTS" /\ Return(t) /\ ring' = ring
      /\ ht' = [ht EXCEPT ![s] = [@ EXCEPT !.tail = T]]
      /\ InFlight(t)
  BY ZenonT(60) DEF UpdateTail, InFlight
<1>2. /\ Me(t).head \in Nat /\ Me(t).tail \in Nat /\ loc[t].old \in Nat
      /\ loc[t].n \in Nat /\ loc[t].i \in Nat /\ T \in Nat /\ s \in Side
  BY TypeFacts, SideFacts DEF RingInv
<1>3. /\ ht'[s].tail = T /\ ht'[s].head = Me(t).head
      /\ ht'[s].hcnt = Me(t).hcnt
      /\ \A x \in Side : x # s => ht'[x] = ht[x]
  <2> HIDE DEF T
  <2>1. QED
    BY <1>1, <1>2, Zenon DEF RingInv, TypeOK, HeadTail, Me
<1>4. Me(t).tail <= loc[t].old /\ T <= Me(t).head
  BY <1>1, Zenon DEF RingInv, ClaimsUnpublished
<1>5. Serial(t) => T = Me(t).head
  BY <1>1, Zenon DEF RingInv, SerialOK
<1>6. ASSUME NEW u \in Peers(t) \ {t}, InFlight(u) PROVE T <= loc[u].old
  <2>1. u \in Thread /\ SideOf(u) = SideOf(t) /\ u # t /\ Me(u) = Me(t)
    BY SideFacts, Zenon DEF Me
  <2>2. Mode(t) = "MT"
    <3>1. ~ Serial(t)
      BY <1>1, <1>6, <2>1, SerialAlone, Zenon
    <3>2. Mode(t) \in {"ST", "MT", "RTS", "HTS"}
      BY SideFacts, RingModes, Zenon DEF Mode
    <3>3. QED
      BY <1>1, <3>1, <3>2, Zenon DEF Serial
  <2>3. Me(t).tail = loc[t].old
    <3>1. U32(Me(t).tail) = U32(loc[t].old)
      BY <2>2, Zenon DEF UpdateTail
    <3>2. Me(t).head <= Me(t).tail + Capacity
      BY Spans, Zenon DEF RingInv
    <3>3. /\ Me(t).tail - loc[t].old < PosMod
          /\ loc[t].old - Me(t).tail < PosMod
      BY <1>2, <1>4, <3>2, CapacityFits, RingSizes
    <3>4. QED
      BY <1>2, <3>1, <3>3, U32Equal
  <2>4. Me(t).tail <= loc[u].old /\ loc[u].n >= 1
    BY <1>6, <2>1, Zenon DEF RingInv, ClaimsUnpublished, ControlOK
  <2>5. \/ loc[t].old + loc[t].n <= loc[u].old
        \/ loc[u].old + loc[u].n <= loc[t].old
    BY <1>1, <1>6, <2>1, Zenon DEF RingInv, ClaimsDisjoint
  <2>6. loc[u].old \in Nat /\ loc[u].n \in Nat
    BY <2>1, TypeFacts, Zenon DEF RingInv
  <2>7. QED
    BY <1>2, <2>3, <2>4, <2>5, <2>6
<1>7. loc[t].i = loc[t].n
  BY <1>1, InvFacts, Zenon DEF ControlOK
<1>8. Me(t).tail <= T /\ loc[t].n <= loc[t].i
  BY <1>2, <1>4, <1>7
<1> HIDE DEF T
<1>9. QED
  BY <1>1, <1>2, <1>3, <1>4, <1>5, <1>6, <1>8, ReleaseStep

\* The RTS tail update moves the tail past no unfinished claim.
LEMMA RtsNewTailOK ==
  ASSUME RingInv, NEW t \in Thread, RtsUpdateTail(t)
  PROVE  /\ loc[t].otc = Me(t).tcnt /\ RtsNewTail(t) \in Nat
         /\ Me(t).tail <= RtsNewTail(t) /\ RtsNewTail(t) <= Me(t).head
         /\ \A u \in Peers(t) \ {t} : InFlight(u) => RtsNewTail(t) <= loc[u].old
<1> DEFINE s == SideOf(t)
           T == RtsNewTail(t)
<1>1. /\ pc[t] = "updcas" /\ Return(t) /\ ring' = ring
      /\ RtsTailUnchanged(t) /\ InFlight(t)
      /\ ht' = [ht EXCEPT ![s] = [@ EXCEPT !.tail = T,
                                           !.tcnt = loc[t].otc + 1]]
  BY Zenon DEF RtsUpdateTail, InFlight
<1>2. /\ Me(t).head \in Nat /\ Me(t).tail \in Nat /\ Me(t).hcnt \in Nat
      /\ Me(t).tcnt \in Nat /\ loc[t].otc \in Nat /\ loc[t].hc \in Nat
      /\ loc[t].h \in Nat /\ loc[t].ot \in Nat /\ s \in Side
      /\ loc[t].old \in Nat /\ loc[t].n \in Nat /\ loc[t].i \in Nat
      /\ PosMod \in Nat
  BY TypeFacts, SideFacts, RingSizes, Zenon DEF RingInv
<1>3. Mode(t) = "RTS" /\ loc[t].i = loc[t].n /\ loc[t].n >= 1
  BY <1>1, InvFacts, Zenon DEF ControlOK
<1>4. Me(t).tcnt <= Me(t).hcnt
  <2>1. Me(t).hcnt = Me(t).tcnt + Cardinality(Flight(s))
    BY <1>2, <1>3, Zenon DEF RingInv, RtsCount, Me, Mode
  <2>2. QED
    BY <1>2, <2>1, FlightFinite
<1>5. /\ loc[t].otc <= Me(t).tcnt
      /\ loc[t].otc = Me(t).tcnt => loc[t].ot = Me(t).tail
      /\ Me(t).hcnt - loc[t].otc < PosMod
  BY <1>1, InvFacts, Zenon DEF RtsTailOK
<1>6. loc[t].otc = Me(t).tcnt /\ loc[t].ot = Me(t).tail
  <2>1. U32(Me(t).tcnt) = U32(loc[t].otc)
    BY <1>1, Zenon DEF RtsTailUnchanged
  <2>2. /\ Me(t).tcnt - loc[t].otc < PosMod
        /\ loc[t].otc - Me(t).tcnt < PosMod
    BY <1>2, <1>4, <1>5
  <2>3. Me(t).tcnt = loc[t].otc
    BY <1>2, <2>1, <2>2, U32Equal
  <2>4. QED
    BY <1>5, <2>3, Zenon
<1>7. Me(t).tail <= loc[t].old /\ loc[t].old + loc[t].n <= Me(t).head
  BY <1>1, Zenon DEF RingInv, ClaimsUnpublished
<1>8. /\ T \in Nat /\ Me(t).tail <= T /\ T <= Me(t).head
      /\ \A u \in Peers(t) \ {t} : InFlight(u) => T <= loc[u].old
  <2>1. CASE U32(loc[t].otc + 1) = U32(loc[t].hc)
    <3>1. loc[t].otc < loc[t].hc /\ loc[t].hc <= Me(t).hcnt
      BY <1>1, InvFacts, Zenon DEF RtsHeadOK
    <3>3. loc[t].otc + 1 = loc[t].hc
      <4> DEFINE x == loc[t].otc + 1
                 y == loc[t].hc
      <4>0. U32(x) = U32(y)
        BY <2>1, Zenon
      <4>1. x \in Int /\ y \in Int /\ x - y < PosMod /\ y - x < PosMod
        BY <1>2, <1>5, <3>1, RingSizes
      <4> HIDE DEF x, y
      <4>2. x = y
        BY <4>0, <4>1, U32Equal, Zenon
      <4>3. QED
        BY <4>2, Zenon DEF x, y
    <3>4. /\ loc[t].old + loc[t].n <= loc[t].h /\ loc[t].h <= Me(t).head
          /\ \A u \in Peers(t) \ {t} : InFlight(u) => loc[t].h <= loc[u].old
      BY <1>1, <1>6, <3>3, InvFacts, Zenon DEF RtsHeadOK
    <3>5. T = loc[t].h
      BY <2>1, Zenon DEF RtsNewTail
    <3>6. QED
      BY <1>2, <1>7, <3>4, <3>5
  <2>2. CASE U32(loc[t].otc + 1) # U32(loc[t].hc)
    <3>1. T = Me(t).tail
      BY <1>6, <2>2, Zenon DEF RtsNewTail
    <3>2. ASSUME NEW u \in Peers(t) \ {t}, InFlight(u)
          PROVE Me(t).tail <= loc[u].old
      <4>1. u \in Thread /\ Me(u) = Me(t)
        BY SideFacts, Zenon DEF Me
      <4>2. QED
        BY <3>2, <4>1, Zenon DEF RingInv, ClaimsUnpublished
    <3>3. QED
      BY <1>2, <1>7, <3>1, <3>2
  <2>3. QED
    BY <2>1, <2>2, Zenon
<1>9. QED
  BY <1>6, <1>8, Zenon

LEMMA RtsUpdateTailInv ==
  ASSUME RingInv, TypeOK', NEW t \in Thread, RtsUpdateTail(t)
  PROVE  RingInv'
<1> DEFINE s == SideOf(t)
           T == RtsNewTail(t)
<1>1. /\ pc[t] = "updcas" /\ Return(t) /\ ring' = ring
      /\ InFlight(t)
      /\ ht' = [ht EXCEPT ![s] = [@ EXCEPT !.tail = T,
                                           !.tcnt = loc[t].otc + 1]]
  BY Zenon DEF RtsUpdateTail, InFlight
<1>2. /\ Me(t).head \in Nat /\ Me(t).tail \in Nat /\ Me(t).hcnt \in Nat
      /\ Me(t).tcnt \in Nat /\ s \in Side
      /\ loc[t].old \in Nat /\ loc[t].n \in Nat /\ loc[t].i \in Nat
  BY TypeFacts, SideFacts, Zenon DEF RingInv
<1>3. Mode(t) = "RTS" /\ loc[t].i = loc[t].n
  BY <1>1, InvFacts, Zenon DEF ControlOK
<1>6. loc[t].otc = Me(t).tcnt
  BY RtsNewTailOK, Zenon
<1>7. Me(t).tail <= loc[t].old /\ loc[t].old + loc[t].n <= Me(t).head
  BY <1>1, Zenon DEF RingInv, ClaimsUnpublished
<1>8. /\ T \in Nat /\ Me(t).tail <= T /\ T <= Me(t).head
      /\ \A u \in Peers(t) \ {t} : InFlight(u) => T <= loc[u].old
  BY RtsNewTailOK, Zenon
<1> HIDE DEF T
<1>9. /\ ht'[s].tail = T /\ ht'[s].head = Me(t).head
      /\ ht'[s].hcnt = Me(t).hcnt /\ ht'[s].tcnt = Me(t).tcnt + 1
      /\ \A x \in Side : x # s => ht'[x] = ht[x]
  BY <1>1, <1>2, <1>6, Zenon DEF RingInv, TypeOK, HeadTail, Me
<1>10. ~ Serial(t) /\ loc[t].n <= loc[t].i
  BY <1>2, <1>3 DEF Serial
<1>11. QED
  BY <1>1, <1>2, <1>8, <1>9, <1>10, ReleaseStep

\* The end of a peek gives back what the caller did not confirm.
LEMMA PeekSetHeadTailInv ==
  ASSUME RingInv, TypeOK', NEW t \in Thread, PeekSetHeadTail(t)
  PROVE  RingInv'
<1> DEFINE s == SideOf(t)
           T == loc[t].old + loc[t].k
<1>1. /\ pc[t] = "set" /\ Return(t) /\ ring' = ring /\ InFlight(t)
      /\ ht' = [ht EXCEPT ![s] = [@ EXCEPT !.head = T, !.tail = T]]
  BY ZenonT(60) DEF PeekSetHeadTail, InFlight
<1>2. /\ Me(t).head \in Nat /\ Me(t).tail \in Nat /\ loc[t].old \in Nat
      /\ loc[t].n \in Nat /\ loc[t].k \in Nat /\ loc[t].i \in Nat
      /\ T \in Nat /\ s \in Side
  BY TypeFacts, SideFacts DEF RingInv
<1>3. /\ Serial(t) /\ loc[t].k <= loc[t].n
      /\ t \in Producers => loc[t].i = loc[t].k
      /\ loc[t].old = Me(t).tail /\ loc[t].old + loc[t].n = Me(t).head
  BY <1>1, InvFacts, Zenon DEF ControlOK, InCall, SerialOK
<1>4. Me(t).tail <= T /\ T <= Me(t).head
  BY <1>2, <1>3
<1>5. \A u \in Peers(t) \ {t} : ~ InFlight(u)
  BY <1>1, <1>3, SideFacts, SerialAlone, Zenon
<1>6. t \in Producers => T <= loc[t].old + loc[t].i
  BY <1>2, <1>3
<1>7. Mode(t) # "RTS"
  BY <1>3, Zenon DEF Serial
<1> HIDE DEF T
<1>8. /\ ht'[s].tail = T /\ ht'[s].head = T /\ ht'[s].hcnt = Me(t).hcnt
      /\ \A x \in Side : x # s => ht'[x] = ht[x]
  BY <1>1, <1>2, Zenon DEF RingInv, TypeOK, HeadTail, Me
<1>9. T <= T
  BY <1>2
<1>10. QED
  BY <1>1, <1>2, <1>3, <1>4, <1>5, <1>6, <1>7, <1>8, <1>9, ReleaseStep, Zenon

-----------------------------------------------------------------------------
(* Idle rings                                                               *)

IdleRing ==
  /\ \E b \in Nat : ht = [s \in Side |-> AtBase(b)]
  /\ \A t \in Thread : pc[t] = "idle" /\ Len(obj[t]) = 0 /\ loc[t].k = 0

\* A ring nobody uses, with all words equal, satisfies the invariant.
LEMMA IdleInv == TypeOK /\ IdleRing => RingInv
<1> SUFFICES ASSUME TypeOK, IdleRing PROVE RingInv
  BY Zenon
<1>0. PICK b \in Nat : ht = [s \in Side |-> AtBase(b)]
  BY Zenon DEF IdleRing
<1>1. \A s \in Side : /\ ht[s].head = b /\ ht[s].tail = b
                      /\ ht[s].hcnt = b /\ ht[s].tcnt = b
  BY <1>0, Zenon DEF AtBase
<1>2. \A t \in Thread : ~ InFlight(t) /\ ~ Loaded(t) /\ ~ InCall(t)
  BY Zenon DEF IdleRing, InFlight, Loaded, InCall
<1>3. \A s \in Side : Flight(s) = {} /\ Opp(s) \in Side /\ Cap(s) \in Nat
  BY <1>2, RingSizes, Zenon DEF Flight, Threads, Thread, Side, Opp, Cap
<1>4. HeadsInOrder
  BY <1>1, <1>3 DEF HeadsInOrder
<1>5. ClaimsUnpublished /\ ClaimsDisjoint /\ RtsDistance
  BY <1>2, Zenon DEF ClaimsUnpublished, ClaimsDisjoint, RtsDistance
<1>6. ASSUME NEW t \in Thread
      PROVE /\ LoadedOK(t) /\ ControlOK(t) /\ SerialOK(t)
            /\ RtsTailOK(t) /\ RtsHeadOK(t) /\ ObjOK(t)
  <2>1. LoadedOK(t) /\ SerialOK(t) /\ RtsTailOK(t) /\ RtsHeadOK(t)
    BY <1>2, Zenon DEF LoadedOK, SerialOK, RtsTailOK, RtsHeadOK, IdleRing
  <2>2. ControlOK(t)
    BY <1>2, Zenon DEF ControlOK, IdleRing
  <2>3. ObjOK(t)
    BY <1>2 DEF ObjOK, IdleRing
  <2>4. QED
    BY <2>1, <2>2, <2>3, Zenon
<1>7. SerialIdle
  BY <1>1, Zenon DEF SerialIdle
<1>8. RtsCount
  <2>1. Cardinality({}) = 0 /\ b = b + 0
    BY FS_EmptySet
  <2>2. QED
    BY <1>1, <1>3, <2>1, Zenon DEF RtsCount
<1>9. DataInv
  BY <1>1 DEF DataInv, Side
<1>10. QED
  BY <1>4, <1>5, <1>6, <1>7, <1>8, <1>9, Zenon DEF RingInv

\* rte_ring_init establishes the invariant.
LEMMA InitInv == Init => RingInv
<1> SUFFICES ASSUME Init PROVE RingInv
  BY Zenon
<1>1. TypeOK
  BY TypeInit, Zenon
<1>2. IdleRing
  BY RingSizes, Zenon DEF Init, NoLocal, IdleRing
<1>3. QED
  BY <1>1, <1>2, IdleInv, Zenon

\* rte_ring_reset re-establishes the invariant.
LEMMA ResetInv ==
  ASSUME RingInv, TypeOK', Reset
  PROVE  RingInv'
<1> DEFINE zero == PosMod * (ht["prod"].head \div PosMod + 1)
<1>1. ht' = [s \in Side |-> AtBase(zero)] /\ UNCHANGED <<ring, pc, loc, obj>>
  BY Zenon DEF Reset
<1> HIDE DEF zero
<1>2. zero \in Nat
  <2>1. ht'["prod"].head = zero /\ ht'["prod"].head \in Nat
    BY <1>1, Zenon DEF AtBase, Side, TypeOK, HeadTail
  <2>2. QED
    BY <2>1, Zenon
<1>3. ASSUME NEW t \in Thread
      PROVE pc[t] = "idle" /\ Len(obj[t]) = 0 /\ loc[t].k = 0
  <2>1. pc[t] = "idle" /\ ~ InFlight(t)
    BY Zenon DEF Reset, InFlight
  <2>2. QED
    BY <2>1, NothingCopied, Zenon DEF RingInv, ControlOK
<1>4. IdleRing'
  BY <1>1, <1>2, <1>3, Zenon DEF IdleRing
<1>5. (TypeOK /\ IdleRing => RingInv)'
  BY IdleInv, PTL
<1>6. QED
  BY <1>4, <1>5, Zenon

-----------------------------------------------------------------------------
(* The results                                                              *)

\* Every step of every thread, and a reset, preserves the invariant.
LEMMA StepInv == RingInv /\ [Next]_vars => RingInv'
<1> SUFFICES ASSUME RingInv, [Next]_vars PROVE RingInv'
  BY Zenon
<1>1. TypeOK'
  BY TypeStep, Zenon DEF RingInv
<1>2. ASSUME NEW t \in Thread, AnyCall(t) \/ Step(t) PROVE RingInv'
  <2>1. CASE AnyCall(t)
    BY <1>1, <2>1, CallInv, Zenon
  <2>2. CASE LoadHead(t)
    BY <1>1, <2>2, LoadHeadInv, Zenon
  <2>3. CASE RtsHeadWait(t)
    BY <1>1, <2>3, RtsHeadWaitInv, Zenon
  <2>4. CASE LoadTail(t)
    BY <1>1, <2>4, LoadTailInv, Zenon
  <2>5. CASE MoveHead(t)
    BY <1>1, <2>5, MoveHeadInv, Zenon
  <2>6. CASE MoveHeadFails(t)
    BY <1>1, <2>6, MoveHeadFailsInv, Zenon
  <2>7. CASE CopyElem(t)
    BY <1>1, <2>7, CopyElemInv, Zenon
  <2>8. CASE UpdateTail(t)
    BY <1>1, <2>8, UpdateTailInv, Zenon
  <2>9. CASE RtsLoadTail(t)
    BY <1>1, <2>9, RtsLoadTailInv, Zenon
  <2>10. CASE RtsLoadHead(t)
    BY <1>1, <2>10, RtsLoadHeadInv, Zenon
  <2>11. CASE RtsUpdateTail(t)
    BY <1>1, <2>11, RtsUpdateTailInv, Zenon
  <2>12. CASE RtsUpdateTailFails(t)
    BY <1>1, <2>12, RtsUpdateTailFailsInv, Zenon
  <2>13. ASSUME NEW k \in 0 .. MaxNum, PeekFinish(t, k) PROVE RingInv'
    BY <1>1, <2>13, PeekFinishInv, Zenon
  <2>14. CASE PeekSetHeadTail(t)
    BY <1>1, <2>14, PeekSetHeadTailInv, Zenon
  <2>15. QED
    BY <1>2, <2>1, <2>2, <2>3, <2>4, <2>5, <2>6, <2>7, <2>8, <2>9, <2>10,
       <2>11, <2>12, <2>13, <2>14, Zenon
       DEF Step
<1>3. CASE Reset
  BY <1>1, <1>3, ResetInv, ZenonT(60)
<1>4. CASE UNCHANGED vars
  <2>1. UNCHANGED <<ht, ring, pc, loc, obj>>
    BY <1>4, Zenon DEF vars
  <2>2. QED
    BY <2>1
       DEF RingInv, TypeOK, HeadsInOrder, ClaimsUnpublished, LoadedOK,
           ControlOK, SerialOK, RtsTailOK, RtsHeadOK, ObjOK, ClaimsDisjoint,
           SerialIdle, RtsCount, DataInv, RtsDistance, InFlight, Loaded,
           InCall, Serial, Mode, Me, Other, ToCopy, Flight, Unwritten
<1>5. QED
  BY <1>2, <1>3, <1>4, Zenon DEF Next

\* In every execution, with any number of threads and any ring size, and in
\* every synchronisation mode, the inductive invariant holds.
THEOREM InvariantHolds == Spec => []RingInv
<1>1. Init => RingInv
  BY InitInv, Zenon
<1>2. RingInv /\ [Next]_vars => RingInv'
  BY StepInv, Zenon
<1>3. QED
  BY <1>1, <1>2, PTL DEF Spec

\* The variables keep their types: no position or counter leaves the naturals
\* and no step indexes the element table outside its bounds.
THEOREM TypeCorrect == Spec => []TypeOK
<1>1. RingInv => TypeOK
  BY Zenon DEF RingInv
<1>2. QED
  BY <1>1, InvariantHolds, PTL

\* The room checks of move_head are right: heads and tails never overtake one
\* another, and the ring never holds more than its capacity.
THEOREM HeadsStayInOrder == Spec => []HeadsInOrder
<1>1. RingInv => HeadsInOrder
  BY Zenon DEF RingInv
<1>2. QED
  BY <1>1, InvariantHolds, PTL

\* update_tail, in all modes, never publishes an unfinished claim.
THEOREM NoEarlyPublication == Spec => []ClaimsUnpublished
<1>1. RingInv => ClaimsUnpublished
  BY Zenon DEF RingInv
<1>2. QED
  BY <1>1, InvariantHolds, PTL

\* No two calls ever own the same slot of the element table.
THEOREM SlotsExclusive == Spec => []SlotExclusive
<1>1. RingInv => SlotExclusive
  <2>1. SUFFICES ASSUME RingInv, NEW t \in Thread, NEW u \in Thread, t # u,
                        NEW p \in Owned(t), NEW q \in Owned(u)
                 PROVE  Slot(p) # Slot(q)
    BY ZenonT(60) DEF SlotExclusive
  <2>2. /\ InFlight(t) /\ p \in Int /\ loc[t].old <= p
        /\ p < loc[t].old + loc[t].n
    BY <2>1, TypeFacts, SMTT(30) DEF Owned, RingInv
  <2>3. /\ InFlight(u) /\ q \in Int /\ loc[u].old <= q
        /\ q < loc[u].old + loc[u].n
    BY <2>1, TypeFacts DEF Owned, RingInv
  <2>4. /\ p \in ht["cons"].tail .. (ht["prod"].head - 1)
        /\ q \in ht["cons"].tail .. (ht["prod"].head - 1)
    BY <2>1, <2>2, <2>3, ClaimRange, Zenon
  <2>5. p # q
    <3>0. /\ loc[t].old \in Nat /\ loc[t].n \in Nat
          /\ loc[u].old \in Nat /\ loc[u].n \in Nat
      BY <2>1, TypeFacts, Zenon DEF RingInv
    <3>1. CASE SideOf(t) = SideOf(u)
      <4>1. \/ loc[t].old + loc[t].n <= loc[u].old
            \/ loc[u].old + loc[u].n <= loc[t].old
        BY <2>1, <2>2, <2>3, <3>1, Zenon DEF RingInv, ClaimsDisjoint
      <4>2. QED
        BY <2>2, <2>3, <3>0, <4>1
    <3>2. CASE SideOf(t) # SideOf(u)
      <4>1. /\ t \in Consumers => p < ht["prod"].tail
            /\ u \in Consumers => q < ht["prod"].tail
        BY <2>1, <2>2, <2>3, ClaimRange, Zenon
      <4>2. /\ t \in Producers => ht["prod"].tail <= loc[t].old
            /\ u \in Producers => ht["prod"].tail <= loc[u].old
        BY <2>1, <2>2, <2>3, Zenon DEF RingInv, ClaimsUnpublished, Me, SideOf
      <4>3. \/ t \in Producers /\ u \in Consumers
            \/ t \in Consumers /\ u \in Producers
        BY <3>2, Zenon DEF SideOf, Thread
      <4>4. ht["prod"].tail \in Nat
        BY <2>1, Zenon DEF RingInv, TypeOK, Side, HeadTail
      <4>5. QED
        BY <2>2, <2>3, <3>0, <4>1, <4>2, <4>3, <4>4
    <3>3. QED
      BY <3>1, <3>2, Zenon
  <2>6. QED
    BY <2>1, <2>4, <2>5, SlotsApart, Zenon
<1>2. QED
  BY <1>1, InvariantHolds, PTL

\* What a dequeue copies out is what was enqueued at those positions.
THEOREM NothingTorn == Spec => []DequeuedIntact
<1>1. RingInv => DequeuedIntact
  BY Zenon DEF RingInv, ObjOK, DequeuedIntact, Thread
<1>2. QED
  BY <1>1, InvariantHolds, PTL

\* With htd_max d no RTS claim starts more than d past its side's tail.
THEOREM RtsBounded == Spec => []RtsDistance
<1>1. RingInv => RtsDistance
  BY Zenon DEF RingInv
<1>2. QED
  BY <1>1, InvariantHolds, PTL

\* A call returns 0 only if there was no room, or nothing to take, when it
\* read the opposite tail.
THEOREM FailureJustified == Spec => FailsOnlyWithoutRoom
<1> DEFINE A(t) == pc[t] = "tail" /\ pc'[t] = "idle" /\ loc[t].num > 0 =>
                     Cap(SideOf(t)) + Other(t).tail - Me(t).head <
                       (IF loc[t].fixed THEN loc[t].num ELSE 1)
<1>1. RingInv /\ [Next]_vars => [\A t \in Thread : A(t)]_vars
  <2>1. SUFFICES ASSUME RingInv, Next, NEW t \in Thread, pc[t] = "tail",
                        pc'[t] = "idle", loc[t].num > 0
                 PROVE  Cap(SideOf(t)) + Other(t).tail - Me(t).head <
                          (IF loc[t].fixed THEN loc[t].num ELSE 1)
    BY Zenon
  <2>2. LoadTail(t)
    <3>1. PICK u \in Thread : AnyCall(u) \/ Step(u)
      BY <2>1, Zenon DEF Next, Reset
    <3>2. u = t
      BY <2>1, <3>1, Zenon
         DEF AnyCall, Call, Step, LoadHead, RtsHeadWait, LoadTail, MoveHead,
             MoveHeadFails, CopyElem, UpdateTail, RtsLoadTail, RtsLoadHead,
             RtsUpdateTail, RtsUpdateTailFails, PeekFinish, PeekSetHeadTail,
             Return, Goto, RingInv, TypeOK
    <3>3. QED
      BY <2>1, <3>1, <3>2, Zenon
         DEF AnyCall, Call, Step, LoadHead, RtsHeadWait, MoveHead,
             MoveHeadFails, CopyElem, UpdateTail, RtsLoadTail, RtsLoadHead,
             RtsUpdateTail, RtsUpdateTailFails, PeekFinish, PeekSetHeadTail
  <2>3. MoveCount(loc[t].num, loc[t].fixed, Entries(t)) = 0
    BY <2>1, <2>2, Zenon DEF LoadTail, Goto, RingInv, TypeOK
  <2>4. /\ Entries(t) = Cap(SideOf(t)) + Other(t).tail - loc[t].old
        /\ Entries(t) >= 0
    BY <2>1, EntriesExact, Zenon
  <2>5. loc[t].old <= Me(t).head
    BY <2>1, Zenon DEF RingInv, LoadedOK, Loaded
  <2>6. /\ Cap(SideOf(t)) \in Nat /\ Other(t).tail \in Nat
        /\ loc[t].old \in Nat /\ Me(t).head \in Nat /\ loc[t].num \in Nat
    BY <2>1, TypeFacts, SideFacts, Zenon DEF RingInv
  <2>7. Entries(t) < IF loc[t].fixed THEN loc[t].num ELSE 1
    BY <2>1, <2>3, <2>4, <2>6 DEF MoveCount
  <2>8. QED
    BY <2>4, <2>5, <2>6, <2>7
<1>2. QED
  BY <1>1, InvariantHolds, PTL DEF Spec, FailsOnlyWithoutRoom

-----------------------------------------------------------------------------
(* The ring implements the FIFO queue of RingQueue: every step of a call is *)
(* a step of the queue or leaves it as it is.                               *)

\* Consecutive element numbers.
Run(b, n) == [i \in 1 .. n |-> b + i - 1]

LEMMA RunSeq ==
  ASSUME NEW b \in Int, NEW n \in Nat
  PROVE  /\ Run(b, n) \in Seq(Int)
         /\ Len(Run(b, n)) = n
         /\ \A i \in 1 .. n : Run(b, n)[i] = b + i - 1
BY DEF Run

LEMMA RunEmpty == ASSUME NEW b \in Int PROVE Run(b, 0) = <<>>
BY DEF Run

LEMMA RunSub ==
  ASSUME NEW b \in Int, NEW n \in Nat, NEW i \in 1 .. n + 1, NEW j \in 0 .. n, i <= j + 1
  PROVE  SubSeq(Run(b, n), i, j) = Run(b + i - 1, j - i + 1)
BY DEF Run

LEMMA RunConcat ==
  ASSUME NEW b \in Int, NEW m \in Nat, NEW n \in Nat
  PROVE  Run(b, m) \o Run(b + m, n) = Run(b, m + n)
BY DEF Run

-----------------------------------------------------------------------------
\* How many elements the queue holds, and how many a dequeue has taken.
Room == ht["prod"].tail - ht["cons"].head
Taken(t) == IF InFlight(t) THEN loc[t].n ELSE 0

LEMMA RingWords ==
  ASSUME RingInv
  PROVE  /\ ht["prod"].tail \in Nat /\ ht["cons"].head \in Nat
         /\ ht["cons"].tail \in Nat /\ ht["prod"].head \in Nat
         /\ ht["cons"].head <= ht["prod"].tail /\ ht["cons"].tail <= ht["cons"].head
         /\ ht["prod"].tail <= ht["prod"].head
         /\ ht["prod"].head <= ht["cons"].tail + Capacity /\ Capacity \in Nat
         /\ Room \in Nat /\ Room <= Capacity
<1>1. /\ ht["prod"].tail \in Nat /\ ht["cons"].head \in Nat
      /\ ht["cons"].tail \in Nat /\ ht["prod"].head \in Nat
  BY Zenon DEF RingInv, TypeOK, Side, HeadTail
<1>2. \A s \in Side : /\ ht[s].tail <= ht[s].head
                      /\ ht[s].head <= ht[Opp(s)].tail + Cap(s)
  BY Zenon DEF RingInv, HeadsInOrder
<1>3. /\ Opp("prod") = "cons" /\ Opp("cons") = "prod"
      /\ Cap("prod") = Capacity /\ Cap("cons") = 0
  BY DEF Opp, Cap
<1>4. Capacity \in Nat
  BY RingSizes
<1>5. /\ ht["prod"].tail <= ht["prod"].head /\ ht["cons"].tail <= ht["cons"].head
      /\ ht["prod"].head <= ht["cons"].tail + Capacity
      /\ ht["cons"].head <= ht["prod"].tail + 0
  BY <1>2, <1>3, Zenon DEF Side
<1>6. QED
  BY <1>1, <1>4, <1>5 DEF Room

LEMMA TakenNat ==
  ASSUME RingInv, NEW t \in Thread PROVE Taken(t) \in Nat
BY TypeFacts DEF Taken, RingInv

\* Between the consumer tail and the producer tail everything is written.
LEMMA Written ==
  ASSUME RingInv, NEW p \in Int, ht["cons"].tail <= p, p < ht["prod"].tail
  PROVE  ring[Slot(p)] = p
<1>1. p \in ht["cons"].tail .. (ht["prod"].head - 1)
  BY RingWords
<1>2. ASSUME NEW t \in Producers, InFlight(t), loc[t].old + loc[t].i <= p
      PROVE  FALSE
  <2>1. t \in Thread /\ SideOf(t) = "prod"
    BY Zenon DEF Thread, SideOf
  <2>2. ht["prod"].tail <= loc[t].old
    BY <1>2, <2>1, Zenon DEF RingInv, ClaimsUnpublished, Me
  <2>3. loc[t].old \in Nat /\ loc[t].i \in Nat
    BY <2>1, TypeFacts, Zenon DEF RingInv
  <2>4. QED
    BY <1>2, <2>2, <2>3, RingWords
<1>3. QED
  BY <1>1, <1>2, Zenon DEF RingInv, DataInv, Unwritten

\* The queue as it appears is what was enqueued, in order.
LEMMA QueueRun ==
  ASSUME RingInv
  PROVE  QueueView = Run(ht["cons"].head, Room)
<1>1. \A i \in 1 .. Room : ring[Slot(ht["cons"].head + i - 1)] = ht["cons"].head + i - 1
  <2>1. SUFFICES ASSUME NEW i \in 1 .. Room
                 PROVE  ring[Slot(ht["cons"].head + i - 1)] = ht["cons"].head + i - 1
    BY Zenon
  <2> DEFINE p == ht["cons"].head + i - 1
  <2>2. p \in Int /\ ht["cons"].tail <= p /\ p < ht["prod"].tail
    BY RingWords DEF Room
  <2> HIDE DEF p
  <2>3. ring[Slot(p)] = p
    BY <2>2, Written, Zenon
  <2>4. QED
    BY <2>3, Zenon DEF p
<1>2. QED
  BY <1>1, Zenon DEF QueueView, Run, Room

LEMMA TakenRun ==
  ASSUME RingInv
  PROVE  TakenView = [t \in Consumers |-> Run(loc[t].old, Taken(t))]
<1>1. SUFFICES ASSUME NEW t \in Consumers, NEW i \in 1 .. Taken(t)
               PROVE  (IF i <= Len(obj[t]) THEN obj[t][i] ELSE ring[Slot(loc[t].old + i - 1)])
                        = loc[t].old + i - 1
  BY Zenon DEF TakenView, Run, Taken
<1>2. t \in Thread
  BY ZenonT(60) DEF Thread
<1>3. /\ InFlight(t) /\ loc[t].n \in Nat /\ loc[t].old \in Nat /\ i \in 1 .. loc[t].n
      /\ Len(obj[t]) = loc[t].i /\ loc[t].i \in Nat
  BY <1>2, TypeFacts DEF Taken, RingInv, ObjOK
<1>4. CASE i <= Len(obj[t])
  <2>1. i \in 1 .. Len(obj[t])
    BY <1>3, <1>4
  <2>2. QED
    BY <1>2, <1>4, <2>1, Zenon DEF RingInv, ObjOK
<1>5. CASE ~ (i <= Len(obj[t]))
  <2> DEFINE p == loc[t].old + i - 1
  <2>1. p \in Int /\ loc[t].old <= p /\ p < loc[t].old + loc[t].n
    BY <1>3
  <2> HIDE DEF p
  <2>2. p \in ht["cons"].tail .. (ht["prod"].head - 1) /\ p < ht["prod"].tail
    BY <1>2, <1>3, <2>1, ClaimRange, Zenon
  <2>3. ring[Slot(p)] = p
    BY <2>1, <2>2, Written, RingWords
  <2>4. QED
    BY <1>5, <2>3, Zenon DEF p
<1>6. QED
  BY <1>4, <1>5, Zenon

-----------------------------------------------------------------------------
(* Steps of the queue                                                       *)

\* The same after a step.
LEMMA ViewsNext ==
  RingInv' => /\ QueueView' = Run(ht'["cons"].head, Room')
              /\ TakenView' = [t \in Consumers |-> Run(loc'[t].old, Taken(t)')]
              /\ Room' \in Nat /\ Room' <= Capacity
              /\ ht'["prod"].tail \in Nat /\ ht'["cons"].head \in Nat
              /\ \A t \in Thread : Taken(t)' \in Nat /\ loc'[t].old \in Nat
<1>1. RingInv => /\ QueueView = Run(ht["cons"].head, Room)
                 /\ TakenView = [t \in Consumers |-> Run(loc[t].old, Taken(t))]
                 /\ Room \in Nat /\ Room <= Capacity
                 /\ ht["prod"].tail \in Nat /\ ht["cons"].head \in Nat
                 /\ \A t \in Thread : Taken(t) \in Nat /\ loc[t].old \in Nat
  BY QueueRun, TakenRun, RingWords, TakenNat, TypeFacts, Zenon DEF RingInv
<1>2. RingInv' => (/\ QueueView = Run(ht["cons"].head, Room)
                   /\ TakenView = [t \in Consumers |-> Run(loc[t].old, Taken(t))]
                   /\ Room \in Nat /\ Room <= Capacity
                   /\ ht["prod"].tail \in Nat /\ ht["cons"].head \in Nat
                   /\ \A t \in Thread : Taken(t) \in Nat /\ loc[t].old \in Nat)'
  BY <1>1, PTL
<1>3. QED
  BY <1>2, Zenon

\* No dequeue takes anything or gives anything back.
Kept(c) == Taken(c)' = Taken(c) /\ (InFlight(c) => loc'[c].old = loc[c].old)

LEMMA KeptRun ==
  ASSUME RingInv, RingInv', NEW c \in Consumers, Kept(c)
  PROVE  Run(loc'[c].old, Taken(c)') = Run(loc[c].old, Taken(c))
<1>1. c \in Thread
  BY Zenon DEF Thread
<1>2. CASE InFlight(c)
  BY <1>2, Zenon DEF Kept
<1>3. CASE ~ InFlight(c)
  <2>1. Taken(c) = 0 /\ Taken(c)' = 0
    BY <1>3, ZenonT(60) DEF Kept, Taken
  <2>2. loc[c].old \in Int /\ loc'[c].old \in Int
    BY <1>1, TypeFacts, ViewsNext, SMTT(30) DEF RingInv
  <2>3. QED
    BY <2>1, <2>2, RunEmpty, Zenon
<1>4. QED
  BY <1>2, <1>3, Zenon

LEMMA TakenKept ==
  ASSUME RingInv, RingInv', \A c \in Consumers : Kept(c)
  PROVE  TakenView' = TakenView
<1>1. TakenView = [c \in Consumers |-> Run(loc[c].old, Taken(c))]
  BY TakenRun, Zenon
<1>2. TakenView' = [c \in Consumers |-> Run(loc'[c].old, Taken(c)')]
  BY ViewsNext, Zenon
<1>3. QED
  BY <1>1, <1>2, KeptRun, Zenon

\* Only the producer tail moves: elements enter, or nothing happens.
LEMMA QueueGrows ==
  ASSUME RingInv, RingInv', \A c \in Consumers : Kept(c),
         ht'["cons"].head = ht["cons"].head, ht["prod"].tail <= ht'["prod"].tail
  PROVE  [Queue!Next]_(Queue!vars)
<1> DEFINE h == ht["cons"].head
           n == ht'["prod"].tail - ht["prod"].tail
<1>1. TakenView' = TakenView
  BY TakenKept, Zenon
<1>2. QueueView = Run(h, Room) /\ QueueView' = Run(h, Room')
  <2>1. QueueView' = Run(ht'["cons"].head, Room')
    BY ViewsNext, Zenon
  <2>2. QED
    BY <2>1, QueueRun, Zenon
<1>3. /\ Room \in Nat /\ Room' \in Nat /\ Room' <= Capacity /\ Room' = Room + n
      /\ ht["prod"].tail \in Nat /\ ht'["prod"].tail \in Nat /\ n \in Nat
      /\ h \in Nat /\ ht["prod"].tail = h + Room
  <2>1. Room' \in Nat /\ Room' <= Capacity /\ ht'["prod"].tail \in Nat
    BY ViewsNext, Zenon
  <2>2. QED
    BY <2>1, RingWords DEF Room
<1> HIDE DEF h, n
<1>4. CASE n = 0
  <2>1. ht'["prod"].tail = ht["prod"].tail /\ Room' = Room
    BY <1>3, <1>4 DEF n
  <2>2. QED
    BY <1>1, <1>2, <2>1, ZenonT(60) DEF Queue!vars
<1>5. CASE n # 0
  <2>1. n \in 1 .. Capacity
    BY <1>3, <1>5, RingSizes
  <2>2. Run(ht["prod"].tail, n) = [i \in 1 .. n |-> ht["prod"].tail + i - 1]
    BY Zenon DEF Run
  <2>3. QueueView' = QueueView \o Run(ht["prod"].tail, n)
    <3>1. h \in Int
      BY <1>3
    <3>2. Run(h, Room) \o Run(h + Room, n) = Run(h, Room + n)
      BY <1>3, <3>1, RunConcat, Zenon
    <3>3. QED
      BY <1>2, <1>3, <3>2, Zenon
  <2>4. Len(QueueView) + n <= Capacity
    <3>1. h \in Int
      BY <1>3
    <3>2. Len(QueueView) = Room
      BY <1>2, <1>3, <3>1, RunSeq, Zenon
    <3>3. QED
      BY <1>3, <3>2
  <2>5. ht'["prod"].tail = ht["prod"].tail + n
    BY <1>3 DEF n
  <2>6. Queue!Enqueue(n)
    BY <1>1, <2>2, <2>3, <2>4, <2>5, Zenon DEF Queue!Enqueue
  <2>7. QED
    BY <2>1, <2>6, Zenon DEF Queue!Next
<1>6. QED
  BY <1>4, <1>5, Zenon

\* A dequeue moves the consumer head: it takes the first elements.
LEMMA QueueTakes ==
  ASSUME RingInv, RingInv', NEW c \in Consumers, NEW n \in Nat, n >= 1,
         ~ InFlight(c), InFlight(c)', loc'[c].n = n,
         loc'[c].old = ht["cons"].head, ht'["cons"].head = ht["cons"].head + n,
         ht'["prod"].tail = ht["prod"].tail, \A d \in Consumers \ {c} : Kept(d)
  PROVE  Queue!Next
<1> DEFINE h == ht["cons"].head
<1>1. /\ h \in Nat /\ Room \in Nat /\ Room' \in Nat /\ Room' = Room - n
      /\ h + n \in Nat /\ n <= Room /\ n \in 1 .. Room
  BY RingWords, ViewsNext DEF Room
<1>2. QueueView = Run(h, Room) /\ QueueView' = Run(h + n, Room')
  BY QueueRun, ViewsNext, Zenon
<1>3. /\ TakenView = [d \in Consumers |-> Run(loc[d].old, Taken(d))]
      /\ TakenView' = [d \in Consumers |-> Run(loc'[d].old, Taken(d)')]
  BY TakenRun, ViewsNext, Zenon
<1>4. Taken(c) = 0 /\ Taken(c)' = n
  BY Zenon DEF Taken
<1>5. TakenView[c] = <<>>
  <2>1. c \in Thread /\ TypeOK
    BY Zenon DEF RingInv, Thread
  <2>3. loc[c].old \in Nat
    BY <2>1, TypeFacts, Zenon
  <2>4. loc[c].old \in Int
    BY <2>3, SMT
  <2>2. QED
    BY <1>3, <1>4, <2>4, RunEmpty, Zenon
<1> HIDE DEF h
<1>6. h \in Int /\ h + n \in Int
  BY <1>1
<1>7. Len(QueueView) = Room
  BY <1>1, <1>2, <1>6, RunSeq, Zenon
<1>8. SubSeq(QueueView, 1, n) = Run(h, n)
  <2>1. /\ 1 \in 1 .. Room + 1 /\ n \in 0 .. Room /\ 1 <= n + 1
        /\ h + 1 - 1 = h /\ n - 1 + 1 = n
    BY <1>1
  <2>2. SubSeq(Run(h, Room), 1, n) = Run(h + 1 - 1, n - 1 + 1)
    BY <1>1, <1>6, <2>1, RunSub, Zenon
  <2>3. QED
    BY <1>2, <2>1, <2>2, Zenon
<1>9. SubSeq(QueueView, n + 1, Len(QueueView)) = QueueView'
  <2>1. /\ n + 1 \in 1 .. Room + 1 /\ Room \in 0 .. Room /\ n + 1 <= Room + 1
        /\ h + (n + 1) - 1 = h + n /\ Room - (n + 1) + 1 = Room'
    BY <1>1
  <2>2. SubSeq(Run(h, Room), n + 1, Room) = Run(h + (n + 1) - 1, Room - (n + 1) + 1)
    BY <1>1, <1>6, <2>1, RunSub, Zenon
  <2>3. QED
    BY <1>2, <1>7, <2>1, <2>2, Zenon
<1>10. TakenView' = [TakenView EXCEPT ![c] = SubSeq(QueueView, 1, n)]
  <2>1. \A d \in Consumers \ {c} : Run(loc'[d].old, Taken(d)') = Run(loc[d].old, Taken(d))
    BY KeptRun, Zenon
  <2>2. Run(loc'[c].old, Taken(c)') = SubSeq(QueueView, 1, n)
    BY <1>4, <1>8, Zenon DEF h
  <2>3. QED
    BY <1>3, <2>1, <2>2, Zenon
<1>11. Queue!Dequeue(c, n)
  BY <1>5, <1>9, <1>10, Zenon DEF Queue!Dequeue
<1>12. QED
  BY <1>1, <1>7, <1>11, ZenonT(60) DEF Queue!Next

\* A dequeue ends, keeps the first k of its elements and puts the others back.
LEMMA QueueFinishes ==
  ASSUME RingInv, RingInv', NEW c \in Consumers, NEW k \in Nat, k <= loc[c].n,
         InFlight(c), ~ InFlight(c)',
         ht'["cons"].head = ht["cons"].head - (loc[c].n - k),
         k < loc[c].n => loc[c].old + loc[c].n = ht["cons"].head,
         k < loc[c].n => \A d \in Consumers \ {c} : ~ InFlight(d),
         ht'["prod"].tail = ht["prod"].tail, \A d \in Consumers \ {c} : Kept(d)
  PROVE  Queue!Next
<1> DEFINE h == ht["cons"].head
           n == loc[c].n
           o == loc[c].old
<1>1. /\ h \in Nat /\ Room \in Nat /\ Room' \in Nat /\ n \in Nat /\ o \in Nat
      /\ Room' = (n - k) + Room /\ c \in Thread
  <2>1. c \in Thread
    BY Zenon DEF Thread
  <2>2. n \in Nat /\ o \in Nat
    BY <2>1, TypeFacts, Zenon DEF RingInv
  <2>3. QED
    BY <2>1, <2>2, RingWords, ViewsNext DEF Room
<1>2. QueueView = Run(h, Room) /\ QueueView' = Run(h - (n - k), Room')
  BY QueueRun, ViewsNext, Zenon
<1>3. /\ TakenView = [d \in Consumers |-> Run(loc[d].old, Taken(d))]
      /\ TakenView' = [d \in Consumers |-> Run(loc'[d].old, Taken(d)')]
  BY TakenRun, ViewsNext, ZenonT(60)
<1>4. /\ Taken(c) = n /\ Taken(c)' = 0 /\ TakenView[c] = Run(o, n)
      /\ loc'[c].old \in Int
  BY <1>1, <1>3, ViewsNext DEF Taken
<1>5. Len(TakenView[c]) = n
  <2>1. o \in Int
    BY <1>1
  <2> HIDE DEF n, o
  <2>2. Len(Run(o, n)) = n
    BY <1>1, <2>1, RunSeq, Zenon
  <2>3. QED
    BY <1>4, <2>2, Zenon
<1>6. SubSeq(Run(o, n), k + 1, n) = Run(o + k, n - k)
  <2>1. /\ k + 1 \in 1 .. n + 1 /\ n \in 0 .. n /\ k + 1 <= n + 1 /\ o \in Int
        /\ o + (k + 1) - 1 = o + k /\ n - (k + 1) + 1 = n - k
    BY <1>1
  <2> HIDE DEF n, o
  <2>2. SubSeq(Run(o, n), k + 1, n) = Run(o + (k + 1) - 1, n - (k + 1) + 1)
    BY <1>1, <2>1, RunSub, Zenon
  <2>3. QED
    BY <2>1, <2>2, Zenon
<1>7. TakenView' = [TakenView EXCEPT ![c] = <<>>]
  <2>1. \A d \in Consumers \ {c} : Run(loc'[d].old, Taken(d)') = Run(loc[d].old, Taken(d))
    BY KeptRun, Zenon
  <2>2. Run(loc'[c].old, Taken(c)') = <<>>
    BY <1>4, RunEmpty, Zenon
  <2>3. QED
    BY <1>3, <2>1, <2>2, Zenon
<1>8. k < n => \A d \in Consumers \ {c} : TakenView[d] = <<>>
  <2>1. SUFFICES ASSUME k < n, NEW d \in Consumers \ {c} PROVE TakenView[d] = <<>>
    BY Zenon
  <2>2. Taken(d) = 0
    BY <2>1, ZenonT(60) DEF Taken
  <2>3. loc[d].old \in Int
    BY TypeFacts DEF RingInv, Thread
  <2>4. QED
    BY <1>3, <2>2, <2>3, RunEmpty, Zenon
<1> HIDE DEF h, n, o
<1>9. QueueView' = SubSeq(TakenView[c], k + 1, Len(TakenView[c])) \o QueueView
  <2>1. CASE k < n
    <3>1. /\ o + n = h /\ o + k \in Int /\ n - k \in Nat
          /\ (o + k) + (n - k) = h /\ h - (n - k) = o + k
      BY <1>1, <2>1 DEF h, n, o
    <3>2. Run(o + k, n - k) \o Run((o + k) + (n - k), Room) = Run(o + k, (n - k) + Room)
      BY <1>1, <3>1, RunConcat, Zenon
    <3>3. QED
      BY <1>1, <1>2, <1>4, <1>5, <1>6, <3>1, <3>2, ZenonT(60)
  <2>2. CASE ~ (k < n)
    <3>1. n - k = 0 /\ h - (n - k) = h /\ o + k \in Int /\ Room' = Room
      BY <1>1, <2>2 DEF n
    <3>2. Run(o + k, n - k) = <<>>
      BY <3>1, RunEmpty, Zenon
    <3>3. QueueView \in Seq(Int)
      BY <1>1, <1>2, RunSeq
    <3>4. <<>> \o QueueView = QueueView
      BY <3>3
    <3>5. QED
      BY <1>2, <1>4, <1>5, <1>6, <3>1, <3>2, <3>4, Zenon
  <2>3. QED
    BY <2>1, <2>2, Zenon
<1>10. k \in 0 .. Len(TakenView[c])
  BY <1>1, <1>5 DEF n
<1>11. Queue!Finish(c, k)
  BY <1>5, <1>7, <1>8, <1>9, Zenon DEF Queue!Finish
<1>12. QED
  BY <1>10, <1>11, ZenonT(60) DEF Queue!Next

-----------------------------------------------------------------------------
(* Steps of the ring                                                        *)

LEMMA OthersKept ==
  ASSUME NEW t \in Thread, OthersSame(t)
  PROVE  \A c \in Consumers \ {t} : Kept(c)
BY Zenon DEF OthersSame, Kept, Taken, InFlight, Thread

\* Steps that neither claim nor release positions.
LEMMA QuietStep ==
  ASSUME RingInv, RingInv', NEW t \in Thread, ht' = ht, OthersSame(t),
         InFlight(t)' <=> InFlight(t),
         InFlight(t) => loc'[t].old = loc[t].old /\ loc'[t].n = loc[t].n
  PROVE  [Queue!Next]_(Queue!vars)
<1>1. Kept(t)
  <2>1. CASE InFlight(t)
    BY <2>1, Zenon DEF Kept, Taken
  <2>2. CASE ~ InFlight(t)
    BY <2>2, Zenon DEF Kept, Taken
  <2>3. QED
    BY <2>1, <2>2, Zenon
<1>2. \A c \in Consumers : Kept(c)
  BY <1>1, OthersKept, Zenon
<1>3. ht["prod"].tail <= ht'["prod"].tail
  BY RingWords
<1>4. QED
  BY <1>2, <1>3, QueueGrows, Zenon

LEMMA ReturnFacts ==
  ASSUME TypeOK, NEW t \in Thread, Return(t)
  PROVE  OthersSame(t) /\ ~ InFlight(t)'
BY Zenon DEF TypeOK, Return, Goto, OthersSame, InFlight

\* A call ends and leaves its side with new words.
LEMMA EndStep ==
  ASSUME RingInv, RingInv', NEW t \in Thread, InFlight(t), Return(t),
         NEW k \in Nat, k <= loc[t].n,
         \A x \in Side : x # SideOf(t) => ht'[x] = ht[x],
         Me(t).tail <= ht'[SideOf(t)].tail,
         ht'[SideOf(t)].head = Me(t).head - (loc[t].n - k),
         k < loc[t].n => Serial(t)
  PROVE  [Queue!Next]_(Queue!vars)
<1>1. OthersSame(t) /\ ~ InFlight(t)'
  BY ReturnFacts, Zenon DEF RingInv
<1>2. \A c \in Consumers \ {t} : Kept(c)
  BY <1>1, OthersKept, Zenon
<1>3. CASE t \in Producers
  <2>1. SideOf(t) = "prod" /\ t \notin Consumers
    BY <1>3, RingThreads, Zenon DEF SideOf
  <2>2. ht'["cons"] = ht["cons"] /\ ht["prod"].tail <= ht'["prod"].tail
    BY <2>1, Zenon DEF Me, Side
  <2>3. \A c \in Consumers : Kept(c)
    BY <1>2, <2>1, Zenon
  <2>4. QED
    BY <2>2, <2>3, QueueGrows, Zenon
<1>4. CASE t \notin Producers
  <2>1. SideOf(t) = "cons" /\ t \in Consumers /\ Me(t) = ht["cons"]
    BY <1>4, Zenon DEF SideOf, Thread, Me
  <2>2. ht'["prod"] = ht["prod"]
    BY <2>1, Zenon DEF Side
  <2>3. k < loc[t].n => /\ loc[t].old + loc[t].n = ht["cons"].head
                        /\ \A d \in Consumers \ {t} : ~ InFlight(d)
    <3>1. \A d \in Consumers \ {t} : d \in Thread /\ SideOf(d) = SideOf(t)
      BY <2>1, RingThreads, Zenon DEF Thread, SideOf
    <3>2. QED
      BY <2>1, <3>1, SerialAlone, Zenon DEF RingInv, SerialOK
  <2>4. Queue!Next
    BY <1>1, <1>2, <2>1, <2>2, <2>3, QueueFinishes, Zenon
  <2>5. QED
    BY <2>4, Zenon
<1>5. QED
  BY <1>3, <1>4, Zenon

\* The steps of a call in flight that do not move a head or a tail.
LEMMA InFlightSteps ==
  ASSUME TypeOK, NEW t \in Thread,
         CopyElem(t) \/ RtsLoadTail(t) \/ RtsLoadHead(t) \/ RtsUpdateTailFails(t)
  PROVE  /\ InFlight(t)
         /\ pc'[t] \in {"copy", "upd", "set", "held", "updh", "updcas"}
         /\ loc'[t].old = loc[t].old /\ loc'[t].n = loc[t].n
<1>1. CASE CopyElem(t)
  BY <1>1 DEF CopyElem, Goto, InFlight, TypeOK, Local
<1>2. CASE RtsLoadTail(t)
  BY <1>2 DEF RtsLoadTail, Goto, InFlight, TypeOK, Local
<1>3. CASE RtsLoadHead(t)
  BY <1>3 DEF RtsLoadHead, Goto, InFlight, TypeOK, Local
<1>4. CASE RtsUpdateTailFails(t)
  BY <1>4 DEF RtsUpdateTailFails, Goto, InFlight, TypeOK, Local
<1>5. QED
  BY <1>1, <1>2, <1>3, <1>4, Zenon

LEMMA PeekFinishStep ==
  ASSUME TypeOK, NEW t \in Thread, NEW k, PeekFinish(t, k)
  PROVE  /\ InFlight(t) /\ pc'[t] \in {"copy", "set"}
         /\ loc'[t].old = Me(t).tail /\ loc'[t].n = loc[t].n
<1>1. /\ pc[t] = "held"
      /\ pc' = [pc EXCEPT ![t] = IF t \in Producers /\ FinishCount(t, k) > 0
                                THEN "copy" ELSE "set"]
      /\ loc' = [loc EXCEPT ![t] = [@ EXCEPT !.old = Me(t).tail,
                                              !.k = FinishCount(t, k)]]
  BY Zenon DEF PeekFinish, Goto
<1>2. pc'[t] = "copy" \/ pc'[t] = "set"
  BY <1>1, Zenon DEF TypeOK
<1>3. loc'[t].old = Me(t).tail /\ loc'[t].n = loc[t].n
  BY <1>1 DEF TypeOK, Local
<1>4. QED
  BY <1>1, <1>2, <1>3, Zenon DEF InFlight

LEMMA LoadTailStep ==
  ASSUME TypeOK, NEW t \in Thread, LoadTail(t)
  PROVE  ~ InFlight(t) /\ ~ InFlight(t)'
<1>1. /\ pc[t] = "tail"
      /\ Return(t) \/ Goto(t, "cas")
  BY Zenon DEF LoadTail
<1>2. ~ InFlight(t)
  BY <1>1 DEF InFlight
<1>3. CASE Goto(t, "cas")
  BY <1>2, <1>3 DEF Goto, TypeOK, InFlight
<1>4. QED
  BY <1>1, <1>2, <1>3, ReturnFacts, Zenon

LEMMA FifoQuiet ==
  ASSUME RingInv, RingInv', NEW t \in Thread,
         \/ AnyCall(t) \/ LoadHead(t) \/ RtsHeadWait(t) \/ LoadTail(t)
         \/ MoveHeadFails(t) \/ CopyElem(t)
         \/ RtsLoadTail(t) \/ RtsLoadHead(t) \/ RtsUpdateTailFails(t)
         \/ \E k \in 0 .. MaxNum : PeekFinish(t, k)
  PROVE  [Queue!Next]_(Queue!vars)
<1>1. /\ ht' = ht /\ OthersSame(t)
  BY ReturnFacts, Zenon
     DEF AnyCall, Call, LoadHead, RtsHeadWait, LoadTail, MoveHeadFails, CopyElem,
         RtsLoadTail, RtsLoadHead, RtsUpdateTailFails, PeekFinish, Goto,
         OthersSame, RingInv, TypeOK
<1>2. TypeOK
  BY Zenon DEF RingInv
<1>3. CASE AnyCall(t) \/ LoadHead(t) \/ RtsHeadWait(t) \/ MoveHeadFails(t)
  <2>1. ~ InFlight(t) /\ pc'[t] \in {"head", "htd", "tail"}
    BY <1>2, <1>3, Zenon DEF AnyCall, Call, LoadHead, RtsHeadWait, MoveHeadFails, Goto,
                             InFlight, TypeOK
  <2>2. ~ InFlight(t)'
    BY <2>1 DEF InFlight
  <2>3. QED
    BY <1>1, <2>1, <2>2, QuietStep, Zenon
<1>4. CASE LoadTail(t)
  BY <1>1, <1>2, <1>4, LoadTailStep, QuietStep, Zenon
<1>5. CASE CopyElem(t) \/ RtsLoadTail(t) \/ RtsLoadHead(t) \/ RtsUpdateTailFails(t)
  <2>1. /\ InFlight(t)
        /\ pc'[t] \in {"copy", "upd", "set", "held", "updh", "updcas"}
        /\ loc'[t].old = loc[t].old /\ loc'[t].n = loc[t].n
    BY <1>2, <1>5, InFlightSteps, Zenon
  <2>2. InFlight(t)'
    BY <2>1 DEF InFlight
  <2>3. QED
    BY <1>1, <2>1, <2>2, QuietStep, Zenon
<1>6. ASSUME NEW k \in 0 .. MaxNum, PeekFinish(t, k)
      PROVE  [Queue!Next]_(Queue!vars)
  <2>1. /\ InFlight(t) /\ pc'[t] \in {"copy", "set"}
        /\ loc'[t].old = Me(t).tail /\ loc'[t].n = loc[t].n
    BY <1>2, <1>6, PeekFinishStep, Zenon
  <2>2. InFlight(t)'
    BY <2>1 DEF InFlight
  <2>3. Me(t).tail = loc[t].old
    BY <1>6, <2>1, InvFacts, Zenon DEF PeekFinish, SerialOK, ControlOK, InCall
  <2>4. QED
    BY <1>1, <2>1, <2>2, <2>3, QuietStep, Zenon
<1>7. QED
  BY <1>3, <1>4, <1>5, <1>6, Zenon

LEMMA FifoMoveHead ==
  ASSUME RingInv, RingInv', NEW t \in Thread, MoveHead(t)
  PROVE  [Queue!Next]_(Queue!vars)
<1>1. loc[t].old = Me(t).head /\ pc[t] = "cas"
  BY HeadIsOld, Zenon DEF MoveHead
<1> DEFINE s == SideOf(t)
           n == loc[t].n
           h == Me(t).head
<1>2. /\ OthersSame(t) /\ ~ InFlight(t) /\ InFlight(t)'
      /\ s \in Side
  BY SideFacts DEF MoveHead, Goto, AfterClaim, OthersSame, InFlight, RingInv, TypeOK
<1>3. /\ ht'[s].head = h + n /\ ht'[s].tail = Me(t).tail
      /\ \A x \in Side : x # s => ht'[x] = ht[x]
      /\ loc'[t].old = h /\ loc'[t].n = n
  BY <1>1, <1>2, Zenon DEF MoveHead, RingInv, TypeOK, HeadTail, Local, Me
<1>4. \A c \in Consumers \ {t} : Kept(c)
  BY <1>2, OthersKept, Zenon
<1>5. CASE t \in Producers
  <2>1. s = "prod" /\ t \notin Consumers
    BY <1>5, RingThreads, Zenon DEF SideOf
  <2>2. ht'["cons"] = ht["cons"] /\ ht'["prod"].tail = ht["prod"].tail
    BY <1>3, <2>1, Zenon DEF Me, Side
  <2>3. ht["prod"].tail <= ht'["prod"].tail
    BY <2>2, RingWords
  <2>4. \A c \in Consumers : Kept(c)
    BY <1>4, <2>1, Zenon
  <2>5. QED
    BY <2>2, <2>3, <2>4, QueueGrows, Zenon
<1>6. CASE t \notin Producers
  <2>1. s = "cons" /\ t \in Consumers /\ Me(t) = ht["cons"]
    BY <1>6, Zenon DEF SideOf, Thread, Me
  <2>2. ht'["prod"] = ht["prod"]
    BY <1>3, <2>1, Zenon DEF Side
  <2>3. n \in Nat /\ n >= 1
    BY <1>1, InvFacts, TypeFacts, Zenon DEF RingInv, LoadedOK, Loaded
  <2>4. Queue!Next
    BY <1>2, <1>3, <1>4, <2>1, <2>2, <2>3, QueueTakes, Zenon
  <2>5. QED
    BY <2>4, Zenon
<1>7. QED
  BY <1>5, <1>6, Zenon

LEMMA FifoUpdateTail ==
  ASSUME RingInv, RingInv', NEW t \in Thread, UpdateTail(t) \/ RtsUpdateTail(t)
  PROVE  [Queue!Next]_(Queue!vars)
<1>1. /\ InFlight(t) /\ Return(t)
  BY Zenon DEF UpdateTail, RtsUpdateTail, InFlight
<1>2. /\ Me(t).head \in Nat /\ Me(t).tail \in Nat /\ loc[t].old \in Nat
      /\ loc[t].n \in Nat /\ SideOf(t) \in Side
  BY TypeFacts, SideFacts, Zenon DEF RingInv
<1>3. /\ ht'[SideOf(t)].head = Me(t).head
      /\ \A x \in Side : x # SideOf(t) => ht'[x] = ht[x]
  BY <1>2, Zenon DEF UpdateTail, RtsUpdateTail, RingInv, TypeOK, HeadTail, Me
<1>4. Me(t).tail <= ht'[SideOf(t)].tail
  <2>1. CASE UpdateTail(t)
    <3>1. ht'[SideOf(t)].tail = loc[t].old + loc[t].n
      BY <1>2, <2>1, Zenon DEF UpdateTail, RingInv, TypeOK, HeadTail, Me
    <3>2. Me(t).tail <= loc[t].old
      BY <1>1, Zenon DEF RingInv, ClaimsUnpublished
    <3>3. QED
      BY <1>2, <3>1, <3>2
  <2>2. CASE RtsUpdateTail(t)
    <3>1. ht'[SideOf(t)].tail = RtsNewTail(t)
      BY <1>2, <2>2, Zenon DEF RtsUpdateTail, RingInv, TypeOK, HeadTail, Me
    <3>2. QED
      BY <2>2, <3>1, RtsNewTailOK, Zenon
  <2>3. QED
    BY <2>1, <2>2, Zenon
<1>5. /\ loc[t].n <= loc[t].n /\ ~ (loc[t].n < loc[t].n)
      /\ Me(t).head - (loc[t].n - loc[t].n) = Me(t).head
  BY <1>2
<1>6. QED
  BY <1>1, <1>2, <1>3, <1>4, <1>5, EndStep, Zenon

LEMMA FifoPeekEnds ==
  ASSUME RingInv, RingInv', NEW t \in Thread, PeekSetHeadTail(t)
  PROVE  [Queue!Next]_(Queue!vars)
<1> DEFINE k == loc[t].k
           T == loc[t].old + loc[t].k
<1>1. /\ pc[t] = "set" /\ InFlight(t) /\ Return(t)
      /\ ht' = [ht EXCEPT ![SideOf(t)] = [@ EXCEPT !.head = T, !.tail = T]]
  BY Zenon DEF PeekSetHeadTail, InFlight
<1>2. /\ Me(t).head \in Nat /\ Me(t).tail \in Nat /\ loc[t].old \in Nat
      /\ loc[t].n \in Nat /\ k \in Nat /\ SideOf(t) \in Side
  BY TypeFacts, SideFacts, Zenon DEF RingInv
<1>3. /\ Serial(t) /\ k <= loc[t].n
      /\ loc[t].old = Me(t).tail /\ loc[t].old + loc[t].n = Me(t).head
  BY <1>1, InvFacts, Zenon DEF ControlOK, InCall, SerialOK
<1>4. T = Me(t).head - (loc[t].n - k) /\ Me(t).tail <= T
  BY <1>2, <1>3
<1> HIDE DEF T
<1>5. /\ ht'[SideOf(t)].head = T /\ ht'[SideOf(t)].tail = T
      /\ \A x \in Side : x # SideOf(t) => ht'[x] = ht[x]
  BY <1>1, <1>2, Zenon DEF RingInv, TypeOK, HeadTail
<1>6. QED
  BY <1>1, <1>2, <1>3, <1>4, <1>5, EndStep, Zenon

\* An idle ring is reset.
LEMMA FifoReset ==
  ASSUME RingInv, RingInv', Reset
  PROVE  Queue!Next
<1>1. /\ \A t \in Thread : pc[t] = "idle"
      /\ UNCHANGED <<ring, pc, loc, obj>>
      /\ ht'["prod"].tail = ht'["cons"].head
  BY Zenon DEF Reset, Side, AtBase
<1>2. \A t \in Thread : ~ InFlight(t)
  BY <1>1 DEF InFlight
<1>3. \A c \in Consumers : Kept(c) /\ Taken(c) = 0
  BY <1>1, <1>2, Zenon DEF Kept, Taken, InFlight, Thread
<1>4. TakenView' = TakenView
  BY <1>3, TakenKept, Zenon
<1>5. \A c \in Consumers : TakenView[c] = <<>>
  <2>1. \A c \in Consumers : loc[c].old \in Int
    BY TypeFacts DEF RingInv, Thread
  <2>2. QED
    BY <1>3, <2>1, TakenRun, RunEmpty, ZenonT(60)
<1>6. QueueView' = <<>> /\ ht'["prod"].tail \in Nat
  <2>1. Room' = 0 /\ ht'["cons"].head \in Int
    BY <1>1, ViewsNext DEF Room
  <2>2. QED
    BY <2>1, ViewsNext, RunEmpty, ZenonT(60)
<1>7. QED
  BY <1>4, <1>5, <1>6, Zenon DEF Queue!Next, Queue!Reset

LEMMA FifoInit == Init => Queue!Init
<1> SUFFICES ASSUME Init PROVE Queue!Init
  BY Zenon
<1>1. RingInv
  BY InitInv, Zenon
<1>2. Room = 0 /\ ht["prod"].tail \in Nat /\ ht["cons"].head \in Int
  BY <1>1, RingWords DEF Init, AtBase, Side, Room
<1>3. QueueView = <<>>
  BY <1>1, <1>2, QueueRun, RunEmpty, Zenon
<1>4. \A c \in Consumers : Taken(c) = 0 /\ loc[c].old \in Int
  BY <1>1, TypeFacts DEF RingInv, Init, Taken, InFlight, Thread
<1>5. TakenView = [c \in Consumers |-> <<>>]
  BY <1>1, <1>4, TakenRun, RunEmpty, Zenon
<1>6. QED
  BY <1>2, <1>3, <1>5, Zenon DEF Queue!Init

LEMMA FifoStep == RingInv /\ RingInv' /\ [Next]_vars => [Queue!Next]_(Queue!vars)
<1> SUFFICES ASSUME RingInv, RingInv', [Next]_vars
             PROVE  [Queue!Next]_(Queue!vars)
  BY Zenon
<1>1. ASSUME NEW t \in Thread, AnyCall(t) \/ Step(t)
      PROVE  [Queue!Next]_(Queue!vars)
  BY <1>1, FifoQuiet, FifoMoveHead, FifoUpdateTail, FifoPeekEnds, Zenon DEF Step
<1>2. CASE Reset
  BY <1>2, FifoReset, Zenon
<1>3. CASE UNCHANGED vars
  BY <1>3, Zenon DEF vars, Queue!vars, QueueView, TakenView, InFlight
<1>4. QED
  BY <1>1, <1>2, <1>3, Zenon DEF Next

\* Whatever the number of threads, the sizes and the modes of the two sides, the
\* ring is a FIFO queue of at most Capacity elements: an enqueue takes effect when
\* update_tail passes it, a dequeue when it moves the consumer head.
THEOREM RingIsQueue == Spec => RefinesQueue
<1>1. Init => Queue!Init
  BY FifoInit, Zenon
<1>2. RingInv /\ RingInv' /\ [Next]_vars => [Queue!Next]_(Queue!vars)
  BY FifoStep, Zenon
<1>3. QED
  BY <1>1, <1>2, InvariantHolds, PTL DEF Spec, RefinesQueue, Queue!Spec
=============================================================================
