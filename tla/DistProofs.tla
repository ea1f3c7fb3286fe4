----------------------------- MODULE DistProofs ------------------------------
(***************************************************************************)
(* The distributor keeps flows apart and in order, and loses no returned    *)
(* packet while no worker leaves, for any number of workers, packets and    *)
(* tags and any sizes of its queues.                                        *)
(***************************************************************************)
EXTENDS Distributor, TLAPS

-----------------------------------------------------------------------------
(* Quotients and remainders, for the words that wrap                        *)

\* A number is determined by quotient and remainder.
LEMMA DivMod ==
  ASSUME NEW a \in Int, NEW b \in Nat, b > 0
  PROVE  /\ a = b * (a \div b) + (a % b)
         /\ a \div b \in Int
         /\ a % b \in 0 .. (b - 1)
OBVIOUS

\* A multiple of b that is smaller than b in absolute value is 0.
LEMMA SmallMultiple ==
  ASSUME NEW b \in Nat, b > 0, NEW q \in Int, NEW r \in Int,
         -b < r, r < b, b * q + r = 0
  PROVE  r = 0
<1>1. CASE q = 0
  BY <1>1
<1>2. CASE q >= 1
  <2>1. b * q >= b
    BY <1>2
  <2>2. QED
    BY <2>1
<1>3. CASE q <= -1
  <2>1. b * q <= -b
    BY <1>3
  <2>2. QED
    BY <2>1
<1>4. QED
  BY <1>1, <1>2, <1>3

\* Two numbers less than b apart with the same remainder are equal.
LEMMA SameRemainder ==
  ASSUME NEW b \in Nat, b > 0, NEW x \in Int, NEW y \in Int,
         x - y < b, y - x < b, x % b = y % b
  PROVE  x = y
<1> DEFINE qx == x \div b
           qy == y \div b
<1>1. x = b * qx + (x % b) /\ y = b * qy + (y % b) /\ qx \in Int /\ qy \in Int
  BY DivMod, Zenon
<1> HIDE DEF qx, qy
<1>2. x % b \in Int
  BY DivMod
<1>3. b * (qx - qy) = b * qx - b * qy
  BY <1>1
<1>4. b * (qx - qy) + (y - x) = 0
  BY <1>1, <1>2, <1>3
<1>5. qx - qy \in Int /\ y - x \in Int /\ -b < y - x /\ y - x < b
  BY <1>1
<1>6. y - x = 0
  BY <1>4, <1>5, SmallMultiple, Zenon
<1>7. QED
  BY <1>6

\* Adding a multiple does not change the remainder.
LEMMA RemainderShift ==
  ASSUME NEW b \in Nat, b > 0, NEW x \in Int, NEW y \in Int, NEW q \in Int,
         x = y + b * q, 0 <= y, y < b
  PROVE  x % b = y
<1> DEFINE d == x \div b
           r == x % b
<1>1. x = b * d + r /\ d \in Int /\ r \in 0 .. (b - 1)
  BY DivMod, Zenon
<1> HIDE DEF d, r
<1>2. b * (d - q) = b * d - b * q
  BY <1>1
<1>3. b * (d - q) + (r - y) = 0
  BY <1>1, <1>2
<1>4. d - q \in Int /\ r - y \in Int /\ -b < r - y /\ r - y < b
  BY <1>1
<1>5. r - y = 0
  BY <1>3, <1>4, SmallMultiple, Zenon
<1>6. r = y
  BY <1>5, <1>1
<1>7. QED
  BY <1>6, Zenon DEF r

-----------------------------------------------------------------------------
MaybePkt == Pkts \union {NoPkt}
MaybeTag == Tags \union {NoTag}
FrameType ==
  [at : {"deal", "last", "returns"}, in : Seq(Pkts), mb : MaybePkt, wkr : 0 .. NumWorkers,
   start : 0 .. ReturnsSize - 1, count : 0 .. ReturnsSize - 1, old : MaybePkt]

RetType ==
  [mbufs : [0 .. ReturnsSize - 1 -> MaybePkt],
   start : 0 .. ReturnsSize - 1, count : 0 .. ReturnsSize - 1]

DistTypeOK ==
  /\ tag \in [Pkts -> Tags]
  /\ bufs \in [Wkr -> [flag : {"none", "get", "ret"}, pkt : MaybePkt]]
  /\ inFlight \in [Wkr -> MaybeTag]
  /\ backlog \in [Wkr -> Seq(Pkts)]
  /\ returns \in RetType
  /\ frames \in Seq(FrameType)
  /\ flushing \in BOOLEAN
  /\ doing \in [Wkr -> {"working", "polling", "gone"}]
  /\ has \in [Wkr -> MaybePkt]
  /\ leavers \in SUBSET Wkr
  /\ fresh \in 1 .. MaxPkts + 1
  /\ given \in SUBSET Pkts
  /\ handed \in SUBSET Pkts

\* The worker has left and the distributor knows.
Left(w) == doing[w] = "gone" /\ bufs[w].flag = "none"

\* Who may write the word of worker w, and what that says of its flow.
WkrOK(w) ==
  /\ doing[w] = "working" => bufs[w].flag = "none"
  /\ bufs[w].flag = "get" => doing[w] = "polling"
  /\ bufs[w].flag = "ret" => doing[w] = "gone"
  /\ doing[w] # "working" => has[w] = NoPkt
  /\ Left(w) => inFlight[w] = NoTag
  /\ Works(w) # NoPkt => inFlight[w] = tag[Works(w)]
  /\ inFlight[w] = NoTag /\ ~ Left(w) => backlog[w] = <<>>

\* A call that only looks at the workers once has dealt its packets out, and
\* one that waits for a recursive call does so because a worker has left.
FrameOK(k) ==
  /\ IF frames[k].at = "deal" THEN frames[k].wkr \in Wkr
     ELSE frames[k].in = <<>> /\ frames[k].mb = NoPkt
  /\ k > 1 => frames[k].wkr \in Wkr /\ Left(frames[k].wkr)

Increasing(s) == \A i, j \in DOMAIN s : i < j => s[i] < s[j]
Elems(s) == {s[i] : i \in DOMAIN s}

\* The packets of a call.
Held(f) == Elems(f.in) \union ({f.mb} \ {NoPkt})

\* The packets that were passed in and not given to a worker, when n - 1 were
\* passed in and those of gv given.
Waiting(gv, n) == (1 .. n - 1) \ gv

\* Where the packets wait: the ones of a flow are in the backlog of the worker
\* that has the flow, then in the innermost call, and so on outwards, in input
\* order throughout.  The packet at hand in a call has a flow that no worker
\* has and no call further in.
Flights(fl) == \A v, w \in Wkr : fl[v] = fl[w] /\ fl[v] # NoTag => v = w

Backlogs(bl, fl, gv, n) ==
  \A w \in Wkr :
    /\ Increasing(bl[w])
    /\ fl[w] # NoTag => \A p \in Elems(bl[w]) : tag[p] = fl[w] /\ p \in Waiting(gv, n)

Calls(fr, fl, gv, n) ==
  \A k \in DOMAIN fr :
    /\ Increasing(fr[k].in) /\ Held(fr[k]) \subseteq Waiting(gv, n)
    /\ fr[k].mb # NoPkt => /\ \A p \in Elems(fr[k].in) : fr[k].mb < p
                           /\ \A w \in Wkr : fl[w] # tag[fr[k].mb]

Nested(fr) ==
  \A j, k \in DOMAIN fr : j < k =>
    \A p \in Held(fr[j]), q \in Held(fr[k]) : tag[p] = tag[q] => p < q /\ q # fr[k].mb

Before(bl, fr, fl) ==
  \A w \in Wkr, k \in DOMAIN fr : fl[w] # NoTag =>
    \A p \in Elems(bl[w]), q \in Held(fr[k]) : tag[p] = tag[q] => p < q

Found(bl, fr, fl, gv, n) ==
  \A p \in Waiting(gv, n) :
    \/ \E w \in Wkr : fl[w] # NoTag /\ p \in Elems(bl[w])
    \/ \E k \in DOMAIN fr : p \in Held(fr[k])

Queues(bl, fr, fl, gv, n) ==
  /\ Flights(fl) /\ Backlogs(bl, fl, gv, n) /\ Calls(fr, fl, gv, n)
  /\ Nested(fr) /\ Before(bl, fr, fl) /\ Found(bl, fr, fl, gv, n)

FlowInv ==
  /\ DistTypeOK
  /\ \A w \in Wkr : WkrOK(w)
  /\ \A k \in DOMAIN frames : FrameOK(k)
  /\ given \subseteq 1 .. fresh - 1
  /\ Queues(backlog, frames, inFlight, given, fresh)

\* The packet that worker w has or gives back.
Carries(w) == IF bufs[w].flag = "none" THEN Works(w) ELSE bufs[w].pkt

RetStart == IF frames = <<>> THEN returns.start ELSE Top.start
RetCount == IF frames = <<>> THEN returns.count ELSE Top.count

\* The c places of array m from place s on hold the packets of h, each once.
Slot(s, i) == (s + i) % ReturnsSize
Holds(m, s, c, h) ==
  /\ h = {m[Slot(s, i)] : i \in 0 .. c - 1}
  /\ \A i, j \in 0 .. c - 1 : m[Slot(s, i)] = m[Slot(s, j)] => i = j

\* While no worker leaves: the packets taken back are in the array, each once,
\* and no worker carries any of them, nor one that another carries.
ReturnInv ==
  leavers = {} =>
    /\ \A w \in Wkr : doing[w] # "gone"
    /\ Len(frames) <= 1
    /\ Holds(returns.mbufs, RetStart, RetCount, handed)
    /\ handed \subseteq given
    /\ \A w \in Wkr : Carries(w) # NoPkt => Carries(w) \in given \ handed
    /\ \A v, w \in Wkr : Carries(v) = Carries(w) /\ Carries(v) # NoPkt => v = w

-----------------------------------------------------------------------------
(* Sequences of packets                                                     *)

\* The head of an increasing sequence comes before the rest.
LEMMA HeadElem ==
  ASSUME NEW s \in Seq(Pkts), s # <<>>, Increasing(s)
  PROVE  /\ Tail(s) \in Seq(Pkts) /\ Increasing(Tail(s))
         /\ Head(s) \in Elems(s) /\ Head(s) \in Pkts
         /\ Elems(Tail(s)) = Elems(s) \ {Head(s)}
         /\ \A p \in Elems(Tail(s)) : Head(s) < p
<1>1. /\ Len(s) \in Nat /\ Len(s) >= 1 /\ DOMAIN s = 1 .. Len(s)
      /\ Head(s) = s[1] /\ Tail(s) \in Seq(Pkts) /\ DOMAIN Tail(s) = 1 .. Len(s) - 1
      /\ \A i \in 1 .. Len(s) - 1 : Tail(s)[i] = s[i + 1]
      /\ \A i \in 1 .. Len(s) : s[i] \in Pkts
  OBVIOUS
<1>2. Pkts \subseteq Int
  BY DEF Pkts
<1>3. Increasing(Tail(s))
  BY <1>1 DEF Increasing
<1>4. Head(s) \in Elems(s) /\ Head(s) \in Pkts
  BY <1>1 DEF Elems
<1>5. \A p \in Elems(Tail(s)) : Head(s) < p /\ p \in Elems(s)
  BY <1>1 DEF Increasing, Elems
<1>6. ASSUME NEW p \in Elems(s), p # Head(s) PROVE p \in Elems(Tail(s))
  <2>1. PICK i \in 1 .. Len(s) : p = s[i]
    BY <1>1, Zenon DEF Elems
  <2>2. i - 1 \in 1 .. Len(s) - 1 /\ Tail(s)[i - 1] = p
    BY <1>1, <1>6, <2>1
  <2> QED  BY <1>1, <2>2, Zenon DEF Elems
<1>7. Head(s) \notin Elems(Tail(s))
  <2>1. Head(s) \in Int
    BY <1>4, <1>2, Zenon
  <2>2. ~ (Head(s) < Head(s))
    BY <2>1, SMT
  <2> QED  BY <1>5, <2>2, Zenon
<1> QED  BY <1>1, <1>3, <1>4, <1>5, <1>6, <1>7, Zenon

\* A packet that comes after the rest goes to the end.
LEMMA AppendElem ==
  ASSUME NEW s \in Seq(Pkts), Increasing(s), NEW p \in Pkts, \A q \in Elems(s) : q < p
  PROVE  /\ Append(s, p) \in Seq(Pkts) /\ Increasing(Append(s, p))
         /\ Elems(Append(s, p)) = Elems(s) \union {p}
<1>1. /\ Len(s) \in Nat /\ DOMAIN s = 1 .. Len(s)
      /\ Append(s, p) \in Seq(Pkts) /\ DOMAIN Append(s, p) = 1 .. Len(s) + 1
      /\ \A i \in 1 .. Len(s) : Append(s, p)[i] = s[i]
      /\ Append(s, p)[Len(s) + 1] = p
  OBVIOUS
<1>2. Increasing(Append(s, p))
  BY <1>1 DEF Increasing, Elems
<1>3. Elems(Append(s, p)) = Elems(s) \union {p}
  BY <1>1 DEF Elems
<1> QED  BY <1>1, <1>2, <1>3, Zenon

\* Putting a call in front of the others, and taking the first one away.
LEMMA ConsFacts ==
  ASSUME NEW fr \in Seq(FrameType), NEW f \in FrameType
  PROVE  /\ <<f>> \o fr \in Seq(FrameType)
         /\ DOMAIN (<<f>> \o fr) = 1 .. Len(fr) + 1 /\ DOMAIN fr = 1 .. Len(fr) /\ Len(fr) \in Nat
         /\ Len(<<f>> \o fr) = Len(fr) + 1
         /\ (<<f>> \o fr)[1] = f
         /\ \A k \in 1 .. Len(fr) : (<<f>> \o fr)[k + 1] = fr[k]
         /\ \A k \in 2 .. Len(fr) + 1 : (<<f>> \o fr)[k] = fr[k - 1]
OBVIOUS

LEMMA TailFacts ==
  ASSUME NEW fr \in Seq(FrameType), fr # <<>>
  PROVE  /\ Tail(fr) \in Seq(FrameType) /\ Len(fr) \in Nat /\ Len(fr) >= 1
         /\ Len(Tail(fr)) = Len(fr) - 1
         /\ DOMAIN Tail(fr) = 1 .. Len(fr) - 1 /\ DOMAIN fr = 1 .. Len(fr)
         /\ Head(fr) = fr[1] /\ Head(fr) \in FrameType
         /\ \A k \in 1 .. Len(fr) - 1 : Tail(fr)[k] = fr[k + 1]
OBVIOUS

\* A call is replaced by another one.
LEMMA TopFacts ==
  ASSUME NEW fr \in Seq(FrameType), fr # <<>>, NEW f \in FrameType
  PROVE  /\ <<f>> \o Tail(fr) \in Seq(FrameType)
         /\ DOMAIN (<<f>> \o Tail(fr)) = DOMAIN fr
         /\ <<f>> \o Tail(fr) # <<>>
         /\ Head(<<f>> \o Tail(fr)) = f /\ Tail(<<f>> \o Tail(fr)) = Tail(fr)
         /\ (<<f>> \o Tail(fr))[1] = f
         /\ \A k \in DOMAIN fr : k # 1 => (<<f>> \o Tail(fr))[k] = fr[k]
         /\ 1 \in DOMAIN fr /\ Head(fr) = fr[1]
<1>1. /\ Tail(fr) \in Seq(FrameType) /\ Len(Tail(fr)) = Len(fr) - 1
      /\ Len(fr) \in Nat /\ Len(fr) >= 1 /\ DOMAIN fr = 1 .. Len(fr)
      /\ \A k \in 1 .. Len(fr) - 1 : Tail(fr)[k] = fr[k + 1]
  OBVIOUS
<1>2. DOMAIN (<<f>> \o Tail(fr)) = 1 .. Len(fr) /\ <<f>> \o Tail(fr) \in Seq(FrameType)
  BY <1>1, ConsFacts
<1>3. \A k \in 2 .. Len(fr) : (<<f>> \o Tail(fr))[k] = fr[k]
  <2> TAKE k \in 2 .. Len(fr)
  <2>1. (<<f>> \o Tail(fr))[k] = Tail(fr)[k - 1]
    BY <1>1, ConsFacts
  <2> QED  BY <1>1, <2>1
<1>4. Tail(<<f>> \o Tail(fr)) = Tail(fr)
  <2> DEFINE t == Tail(fr)
  <2>1. t \in Seq(FrameType)
    BY <1>1, Zenon
  <2> HIDE DEF t
  <2>2. Tail(<<f>> \o t) = t
    BY <2>1
  <2> QED  BY <2>2, Zenon DEF t
<1> QED  BY <1>1, <1>2, <1>4

-----------------------------------------------------------------------------
(* Where the packets wait                                                   *)

\* What the proofs of this section start from.
QTypes(bl, fr, fl, gv, n) ==
  /\ bl \in [Wkr -> Seq(Pkts)] /\ fr \in Seq(FrameType) /\ fl \in [Wkr -> MaybeTag]
  /\ tag \in [Pkts -> Tags] /\ gv \in SUBSET Pkts /\ n \in 1 .. MaxPkts + 1

\* Worker w gets packet p, the first of its flow that was not given to a worker.
Gives(w, p, bl, fr, fl, gv, n) ==
  /\ Queues(bl, fr, fl, gv \union {p}, n)
  /\ p \in Pkts /\ p < n /\ p \notin gv /\ tag[p] = fl[w]
  /\ \A q \in Pkts : q < p /\ tag[q] = tag[p] => q \in gv

\* backlog_pop: the packet at the front of a backlog is the first of its flow
\* that was not given to a worker.
LEMMA QPop ==
  ASSUME NEW bl, NEW fr, NEW fl, NEW gv, NEW n, QTypes(bl, fr, fl, gv, n),
         Queues(bl, fr, fl, gv, n), NEW w \in Wkr, fl[w] # NoTag, bl[w] # <<>>,
         NEW nb, nb[w] = Tail(bl[w]), \A v \in Wkr : v # w => nb[v] = bl[v]
  PROVE  Gives(w, Head(bl[w]), nb, fr, fl, gv, n)
<1> DEFINE p == Head(bl[w])
           ng == gv \union {p}
<1>1. /\ bl[w] \in Seq(Pkts) /\ Increasing(bl[w])
      /\ \A q \in Elems(bl[w]) : tag[q] = fl[w] /\ q \in Waiting(gv, n)
  BY Zenon DEF QTypes, Queues, Backlogs
<1>2. /\ Increasing(Tail(bl[w])) /\ p \in Elems(bl[w]) /\ p \in Pkts
      /\ Elems(Tail(bl[w])) = Elems(bl[w]) \ {p}
      /\ \A q \in Elems(Tail(bl[w])) : p < q
  BY <1>1, HeadElem, Zenon
<1>3. p \in Waiting(gv, n) /\ tag[p] = fl[w]
  BY <1>1, <1>2, Zenon
<1>4. p < n /\ p \notin gv /\ \A q \in Pkts : q < p => q \in 1 .. n - 1
  BY <1>3 DEF Waiting, QTypes, Pkts
<1>5. \A q : q \in Waiting(ng, n) <=> q \in Waiting(gv, n) /\ q # p
  BY Zenon DEF Waiting
<1>6. \A v \in Wkr : \A q \in Elems(nb[v]) : q \in Elems(bl[v])
  BY <1>2, Zenon
<1>7. ASSUME NEW v \in Wkr, fl[v] # NoTag, NEW q \in Elems(bl[v]), tag[q] = tag[p], q # p
      PROVE  v = w /\ p < q /\ q \in Elems(nb[w])
  <2>1. fl[v] = fl[w]
    BY <1>7, <1>3, Zenon DEF Queues, Backlogs
  <2>2. v = w
    BY <2>1, Zenon, <1>7 DEF Queues, Flights
  <2> QED  BY <1>2, <1>7, <2>2, Zenon
<1>8. ASSUME NEW k \in DOMAIN fr, NEW q \in Held(fr[k]), tag[q] = tag[p] PROVE p < q
  BY <1>2, <1>8, Zenon DEF Queues, Before
<1>9. ASSUME NEW k \in DOMAIN fr PROVE p \notin Held(fr[k])
  <2>1. p \in Int /\ ~ (p < p)
    BY <1>2 DEF Pkts
  <2> QED  BY <1>8, <2>1, Zenon
<1> HIDE DEF p, ng
<1>10. ASSUME NEW q \in Pkts, q < p, tag[q] = tag[p] PROVE q \in gv
  <2>1. SUFFICES ASSUME q \in Waiting(gv, n) PROVE FALSE
    BY <1>4, <1>10, Zenon DEF Waiting
  <2>2. ~ (p < q) /\ q # p
    BY <1>2, <1>10 DEF Pkts
  <2> QED  BY <1>7, <1>8, <1>10, <2>1, <2>2, Zenon DEF Queues, Found
<1>11. Backlogs(nb, fl, ng, n)
  <2> SUFFICES ASSUME NEW v \in Wkr
               PROVE  /\ Increasing(nb[v])
                      /\ fl[v] # NoTag => \A q \in Elems(nb[v]) : tag[q] = fl[v] /\ q \in Waiting(ng, n)
    BY Zenon DEF Backlogs
  <2>1. Increasing(nb[v])
    BY <1>2, Zenon DEF Queues, Backlogs
  <2>2. ASSUME fl[v] # NoTag, NEW q \in Elems(nb[v]) PROVE tag[q] = fl[v] /\ q \in Waiting(ng, n)
    <3>1. tag[q] = fl[v] /\ q \in Waiting(gv, n)
      BY <1>6, <2>2, Zenon DEF Queues, Backlogs
    <3>2. q # p
      <4>1. CASE v = w
        BY <1>2, <2>2, <4>1, Zenon
      <4>2. CASE v # w
        BY <1>3, <2>2, <3>1, <4>2, Zenon DEF Queues, Flights
      <4> QED  BY <4>1, <4>2, Zenon
    <3> QED  BY <1>5, <3>1, <3>2, Zenon
  <2> QED  BY <2>1, <2>2, Zenon
<1>12. Calls(fr, fl, ng, n)
  <2> SUFFICES ASSUME NEW k \in DOMAIN fr PROVE Held(fr[k]) \subseteq Waiting(ng, n)
    BY Zenon DEF Calls, Queues
  <2> QED  BY <1>5, <1>9, Zenon DEF Calls, Queues
<1>13. Before(nb, fr, fl)
  BY <1>6, Zenon DEF Before, Queues
<1>14. Found(nb, fr, fl, ng, n)
  <2> SUFFICES ASSUME NEW q \in Waiting(gv, n), q # p
               PROVE  \/ \E v \in Wkr : fl[v] # NoTag /\ q \in Elems(nb[v])
                      \/ \E k \in DOMAIN fr : q \in Held(fr[k])
    BY <1>5, Zenon DEF Found
  <2>1. CASE \E k \in DOMAIN fr : q \in Held(fr[k])
    BY <2>1, Zenon
  <2>2. ASSUME NEW v \in Wkr, fl[v] # NoTag, q \in Elems(bl[v])
        PROVE  q \in Elems(nb[v])
    <3>1. CASE v = w
      BY <1>2, <2>2, <3>1, Zenon
    <3>2. CASE v # w
      BY <2>2, <3>2, Zenon
    <3> QED  BY <3>1, <3>2, Zenon
  <2> QED  BY <2>1, <2>2, Zenon DEF Found, Queues
<1> QED  BY <1>2, <1>3, <1>4, <1>10, <1>11, <1>12, <1>13, <1>14, Zenon DEF Queues, Gives, p, ng

\* Only the packets that the calls hold matter.
LEMMA QSame ==
  ASSUME NEW bl, NEW fr, NEW fs, NEW fl, NEW gv, NEW n, Queues(bl, fr, fl, gv, n),
         DOMAIN fs = DOMAIN fr,
         \A k \in DOMAIN fr : fs[k].in = fr[k].in /\ fs[k].mb = fr[k].mb
  PROVE  Queues(bl, fs, fl, gv, n)
<1>1. \A k \in DOMAIN fr : Held(fs[k]) = Held(fr[k])
  BY Zenon DEF Held
<1>2. Calls(fs, fl, gv, n)
  BY <1>1, Zenon DEF Queues, Calls
<1>3. Nested(fs)
  <2> SUFFICES ASSUME NEW j \in DOMAIN fr, NEW k \in DOMAIN fr, j < k,
                      NEW p \in Held(fs[j]), NEW q \in Held(fs[k]), tag[p] = tag[q]
               PROVE  p < q /\ q # fs[k].mb
    BY Zenon DEF Nested
  <2>1. p \in Held(fr[j]) /\ q \in Held(fr[k]) /\ fs[k].mb = fr[k].mb
    BY <1>1, Zenon
  <2> QED  BY <2>1, Zenon DEF Queues, Nested
<1>4. Before(bl, fs, fl)
  BY <1>1, Zenon DEF Queues, Before
<1>5. Found(bl, fs, fl, gv, n)
  BY <1>1, Zenon DEF Queues, Found
<1> QED  BY <1>2, <1>3, <1>4, <1>5, Zenon DEF Queues

\* The packet at hand goes to a worker without a backlog: it too is the first
\* of its flow, which the worker has from now on.
LEMMA QGive ==
  ASSUME NEW bl, NEW fr, NEW fs, NEW fl, NEW gv, NEW n, QTypes(bl, fr, fl, gv, n),
         Queues(bl, fr, fl, gv, n), NEW w \in Wkr, bl[w] = <<>>,
         1 \in DOMAIN fr, fr[1].mb # NoPkt, DOMAIN fs = DOMAIN fr,
         fs[1].in = fr[1].in, fs[1].mb = NoPkt, \A k \in DOMAIN fr : k # 1 => fs[k] = fr[k],
         NEW nf, nf[w] = tag[fr[1].mb], \A v \in Wkr : v # w => nf[v] = fl[v]
  PROVE  Gives(w, fr[1].mb, bl, fs, nf, gv, n)
<1> DEFINE p == fr[1].mb
           ng == gv \union {p}
<1>1. /\ Held(fr[1]) \subseteq Waiting(gv, n) /\ \A q \in Elems(fr[1].in) : p < q
      /\ \A v \in Wkr : fl[v] # tag[p]
  BY Zenon DEF Queues, Calls
<1>2. p \in Held(fr[1]) /\ p \in Waiting(gv, n)
  BY <1>1, Zenon DEF Held
<1>3. p \in Pkts /\ p < n /\ p \notin gv /\ \A q \in Pkts : q < p => q \in 1 .. n - 1
  BY <1>2, DistParameters DEF Waiting, QTypes, Pkts
<1>4. p \in Int /\ ~ (p < p)
  BY <1>3 DEF Pkts
<1>5. tag[p] \in Tags /\ tag[p] # NoTag
  BY <1>3, DistParameters, SMT DEF QTypes
<1>6. \A q : q \in Waiting(ng, n) <=> q \in Waiting(gv, n) /\ q # p
  BY Zenon DEF Waiting
<1>7. nf[w] = tag[p] /\ \A v \in Wkr : v # w => nf[v] = fl[v]
  BY Zenon
<1>8. Elems(bl[w]) = {}
  BY DEF Elems
<1>9. \A k \in DOMAIN fr : \A q : q \in Held(fs[k]) <=> q \in Held(fr[k]) /\ (k = 1 => q # p)
  BY <1>1, <1>4, Zenon DEF Held
<1>10. \A k \in DOMAIN fr : k # 1 => p \notin Held(fr[k]) /\ 1 < k
  <2> TAKE k \in DOMAIN fr
  <2> HAVE k # 1
  <2>1. 1 < k
    BY DEF QTypes
  <2> QED  BY <1>2, <1>4, <2>1, Zenon DEF Queues, Nested
<1>11. \A v \in Wkr : fl[v] # NoTag => p \notin Elems(bl[v])
  BY <1>1, Zenon DEF Queues, Backlogs
<1>12. \A k \in DOMAIN fr : \A q \in Held(fr[k]) : tag[q] = tag[p] /\ q # p => p < q
  <2> SUFFICES ASSUME NEW k \in DOMAIN fr, NEW q \in Held(fr[k]), tag[q] = tag[p], q # p PROVE p < q
    BY Zenon
  <2>1. CASE k = 1
    BY <1>1, <2>1, Zenon DEF Held
  <2>2. CASE k # 1
    BY <1>2, <1>10, <2>2, Zenon DEF Queues, Nested
  <2> QED  BY <2>1, <2>2, Zenon
<1> HIDE DEF p, ng
<1>13. ASSUME NEW q \in Pkts, q < p, tag[q] = tag[p] PROVE q \in gv
  <2>1. SUFFICES ASSUME q \in Waiting(gv, n) PROVE FALSE
    BY <1>3, <1>13, Zenon DEF Waiting
  <2>2. ~ (p < q) /\ q # p
    BY <1>4, <1>13 DEF Pkts
  <2>3. \A v \in Wkr : fl[v] # NoTag => q \notin Elems(bl[v])
    BY <1>1, <1>13, Zenon DEF Queues, Backlogs
  <2> QED  BY <1>12, <1>13, <2>1, <2>2, <2>3, Zenon DEF Queues, Found
<1>14. Flights(nf)
  <2> SUFFICES ASSUME NEW u \in Wkr, NEW v \in Wkr, nf[u] = nf[v], nf[u] # NoTag PROVE u = v
    BY Zenon DEF Flights
  <2>1. CASE u = w \/ v = w
    BY <1>1, <1>7, <2>1, Zenon
  <2>2. CASE u # w /\ v # w
    BY <1>7, <2>2, Zenon DEF Queues, Flights
  <2> QED  BY <2>1, <2>2, Zenon
<1>15. Backlogs(bl, nf, ng, n)
  BY <1>6, <1>7, <1>8, <1>11, Zenon DEF Queues, Backlogs
<1>16. Calls(fs, nf, ng, n)
  <2> SUFFICES ASSUME NEW k \in DOMAIN fr
               PROVE  /\ Increasing(fs[k].in) /\ Held(fs[k]) \subseteq Waiting(ng, n)
                      /\ fs[k].mb # NoPkt => /\ \A q \in Elems(fs[k].in) : fs[k].mb < q
                                             /\ \A v \in Wkr : nf[v] # tag[fs[k].mb]
    BY Zenon DEF Calls
  <2>1. Held(fs[k]) \subseteq Waiting(ng, n)
    BY <1>6, <1>9, <1>10, Zenon DEF Queues, Calls
  <2>2. CASE k = 1
    BY <2>1, <2>2, Zenon DEF Queues, Calls
  <2>3. CASE k # 1
    <3>1. fs[k] = fr[k] /\ 1 < k
      BY <1>10, <2>3, Zenon
    <3>2. ASSUME fr[k].mb # NoPkt PROVE tag[p] # tag[fr[k].mb]
      <4>1. fr[k].mb \in Held(fr[k])
        BY <3>2, Zenon DEF Held
      <4> QED  BY <1>2, <3>1, <4>1, Zenon DEF Queues, Nested
    <3> QED  BY <1>7, <2>1, <3>1, <3>2, Zenon DEF Queues, Calls
  <2> QED  BY <2>2, <2>3, Zenon
<1>17. Nested(fs)
  <2> SUFFICES ASSUME NEW j \in DOMAIN fr, NEW k \in DOMAIN fr, j < k,
                      NEW q \in Held(fs[j]), NEW r \in Held(fs[k]), tag[q] = tag[r]
               PROVE  q < r /\ r # fs[k].mb
    BY Zenon DEF Nested
  <2>1. k # 1
    BY DEF QTypes
  <2>2. fs[k] = fr[k] /\ q \in Held(fr[j])
    BY <1>9, <2>1, Zenon
  <2>3. r \in Held(fr[k]) /\ fs[k].mb = fr[k].mb
    BY <2>2, Zenon
  <2>4. q < r /\ r # fr[k].mb
    BY <2>2, <2>3, Zenon DEF Queues, Nested
  <2> QED  BY <2>3, <2>4, Zenon
<1>18. Before(bl, fs, nf)
  <2> SUFFICES ASSUME NEW v \in Wkr, NEW k \in DOMAIN fr, nf[v] # NoTag,
                      NEW q \in Elems(bl[v]), NEW r \in Held(fs[k]), tag[q] = tag[r]
               PROVE  q < r
    BY Zenon DEF Before
  <2>1. v # w
    BY <1>8, Zenon
  <2>2. r \in Held(fr[k]) /\ fl[v] # NoTag
    BY <1>7, <1>9, <2>1, Zenon
  <2> QED  BY <2>2, Zenon DEF Queues, Before
<1>19. Found(bl, fs, nf, ng, n)
  BY <1>6, <1>7, <1>8, <1>9, Zenon DEF Queues, Found
<1> QED  BY <1>3, <1>7, <1>13, <1>14, <1>15, <1>16, <1>17, <1>18, <1>19, Zenon DEF Queues, Gives, p, ng

\* The flow of a worker without a backlog is free.
LEMMA QFree ==
  ASSUME NEW bl, NEW fr, NEW fl, NEW gv, NEW n, QTypes(bl, fr, fl, gv, n),
         Queues(bl, fr, fl, gv, n), NEW w \in Wkr, bl[w] = <<>>,
         NEW nf, nf[w] = NoTag, \A v \in Wkr : v # w => nf[v] = fl[v]
  PROVE  Queues(bl, fr, nf, gv, n)
<1>1. nf[w] = NoTag /\ \A v \in Wkr : v # w => nf[v] = fl[v]
  BY Zenon
<1>2. Elems(bl[w]) = {}
  BY DEF Elems
<1>3. ASSUME NEW k \in DOMAIN fr, fr[k].mb # NoPkt PROVE tag[fr[k].mb] # NoTag
  <2>1. fr[k] \in FrameType
    BY <1>3 DEF QTypes
  <2>2. fr[k].mb \in Pkts
    BY <1>3, <2>1, Zenon DEF FrameType, MaybePkt
  <2> QED  BY <2>2, DistParameters, Zenon DEF QTypes
<1>4. Flights(nf)
  BY <1>1, Zenon DEF Queues, Flights
<1>5. Backlogs(bl, nf, gv, n)
  BY <1>1, Zenon DEF Queues, Backlogs
<1>6. Calls(fr, nf, gv, n)
  BY <1>1, <1>3, Zenon DEF Queues, Calls
<1>7. Before(bl, fr, nf)
  BY <1>1, Zenon DEF Queues, Before
<1>8. Found(bl, fr, nf, gv, n)
  BY <1>1, <1>2, Zenon DEF Queues, Found
<1> QED  BY <1>4, <1>5, <1>6, <1>7, <1>8, Zenon DEF Queues

\* The backlog of a worker that has no flow is not looked at.
LEMMA QDrop ==
  ASSUME NEW bl, NEW fr, NEW fl, NEW gv, NEW n, QTypes(bl, fr, fl, gv, n),
         Queues(bl, fr, fl, gv, n), NEW w \in Wkr, fl[w] = NoTag,
         NEW nb, nb[w] = <<>>, \A v \in Wkr : v # w => nb[v] = bl[v]
  PROVE  Queues(nb, fr, fl, gv, n)
<1>1. nb[w] = <<>> /\ \A v \in Wkr : v # w => nb[v] = bl[v]
  BY Zenon
<1>2. Increasing(<<>>)
  BY DEF Increasing
<1>3. Backlogs(nb, fl, gv, n)
  BY <1>1, <1>2, Zenon DEF Queues, Backlogs
<1>4. Before(nb, fr, fl)
  BY <1>1, Zenon DEF Queues, Before
<1>5. Found(nb, fr, fl, gv, n)
  BY <1>1, Zenon DEF Queues, Found
<1> QED  BY <1>3, <1>4, <1>5, Zenon DEF Queues

\* A call that has dealt out its packets returns.
LEMMA QReturn ==
  ASSUME NEW bl, NEW fr, NEW fl, NEW gv, NEW n, QTypes(bl, fr, fl, gv, n),
         Queues(bl, fr, fl, gv, n), fr # <<>>, Held(fr[1]) = {}
  PROVE  Queues(bl, Tail(fr), fl, gv, n)
<1> DEFINE t == Tail(fr)
<1>1. /\ \A k \in DOMAIN t : k + 1 \in DOMAIN fr /\ t[k] = fr[k + 1] /\ k \in Int
      /\ \A k \in DOMAIN fr : k # 1 => k - 1 \in DOMAIN t /\ t[k - 1] = fr[k]
  BY TailFacts DEF QTypes
<1>2. \A j, k \in DOMAIN t : j < k => j + 1 < k + 1
  BY <1>1
<1> HIDE DEF t
<1>3. Calls(t, fl, gv, n)
  <2> SUFFICES ASSUME NEW k \in DOMAIN t
               PROVE  /\ Increasing(t[k].in) /\ Held(t[k]) \subseteq Waiting(gv, n)
                      /\ t[k].mb # NoPkt => /\ \A q \in Elems(t[k].in) : t[k].mb < q
                                            /\ \A v \in Wkr : fl[v] # tag[t[k].mb]
    BY Zenon DEF Calls
  <2>1. k + 1 \in DOMAIN fr /\ t[k] = fr[k + 1]
    BY <1>1, Zenon
  <2> QED  BY <2>1, Zenon DEF Queues, Calls
<1>4. Nested(t)
  <2> SUFFICES ASSUME NEW j \in DOMAIN t, NEW k \in DOMAIN t, j < k,
                      NEW p \in Held(t[j]), NEW q \in Held(t[k]), tag[p] = tag[q]
               PROVE  p < q /\ q # t[k].mb
    BY Zenon DEF Nested
  <2>1. /\ p \in Held(fr[j + 1]) /\ q \in Held(fr[k + 1]) /\ t[k].mb = fr[k + 1].mb
        /\ j + 1 \in DOMAIN fr /\ k + 1 \in DOMAIN fr /\ j + 1 < k + 1
    BY <1>1, <1>2, Zenon
  <2> QED  BY <2>1, Zenon DEF Queues, Nested
<1>5. Before(bl, t, fl)
  <2> SUFFICES ASSUME NEW v \in Wkr, NEW k \in DOMAIN t, fl[v] # NoTag,
                      NEW p \in Elems(bl[v]), NEW q \in Held(t[k]), tag[p] = tag[q]
               PROVE  p < q
    BY Zenon DEF Before
  <2>1. k + 1 \in DOMAIN fr /\ q \in Held(fr[k + 1])
    BY <1>1, Zenon
  <2> QED  BY <2>1, Zenon DEF Queues, Before
<1>6. Found(bl, t, fl, gv, n)
  <2> SUFFICES ASSUME NEW k \in DOMAIN fr, NEW p \in Held(fr[k])
               PROVE  \E j \in DOMAIN t : p \in Held(t[j])
    BY Zenon DEF Queues, Found
  <2>1. k # 1
    BY Zenon
  <2> QED  BY <1>1, <2>1, Zenon
<1> QED  BY <1>3, <1>4, <1>5, <1>6, Zenon DEF Queues, t

\* handle_worker_shutdown: the packets of a backlog become those of a new call,
\* which is further in than the others; the flow of the worker is free.
LEMMA QLeave ==
  ASSUME NEW bl, NEW fr, NEW fl, NEW gv, NEW n, QTypes(bl, fr, fl, gv, n),
         Queues(bl, fr, fl, gv, n), NEW w \in Wkr, fl[w] # NoTag,
         NEW f \in FrameType, f.in = bl[w], f.mb = NoPkt, NEW s, s = <<f>> \o fr,
         NEW nf, nf[w] = NoTag, \A v \in Wkr : v # w => nf[v] = fl[v]
  PROVE  Queues(bl, s, nf, gv, n)
<1>1. /\ s[1] = f /\ 1 \in DOMAIN s
      /\ \A k \in DOMAIN s : k # 1 => k - 1 \in DOMAIN fr /\ s[k] = fr[k - 1] /\ k \in Int
      /\ \A k \in DOMAIN fr : k + 1 \in DOMAIN s /\ s[k + 1] = fr[k] /\ k \in Int
  BY ConsFacts DEF QTypes
<1>2. /\ \A j, k \in DOMAIN s : j < k /\ j # 1 => k # 1 /\ j - 1 < k - 1
      /\ \A j, k \in DOMAIN s : j < k => k # 1
  <2>1. DOMAIN s = 1 .. Len(fr) + 1 /\ Len(fr) \in Nat
    BY ConsFacts, Zenon DEF QTypes
  <2> QED  BY <2>1
<1>3. nf[w] = NoTag /\ \A v \in Wkr : v # w => nf[v] = fl[v]
  BY Zenon
<1>4. Held(f) = Elems(bl[w])
  BY Zenon DEF Held
<1>5. Increasing(bl[w]) /\ \A p \in Elems(bl[w]) : tag[p] = fl[w] /\ p \in Waiting(gv, n)
  BY Zenon DEF Queues, Backlogs
<1>6. ASSUME NEW k \in DOMAIN fr, fr[k].mb # NoPkt PROVE tag[fr[k].mb] # NoTag /\ tag[fr[k].mb] # fl[w]
  <2>1. fr[k] \in FrameType
    BY <1>6 DEF QTypes
  <2>2. fr[k].mb \in Pkts
    BY <1>6, <2>1, Zenon DEF FrameType, MaybePkt
  <2>3. tag[fr[k].mb] # NoTag
    BY <2>2, DistParameters, Zenon DEF QTypes
  <2> QED  BY <1>6, <2>3, Zenon DEF Queues, Calls
<1>7. Flights(nf)
  <2> SUFFICES ASSUME NEW u \in Wkr, NEW v \in Wkr, nf[u] = nf[v], nf[u] # NoTag PROVE u = v
    BY Zenon DEF Flights
  <2> QED  BY <1>3, Zenon DEF Queues, Flights
<1>8. Backlogs(bl, nf, gv, n)
  BY <1>3, Zenon DEF Queues, Backlogs
<1>9. Calls(s, nf, gv, n)
  <2> SUFFICES ASSUME NEW k \in DOMAIN s
               PROVE  /\ Increasing(s[k].in) /\ Held(s[k]) \subseteq Waiting(gv, n)
                      /\ s[k].mb # NoPkt => /\ \A q \in Elems(s[k].in) : s[k].mb < q
                                            /\ \A v \in Wkr : nf[v] # tag[s[k].mb]
    BY Zenon DEF Calls
  <2>1. CASE k = 1
    BY <1>1, <1>4, <1>5, <2>1, Zenon
  <2>2. CASE k # 1
    <3>1. k - 1 \in DOMAIN fr /\ s[k] = fr[k - 1]
      BY <1>1, <2>2, Zenon
    <3> QED  BY <1>3, <1>6, <3>1, Zenon DEF Queues, Calls
  <2> QED  BY <2>1, <2>2, Zenon
<1>10. Nested(s)
  <2> SUFFICES ASSUME NEW j \in DOMAIN s, NEW k \in DOMAIN s, j < k,
                      NEW p \in Held(s[j]), NEW q \in Held(s[k]), tag[p] = tag[q]
               PROVE  p < q /\ q # s[k].mb
    BY Zenon DEF Nested
  <2>0. k - 1 \in DOMAIN fr /\ s[k] = fr[k - 1]
    BY <1>1, <1>2, Zenon
  <2>1. CASE j = 1
    <3>1. p \in Elems(bl[w]) /\ q \in Held(fr[k - 1])
      BY <1>1, <1>4, <2>0, <2>1, Zenon
    <3>2. p < q
      BY <2>0, <3>1, Zenon DEF Queues, Before
    <3>3. ASSUME q = fr[k - 1].mb PROVE FALSE
      <4>1. q # NoPkt
        <5>1. p \in Waiting(gv, n)
          BY <1>5, <3>1, Zenon
        <5>2. q \in Waiting(gv, n)
          BY <2>0, <3>1, Zenon DEF Queues, Calls
        <5> QED  BY <5>2 DEF Waiting, NoPkt, QTypes
      <4> QED  BY <1>5, <1>6, <2>0, <3>1, <3>3, <4>1, Zenon
    <3> QED  BY <2>0, <3>2, <3>3, Zenon
  <2>2. CASE j # 1
    <3>1. j - 1 \in DOMAIN fr /\ s[j] = fr[j - 1] /\ j - 1 < k - 1
      BY <1>1, <1>2, <2>2, Zenon
    <3> QED  BY <2>0, <3>1, Zenon DEF Queues, Nested
  <2> QED  BY <2>1, <2>2, Zenon
<1>11. Before(bl, s, nf)
  <2> SUFFICES ASSUME NEW v \in Wkr, NEW k \in DOMAIN s, nf[v] # NoTag,
                      NEW p \in Elems(bl[v]), NEW q \in Held(s[k]), tag[p] = tag[q]
               PROVE  p < q
    BY Zenon DEF Before
  <2>1. v # w /\ fl[v] # NoTag
    BY <1>3, Zenon
  <2>2. CASE k = 1
    <3>1. tag[p] = fl[v] /\ tag[q] = fl[w]
      BY <1>1, <1>4, <1>5, <2>1, <2>2, Zenon DEF Queues, Backlogs
    <3> QED  BY <2>1, <3>1, Zenon DEF Queues, Flights
  <2>3. CASE k # 1
    BY <1>1, <2>1, <2>3, Zenon DEF Queues, Before
  <2> QED  BY <2>2, <2>3, Zenon
<1>12. Found(bl, s, nf, gv, n)
  <2> SUFFICES ASSUME NEW p \in Waiting(gv, n)
               PROVE  \/ \E v \in Wkr : nf[v] # NoTag /\ p \in Elems(bl[v])
                      \/ \E k \in DOMAIN s : p \in Held(s[k])
    BY Zenon DEF Found
  <2>1. CASE \E k \in DOMAIN fr : p \in Held(fr[k])
    BY <1>1, <2>1, Zenon
  <2>2. ASSUME NEW v \in Wkr, fl[v] # NoTag, p \in Elems(bl[v])
        PROVE  v # w => nf[v] # NoTag
    BY <1>3, <2>2, Zenon
  <2>3. CASE p \in Elems(bl[w])
    BY <1>1, <1>4, <2>3, Zenon
  <2> QED  BY <2>1, <2>2, <2>3, Zenon DEF Queues, Found
<1> QED  BY <1>7, <1>8, <1>9, <1>10, <1>11, <1>12, Zenon DEF Queues

\* The packet that is looked at has a flow that no worker has: it is at hand.
LEMMA QTake ==
  ASSUME NEW bl, NEW fr, NEW fs, NEW fl, NEW gv, NEW n, QTypes(bl, fr, fl, gv, n),
         Queues(bl, fr, fl, gv, n), 1 \in DOMAIN fr, fr[1].mb = NoPkt, fr[1].in # <<>>,
         \A w \in Wkr : fl[w] # tag[Head(fr[1].in)], DOMAIN fs = DOMAIN fr,
         fs[1].in = Tail(fr[1].in), fs[1].mb = Head(fr[1].in),
         \A k \in DOMAIN fr : k # 1 => fs[k] = fr[k]
  PROVE  Queues(bl, fs, fl, gv, n)
<1> DEFINE p == Head(fr[1].in)
<1>0. fr[1] \in FrameType
  BY DEF QTypes
<1>1. fr[1].in \in Seq(Pkts) /\ Increasing(fr[1].in)
  BY <1>0, Zenon DEF FrameType, Queues, Calls
<1>2. /\ Increasing(fs[1].in) /\ p \in Elems(fr[1].in) /\ p \in Pkts
      /\ Elems(fs[1].in) = Elems(fr[1].in) \ {p}
      /\ \A q \in Elems(fs[1].in) : p < q
  BY <1>1, HeadElem
<1>3. p # NoPkt
  BY <1>2 DEF NoPkt, Pkts
<1>4. Held(fs[1]) = Held(fr[1])
  BY <1>2, <1>3, Zenon DEF Held
<1>5. \A k \in DOMAIN fr : Held(fs[k]) = Held(fr[k])
  BY <1>4, Zenon
<1> HIDE DEF p
<1>6. Calls(fs, fl, gv, n)
  <2> SUFFICES ASSUME NEW k \in DOMAIN fr
               PROVE  /\ Increasing(fs[k].in) /\ Held(fs[k]) \subseteq Waiting(gv, n)
                      /\ fs[k].mb # NoPkt => /\ \A q \in Elems(fs[k].in) : fs[k].mb < q
                                             /\ \A v \in Wkr : fl[v] # tag[fs[k].mb]
    BY Zenon DEF Calls
  <2>1. CASE k = 1
    BY <1>2, <1>4, <2>1, Zenon DEF Queues, Calls, p
  <2>2. CASE k # 1
    BY <2>2, Zenon DEF Queues, Calls
  <2> QED  BY <2>1, <2>2, Zenon
<1>7. Nested(fs)
  <2> SUFFICES ASSUME NEW j \in DOMAIN fr, NEW k \in DOMAIN fr, j < k,
                      NEW q \in Held(fs[j]), NEW r \in Held(fs[k]), tag[q] = tag[r]
               PROVE  q < r /\ r # fs[k].mb
    BY Zenon DEF Nested
  <2>1. k # 1
    BY DEF QTypes
  <2>2. fs[k] = fr[k] /\ q \in Held(fr[j])
    BY <1>5, <2>1, Zenon
  <2> QED  BY <2>2, Zenon DEF Queues, Nested
<1>8. Before(bl, fs, fl)
  BY <1>5, Zenon DEF Queues, Before
<1>9. Found(bl, fs, fl, gv, n)
  BY <1>5, Zenon DEF Queues, Found
<1> QED  BY <1>6, <1>7, <1>8, <1>9, Zenon DEF Queues

\* The packet that is looked at goes to the backlog of the worker that has its
\* flow.
LEMMA QPush ==
  ASSUME NEW bl, NEW fr, NEW fs, NEW fl, NEW gv, NEW n, QTypes(bl, fr, fl, gv, n),
         Queues(bl, fr, fl, gv, n), 1 \in DOMAIN fr, fr[1].mb = NoPkt, fr[1].in # <<>>,
         NEW w \in Wkr, fl[w] = tag[Head(fr[1].in)], DOMAIN fs = DOMAIN fr,
         fs[1].in = Tail(fr[1].in), fs[1].mb = NoPkt,
         \A k \in DOMAIN fr : k # 1 => fs[k] = fr[k]
  PROVE  Queues([bl EXCEPT ![w] = Append(bl[w], Head(fr[1].in))], fs, fl, gv, n)
<1> DEFINE p == Head(fr[1].in)
           nb == [bl EXCEPT ![w] = Append(bl[w], p)]
<1>0. fr[1] \in FrameType
  BY DEF QTypes
<1>1. fr[1].in \in Seq(Pkts) /\ Increasing(fr[1].in)
  BY <1>0, Zenon DEF FrameType, Queues, Calls
<1>2. /\ Increasing(fs[1].in) /\ p \in Elems(fr[1].in) /\ p \in Pkts
      /\ Elems(fs[1].in) = Elems(fr[1].in) \ {p}
      /\ \A q \in Elems(fs[1].in) : p < q
  BY <1>1, HeadElem
<1>3. fl[w] # NoTag
  <2>1. tag[p] \in Tags
    BY <1>2, Zenon DEF QTypes
  <2> QED  BY <2>1, DistParameters, Zenon
<1>4. p \in Held(fr[1]) /\ p \in Waiting(gv, n)
  BY <1>2, Zenon DEF Held, Queues, Calls
<1>5. \A q : q \in Held(fs[1]) <=> q \in Held(fr[1]) /\ q # p
  BY <1>2, Zenon DEF Held
<1>6. /\ bl[w] \in Seq(Pkts) /\ Increasing(bl[w])
      /\ \A q \in Elems(bl[w]) : tag[q] = fl[w] /\ q \in Waiting(gv, n)
  BY <1>3, Zenon DEF QTypes, Queues, Backlogs
<1>7. \A q \in Elems(bl[w]) : q < p
  BY <1>3, <1>4, <1>6, Zenon DEF Queues, Before
<1>8. Increasing(Append(bl[w], p)) /\ Elems(Append(bl[w], p)) = Elems(bl[w]) \union {p}
  BY <1>2, <1>6, <1>7, AppendElem, Zenon
<1>9. nb[w] = Append(bl[w], p) /\ \A v \in Wkr : v # w => nb[v] = bl[v]
  BY Zenon DEF QTypes
<1>10. \A k \in DOMAIN fr : \A q \in Held(fs[k]) : q \in Held(fr[k])
  BY <1>5, Zenon
<1> HIDE DEF p, nb
<1>11. Backlogs(nb, fl, gv, n)
  <2> SUFFICES ASSUME NEW v \in Wkr
               PROVE  /\ Increasing(nb[v])
                      /\ fl[v] # NoTag => \A q \in Elems(nb[v]) : tag[q] = fl[v] /\ q \in Waiting(gv, n)
    BY Zenon DEF Backlogs
  <2>1. CASE v = w
    BY <1>4, <1>6, <1>8, <1>9, <2>1, Zenon DEF p
  <2>2. CASE v # w
    BY <1>9, <2>2, Zenon DEF Queues, Backlogs
  <2> QED  BY <2>1, <2>2, Zenon
<1>12. Calls(fs, fl, gv, n)
  <2> SUFFICES ASSUME NEW k \in DOMAIN fr
               PROVE  /\ Increasing(fs[k].in) /\ Held(fs[k]) \subseteq Waiting(gv, n)
                      /\ fs[k].mb # NoPkt => /\ \A q \in Elems(fs[k].in) : fs[k].mb < q
                                             /\ \A v \in Wkr : fl[v] # tag[fs[k].mb]
    BY Zenon DEF Calls
  <2>1. CASE k = 1
    BY <1>2, <1>5, <2>1, Zenon DEF Queues, Calls
  <2>2. CASE k # 1
    BY <2>2, Zenon DEF Queues, Calls
  <2> QED  BY <2>1, <2>2, Zenon
<1>13. Nested(fs)
  <2> SUFFICES ASSUME NEW j \in DOMAIN fr, NEW k \in DOMAIN fr, j < k,
                      NEW q \in Held(fs[j]), NEW r \in Held(fs[k]), tag[q] = tag[r]
               PROVE  q < r /\ r # fs[k].mb
    BY Zenon DEF Nested
  <2>1. k # 1
    BY DEF QTypes
  <2>2. fs[k] = fr[k] /\ q \in Held(fr[j])
    BY <1>10, <2>1, Zenon
  <2> QED  BY <2>2, Zenon DEF Queues, Nested
<1>14. Before(nb, fs, fl)
  <2> SUFFICES ASSUME NEW v \in Wkr, NEW k \in DOMAIN fr, fl[v] # NoTag,
                      NEW q \in Elems(nb[v]), NEW r \in Held(fs[k]), tag[q] = tag[r]
               PROVE  q < r
    BY Zenon DEF Before
  <2>1. CASE q \in Elems(bl[v])
    BY <1>10, <2>1, Zenon DEF Queues, Before
  <2>2. CASE q \notin Elems(bl[v])
    <3>1. v = w /\ q = p
      BY <1>8, <1>9, <2>2, Zenon
    <3>2. CASE k = 1
      <4>1. r \in Elems(fs[1].in)
        BY <3>2, Zenon DEF Held
      <4> QED  BY <1>2, <3>1, <4>1, Zenon
    <3>3. CASE k # 1
      <4>1. 1 < k
        BY <3>3 DEF QTypes
      <4> QED  BY <1>4, <1>10, <3>1, <4>1, Zenon DEF Queues, Nested
    <3> QED  BY <3>2, <3>3, Zenon
  <2> QED  BY <2>1, <2>2, Zenon
<1>15. Found(nb, fs, fl, gv, n)
  <2> SUFFICES ASSUME NEW q \in Waiting(gv, n)
               PROVE  \/ \E v \in Wkr : fl[v] # NoTag /\ q \in Elems(nb[v])
                      \/ \E k \in DOMAIN fr : q \in Held(fs[k])
    BY Zenon DEF Found
  <2>1. CASE q = p
    BY <1>3, <1>8, <1>9, <2>1, Zenon
  <2>2. ASSUME NEW v \in Wkr, fl[v] # NoTag, q \in Elems(bl[v]) PROVE q \in Elems(nb[v])
    BY <1>8, <1>9, <2>2, Zenon
  <2>3. ASSUME NEW k \in DOMAIN fr, q \in Held(fr[k]), q # p PROVE q \in Held(fs[k])
    BY <1>5, <2>3, Zenon
  <2> QED  BY <2>1, <2>2, <2>3, Zenon DEF Queues, Found
<1> QED  BY <1>11, <1>12, <1>13, <1>14, <1>15, Zenon DEF Queues, p, nb

\* rte_distributor_process_single: the packets passed in come after all others.
LEMMA QNew ==
  ASSUME NEW bl, NEW fl, NEW gv, NEW n, QTypes(bl, <<>>, fl, gv, n),
         Queues(bl, <<>>, fl, gv, n), gv \subseteq 1 .. n - 1,
         NEW m \in Nat, n + m <= MaxPkts + 1,
         NEW f \in FrameType, f.in = [i \in 1 .. m |-> n + i - 1], f.mb = NoPkt
  PROVE  Queues(bl, <<f>>, fl, gv, n + m)
<1>1. n \in 1 .. MaxPkts + 1 /\ MaxPkts \in Nat
  BY DistParameters, Zenon DEF QTypes
<1>2. Increasing(f.in)
  BY <1>1 DEF Increasing
<1>3. Elems(f.in) = n .. n + m - 1
  <2>1. \A q \in n .. n + m - 1 : q - n + 1 \in 1 .. m /\ n + (q - n + 1) - 1 = q
    BY <1>1
  <2>2. \A q \in Elems(f.in) : q \in n .. n + m - 1
    BY <1>1 DEF Elems
  <2>3. \A q \in n .. n + m - 1 : q \in Elems(f.in)
    BY <1>1, <2>1, Zenon DEF Elems
  <2> QED  BY <2>2, <2>3, Zenon
<1>4. Held(f) = n .. n + m - 1
  BY <1>3, Zenon DEF Held
<1>5. \A q : q \in Waiting(gv, n + m) <=> q \in Waiting(gv, n) \/ q \in n .. n + m - 1
  BY <1>1 DEF Waiting
<1>6. \A q \in Waiting(gv, n) : \A r \in n .. n + m - 1 : q < r
  BY <1>1 DEF Waiting
<1>7. DOMAIN <<f>> = {1} /\ <<f>>[1] = f
  OBVIOUS
<1> DEFINE s == <<f>>
<1> HIDE DEF s
<1>8. DOMAIN s = {1} /\ s[1] = f
  BY <1>7, Zenon DEF s
<1>9. Backlogs(bl, fl, gv, n + m)
  BY <1>5, Zenon DEF Queues, Backlogs
<1>10. Calls(s, fl, gv, n + m)
  BY <1>2, <1>4, <1>5, <1>8, Zenon DEF Queues, Calls
<1>11. Nested(s)
  BY <1>8 DEF Nested
<1>12. Before(bl, s, fl)
  BY <1>4, <1>6, <1>8, Zenon DEF Queues, Before, Backlogs
<1>13. Found(bl, s, fl, gv, n + m)
  <2> SUFFICES ASSUME NEW q \in Waiting(gv, n + m)
               PROVE  \/ \E w \in Wkr : fl[w] # NoTag /\ q \in Elems(bl[w])
                      \/ \E k \in DOMAIN s : q \in Held(s[k])
    BY Zenon DEF Found
  <2>1. CASE q \in n .. n + m - 1
    BY <1>4, <1>8, <2>1, Zenon
  <2>2. CASE q \in Waiting(gv, n)
    <3>1. DOMAIN <<>> = {}
      OBVIOUS
    <3> QED  BY <2>2, <3>1, Zenon DEF Queues, Found
  <2> QED  BY <1>5, <2>1, <2>2, Zenon
<1> QED  BY <1>9, <1>10, <1>11, <1>12, <1>13, Zenon DEF Queues, s

-----------------------------------------------------------------------------
(* The turns of a call                                                      *)

\* The invariant gives what the lemmas about queues need.
LEMMA FlowTypes ==
  ASSUME FlowInv
  PROVE  QTypes(backlog, frames, inFlight, given, fresh)
BY Zenon DEF FlowInv, DistTypeOK, QTypes

\* The top of a turn keeps the queues in order, and adds only to the backlog of
\* a worker that has a flow.
LEMMA PullOK ==
  ASSUME FlowInv, frames # <<>>
  PROVE  LET f == Pull(Top).f
             bl == Pull(Top).backlog
         IN  /\ f \in FrameType /\ bl \in [Wkr -> Seq(Pkts)]
             /\ Queues(bl, <<f>> \o Tail(frames), inFlight, given, fresh)
             /\ f.at = Top.at /\ f.wkr = Top.wkr /\ f.start = Top.start
             /\ f.count = Top.count /\ f.old = Top.old
             /\ \A w \in Wkr : inFlight[w] = NoTag => bl[w] = backlog[w]
<1> DEFINE t == Top
           p == Head(t.in)
           w == Min(Match(p))
<1>1. /\ frames \in Seq(FrameType) /\ backlog \in [Wkr -> Seq(Pkts)] /\ inFlight \in [Wkr -> MaybeTag]
      /\ tag \in [Pkts -> Tags] /\ QTypes(backlog, frames, inFlight, given, fresh)
      /\ Queues(backlog, frames, inFlight, given, fresh)
  BY FlowTypes, Zenon DEF FlowInv, DistTypeOK
<1>2. t = frames[1] /\ t \in FrameType /\ 1 \in DOMAIN frames
  BY <1>1 DEF Top
<1>3. t.in \in Seq(Pkts) /\ t.mb \in MaybePkt
  BY <1>2, Zenon DEF FrameType
<1>4. Queues(backlog, <<t>> \o Tail(frames), inFlight, given, fresh)
  <2> DEFINE fs == <<t>> \o Tail(frames)
  <2>1. DOMAIN fs = DOMAIN frames /\ \A k \in DOMAIN frames : fs[k] = frames[k]
    BY <1>1, <1>2, TopFacts, Zenon
  <2> HIDE DEF fs
  <2>2. Queues(backlog, fs, inFlight, given, fresh)
    BY <1>1, <2>1, QSame, Zenon
  <2> QED  BY <2>2, Zenon DEF fs
<1>5. CASE t.mb # NoPkt \/ t.in = <<>>
  <2>1. Pull(t).f = t /\ Pull(t).backlog = backlog
    BY <1>5, Zenon DEF Pull
  <2> QED  BY <1>1, <1>2, <1>4, <2>1, Zenon
<1>6. CASE ~ (t.mb # NoPkt \/ t.in = <<>>)
  <2>1. p \in Pkts /\ Tail(t.in) \in Seq(Pkts)
    BY <1>3, <1>6
  <2>2. CASE Match(p) = {}
    <3> DEFINE g == [t EXCEPT !.mb = p, !.in = Tail(t.in)]
    <3>1. Pull(t).f = g /\ Pull(t).backlog = backlog
      BY <1>6, <2>2, Zenon DEF Pull
    <3>2. g \in FrameType /\ g.in = Tail(t.in) /\ g.mb = p
      BY <1>2, <2>1, Zenon DEF FrameType, MaybePkt
    <3>3. g.at = t.at /\ g.wkr = t.wkr /\ g.start = t.start /\ g.count = t.count /\ g.old = t.old
      BY <1>2, Zenon DEF FrameType
    <3>4. \A v \in Wkr : inFlight[v] # tag[p]
      BY <2>2, Zenon DEF Match
    <3> HIDE DEF g
    <3>5. Queues(backlog, <<g>> \o Tail(frames), inFlight, given, fresh)
      <4> DEFINE fs == <<g>> \o Tail(frames)
      <4>1. /\ DOMAIN fs = DOMAIN frames /\ fs[1] = g
            /\ \A k \in DOMAIN frames : k # 1 => fs[k] = frames[k]
        BY <1>1, <3>2, TopFacts, Zenon
      <4> HIDE DEF fs
      <4>2. Queues(backlog, fs, inFlight, given, fresh)
        BY <1>1, <1>2, <1>6, <3>2, <3>4, <4>1, QTake, Zenon
      <4> QED  BY <4>2, Zenon DEF fs
    <3> QED  BY <1>1, <3>1, <3>2, <3>3, <3>5, Zenon
  <2>3. CASE Match(p) # {}
    <3>1. w \in Wkr /\ inFlight[w] = tag[p]
      <4>1. PICK v \in Wkr : inFlight[v] = tag[p]
        BY <2>3, Zenon DEF Match
      <4>2. tag[p] # NoTag
        BY <1>1, <2>1, DistParameters, Zenon
      <4>3. Match(p) = {v}
        BY <1>1, <4>1, <4>2, Zenon DEF Match, Queues, Flights
      <4>4. v \in Int
        BY DEF Wkr
      <4>5. Min({v}) = v
        BY <4>4 DEF Min
      <4> QED  BY <4>1, <4>3, <4>5, Zenon
    <3> HIDE DEF w
    <3>2. CASE Len(backlog[w]) = BacklogSize
      <4>1. Pull(t).f = t /\ Pull(t).backlog = backlog
        BY <1>6, <2>3, <3>2, Zenon DEF Pull, w
      <4> QED  BY <1>1, <1>2, <1>4, <4>1, Zenon
    <3>3. CASE Len(backlog[w]) # BacklogSize
      <4> DEFINE g == [t EXCEPT !.in = Tail(t.in)]
                 nb == [backlog EXCEPT ![w] = Append(backlog[w], p)]
      <4>1. Pull(t).f = g /\ Pull(t).backlog = nb
        BY <1>6, <2>3, <3>3, Zenon DEF Pull, w
      <4>2. g \in FrameType /\ g.in = Tail(t.in) /\ g.mb = NoPkt
        BY <1>2, <1>6, <2>1, Zenon DEF FrameType, MaybePkt
      <4>3. g.at = t.at /\ g.wkr = t.wkr /\ g.start = t.start /\ g.count = t.count /\ g.old = t.old
        BY <1>2, Zenon DEF FrameType
      <4>4. nb \in [Wkr -> Seq(Pkts)]
        BY <1>1, <2>1, <3>1
      <4>5. tag[p] # NoTag
        BY <1>1, <2>1, DistParameters, Zenon
      <4>6. \A v \in Wkr : inFlight[v] = NoTag => nb[v] = backlog[v]
        BY <1>1, <3>1, <4>5, Zenon
      <4>7. Queues(nb, <<g>> \o Tail(frames), inFlight, given, fresh)
        <5> HIDE DEF g
        <5> DEFINE fs == <<g>> \o Tail(frames)
        <5>1. /\ DOMAIN fs = DOMAIN frames /\ fs[1] = g
              /\ \A k \in DOMAIN frames : k # 1 => fs[k] = frames[k]
          BY <1>1, <4>2, TopFacts, Zenon
        <5> HIDE DEF fs
        <5>2. Queues(nb, fs, inFlight, given, fresh)
          BY <1>1, <1>2, <1>6, <3>1, <4>2, <5>1, QPush, Zenon
        <5> QED  BY <5>2, Zenon DEF fs
      <4> QED  BY <4>1, <4>2, <4>3, <4>4, <4>6, <4>7, Zenon
    <3> QED  BY <3>2, <3>3, Zenon
  <2> QED  BY <2>2, <2>3, Zenon
<1> QED  BY <1>5, <1>6, Zenon DEF t

\* The turn of a call ends; only its place in the returns array and the worker
\* it looks at change.
LEMMA TurnFrame ==
  ASSUME NEW f \in FrameType, f.wkr \in Wkr, NEW old \in MaybePkt
  PROVE  LET g == NextWkr(AfterStore(f, old)) IN
         /\ g \in FrameType /\ g.at = f.at /\ g.in = f.in /\ g.mb = f.mb /\ g.old = f.old
         /\ g.at = "deal" => g.wkr \in Wkr
         /\ g.start = IF Full(f, old) THEN (f.start + 1) % ReturnsSize ELSE f.start
         /\ g.count = IF old = NoPkt \/ Full(f, old) THEN f.count ELSE f.count + 1
<1> DEFINE st == IF Full(f, old) THEN (f.start + 1) % ReturnsSize ELSE f.start
           ct == IF old = NoPkt \/ Full(f, old) THEN f.count ELSE f.count + 1
           nw == IF f.at = "deal" THEN (f.wkr + 1) % NumWorkers ELSE f.wkr + 1
           g == [f EXCEPT !.start = st, !.count = ct, !.wkr = nw]
<1>1. /\ f.start \in 0 .. ReturnsSize - 1 /\ f.count \in 0 .. ReturnsSize - 1
      /\ ReturnsSize \in Nat /\ ReturnsSize > 0 /\ NumWorkers \in Nat /\ NumWorkers > 0
      /\ f.wkr \in 0 .. NumWorkers - 1
  BY DistParameters DEF FrameType, Wkr
<1>2. st \in 0 .. ReturnsSize - 1
  BY <1>1, DivMod
<1>3. ct \in 0 .. ReturnsSize - 1
  BY <1>1 DEF Full
<1>4. nw \in 0 .. NumWorkers /\ (f.at = "deal" => nw \in Wkr)
  BY <1>1, DivMod DEF Wkr
<1>5. NextWkr(AfterStore(f, old)) = g
  BY Zenon DEF NextWkr, AfterStore, FrameType
<1>6. g \in FrameType /\ g.at = f.at /\ g.in = f.in /\ g.mb = f.mb /\ g.old = f.old
  BY <1>2, <1>3, <1>4, Zenon DEF FrameType
<1>7. g.wkr = nw /\ g.start = st /\ g.count = ct
  BY Zenon DEF FrameType
<1> QED  BY <1>4, <1>5, <1>6, <1>7, Zenon

\* store_return writes a packet, or none, to the array.
LEMMA StoreOK ==
  ASSUME FlowInv, NEW f \in FrameType, NEW old \in MaybePkt, NEW rets \in RetType, Store(f, old, rets)
  PROVE  /\ returns' \in RetType /\ handed' \in SUBSET Pkts
         /\ returns'.start = rets.start /\ returns'.count = rets.count
         /\ returns'.mbufs = [rets.mbufs EXCEPT ![(f.start + f.count) % ReturnsSize] = old]
<1>1. returns' = [rets EXCEPT !.mbufs = [rets.mbufs EXCEPT ![(f.start + f.count) % ReturnsSize] = old]]
  BY Zenon DEF Store
<1>2. [rets.mbufs EXCEPT ![(f.start + f.count) % ReturnsSize] = old] \in [0 .. ReturnsSize - 1 -> MaybePkt]
  BY Zenon DEF RetType
<1>3. /\ returns' \in RetType
      /\ returns'.start = rets.start /\ returns'.count = rets.count
      /\ returns'.mbufs = [rets.mbufs EXCEPT ![(f.start + f.count) % ReturnsSize] = old]
  BY <1>1, <1>2, Zenon DEF RetType
<1>4. handed' \in SUBSET Pkts
  BY Zenon DEF Store, FlowInv, DistTypeOK, MaybePkt
<1> QED  BY <1>3, <1>4, Zenon

\* The calls on the stack after a turn.
LEMMA EndTurnOK ==
  ASSUME FlowInv, frames # <<>>, NEW f \in FrameType, f.wkr \in Wkr, NEW old \in MaybePkt,
         EndTurn(f, old), f.at # "deal" => f.in = <<>> /\ f.mb = NoPkt,
         \A v \in Wkr : Left(v) => Left(v)',
         NEW bl, NEW fl, NEW gv, Queues(bl, <<f>> \o Tail(frames), fl, gv, fresh)
  PROVE  /\ frames' \in Seq(FrameType) /\ \A k \in DOMAIN frames' : FrameOK(k)'
         /\ returns' \in RetType /\ handed' \in SUBSET Pkts
         /\ Queues(bl, frames', fl, gv, fresh)
         /\ frames' # <<>> /\ Top' = NextWkr(AfterStore(f, old)) /\ Tail(frames') = Tail(frames)
<1>1. frames \in Seq(FrameType) /\ returns \in RetType /\ \A k \in DOMAIN frames : FrameOK(k)
  BY Zenon DEF FlowInv, DistTypeOK
<1>2. PICK g : g = NextWkr(AfterStore(f, old))
  BY Zenon
<1>3. /\ g \in FrameType /\ g.at = f.at /\ g.in = f.in /\ g.mb = f.mb
      /\ g.at = "deal" => g.wkr \in Wkr
  BY <1>2, TurnFrame, Zenon
<1>4. frames' = <<g>> \o Tail(frames)
  BY <1>2, Zenon DEF EndTurn
<1>5. /\ frames' \in Seq(FrameType) /\ DOMAIN frames' = DOMAIN frames /\ frames' # <<>>
      /\ frames'[1] = g /\ Head(frames') = g /\ Tail(frames') = Tail(frames)
      /\ \A k \in DOMAIN frames : k # 1 => frames'[k] = frames[k]
      /\ \A k \in DOMAIN frames : k # 1 => k > 1
  BY <1>1, <1>3, <1>4, TopFacts
<1>6. ASSUME NEW k \in DOMAIN frames' PROVE FrameOK(k)'
  <2>1. CASE k = 1
    <3>1. /\ IF g.at = "deal" THEN g.wkr \in Wkr ELSE g.in = <<>> /\ g.mb = NoPkt
          /\ ~ (k > 1)
      BY <1>3, <2>1
    <3> QED  BY <1>5, <2>1, <3>1, Zenon DEF FrameOK
  <2>2. CASE k # 1
    <3>1. frames'[k] = frames[k] /\ k > 1 /\ FrameOK(k)
      BY <1>1, <1>5, <1>6, <2>2, Zenon
    <3> QED  BY <3>1, Zenon DEF FrameOK
  <2> QED  BY <2>1, <2>2, Zenon
<1>7. returns' \in RetType /\ handed' \in SUBSET Pkts
  BY <1>1, StoreOK, Zenon DEF EndTurn
<1>8. Queues(bl, frames', fl, gv, fresh)
  <2> DEFINE fs == <<f>> \o Tail(frames)
  <2>1. /\ DOMAIN fs = DOMAIN frames /\ fs[1] = f
        /\ \A k \in DOMAIN frames : k # 1 => fs[k] = frames[k]
    BY <1>1, TopFacts, Zenon
  <2> HIDE DEF fs
  <2>2. \A k \in DOMAIN fs : frames'[k].in = fs[k].in /\ frames'[k].mb = fs[k].mb
    BY <1>3, <1>5, <2>1, Zenon
  <2>3. Queues(bl, fs, fl, gv, fresh)
    BY Zenon DEF fs
  <2> QED  BY <1>5, <2>1, <2>2, <2>3, QSame, Zenon
<1> QED  BY <1>2, <1>5, <1>6, <1>7, <1>8, Zenon DEF Top

\* A turn for worker w leaves the others as they are.
LEMMA OthersOK ==
  ASSUME FlowInv, NEW w \in Wkr, tag' = tag, doing' = doing, has' = has,
         \A v \in Wkr : v # w => /\ bufs'[v] = bufs[v] /\ inFlight'[v] = inFlight[v]
                                 /\ inFlight[v] = NoTag => backlog'[v] = backlog[v]
  PROVE  \A v \in Wkr : v # w => WkrOK(v)' /\ (Left(v)' <=> Left(v))
<1> TAKE v \in Wkr
<1> HAVE v # w
<1>1. WkrOK(v)
  BY Zenon DEF FlowInv
<1>2. Left(v)' <=> Left(v)
  BY Zenon DEF Left
<1>3. Works(v)' = Works(v)
  BY Zenon DEF Works
<1> QED  BY <1>1, <1>2, <1>3, Zenon DEF WkrOK

\* The tags of packets do not change.
LEMMA TagSame ==
  ASSUME tag' = tag, Queues(backlog', frames', inFlight', given', fresh')
  PROVE  Queues(backlog, frames, inFlight, given, fresh)'
<1>1. Backlogs(backlog, inFlight, given, fresh)'
  BY Zenon DEF Queues, Backlogs, Waiting
<1>2. Calls(frames, inFlight, given, fresh)'
  BY Zenon DEF Queues, Calls, Waiting
<1>3. Nested(frames)'
  BY Zenon DEF Queues, Nested
<1>4. Before(backlog, frames, inFlight)'
  BY Zenon DEF Queues, Before
<1>5. Found(backlog, frames, inFlight, given, fresh)'
  BY Zenon DEF Queues, Found, Waiting
<1> QED  BY <1>1, <1>2, <1>3, <1>4, <1>5, Zenon DEF Queues, Flights

\* What is left to show of a step of the distributor.
LEMMA FlowNext ==
  ASSUME FlowInv, UNCHANGED <<tag, leavers, doing, has>>, flushing' \in BOOLEAN,
         fresh' \in 1 .. MaxPkts + 1,
         bufs' \in [Wkr -> [flag : {"none", "get", "ret"}, pkt : MaybePkt]],
         inFlight' \in [Wkr -> MaybeTag], backlog' \in [Wkr -> Seq(Pkts)],
         returns' \in RetType, handed' \in SUBSET Pkts, given' \in SUBSET Pkts,
         given' \subseteq 1 .. fresh' - 1,
         frames' \in Seq(FrameType), \A k \in DOMAIN frames' : FrameOK(k)',
         \A v \in Wkr : WkrOK(v)',
         Queues(backlog', frames', inFlight', given', fresh')
  PROVE  FlowInv'
<1>1. DistTypeOK'
  BY Zenon DEF FlowInv, DistTypeOK
<1>2. Queues(backlog, frames, inFlight, given, fresh)'
  BY TagSame, Zenon
<1> QED  BY <1>1, <1>2, Zenon DEF FlowInv

\* The call that is served next, with the backlogs: after the top of a turn, or
\* as they are.
Served(f, bl) ==
  /\ frames # <<>> /\ f \in FrameType /\ bl \in [Wkr -> Seq(Pkts)]
  /\ f.wkr \in Wkr /\ (f.at # "deal" => f.in = <<>> /\ f.mb = NoPkt)
  /\ Queues(bl, <<f>> \o Tail(frames), inFlight, given, fresh)
  /\ \A v \in Wkr : inFlight[v] = NoTag => bl[v] = backlog[v]

LEMMA PullServed ==
  ASSUME FlowInv, Dealing
  PROVE  /\ Served(Pull(Top).f, Pull(Top).backlog) /\ Pull(Top).f.wkr = Top.wkr
         /\ Pull(Top).f.at = "deal" /\ Pull(Top).f.old = Top.old
         /\ Pull(Top).f.start = Top.start /\ Pull(Top).f.count = Top.count
<1>1. frames # <<>> /\ Top.at = "deal"
  BY Zenon DEF Dealing
<1>2. Top.wkr \in Wkr
  <2>1. 1 \in DOMAIN frames /\ Top = frames[1]
    BY <1>1 DEF FlowInv, DistTypeOK, Top
  <2> QED  BY <1>1, <2>1, Zenon DEF FlowInv, FrameOK
<1> QED  BY <1>1, <1>2, PullOK, Zenon DEF Served

LEMMA TopServed ==
  ASSUME FlowInv, frames # <<>>, Top.at # "deal", Top.wkr \in Wkr
  PROVE  Served(Top, backlog)
<1>1. frames \in Seq(FrameType) /\ backlog \in [Wkr -> Seq(Pkts)]
  BY Zenon DEF FlowInv, DistTypeOK
<1>2. 1 \in DOMAIN frames /\ Top = frames[1] /\ Top \in FrameType
  BY <1>1 DEF Top
<1>3. Top.in = <<>> /\ Top.mb = NoPkt
  BY <1>2, Zenon DEF FlowInv, FrameOK
<1>4. Queues(backlog, <<Top>> \o Tail(frames), inFlight, given, fresh)
  <2> DEFINE fs == <<Top>> \o Tail(frames)
  <2>1. DOMAIN fs = DOMAIN frames /\ \A k \in DOMAIN frames : fs[k] = frames[k]
    BY <1>1, <1>2, TopFacts
  <2> HIDE DEF fs
  <2>2. Queues(backlog, fs, inFlight, given, fresh)
    BY <2>1, QSame, Zenon DEF FlowInv
  <2> QED  BY <2>2, Zenon DEF fs
<1> QED  BY <1>1, <1>2, <1>3, <1>4, Zenon DEF Served

\* backlog_pop, and the packet goes to the worker.
LEMMA PopOK ==
  ASSUME FlowInv, NEW f, NEW bl, Served(f, bl), NEW w \in Wkr, w = f.wkr,
         bufs[w].flag = "get", bl[w] # <<>>, PopBacklog(f, w, bl),
         UNCHANGED <<inputvars, inFlight, flushing, workervars>>
  PROVE  FlowInv' /\ GivesInOrder
<1>1. /\ frames # <<>> /\ f \in FrameType /\ bl \in [Wkr -> Seq(Pkts)]
      /\ f.wkr \in Wkr /\ (f.at # "deal" => f.in = <<>> /\ f.mb = NoPkt)
      /\ Queues(bl, <<f>> \o Tail(frames), inFlight, given, fresh)
      /\ \A v \in Wkr : inFlight[v] = NoTag => bl[v] = backlog[v]
  BY Zenon DEF Served
<1>2. /\ bufs \in [Wkr -> [flag : {"none", "get", "ret"}, pkt : MaybePkt]] /\ WkrOK(w)
      /\ inFlight \in [Wkr -> MaybeTag] /\ tag \in [Pkts -> Tags] /\ fresh \in 1 .. MaxPkts + 1
      /\ given \in SUBSET Pkts /\ flushing \in BOOLEAN /\ frames \in Seq(FrameType)
      /\ given \subseteq 1 .. fresh - 1
  BY Zenon DEF FlowInv, DistTypeOK
<1>3. doing[w] = "polling" /\ ~ Left(w)
  BY <1>2, Zenon DEF WkrOK, Left
<1>4. inFlight[w] # NoTag
  BY <1>1, <1>2, <1>3, Zenon DEF WkrOK
<1> DEFINE p == Head(bl[w])
           fs == <<f>> \o Tail(frames)
           nb == [bl EXCEPT ![w] = Tail(bl[w])]
<1>5. fs \in Seq(FrameType)
  BY <1>1, <1>2, TopFacts, Zenon
<1>6. QTypes(bl, fs, inFlight, given, fresh)
  BY <1>1, <1>2, <1>5, Zenon DEF QTypes
<1>9. /\ nb \in [Wkr -> Seq(Pkts)] /\ nb[w] = Tail(bl[w]) /\ \A v \in Wkr : v # w => nb[v] = bl[v]
  BY <1>1
<1>7. /\ Queues(nb, fs, inFlight, given \union {p}, fresh)
      /\ p \in Pkts /\ p < fresh /\ p \notin given /\ tag[p] = inFlight[w]
      /\ \A q \in Pkts : q < p /\ tag[q] = tag[p] => q \in given
  <2>1. Queues(bl, fs, inFlight, given, fresh)
    BY <1>1, Zenon
  <2> HIDE DEF fs, nb
  <2>2. Gives(w, p, nb, fs, inFlight, given, fresh)
    BY <1>4, <1>6, <1>9, <2>1, QPop, SMT
  <2> QED  BY <2>2, Zenon DEF Gives
<1>8. /\ bufs' = [bufs EXCEPT ![w] = Buf("none", p)] /\ given' = given \union {p}
      /\ backlog' = nb /\ EndTurn(f, bufs[w].pkt)
      /\ tag' = tag /\ leavers' = leavers /\ fresh' = fresh /\ inFlight' = inFlight
      /\ flushing' = flushing /\ doing' = doing /\ has' = has
  BY Zenon DEF PopBacklog, Give, inputvars, workervars
<1>10. p # NoPkt /\ p \in MaybePkt /\ given' \in SUBSET Pkts /\ given' \subseteq 1 .. fresh - 1
  <2>1. p # NoPkt /\ p \in 1 .. fresh - 1
    BY <1>2, <1>7, DistParameters DEF Pkts, NoPkt
  <2> QED  BY <1>2, <1>7, <1>8, <2>1, Zenon DEF MaybePkt
<1> HIDE DEF p, fs, nb
<1>11. /\ bufs'[w].flag = "none" /\ bufs'[w].pkt = p
       /\ \A v \in Wkr : v # w => bufs'[v] = bufs[v]
       /\ bufs' \in [Wkr -> [flag : {"none", "get", "ret"}, pkt : MaybePkt]]
       /\ bufs[w].pkt \in MaybePkt
  BY <1>2, <1>8, <1>10, Zenon DEF Buf
<1>12. \A v \in Wkr : v # w => WkrOK(v)' /\ (Left(v)' <=> Left(v))
  <2>1. \A v \in Wkr : v # w => /\ bufs'[v] = bufs[v] /\ inFlight'[v] = inFlight[v]
                                 /\ inFlight[v] = NoTag => backlog'[v] = backlog[v]
    <3> SUFFICES ASSUME NEW v \in Wkr, v # w
                 PROVE  /\ bufs'[v] = bufs[v] /\ inFlight'[v] = inFlight[v]
                        /\ inFlight[v] = NoTag => backlog'[v] = backlog[v]
      BY Zenon
    <3>1. backlog'[v] = bl[v]
      BY <1>8, <1>9, Zenon
    <3> QED  BY <1>1, <1>8, <1>11, <3>1, Zenon
  <2> QED  BY <1>8, <2>1, OthersOK
<1>13. WkrOK(w)'
  <2>1. Works(w)' = p /\ ~ Left(w)'
    BY <1>3, <1>8, <1>11, Zenon DEF Works, Left
  <2>2. doing'[w] = "polling" /\ bufs'[w].flag = "none" /\ has'[w] = NoPkt /\ inFlight'[w] = tag'[p]
    BY <1>2, <1>3, <1>7, <1>8, <1>11, Zenon DEF WkrOK
  <2> QED  BY <1>4, <1>8, <2>1, <2>2, Zenon DEF WkrOK
<1>14. \A v \in Wkr : Left(v) => Left(v)'
  BY <1>3, <1>12, Zenon
<1>15. /\ frames' \in Seq(FrameType) /\ \A k \in DOMAIN frames' : FrameOK(k)'
       /\ returns' \in RetType /\ handed' \in SUBSET Pkts
       /\ Queues(nb, frames', inFlight, given \union {p}, fresh)
  BY <1>1, <1>7, <1>8, <1>11, <1>14, EndTurnOK, Zenon DEF fs
<1>16. \A v \in Wkr : WkrOK(v)'
  BY <1>12, <1>13, Zenon
<1>17. FlowInv'
  BY <1>2, <1>8, <1>9, <1>10, <1>11, <1>15, <1>16, FlowNext, Zenon
<1>18. GivesInOrder
  BY <1>7, <1>11, Zenon DEF GivesInOrder
<1> QED  BY <1>17, <1>18, Zenon

\* The worker gets the packet at hand.
LEMMA NextOK ==
  ASSUME FlowInv, NEW f, NEW bl, Served(f, bl), NEW w \in Wkr, w = f.wkr,
         bufs[w].flag = "get", bl[w] = <<>>, f.mb # NoPkt, f.at = "deal", Give(w, f.mb),
         inFlight' = [inFlight EXCEPT ![w] = tag[f.mb]], backlog' = bl,
         EndTurn([f EXCEPT !.mb = NoPkt], bufs[w].pkt),
         UNCHANGED <<inputvars, flushing, workervars>>
  PROVE  FlowInv' /\ GivesInOrder
<1>1. /\ frames # <<>> /\ f \in FrameType /\ bl \in [Wkr -> Seq(Pkts)] /\ f.wkr \in Wkr
      /\ Queues(bl, <<f>> \o Tail(frames), inFlight, given, fresh)
      /\ \A v \in Wkr : inFlight[v] = NoTag => bl[v] = backlog[v]
  BY Zenon DEF Served
<1>2. /\ bufs \in [Wkr -> [flag : {"none", "get", "ret"}, pkt : MaybePkt]] /\ WkrOK(w)
      /\ inFlight \in [Wkr -> MaybeTag] /\ tag \in [Pkts -> Tags] /\ fresh \in 1 .. MaxPkts + 1
      /\ given \in SUBSET Pkts /\ flushing \in BOOLEAN /\ frames \in Seq(FrameType)
      /\ given \subseteq 1 .. fresh - 1
  BY Zenon DEF FlowInv, DistTypeOK
<1>3. doing[w] = "polling" /\ ~ Left(w)
  BY <1>2, Zenon DEF WkrOK, Left
<1>4. PICK p : p = f.mb
  BY Zenon
<1>5. PICK g : g = [f EXCEPT !.mb = NoPkt]
  BY Zenon
<1>6. g \in FrameType /\ g.in = f.in /\ g.mb = NoPkt /\ g.at = "deal" /\ g.wkr = f.wkr
  BY <1>1, <1>5, Zenon DEF FrameType, MaybePkt
<1>7. /\ bufs' = [bufs EXCEPT ![w] = Buf("none", p)] /\ given' = given \union {p}
      /\ backlog' = bl /\ EndTurn(g, bufs[w].pkt)
      /\ tag' = tag /\ leavers' = leavers /\ fresh' = fresh
      /\ flushing' = flushing /\ doing' = doing /\ has' = has
  BY <1>4, <1>5, Zenon DEF Give, inputvars, workervars
<1>8. inFlight'[w] = tag[p] /\ \A v \in Wkr : v # w => inFlight'[v] = inFlight[v]
  BY <1>2, <1>4, Zenon
<1> DEFINE fs == <<f>> \o Tail(frames)
           gs == <<g>> \o Tail(frames)
<1>9. /\ fs \in Seq(FrameType) /\ DOMAIN fs = DOMAIN frames /\ fs[1] = f /\ 1 \in DOMAIN fs
      /\ DOMAIN gs = DOMAIN frames /\ gs[1] = g
      /\ \A k \in DOMAIN fs : k # 1 => gs[k] = fs[k]
  BY <1>1, <1>2, <1>6, TopFacts
<1>10. QTypes(bl, fs, inFlight, given, fresh) /\ Queues(bl, fs, inFlight, given, fresh)
  BY <1>1, <1>2, <1>9, Zenon DEF QTypes
<1>11. /\ Queues(bl, gs, inFlight', given \union {p}, fresh)
       /\ p \in Pkts /\ p < fresh /\ p \notin given
       /\ \A q \in Pkts : q < p /\ tag[q] = tag[p] => q \in given
  <2> HIDE DEF fs, gs
  <2>1. fs[1].mb = p /\ fs[1].mb # NoPkt /\ gs[1].in = fs[1].in /\ gs[1].mb = NoPkt /\ DOMAIN gs = DOMAIN fs
    BY <1>4, <1>6, <1>9, Zenon
  <2>2. \A nf : nf[w] = tag[fs[1].mb] /\ (\A v \in Wkr : v # w => nf[v] = inFlight[v])
                 => Gives(w, fs[1].mb, bl, gs, nf, given, fresh)
    BY <1>9, <1>10, <2>1, QGive, Zenon
  <2>3. inFlight'[w] = tag[fs[1].mb]
    BY <1>8, <2>1, Zenon
  <2>4. Gives(w, fs[1].mb, bl, gs, inFlight', given, fresh)
    BY <1>8, <2>2, <2>3, Zenon
  <2> QED  BY <2>1, <2>4, Zenon DEF Gives
<1>12. p # NoPkt /\ p \in MaybePkt /\ given' \in SUBSET Pkts /\ given' \subseteq 1 .. fresh - 1
  <2>1. p # NoPkt /\ p \in 1 .. fresh - 1
    BY <1>2, <1>11, DistParameters DEF Pkts, NoPkt
  <2> QED  BY <1>2, <1>7, <1>11, <2>1, Zenon DEF MaybePkt
<1>13. /\ bufs'[w].flag = "none" /\ bufs'[w].pkt = p
       /\ \A v \in Wkr : v # w => bufs'[v] = bufs[v]
       /\ bufs' \in [Wkr -> [flag : {"none", "get", "ret"}, pkt : MaybePkt]]
       /\ bufs[w].pkt \in MaybePkt
  BY <1>2, <1>7, <1>12, Zenon DEF Buf
<1>14. tag[p] # NoTag /\ inFlight' \in [Wkr -> MaybeTag]
  BY <1>2, <1>4, <1>11, DistParameters DEF MaybeTag
<1> HIDE DEF fs
<1>15. \A v \in Wkr : v # w => WkrOK(v)' /\ (Left(v)' <=> Left(v))
  <2>1. \A v \in Wkr : v # w => /\ bufs'[v] = bufs[v] /\ inFlight'[v] = inFlight[v]
                                 /\ inFlight[v] = NoTag => backlog'[v] = backlog[v]
    <3> SUFFICES ASSUME NEW v \in Wkr, v # w
                 PROVE  /\ bufs'[v] = bufs[v] /\ inFlight'[v] = inFlight[v]
                        /\ inFlight[v] = NoTag => backlog'[v] = backlog[v]
      BY Zenon
    <3> QED  BY <1>1, <1>7, <1>8, <1>13, Zenon
  <2> QED  BY <1>7, <2>1, OthersOK
<1>16. WkrOK(w)'
  <2>1. Works(w)' = p /\ ~ Left(w)'
    BY <1>3, <1>7, <1>13, Zenon DEF Works, Left
  <2>2. doing'[w] = "polling" /\ bufs'[w].flag = "none" /\ has'[w] = NoPkt /\ inFlight'[w] = tag'[p]
    BY <1>2, <1>3, <1>7, <1>8, <1>13, Zenon DEF WkrOK
  <2> QED  BY <1>7, <1>8, <1>14, <2>1, <2>2, Zenon DEF WkrOK
<1>17. \A v \in Wkr : Left(v) => Left(v)'
  BY <1>3, <1>15, Zenon
<1>18. /\ frames' \in Seq(FrameType) /\ \A k \in DOMAIN frames' : FrameOK(k)'
       /\ returns' \in RetType /\ handed' \in SUBSET Pkts
       /\ Queues(bl, frames', inFlight', given \union {p}, fresh)
  BY <1>1, <1>6, <1>7, <1>11, <1>13, <1>17, EndTurnOK, Zenon
<1>19. \A v \in Wkr : WkrOK(v)'
  BY <1>15, <1>16, Zenon
<1>20. FlowInv'
  BY <1>1, <1>2, <1>7, <1>12, <1>13, <1>14, <1>18, <1>19, FlowNext, Zenon
<1>21. GivesInOrder
  BY <1>11, <1>13, Zenon DEF GivesInOrder
<1> QED  BY <1>20, <1>21, Zenon

\* The turn changes nothing for the worker.
LEMMA NothingOK ==
  ASSUME FlowInv, NEW f, NEW bl, Served(f, bl), backlog' = bl, EndTurn(f, NoPkt),
         \A v \in Wkr : inFlight[v] = NoTag => bl[v] = backlog[v],
         UNCHANGED <<inputvars, bufs, inFlight, flushing, workervars, given>>
  PROVE  FlowInv' /\ GivesInOrder
<1>1. /\ frames # <<>> /\ f \in FrameType /\ bl \in [Wkr -> Seq(Pkts)]
      /\ f.wkr \in Wkr /\ (f.at # "deal" => f.in = <<>> /\ f.mb = NoPkt)
      /\ Queues(bl, <<f>> \o Tail(frames), inFlight, given, fresh)
  BY Zenon DEF Served
<1>2. /\ tag' = tag /\ leavers' = leavers /\ fresh' = fresh /\ inFlight' = inFlight /\ bufs' = bufs
      /\ flushing' = flushing /\ doing' = doing /\ has' = has /\ given' = given
  BY Zenon DEF inputvars, workervars
<1>3. \A v \in Wkr : WkrOK(v)' /\ (Left(v)' <=> Left(v))
  <2> TAKE v \in Wkr
  <2>1. WkrOK(v) /\ (Left(v)' <=> Left(v)) /\ Works(v)' = Works(v)
    BY <1>2, Zenon DEF FlowInv, Left, Works
  <2> QED  BY <1>2, <2>1, Zenon DEF WkrOK
<1>4. NoPkt \in MaybePkt
  BY Zenon DEF MaybePkt
<1>5. /\ frames' \in Seq(FrameType) /\ \A k \in DOMAIN frames' : FrameOK(k)'
      /\ returns' \in RetType /\ handed' \in SUBSET Pkts
      /\ Queues(bl, frames', inFlight, given, fresh)
  BY <1>1, <1>3, <1>4, EndTurnOK, Zenon
<1>6. /\ inFlight' \in [Wkr -> MaybeTag] /\ fresh' \in 1 .. MaxPkts + 1 /\ flushing' \in BOOLEAN
      /\ bufs' \in [Wkr -> [flag : {"none", "get", "ret"}, pkt : MaybePkt]]
      /\ given' \in SUBSET Pkts /\ given' \subseteq 1 .. fresh' - 1
  BY <1>2, Zenon DEF FlowInv, DistTypeOK
<1>7. FlowInv'
  BY <1>1, <1>2, <1>3, <1>5, <1>6, FlowNext, Zenon
<1> QED  BY <1>2, <1>7, Zenon DEF GivesInOrder

\* A call on packets of this distributor.
LEMMA NewFrame ==
  ASSUME FlowInv, NEW in \in Seq(Pkts)
  PROVE  /\ Frame(in) \in FrameType /\ Frame(in).in = in /\ Frame(in).mb = NoPkt
         /\ Frame(in).wkr = 0 /\ Frame(in).old = NoPkt /\ 0 \in Wkr
         /\ Frame(in).start = returns.start /\ Frame(in).count = returns.count
         /\ Frame(in).at = IF in = <<>> THEN "returns" ELSE "deal"
<1>1. returns \in RetType /\ NumWorkers \in Nat \ {0}
  BY DistParameters, Zenon DEF FlowInv, DistTypeOK
<1> QED  BY <1>1 DEF Frame, FrameType, RetType, MaybePkt, Wkr

\* handle_worker_shutdown
LEMMA ShutdownOK ==
  ASSUME FlowInv, NEW f, NEW bl, Served(f, bl), NEW w \in Wkr, w = f.wkr,
         bufs[w].flag = "ret", Shutdown(f, w, bl),
         UNCHANGED <<inputvars, flushing, workervars, given>>
  PROVE  FlowInv' /\ GivesInOrder
<1>1. /\ frames # <<>> /\ f \in FrameType /\ bl \in [Wkr -> Seq(Pkts)]
      /\ f.wkr \in Wkr /\ (f.at # "deal" => f.in = <<>> /\ f.mb = NoPkt)
      /\ Queues(bl, <<f>> \o Tail(frames), inFlight, given, fresh)
      /\ \A v \in Wkr : inFlight[v] = NoTag => bl[v] = backlog[v]
  BY Zenon DEF Served
<1>2. /\ bufs \in [Wkr -> [flag : {"none", "get", "ret"}, pkt : MaybePkt]] /\ WkrOK(w)
      /\ inFlight \in [Wkr -> MaybeTag] /\ tag \in [Pkts -> Tags] /\ fresh \in 1 .. MaxPkts + 1
      /\ given \in SUBSET Pkts /\ flushing \in BOOLEAN /\ frames \in Seq(FrameType)
      /\ given \subseteq 1 .. fresh - 1 /\ returns \in RetType /\ handed \in SUBSET Pkts
      /\ \A k \in DOMAIN frames : FrameOK(k)
  BY Zenon DEF FlowInv, DistTypeOK
<1>3. doing[w] = "gone" /\ ~ Left(w) /\ has[w] = NoPkt
  BY <1>2, Zenon DEF WkrOK, Left
<1>4. /\ bufs' = [bufs EXCEPT ![w] = Buf("none", NoPkt)] /\ backlog' = bl
      /\ inFlight' = [inFlight EXCEPT ![w] = NoTag]
      /\ tag' = tag /\ leavers' = leavers /\ fresh' = fresh /\ given' = given
      /\ flushing' = flushing /\ doing' = doing /\ has' = has
  BY Zenon DEF Shutdown, inputvars, workervars
<1>5. /\ inFlight'[w] = NoTag /\ \A v \in Wkr : v # w => inFlight'[v] = inFlight[v]
      /\ inFlight' \in [Wkr -> MaybeTag]
  BY <1>2, <1>4, Zenon DEF MaybeTag
<1>6. /\ bufs'[w].flag = "none" /\ bufs'[w].pkt = NoPkt
      /\ \A v \in Wkr : v # w => bufs'[v] = bufs[v]
      /\ bufs' \in [Wkr -> [flag : {"none", "get", "ret"}, pkt : MaybePkt]]
      /\ bufs[w].pkt \in MaybePkt
  BY <1>2, <1>4, Zenon DEF Buf, MaybePkt
<1>7. \A v \in Wkr : v # w => WkrOK(v)' /\ (Left(v)' <=> Left(v))
  <2>1. \A v \in Wkr : v # w => /\ bufs'[v] = bufs[v] /\ inFlight'[v] = inFlight[v]
                                 /\ inFlight[v] = NoTag => backlog'[v] = backlog[v]
    <3> SUFFICES ASSUME NEW v \in Wkr, v # w
                 PROVE  /\ bufs'[v] = bufs[v] /\ inFlight'[v] = inFlight[v]
                        /\ inFlight[v] = NoTag => backlog'[v] = backlog[v]
      BY Zenon
    <3> QED  BY <1>1, <1>4, <1>5, <1>6, Zenon
  <2> QED  BY <1>4, <2>1, OthersOK
<1>8. WkrOK(w)' /\ Left(w)'
  <2>1. doing'[w] = "gone" /\ has'[w] = NoPkt
    BY <1>3, <1>4, Zenon
  <2>2. Works(w)' = NoPkt /\ Left(w)'
    BY <1>6, <2>1, Zenon DEF Works, Left
  <2> QED  BY <1>5, <1>6, <2>1, <2>2, Zenon DEF WkrOK
<1>9. \A v \in Wkr : WkrOK(v)' /\ (Left(v) => Left(v)')
  BY <1>7, <1>8, Zenon
<1>10. PICK nf : nf = inFlight'
  BY Zenon
<1>11. nf[w] = NoTag /\ \A v \in Wkr : v # w => nf[v] = inFlight[v]
  BY <1>5, <1>10, Zenon
<1> DEFINE fs == <<f>> \o Tail(frames)
<1>12. /\ fs \in Seq(FrameType) /\ DOMAIN fs = DOMAIN frames /\ fs[1] = f
       /\ \A k \in DOMAIN frames : k # 1 => fs[k] = frames[k]
  BY <1>1, <1>2, TopFacts, Zenon
<1>13. QTypes(bl, fs, inFlight, given, fresh) /\ Queues(bl, fs, inFlight, given, fresh)
  BY <1>1, <1>2, <1>12, Zenon DEF QTypes
<1> HIDE DEF fs
<1>14. ASSUME bl[w] = <<>> PROVE FlowInv'
  <2>1. EndTurn(f, bufs[w].pkt)
    BY <1>14, Zenon DEF Shutdown
  <2>2. Queues(bl, fs, nf, given, fresh)
    BY <1>11, <1>13, <1>14, QFree, Zenon
  <2>3. /\ frames' \in Seq(FrameType) /\ \A k \in DOMAIN frames' : FrameOK(k)'
        /\ returns' \in RetType /\ handed' \in SUBSET Pkts
        /\ Queues(bl, frames', nf, given, fresh)
    BY <1>1, <1>6, <1>9, <2>1, <2>2, EndTurnOK, Zenon DEF fs
  <2> QED  BY <1>1, <1>2, <1>4, <1>5, <1>6, <1>9, <1>10, <2>3, FlowNext, Zenon
<1>15. ASSUME bl[w] # <<>> PROVE FlowInv'
  <2>1. inFlight[w] # NoTag
    BY <1>1, <1>2, <1>3, <1>15, Zenon DEF WkrOK
  <2>2. PICK a : a = Frame(bl[w])
    BY Zenon
  <2>3. PICK g : g = [f EXCEPT !.old = bufs[w].pkt]
    BY Zenon
  <2>4. frames' = <<a, g>> \o Tail(frames) /\ returns' = returns /\ handed' = handed
    BY <1>15, <2>2, <2>3, Zenon DEF Shutdown
  <2>5. a \in FrameType /\ a.in = bl[w] /\ a.mb = NoPkt /\ a.wkr \in Wkr /\ a.at = "deal"
    <3>1. bl[w] \in Seq(Pkts)
      BY <1>1, Zenon
    <3> QED  BY <1>15, <2>2, <3>1, NewFrame, Zenon
  <2>6. g \in FrameType /\ g.in = f.in /\ g.mb = f.mb /\ g.wkr = f.wkr /\ g.at = f.at
    BY <1>1, <1>6, <2>3, Zenon DEF FrameType
  <2> DEFINE gs == <<g>> \o Tail(frames)
  <2>7. /\ gs \in Seq(FrameType) /\ DOMAIN gs = DOMAIN frames /\ gs[1] = g
        /\ \A k \in DOMAIN frames : k # 1 => gs[k] = frames[k]
    BY <1>1, <1>2, <2>6, TopFacts, Zenon
  <2>8. frames' = <<a>> \o gs
    <3> DEFINE t == Tail(frames)
    <3>1. t \in Seq(FrameType)
      BY <1>1, <1>2
    <3> HIDE DEF t
    <3>2. <<a, g>> \o t = <<a>> \o (<<g>> \o t)
      BY <2>5, <2>6, <3>1
    <3> QED  BY <2>4, <3>2, Zenon DEF t
  <2> HIDE DEF gs
  <2>9. QTypes(bl, gs, inFlight, given, fresh) /\ Queues(bl, gs, inFlight, given, fresh)
    <3>1. \A k \in DOMAIN fs : gs[k].in = fs[k].in /\ gs[k].mb = fs[k].mb
      BY <1>12, <2>6, <2>7, Zenon
    <3>2. Queues(bl, gs, inFlight, given, fresh)
      BY <1>12, <1>13, <2>7, <3>1, QSame, Zenon
    <3> QED  BY <1>1, <1>2, <2>7, <3>2, Zenon DEF QTypes
  <2>10. Queues(bl, frames', nf, given, fresh)
    <3>1. PICK s : s = <<a>> \o gs
      BY Zenon
    <3>2. Queues(bl, s, nf, given, fresh)
      BY <1>11, <2>1, <2>5, <2>9, <3>1, QLeave, Zenon
    <3> QED  BY <2>8, <3>1, <3>2, Zenon
  <2>11. /\ frames' \in Seq(FrameType) /\ frames'[1] = a /\ DOMAIN frames' = 1 .. Len(gs) + 1
         /\ Len(gs) \in Nat /\ DOMAIN gs = 1 .. Len(gs)
         /\ \A k \in 2 .. Len(gs) + 1 : frames'[k] = gs[k - 1]
    BY <2>5, <2>7, <2>8, ConsFacts, Zenon
  <2>12. ASSUME NEW k \in DOMAIN frames' PROVE FrameOK(k)'
    <3>1. CASE k = 1
      BY <2>5, <2>11, <3>1 DEF FrameOK
    <3>2. CASE k = 2
      <4>1. frames'[2] = g
        BY <2>7, <2>11, <2>12, <3>2
      <4> QED  BY <1>1, <1>8, <2>6, <3>2, <4>1, Zenon DEF FrameOK
    <3>3. CASE k # 1 /\ k # 2
      <4>1. k - 1 \in DOMAIN frames /\ k - 1 # 1 /\ k - 1 > 1 /\ k \in 2 .. Len(gs) + 1
        BY <2>7, <2>11, <2>12, <3>3
      <4>2. frames'[k] = frames[k - 1]
        BY <2>7, <2>11, <4>1, Zenon
      <4>3. FrameOK(k - 1)
        BY <1>2, <4>1, Zenon
      <4> QED  BY <1>9, <4>1, <4>2, <4>3, Zenon DEF FrameOK
    <3> QED  BY <3>1, <3>2, <3>3, Zenon
  <2> QED  BY <1>1, <1>2, <1>4, <1>5, <1>6, <1>9, <1>10, <2>4, <2>10, <2>11, <2>12, FlowNext, Zenon
<1>16. GivesInOrder
  BY <1>6, Zenon DEF GivesInOrder
<1> QED  BY <1>14, <1>15, <1>16, Zenon

\* The worker waits and its flow becomes free.
LEMMA IdleOK ==
  ASSUME FlowInv, ReturnsIdle
  PROVE  FlowInv' /\ GivesInOrder
<1>1. PICK w \in Wkr : w = Top.wkr
  BY Zenon DEF ReturnsIdle
<1>2. /\ frames # <<>> /\ Top.at # "deal" /\ bufs[w].flag = "get" /\ backlog[w] = <<>>
      /\ bufs' = [bufs EXCEPT ![w] = Buf("get", NoPkt)]
      /\ inFlight' = [inFlight EXCEPT ![w] = NoTag]
      /\ EndTurn(Top, bufs[w].pkt)
      /\ tag' = tag /\ leavers' = leavers /\ fresh' = fresh /\ given' = given
      /\ flushing' = flushing /\ doing' = doing /\ has' = has /\ backlog' = backlog
  BY <1>1, Zenon DEF ReturnsIdle, inputvars, workervars
<1>3. /\ bufs \in [Wkr -> [flag : {"none", "get", "ret"}, pkt : MaybePkt]] /\ WkrOK(w)
      /\ inFlight \in [Wkr -> MaybeTag] /\ fresh \in 1 .. MaxPkts + 1
      /\ given \in SUBSET Pkts /\ flushing \in BOOLEAN /\ frames \in Seq(FrameType)
      /\ given \subseteq 1 .. fresh - 1 /\ backlog \in [Wkr -> Seq(Pkts)]
      /\ tag \in [Pkts -> Tags]
  BY Zenon DEF FlowInv, DistTypeOK
<1>4. Served(Top, backlog)
  BY <1>1, <1>2, TopServed, Zenon
<1>5. PICK f : f = Top
  BY Zenon
<1>6. /\ f \in FrameType /\ f.wkr \in Wkr /\ (f.at # "deal" => f.in = <<>> /\ f.mb = NoPkt)
      /\ Queues(backlog, <<f>> \o Tail(frames), inFlight, given, fresh)
  BY <1>4, <1>5, Zenon DEF Served
<1>7. doing[w] = "polling" /\ ~ Left(w) /\ has[w] = NoPkt
  BY <1>2, <1>3, Zenon DEF WkrOK, Left
<1>8. /\ inFlight'[w] = NoTag /\ \A v \in Wkr : v # w => inFlight'[v] = inFlight[v]
      /\ inFlight' \in [Wkr -> MaybeTag]
  BY <1>2, <1>3, Zenon DEF MaybeTag
<1>9. /\ bufs'[w].flag = "get" /\ bufs'[w].pkt = NoPkt
      /\ \A v \in Wkr : v # w => bufs'[v] = bufs[v]
      /\ bufs' \in [Wkr -> [flag : {"none", "get", "ret"}, pkt : MaybePkt]]
      /\ bufs[w].pkt \in MaybePkt
  BY <1>2, <1>3, Zenon DEF Buf, MaybePkt
<1>10. \A v \in Wkr : v # w => WkrOK(v)' /\ (Left(v)' <=> Left(v))
  <2>1. \A v \in Wkr : v # w => /\ bufs'[v] = bufs[v] /\ inFlight'[v] = inFlight[v]
                                 /\ inFlight[v] = NoTag => backlog'[v] = backlog[v]
    BY <1>2, <1>8, <1>9, Zenon
  <2> QED  BY <1>2, <2>1, OthersOK
<1>11. WkrOK(w)'
  <2>1. doing'[w] = "polling" /\ has'[w] = NoPkt /\ backlog'[w] = <<>>
    BY <1>2, <1>7, Zenon
  <2>2. Works(w)' = NoPkt /\ ~ Left(w)'
    BY <1>9, <2>1, Zenon DEF Works, Left
  <2> QED  BY <1>9, <2>1, <2>2, Zenon DEF WkrOK
<1>12. \A v \in Wkr : WkrOK(v)' /\ (Left(v) => Left(v)')
  BY <1>7, <1>10, <1>11, Zenon
<1>13. PICK nf : nf = inFlight'
  BY Zenon
<1>14. nf[w] = NoTag /\ \A v \in Wkr : v # w => nf[v] = inFlight[v]
  BY <1>8, <1>13, Zenon
<1> DEFINE fs == <<f>> \o Tail(frames)
<1>15. fs \in Seq(FrameType)
  BY <1>2, <1>3, <1>6, TopFacts, Zenon
<1>16. QTypes(backlog, fs, inFlight, given, fresh) /\ Queues(backlog, fs, inFlight, given, fresh)
  BY <1>3, <1>6, <1>15, Zenon DEF QTypes
<1> HIDE DEF fs
<1>17. Queues(backlog, fs, nf, given, fresh)
  BY <1>2, <1>14, <1>16, QFree, Zenon
<1>18. /\ frames' \in Seq(FrameType) /\ \A k \in DOMAIN frames' : FrameOK(k)'
       /\ returns' \in RetType /\ handed' \in SUBSET Pkts
       /\ Queues(backlog, frames', nf, given, fresh)
  BY <1>2, <1>5, <1>6, <1>9, <1>12, <1>17, EndTurnOK, Zenon DEF fs
<1>19. FlowInv'
  BY <1>2, <1>3, <1>8, <1>9, <1>12, <1>13, <1>18, FlowNext, Zenon
<1>20. GivesInOrder
  BY <1>9, Zenon DEF GivesInOrder
<1> QED  BY <1>19, <1>20, Zenon

\* A call returns: to the call that a worker's leaving interrupted, whose turn
\* ends, or to the distributor core, which may go on flushing.
LEMMA EndCallOK ==
  ASSUME FlowInv, EndCall
  PROVE  FlowInv' /\ GivesInOrder
<1>1. /\ bufs \in [Wkr -> [flag : {"none", "get", "ret"}, pkt : MaybePkt]]
      /\ inFlight \in [Wkr -> MaybeTag] /\ fresh \in 1 .. MaxPkts + 1
      /\ given \in SUBSET Pkts /\ flushing \in BOOLEAN /\ frames \in Seq(FrameType)
      /\ given \subseteq 1 .. fresh - 1 /\ backlog \in [Wkr -> Seq(Pkts)]
      /\ tag \in [Pkts -> Tags] /\ returns \in RetType /\ handed \in SUBSET Pkts
      /\ \A k \in DOMAIN frames : FrameOK(k)
      /\ QTypes(backlog, frames, inFlight, given, fresh)
      /\ Queues(backlog, frames, inFlight, given, fresh)
  BY FlowTypes, Zenon DEF FlowInv, DistTypeOK
<1>2. /\ frames # <<>> /\ Top.at # "deal"
      /\ tag' = tag /\ leavers' = leavers /\ fresh' = fresh /\ given' = given
      /\ doing' = doing /\ has' = has /\ bufs' = bufs /\ inFlight' = inFlight
  BY Zenon DEF EndCall, inputvars, workervars
<1>3. /\ Len(frames) \in Nat /\ Len(frames) >= 1 /\ DOMAIN frames = 1 .. Len(frames)
      /\ Tail(frames) \in Seq(FrameType) /\ Len(Tail(frames)) = Len(frames) - 1
      /\ DOMAIN Tail(frames) = 1 .. Len(frames) - 1
      /\ Top = frames[1] /\ Top \in FrameType
      /\ \A k \in 1 .. Len(frames) - 1 : Tail(frames)[k] = frames[k + 1]
  BY <1>1, <1>2, TailFacts, Zenon DEF Top
<1>4. Top.in = <<>> /\ Top.mb = NoPkt
  BY <1>1, <1>2, <1>3 DEF FrameOK
<1>5. Held(frames[1]) = {}
  BY <1>3, <1>4 DEF Held, Elems
<1>6. Queues(backlog, Tail(frames), inFlight, given, fresh)
  BY <1>1, <1>2, <1>5, QReturn, Zenon
<1>7. PICK done : done = [returns EXCEPT !.start = Top.start, !.count = Top.count]
  BY Zenon
<1>8. done \in RetType
  BY <1>1, <1>3, <1>7, Zenon DEF RetType, FrameType
<1>9. /\ bufs' \in [Wkr -> [flag : {"none", "get", "ret"}, pkt : MaybePkt]]
      /\ inFlight' \in [Wkr -> MaybeTag] /\ fresh' \in 1 .. MaxPkts + 1
      /\ given' \in SUBSET Pkts /\ given' \subseteq 1 .. fresh' - 1
  BY <1>1, <1>2, Zenon
<1>10. \A v \in Wkr : Left(v) <=> Left(v)'
  BY <1>2, Zenon DEF Left
<1>11. ASSUME Len(frames) > 1 PROVE FlowInv'
  <2>1. PICK f : f = frames[2]
    BY Zenon
  <2>2. f \in FrameType /\ FrameOK(2) /\ f.wkr \in Wkr /\ Left(f.wkr) /\ f.old \in MaybePkt
    <3>1. 2 \in DOMAIN frames /\ f \in FrameType
      BY <1>1, <1>3, <1>11, <2>1
    <3>2. FrameOK(2)
      BY <1>1, <3>1, Zenon
    <3> QED  BY <2>1, <3>1, <3>2 DEF FrameOK, FrameType
  <2>3. PICK w \in Wkr : w = f.wkr
    BY <2>2, Zenon
  <2>4. inFlight[w] = NoTag
    BY <2>2, <2>3, Zenon DEF FlowInv, WkrOK
  <2>5. PICK g : g = NextWkr([AfterStore(f, f.old) EXCEPT !.old = NoPkt])
    BY Zenon
  <2>6. /\ g \in FrameType /\ g.in = f.in /\ g.mb = f.mb /\ g.at = f.at
        /\ g.at = "deal" => g.wkr \in Wkr
    <3>1. PICK h : h = NextWkr(AfterStore(f, f.old))
      BY Zenon
    <3>2. /\ h \in FrameType /\ h.at = f.at /\ h.in = f.in /\ h.mb = f.mb
          /\ h.at = "deal" => h.wkr \in Wkr
      BY <2>2, <3>1, TurnFrame, Zenon
    <3>3. g = [h EXCEPT !.old = NoPkt]
      BY <2>2, <2>5, <3>1, Zenon DEF NextWkr, AfterStore, FrameType
    <3> QED  BY <3>2, <3>3, Zenon DEF FrameType, MaybePkt
  <2>7. /\ backlog' = [backlog EXCEPT ![w] = <<>>]
        /\ frames' = <<g>> \o Tail(Tail(frames))
        /\ Store(f, f.old, done) /\ flushing' = flushing
    BY <1>7, <1>11, <2>1, <2>3, <2>5, Zenon DEF EndCall
  <2>8. /\ backlog'[w] = <<>> /\ \A v \in Wkr : v # w => backlog'[v] = backlog[v]
        /\ backlog' \in [Wkr -> Seq(Pkts)]
    BY <1>1, <2>7
  <2>9. returns' \in RetType /\ handed' \in SUBSET Pkts
    BY <1>8, <2>2, <2>7, StoreOK, Zenon
  <2> DEFINE t == Tail(frames)
  <2>10. t \in Seq(FrameType) /\ t # <<>> /\ t[1] = f
    <3>1. 1 \in 1 .. Len(frames) - 1 /\ 1 + 1 = 2
      BY <1>3, <1>11
    <3>2. Tail(frames)[1] = frames[2]
      BY <1>3, <3>1, Zenon
    <3>3. Len(Tail(frames)) # 0
      BY <1>3, <1>11
    <3>4. Tail(frames) # <<>>
      <4>1. Len(<<>>) = 0
        BY Zenon
      <4> QED  BY <3>3, <4>1, Zenon
    <3> QED  BY <1>3, <2>1, <3>2, <3>4, Zenon
  <2>11. /\ frames' \in Seq(FrameType) /\ DOMAIN frames' = DOMAIN t /\ frames'[1] = g
         /\ \A k \in DOMAIN t : k # 1 => frames'[k] = t[k]
    <3> HIDE DEF t
    <3> QED  BY <2>6, <2>7, <2>10, TopFacts, Zenon DEF t
  <2>12. \A k \in DOMAIN t : k # 1 => k + 1 \in DOMAIN frames /\ t[k] = frames[k + 1] /\ k > 1 /\ k + 1 > 1
    BY <1>3
  <2>13. QTypes(backlog, t, inFlight, given, fresh) /\ Queues(backlog, t, inFlight, given, fresh)
    BY <1>1, <1>6, <2>10, Zenon DEF QTypes
  <2> HIDE DEF t
  <2>14. PICK nb : nb = backlog'
    BY Zenon
  <2>15. nb[w] = <<>> /\ \A v \in Wkr : v # w => nb[v] = backlog[v]
    BY <2>8, <2>14, Zenon
  <2>16. Queues(nb, t, inFlight, given, fresh)
    BY <2>4, <2>13, <2>15, QDrop, Zenon
  <2>17. Queues(nb, frames', inFlight, given, fresh)
    <3>1. \A k \in DOMAIN t : frames'[k].in = t[k].in /\ frames'[k].mb = t[k].mb
      BY <2>6, <2>10, <2>11, Zenon
    <3> QED  BY <2>11, <2>16, <3>1, QSame, Zenon
  <2>18. ASSUME NEW k \in DOMAIN frames' PROVE FrameOK(k)'
    <3>1. CASE k = 1
      <4>1. IF f.at = "deal" THEN f.wkr \in Wkr ELSE f.in = <<>> /\ f.mb = NoPkt
        BY <2>1, <2>2, Zenon DEF FrameOK
      <4>2. ~ (k > 1)
        BY <3>1
      <4> QED  BY <2>6, <2>11, <3>1, <4>1, <4>2, Zenon DEF FrameOK
    <3>2. CASE k # 1
      <4>1. /\ frames'[k] = frames[k + 1] /\ k + 1 \in DOMAIN frames /\ k > 1 /\ k + 1 > 1
        BY <2>11, <2>12, <2>18, <3>2, Zenon
      <4>2. FrameOK(k + 1)
        BY <1>1, <4>1, Zenon
      <4> QED  BY <1>10, <4>1, <4>2, Zenon DEF FrameOK
    <3> QED  BY <3>1, <3>2, Zenon
  <2>19. \A v \in Wkr : WkrOK(v)'
    <3> TAKE v \in Wkr
    <3>1. WkrOK(v) /\ (Left(v) <=> Left(v)') /\ Works(v)' = Works(v)
      BY <1>2, <1>10, Zenon DEF FlowInv, Works
    <3>2. backlog[v] = <<>> => backlog'[v] = <<>>
      BY <2>8, Zenon
    <3> QED  BY <1>2, <3>1, <3>2, Zenon DEF WkrOK
  <2>20. flushing' \in BOOLEAN /\ Queues(backlog', frames', inFlight', given', fresh')
    BY <1>1, <1>2, <2>7, <2>14, <2>17, Zenon
  <2> QED  BY <1>2, <1>9, <2>8, <2>9, <2>11, <2>18, <2>19, <2>20, FlowNext, Zenon
<1>12. ASSUME ~ (Len(frames) > 1) PROVE FlowInv'
  <2>1. /\ returns' = done /\ backlog' = backlog /\ handed' = handed
        /\ flushing' = (flushing /\ Outstanding > 0)
        /\ frames' = IF flushing' THEN <<[Frame(<<>>) EXCEPT !.start = Top.start, !.count = Top.count]>>
                     ELSE <<>>
    BY <1>7, <1>12, Zenon DEF EndCall
  <2>2. flushing' \in BOOLEAN
    BY <2>1, Zenon
  <2>3. PICK g : g = [Frame(<<>>) EXCEPT !.start = Top.start, !.count = Top.count]
    BY Zenon
  <2>4. g \in FrameType /\ g.in = <<>> /\ g.mb = NoPkt /\ g.at = "returns"
    <3>1. PICK h : h = Frame(<<>>)
      BY Zenon
    <3>2. h \in FrameType /\ h.in = <<>> /\ h.mb = NoPkt /\ h.at = "returns"
      <4>1. <<>> \in Seq(Pkts)
        OBVIOUS
      <4> QED  BY <3>1, <4>1, NewFrame, Zenon
    <3> QED  BY <1>3, <2>3, <3>1, <3>2, Zenon DEF FrameType
  <2>5. \A v \in Wkr : WkrOK(v)'
    <3> TAKE v \in Wkr
    <3>1. WkrOK(v) /\ (Left(v) <=> Left(v)') /\ Works(v)' = Works(v)
      BY <1>2, <1>10, Zenon DEF FlowInv, Works
    <3> QED  BY <1>2, <2>1, <3>1, Zenon DEF WkrOK
  <2>6. /\ frames' \in Seq(FrameType) /\ \A k \in DOMAIN frames' : FrameOK(k)'
        /\ Queues(backlog, frames', inFlight, given, fresh)
    <3>1. CASE flushing'
      <4>1. frames' = <<g>>
        BY <2>1, <2>3, <3>1, Zenon
      <4>2. frames' \in Seq(FrameType) /\ DOMAIN frames' = {1} /\ frames'[1] = g
        BY <2>4, <4>1
      <4>3. FrameOK(1)'
        BY <2>4, <4>2 DEF FrameOK
      <4>4. DOMAIN frames = {1}
        BY <1>3, <1>12
      <4>5. \A k \in DOMAIN frames : frames'[k].in = frames[k].in /\ frames'[k].mb = frames[k].mb
        BY <1>3, <1>4, <2>4, <4>2, <4>4, Zenon
      <4>6. Queues(backlog, frames', inFlight, given, fresh)
        BY <1>1, <4>2, <4>4, <4>5, QSame, Zenon
      <4> QED  BY <4>2, <4>3, <4>6, Zenon
    <3>2. CASE ~ flushing'
      <4>1. frames' = <<>>
        BY <2>1, <3>2, Zenon
      <4>2. Tail(frames) = <<>>
        BY <1>3, <1>12
      <4>3. <<>> \in Seq(FrameType) /\ DOMAIN <<>> = {}
        OBVIOUS
      <4> QED  BY <1>6, <4>1, <4>2, <4>3, Zenon
    <3> QED  BY <3>1, <3>2, Zenon
  <2>7. returns' \in RetType /\ backlog' \in [Wkr -> Seq(Pkts)] /\ handed' \in SUBSET Pkts
    BY <1>1, <1>8, <2>1, Zenon
  <2>8. Queues(backlog', frames', inFlight', given', fresh')
    BY <1>2, <2>1, <2>6, Zenon
  <2> QED  BY <1>2, <1>9, <2>2, <2>5, <2>6, <2>7, <2>8, FlowNext, Zenon
<1>13. GivesInOrder
  BY <1>2, Zenon DEF GivesInOrder
<1> QED  BY <1>11, <1>12, <1>13, Zenon

\* The remaining steps of a call.
LEMMA DealtOK ==
  ASSUME FlowInv, frames # <<>>, NEW g \in FrameType, g.in = Top.in, g.mb = Top.mb,
         IF g.at = "deal" THEN g.wkr \in Wkr ELSE g.in = <<>> /\ g.mb = NoPkt,
         frames' = <<g>> \o Tail(frames),
         UNCHANGED <<inputvars, bufs, inFlight, backlog, returns, flushing, workervars, given, handed>>
  PROVE  FlowInv' /\ GivesInOrder
<1>1. /\ tag' = tag /\ leavers' = leavers /\ fresh' = fresh /\ inFlight' = inFlight /\ bufs' = bufs
      /\ flushing' = flushing /\ doing' = doing /\ has' = has /\ given' = given
      /\ backlog' = backlog /\ returns' = returns /\ handed' = handed
  BY Zenon DEF inputvars, workervars
<1>2. frames \in Seq(FrameType) /\ \A k \in DOMAIN frames : FrameOK(k)
  BY Zenon DEF FlowInv, DistTypeOK
<1>3. /\ frames' \in Seq(FrameType) /\ DOMAIN frames' = DOMAIN frames /\ frames'[1] = g
      /\ \A k \in DOMAIN frames : k # 1 => frames'[k] = frames[k]
      /\ Top = frames[1]
  BY <1>2, TopFacts, Zenon DEF Top
<1>4. \A v \in Wkr : WkrOK(v)' /\ (Left(v)' <=> Left(v))
  <2> TAKE v \in Wkr
  <2>1. WkrOK(v) /\ (Left(v)' <=> Left(v)) /\ Works(v)' = Works(v)
    BY <1>1, Zenon DEF FlowInv, Left, Works
  <2> QED  BY <1>1, <2>1, Zenon DEF WkrOK
<1>5. ASSUME NEW k \in DOMAIN frames' PROVE FrameOK(k)'
  <2>1. CASE k = 1
    <3>1. ~ (k > 1)
      BY <2>1
    <3> QED  BY <1>3, <2>1, <3>1, Zenon DEF FrameOK
  <2>2. CASE k # 1
    <3>1. frames'[k] = frames[k] /\ FrameOK(k)
      BY <1>2, <1>3, <1>5, <2>2, Zenon
    <3> QED  BY <1>4, <3>1, Zenon DEF FrameOK
  <2> QED  BY <2>1, <2>2, Zenon
<1>6. Queues(backlog, frames', inFlight, given, fresh)
  <2>1. \A k \in DOMAIN frames : frames'[k].in = frames[k].in /\ frames'[k].mb = frames[k].mb
    BY <1>3, Zenon
  <2>2. Queues(backlog, frames, inFlight, given, fresh)
    BY Zenon DEF FlowInv
  <2>3. PICK fs : fs = frames'
    BY Zenon
  <2>4. DOMAIN fs = DOMAIN frames /\ \A k \in DOMAIN frames : fs[k].in = frames[k].in /\ fs[k].mb = frames[k].mb
    BY <1>3, <2>1, <2>3, Zenon
  <2>5. Queues(backlog, fs, inFlight, given, fresh)
    BY <2>2, <2>4, QSame, Zenon
  <2> QED  BY <2>3, <2>5, Zenon
<1>7. /\ inFlight' \in [Wkr -> MaybeTag] /\ fresh' \in 1 .. MaxPkts + 1 /\ flushing' \in BOOLEAN
      /\ bufs' \in [Wkr -> [flag : {"none", "get", "ret"}, pkt : MaybePkt]]
      /\ given' \in SUBSET Pkts /\ given' \subseteq 1 .. fresh' - 1
      /\ backlog' \in [Wkr -> Seq(Pkts)] /\ returns' \in RetType /\ handed' \in SUBSET Pkts
  BY <1>1, Zenon DEF FlowInv, DistTypeOK
<1>8. FlowInv'
  BY <1>1, <1>3, <1>4, <1>5, <1>6, <1>7, FlowNext, Zenon
<1> QED  BY <1>1, <1>8, Zenon DEF GivesInOrder

\* A call of the distributor core: the packets it passes in are new.
LEMMA CallOK ==
  ASSUME FlowInv, frames = <<>>, NEW m \in Nat, fresh + m <= MaxPkts + 1,
         frames' = <<Frame([i \in 1 .. m |-> fresh + i - 1])>>, fresh' = fresh + m,
         flushing' \in BOOLEAN,
         UNCHANGED <<tag, leavers, bufs, inFlight, backlog, returns, workervars, given, handed>>
  PROVE  FlowInv' /\ GivesInOrder
<1>1. /\ tag' = tag /\ leavers' = leavers /\ inFlight' = inFlight /\ bufs' = bufs
      /\ doing' = doing /\ has' = has /\ given' = given
      /\ backlog' = backlog /\ returns' = returns /\ handed' = handed
  BY Zenon DEF workervars
<1>2. PICK in : in = [i \in 1 .. m |-> fresh + i - 1]
  BY Zenon
<1>3. fresh \in 1 .. MaxPkts + 1 /\ MaxPkts \in Nat /\ given \subseteq 1 .. fresh - 1
  BY DistParameters, Zenon DEF FlowInv, DistTypeOK
<1>4. in \in Seq(Pkts)
  BY <1>2, <1>3 DEF Pkts
<1>5. PICK g : g = Frame(in)
  BY Zenon
<1>6. /\ g \in FrameType /\ g.in = in /\ g.mb = NoPkt /\ g.wkr \in Wkr
      /\ g.at # "deal" => g.in = <<>>
  BY <1>4, <1>5, NewFrame, Zenon
<1>7. frames' = <<g>> /\ frames' \in Seq(FrameType) /\ DOMAIN frames' = {1} /\ frames'[1] = g
  BY <1>2, <1>5, <1>6
<1>8. \A v \in Wkr : WkrOK(v)'
  <2> TAKE v \in Wkr
  <2>1. WkrOK(v) /\ (Left(v)' <=> Left(v)) /\ Works(v)' = Works(v)
    BY <1>1, Zenon DEF FlowInv, Left, Works
  <2> QED  BY <1>1, <2>1, Zenon DEF WkrOK
<1>9. FrameOK(1)'
  BY <1>6, <1>7 DEF FrameOK
<1>10. Queues(backlog, frames', inFlight, given, fresh')
  <2>1. QTypes(backlog, <<>>, inFlight, given, fresh) /\ Queues(backlog, <<>>, inFlight, given, fresh)
    BY FlowTypes, Zenon DEF FlowInv
  <2>2. Queues(backlog, <<g>>, inFlight, given, fresh + m)
    BY <1>2, <1>3, <1>6, <2>1, QNew, Zenon
  <2> QED  BY <1>7, <2>2, Zenon
<1>11. /\ inFlight' \in [Wkr -> MaybeTag] /\ fresh' \in 1 .. MaxPkts + 1
       /\ bufs' \in [Wkr -> [flag : {"none", "get", "ret"}, pkt : MaybePkt]]
       /\ given' \in SUBSET Pkts /\ given' \subseteq 1 .. fresh' - 1
       /\ backlog' \in [Wkr -> Seq(Pkts)] /\ returns' \in RetType /\ handed' \in SUBSET Pkts
  <2>1. given' \subseteq 1 .. fresh' - 1 /\ fresh' \in 1 .. MaxPkts + 1
    BY <1>1, <1>3
  <2> QED  BY <1>1, <2>1, Zenon DEF FlowInv, DistTypeOK
<1>12. FlowInv'
  BY <1>1, <1>7, <1>8, <1>9, <1>10, <1>11, FlowNext, Zenon
<1> QED  BY <1>1, <1>12, Zenon DEF GivesInOrder

\* The distributor core fetches or clears the returned packets.
LEMMA FetchOK ==
  ASSUME FlowInv, returns' \in RetType, handed' \in SUBSET Pkts,
         UNCHANGED <<inputvars, bufs, inFlight, backlog, frames, flushing, workervars, given>>
  PROVE  FlowInv' /\ GivesInOrder
<1>1. /\ tag' = tag /\ leavers' = leavers /\ inFlight' = inFlight /\ bufs' = bufs /\ fresh' = fresh
      /\ doing' = doing /\ has' = has /\ given' = given
      /\ backlog' = backlog /\ frames' = frames /\ flushing' = flushing
  BY Zenon DEF workervars, inputvars
<1>2. \A v \in Wkr : WkrOK(v)' /\ (Left(v)' <=> Left(v))
  <2> TAKE v \in Wkr
  <2>1. WkrOK(v) /\ (Left(v)' <=> Left(v)) /\ Works(v)' = Works(v)
    BY <1>1, Zenon DEF FlowInv, Left, Works
  <2> QED  BY <1>1, <2>1, Zenon DEF WkrOK
<1>3. \A k \in DOMAIN frames' : FrameOK(k)'
  BY <1>1, <1>2, Zenon DEF FlowInv, FrameOK
<1>4. /\ inFlight' \in [Wkr -> MaybeTag] /\ fresh' \in 1 .. MaxPkts + 1 /\ flushing' \in BOOLEAN
      /\ bufs' \in [Wkr -> [flag : {"none", "get", "ret"}, pkt : MaybePkt]]
      /\ given' \in SUBSET Pkts /\ given' \subseteq 1 .. fresh' - 1
      /\ backlog' \in [Wkr -> Seq(Pkts)] /\ frames' \in Seq(FrameType)
      /\ Queues(backlog', frames', inFlight', given', fresh')
  BY <1>1, Zenon DEF FlowInv, DistTypeOK
<1>5. FlowInv'
  BY <1>1, <1>2, <1>3, <1>4, FlowNext, Zenon
<1> QED  BY <1>1, <1>5, Zenon DEF GivesInOrder

\* The steps of a worker leave the distributor's state alone.
LEMMA WorkerOK ==
  ASSUME FlowInv, NEW w \in Wkr, WorkerCall(w)
  PROVE  FlowInv' /\ GivesInOrder
<1>1. /\ tag' = tag /\ leavers' = leavers /\ inFlight' = inFlight /\ fresh' = fresh /\ given' = given
      /\ backlog' = backlog /\ frames' = frames /\ flushing' = flushing
      /\ returns' = returns /\ handed' = handed
  BY Zenon DEF WorkerCall, RequestPkt, PollPkt, ReturnPkt, inputvars
<1>2. /\ bufs \in [Wkr -> [flag : {"none", "get", "ret"}, pkt : MaybePkt]] /\ WkrOK(w)
      /\ doing \in [Wkr -> {"working", "polling", "gone"}] /\ has \in [Wkr -> MaybePkt]
  BY Zenon DEF FlowInv, DistTypeOK
<1>3. /\ bufs' \in [Wkr -> [flag : {"none", "get", "ret"}, pkt : MaybePkt]]
      /\ doing' \in [Wkr -> {"working", "polling", "gone"}] /\ has' \in [Wkr -> MaybePkt]
      /\ \A v \in Wkr : v # w => bufs'[v] = bufs[v] /\ doing'[v] = doing[v] /\ has'[v] = has[v]
      /\ ~ Left(w) /\ ~ Left(w)' /\ WkrOK(w)'
      /\ bufs'[w] = bufs[w] \/ bufs'[w].flag # "none"
  <2>1. CASE RequestPkt(w)
    <3>1. /\ doing[w] = "working" /\ bufs[w].flag = "none"
          /\ bufs' = [bufs EXCEPT ![w] = Buf("get", has[w])]
          /\ doing' = [doing EXCEPT ![w] = "polling"] /\ has' = [has EXCEPT ![w] = NoPkt]
      BY <2>1, Zenon DEF RequestPkt
    <3>2. /\ bufs'[w].flag = "get" /\ doing'[w] = "polling" /\ has'[w] = NoPkt
          /\ bufs' \in [Wkr -> [flag : {"none", "get", "ret"}, pkt : MaybePkt]]
          /\ doing' \in [Wkr -> {"working", "polling", "gone"}] /\ has' \in [Wkr -> MaybePkt]
          /\ \A v \in Wkr : v # w => bufs'[v] = bufs[v] /\ doing'[v] = doing[v] /\ has'[v] = has[v]
      BY <1>2, <3>1, Zenon DEF Buf, MaybePkt
    <3>3. ~ Left(w) /\ ~ Left(w)' /\ Works(w)' = NoPkt
      BY <3>1, <3>2, Zenon DEF Left, Works
    <3>4. WkrOK(w)'
      BY <1>1, <1>2, <3>1, <3>2, <3>3, Zenon DEF WkrOK
    <3> QED  BY <3>2, <3>3, <3>4, Zenon
  <2>2. CASE PollPkt(w)
    <3>1. /\ doing[w] = "polling" /\ bufs[w].flag # "get" /\ bufs[w].pkt # NoPkt /\ bufs' = bufs
          /\ doing' = [doing EXCEPT ![w] = "working"] /\ has' = [has EXCEPT ![w] = bufs[w].pkt]
      BY <2>2, Zenon DEF PollPkt
    <3>2. bufs[w].flag = "none"
      BY <1>2, <3>1, Zenon DEF WkrOK
    <3>3. /\ bufs'[w].flag = "none" /\ doing'[w] = "working" /\ has'[w] = bufs[w].pkt
          /\ bufs' \in [Wkr -> [flag : {"none", "get", "ret"}, pkt : MaybePkt]]
          /\ doing' \in [Wkr -> {"working", "polling", "gone"}] /\ has' \in [Wkr -> MaybePkt]
          /\ \A v \in Wkr : v # w => bufs'[v] = bufs[v] /\ doing'[v] = doing[v] /\ has'[v] = has[v]
      BY <1>2, <3>1, <3>2, Zenon DEF MaybePkt
    <3>4. ~ Left(w) /\ ~ Left(w)' /\ Works(w)' = Works(w)
      BY <3>1, <3>2, <3>3, Zenon DEF Left, Works
    <3>5. WkrOK(w)'
      BY <1>1, <1>2, <3>1, <3>2, <3>3, <3>4, Zenon DEF WkrOK
    <3> QED  BY <3>1, <3>3, <3>4, <3>5, Zenon
  <2>3. CASE ReturnPkt(w)
    <3>1. /\ doing[w] = "working" /\ bufs[w].flag = "none"
          /\ bufs' = [bufs EXCEPT ![w] = Buf("ret", has[w])]
          /\ doing' = [doing EXCEPT ![w] = "gone"] /\ has' = [has EXCEPT ![w] = NoPkt]
      BY <2>3, Zenon DEF ReturnPkt
    <3>2. /\ bufs'[w].flag = "ret" /\ doing'[w] = "gone" /\ has'[w] = NoPkt
          /\ bufs' \in [Wkr -> [flag : {"none", "get", "ret"}, pkt : MaybePkt]]
          /\ doing' \in [Wkr -> {"working", "polling", "gone"}] /\ has' \in [Wkr -> MaybePkt]
          /\ \A v \in Wkr : v # w => bufs'[v] = bufs[v] /\ doing'[v] = doing[v] /\ has'[v] = has[v]
      BY <1>2, <3>1, Zenon DEF Buf, MaybePkt
    <3>3. ~ Left(w) /\ ~ Left(w)' /\ Works(w)' = NoPkt
      BY <3>1, <3>2, Zenon DEF Left, Works
    <3>4. WkrOK(w)'
      BY <1>1, <1>2, <3>1, <3>2, <3>3, Zenon DEF WkrOK
    <3> QED  BY <3>2, <3>3, <3>4, Zenon
  <2> QED  BY <2>1, <2>2, <2>3, Zenon DEF WorkerCall
<1>4. \A v \in Wkr : WkrOK(v)' /\ (Left(v)' <=> Left(v))
  <2> SUFFICES ASSUME NEW v \in Wkr, v # w PROVE WkrOK(v)' /\ (Left(v)' <=> Left(v))
    BY <1>3, Zenon
  <2>1. bufs'[v] = bufs[v] /\ doing'[v] = doing[v] /\ has'[v] = has[v]
    BY <1>3, Zenon
  <2>2. WkrOK(v) /\ (Left(v)' <=> Left(v)) /\ Works(v)' = Works(v)
    BY <2>1, Zenon DEF FlowInv, Left, Works
  <2> QED  BY <1>1, <2>1, <2>2, Zenon DEF WkrOK
<1>5. \A k \in DOMAIN frames' : FrameOK(k)'
  BY <1>1, <1>4, Zenon DEF FlowInv, FrameOK
<1>6. DistTypeOK'
  BY <1>1, <1>3, Zenon DEF FlowInv, DistTypeOK
<1>7. Queues(backlog, frames, inFlight, given, fresh)'
  BY <1>1, TagSame, Zenon DEF FlowInv
<1>8. FlowInv'
  BY <1>1, <1>4, <1>5, <1>6, <1>7, Zenon DEF FlowInv
<1> QED  BY <1>3, <1>8, Zenon DEF GivesInOrder

\* Every step keeps the invariant and gives packets in order.
LEMMA FlowStep ==
  ASSUME FlowInv, DistNext
  PROVE  FlowInv' /\ GivesInOrder
<1>1. frames \in Seq(FrameType) /\ backlog \in [Wkr -> Seq(Pkts)] /\ returns \in RetType
  BY Zenon DEF FlowInv, DistTypeOK
<1>2. CASE DealBacklog
  <2>1. PICK f : f = Pull(Top).f
    BY Zenon
  <2>2. PICK bl : bl = Pull(Top).backlog
    BY Zenon
  <2>3. Served(f, bl) /\ f.wkr = Top.wkr
    BY <1>2, <2>1, <2>2, PullServed, Zenon DEF DealBacklog
  <2>4. PICK w \in Wkr : w = f.wkr
    BY <2>3, Zenon DEF Served
  <2>5. /\ bufs[w].flag = "get" /\ bl[w] # <<>> /\ PopBacklog(f, w, bl)
        /\ UNCHANGED <<inputvars, inFlight, flushing, workervars>>
    BY <1>2, <2>1, <2>2, <2>3, <2>4, Zenon DEF DealBacklog
  <2> QED  BY <2>3, <2>4, <2>5, PopOK, Zenon
<1>3. CASE DealNext
  BY <1>3, PullServed, NextOK, Zenon DEF DealNext, Served
<1>4. CASE DealNothing
  BY <1>4, PullServed, NothingOK, Zenon DEF DealNothing, Served
<1>5. CASE DealShutdown
  BY <1>5, PullServed, ShutdownOK, Zenon DEF DealShutdown, Served
<1>6. CASE Dealt
  <2>1. PICK g : g = [Top EXCEPT !.at = "last", !.wkr = 0]
    BY Zenon
  <2>2. /\ frames # <<>> /\ Top.in = <<>> /\ Top.mb = NoPkt /\ frames' = <<g>> \o Tail(frames)
    BY <1>6, <2>1, Zenon DEF Dealt
  <2>3. g \in FrameType /\ g.in = Top.in /\ g.mb = Top.mb /\ g.at = "last"
    <3>1. Top \in FrameType
      BY <1>1, <2>2 DEF Top
    <3>2. PICK h : h = [Top EXCEPT !.at = "last"]
      BY Zenon
    <3>3. h \in FrameType /\ h.in = Top.in /\ h.mb = Top.mb /\ h.at = "last"
      BY <3>1, <3>2, Zenon DEF FrameType
    <3>4. g = [h EXCEPT !.wkr = 0]
      BY <2>1, <3>2, Zenon
    <3> QED  BY <3>3, <3>4, DistParameters DEF FrameType
  <2>4. g.at # "deal"
    BY <2>3, Zenon
  <2> QED  BY <1>6, <2>2, <2>3, <2>4, DealtOK, Zenon DEF Dealt
<1>7. CASE DealLast
  <2>1. frames # <<>> /\ Top.at = "last" /\ Top.wkr \in Wkr /\ Top.at # "deal"
    BY <1>7, Zenon DEF DealLast
  <2>2. Served(Top, backlog) /\ Top \in FrameType
    BY <2>1, TopServed, Zenon DEF Served
  <2>3. CASE backlog[Top.wkr] # <<>> /\ bufs[Top.wkr].flag = "get"
    BY <1>7, <2>1, <2>2, <2>3, PopOK, Zenon DEF DealLast
  <2>4. CASE ~ (backlog[Top.wkr] # <<>> /\ bufs[Top.wkr].flag = "get")
    <3>1. PICK g : g = NextWkr(Top)
      BY Zenon
    <3>2. g \in FrameType /\ g.in = Top.in /\ g.mb = Top.mb /\ g.at = Top.at
      BY <2>1, <2>2, <3>1, DistParameters DEF NextWkr, FrameType, Wkr
    <3>3. g.in = <<>> /\ g.mb = NoPkt /\ g.at # "deal"
      BY <2>1, <2>2, <3>2, Zenon DEF Served
    <3>4. /\ frames' = <<g>> \o Tail(frames)
          /\ UNCHANGED <<inputvars, bufs, inFlight, backlog, returns, flushing, workervars, given, handed>>
      BY <1>7, <2>4, <3>1, Zenon DEF DealLast
    <3> QED  BY <2>1, <3>2, <3>3, <3>4, DealtOK, Zenon
  <2> QED  BY <2>3, <2>4, Zenon
<1>8. CASE ReturnsBacklog
  <2>1. frames # <<>> /\ Top.at # "deal" /\ Top.wkr \in Wkr
    BY <1>8, Zenon DEF ReturnsBacklog
  <2> QED  BY <1>8, <2>1, TopServed, PopOK, Zenon DEF ReturnsBacklog
<1>9. CASE ReturnsIdle
  BY <1>9, IdleOK, Zenon
<1>10. CASE ReturnsNothing
  <2>1. frames # <<>> /\ Top.at # "deal" /\ Top.wkr \in Wkr
    BY <1>10, Zenon DEF ReturnsNothing
  <2> QED  BY <1>10, <2>1, TopServed, NothingOK, Zenon DEF ReturnsNothing
<1>11. CASE ReturnsShutdown
  <2>1. frames # <<>> /\ Top.at # "deal" /\ Top.wkr \in Wkr
    BY <1>11, Zenon DEF ReturnsShutdown
  <2> QED  BY <1>11, <2>1, TopServed, ShutdownOK, Zenon DEF ReturnsShutdown
<1>12. CASE EndCall
  BY <1>12, EndCallOK, Zenon
<1>13. ASSUME NEW n \in Bursts, Process(n) PROVE FlowInv' /\ GivesInOrder
  <2>1. n \in Nat /\ flushing' \in BOOLEAN
    BY <1>13, DistParameters, Zenon DEF Process, FlowInv, DistTypeOK
  <2> QED  BY <1>13, <2>1, CallOK, Zenon DEF Process
<1>14. CASE Flush
  <2>1. fresh \in 1 .. MaxPkts + 1 /\ MaxPkts \in Nat
    BY DistParameters, Zenon DEF FlowInv, DistTypeOK
  <2>2. /\ frames = <<>> /\ frames' = <<Frame(<<>>)>> /\ flushing' \in BOOLEAN
        /\ UNCHANGED <<tag, leavers, bufs, inFlight, backlog, returns, workervars, given, handed>>
        /\ fresh' = fresh
    BY <1>14, Zenon DEF Flush, inputvars
  <2>3. <<>> = [i \in 1 .. 0 |-> fresh + i - 1] /\ fresh + 0 = fresh /\ fresh + 0 <= MaxPkts + 1 /\ 0 \in Nat
    BY <2>1
  <2> QED  BY <2>2, <2>3, CallOK, Zenon
<1>15. ASSUME NEW n \in Bursts, ReturnedPkts(n) PROVE FlowInv' /\ GivesInOrder
  <2>1. PICK got : got = Min({n, returns.count})
    BY Zenon
  <2>2. /\ got > 0 /\ returns' = [returns EXCEPT !.start = (returns.start + got) % ReturnsSize,
                                                 !.count = returns.count - got]
        /\ handed' \subseteq handed
    BY <1>15, <2>1, Zenon DEF ReturnedPkts
  <2>3. n \in Nat /\ returns.count \in 0 .. ReturnsSize - 1 /\ returns.start \in 0 .. ReturnsSize - 1
        /\ ReturnsSize \in Nat \ {0}
    BY <1>1, DistParameters, Zenon DEF RetType
  <2>4. got \in Nat /\ got <= returns.count
    BY <2>1, <2>3 DEF Min
  <2>5. (returns.start + got) % ReturnsSize \in 0 .. ReturnsSize - 1
    BY <2>3, <2>4, DivMod
  <2>6. returns' \in RetType /\ handed' \in SUBSET Pkts
    <3>1. PICK r : r = [returns EXCEPT !.start = (returns.start + got) % ReturnsSize]
      BY Zenon
    <3>2. r \in RetType /\ r.count = returns.count
      BY <1>1, <2>5, <3>1, Zenon DEF RetType
    <3>3. returns' = [r EXCEPT !.count = returns.count - got] /\ returns.count - got \in 0 .. ReturnsSize - 1
      <4>1. returns.count - got \in 0 .. ReturnsSize - 1
        BY <2>3, <2>4
      <4> QED  BY <2>2, <3>1, <4>1, Zenon
    <3>4. returns' \in RetType
      BY <3>2, <3>3, Zenon DEF RetType
    <3> QED  BY <2>2, <3>4, Zenon DEF FlowInv, DistTypeOK
  <2> QED  BY <1>15, <2>6, FetchOK, Zenon DEF ReturnedPkts
<1>16. CASE ClearReturns
  <2>1. returns' \in RetType /\ handed' \in SUBSET Pkts
    <3>1. PICK r : r = [returns EXCEPT !.start = 0]
      BY Zenon
    <3>2. r \in RetType
      <4>1. 0 \in 0 .. ReturnsSize - 1
        BY DistParameters
      <4> QED  BY <1>1, <3>1, <4>1, Zenon DEF RetType
    <3>3. returns' = [r EXCEPT !.count = 0] /\ handed' = {}
      BY <1>16, <3>1, Zenon DEF ClearReturns
    <3>4. returns' \in RetType
      <4>1. 0 \in 0 .. ReturnsSize - 1
        BY DistParameters
      <4> QED  BY <3>2, <3>3, <4>1, Zenon DEF RetType
    <3> QED  BY <3>3, <3>4, Zenon
  <2> QED  BY <1>16, <2>1, FetchOK, Zenon DEF ClearReturns
<1>17. ASSUME NEW w \in Wkr, WorkerCall(w) PROVE FlowInv' /\ GivesInOrder
  BY <1>17, WorkerOK, Zenon
<1> QED  BY <1>2, <1>3, <1>4, <1>5, <1>6, <1>7, <1>8, <1>9, <1>10, <1>11, <1>12, <1>13, <1>14,
            <1>15, <1>16, <1>17, Zenon DEF DistNext, DistStep, DistCall

LEMMA FlowStart ==
  ASSUME DistInit
  PROVE  FlowInv
<1>1. /\ NumWorkers \in Nat \ {0} /\ ReturnsSize \in Nat \ {0, 1} /\ MaxPkts \in Nat
  BY DistParameters, Zenon
<1>2. DistTypeOK
  <2>1. /\ bufs \in [Wkr -> [flag : {"none", "get", "ret"}, pkt : MaybePkt]]
        /\ inFlight \in [Wkr -> MaybeTag] /\ backlog \in [Wkr -> Seq(Pkts)]
        /\ doing \in [Wkr -> {"working", "polling", "gone"}] /\ has \in [Wkr -> MaybePkt]
    BY DEF DistInit, MaybePkt, MaybeTag, Buf
  <2>2. returns \in RetType
    <3>1. 0 \in 0 .. ReturnsSize - 1
      BY <1>1
    <3> QED  BY <3>1, Zenon DEF DistInit, MaybePkt, RetType
  <2>3. frames \in Seq(FrameType) /\ flushing \in BOOLEAN /\ fresh \in 1 .. MaxPkts + 1
    <3>1. <<>> \in Seq(FrameType)
      OBVIOUS
    <3>2. 1 \in 1 .. MaxPkts + 1
      BY <1>1
    <3> QED  BY <3>1, <3>2, Zenon DEF DistInit
  <2> QED  BY <2>1, <2>2, <2>3, Zenon DEF DistInit, DistTypeOK
<1>3. \A w \in Wkr : WkrOK(w)
  <2> TAKE w \in Wkr
  <2>1. /\ doing[w] = "working" /\ bufs[w].flag = "none" /\ has[w] = NoPkt
        /\ inFlight[w] = NoTag /\ backlog[w] = <<>>
    BY Zenon DEF DistInit, Buf
  <2>2. ~ Left(w) /\ Works(w) = NoPkt
    BY <2>1, Zenon DEF Left, Works
  <2> QED  BY <2>1, <2>2, Zenon DEF WkrOK
<1>4. frames = <<>> /\ given = {} /\ fresh = 1 /\ DOMAIN frames = {} /\ Waiting(given, fresh) = {}
  BY DEF DistInit, Waiting
<1>5. Queues(backlog, frames, inFlight, given, fresh)
  <2>1. \A w \in Wkr : inFlight[w] = NoTag /\ Increasing(backlog[w])
    BY DEF DistInit, Increasing
  <2> QED  BY <1>4, <2>1, Zenon DEF Queues, Flights, Backlogs, Calls, Nested, Before, Found
<1> QED  BY <1>2, <1>3, <1>4, <1>5, Zenon DEF FlowInv

\* A step that changes nothing keeps it too.
LEMMA FlowStutter ==
  ASSUME FlowInv, UNCHANGED distvars
  PROVE  FlowInv' /\ GivesInOrder
<1>1. /\ tag' = tag /\ leavers' = leavers /\ inFlight' = inFlight /\ fresh' = fresh /\ given' = given
      /\ backlog' = backlog /\ frames' = frames /\ flushing' = flushing /\ bufs' = bufs
      /\ returns' = returns /\ handed' = handed /\ doing' = doing /\ has' = has
  BY Zenon DEF distvars
<1>2. DistTypeOK'
  BY <1>1, Zenon DEF FlowInv, DistTypeOK
<1>3. \A v \in Wkr : WkrOK(v)' /\ (Left(v)' <=> Left(v))
  <2> TAKE v \in Wkr
  <2>1. WkrOK(v) /\ (Left(v)' <=> Left(v)) /\ Works(v)' = Works(v)
    BY <1>1, Zenon DEF FlowInv, Left, Works
  <2> QED  BY <1>1, <2>1, Zenon DEF WkrOK
<1>4. \A k \in DOMAIN frames' : FrameOK(k)'
  BY <1>1, <1>3, Zenon DEF FlowInv, FrameOK
<1>5. Queues(backlog, frames, inFlight, given, fresh)'
  BY <1>1, TagSame, Zenon DEF FlowInv
<1>6. FlowInv'
  BY <1>1, <1>2, <1>3, <1>4, <1>5, Zenon DEF FlowInv
<1> QED  BY <1>1, <1>6, Zenon DEF GivesInOrder

\* The invariant that says where the packets wait: every packet passed to
\* rte_distributor_process_single and not yet given to a worker is in the backlog
\* of the worker that has its flow or in a call under way, in input order.
THEOREM DistInvariant == DistSpec => []FlowInv
<1>1. DistInit => FlowInv
  BY FlowStart, Zenon
<1>2. FlowInv /\ [DistNext]_distvars => FlowInv'
  BY FlowStep, FlowStutter, Zenon
<1> QED  BY <1>1, <1>2, PTL DEF DistSpec

\* No two workers have packets of the same flow at the same time, whatever the
\* number of workers, the tags and the sizes of the queues, and although
\* handle_worker_shutdown passes the backlog of a worker that leaves to a
\* recursive call of rte_distributor_process_single.
THEOREM DistFlows == DistSpec => []FlowsApart
<1>1. ASSUME FlowInv PROVE FlowsApart
  <2> SUFFICES ASSUME NEW v \in Wkr, NEW w \in Wkr, v # w, Works(v) # NoPkt, Works(w) # NoPkt,
                      tag[Works(v)] = tag[Works(w)]
               PROVE  FALSE
    BY Zenon DEF FlowsApart
  <2>1. inFlight[v] = tag[Works(v)] /\ inFlight[w] = tag[Works(w)]
    BY <1>1, Zenon DEF FlowInv, WkrOK
  <2>2. inFlight[v] # NoTag
    <3>1. /\ bufs \in [Wkr -> [flag : {"none", "get", "ret"}, pkt : MaybePkt]]
          /\ has \in [Wkr -> MaybePkt] /\ tag \in [Pkts -> Tags]
      BY <1>1, Zenon DEF FlowInv, DistTypeOK
    <3>2. Works(v) \in Pkts
      BY <3>1, Zenon DEF Works, MaybePkt
    <3> QED  BY <2>1, <3>1, <3>2, DistParameters, Zenon
  <2>3. Flights(inFlight)
    BY <1>1, Zenon DEF FlowInv, Queues
  <2> QED  BY <2>1, <2>2, <2>3, Zenon DEF Flights
<1> QED  BY <1>1, DistInvariant, PTL

\* A worker is only given a packet that no worker was given before, and only
\* when all the packets of its flow that were passed in before it were given.
THEOREM DistOrder == DistSpec => InputOrder
<1>1. FlowInv /\ [DistNext]_distvars => [GivesInOrder]_distvars
  BY FlowStep, FlowStutter, Zenon
<1> QED  BY <1>1, DistInvariant, PTL DEF DistSpec, InputOrder

-----------------------------------------------------------------------------
(* The returns array                                                        *)

\* The places counted from one start, fewer than there are, are different.
LEMMA SlotFacts ==
  ASSUME NEW s \in 0 .. ReturnsSize - 1
  PROVE  /\ \A i \in Nat : Slot(s, i) \in 0 .. ReturnsSize - 1
         /\ \A i, j \in 0 .. ReturnsSize - 1 : Slot(s, i) = Slot(s, j) => i = j
         /\ Slot(s, 0) = s
         /\ \A k \in Nat, i \in Nat : Slot(Slot(s, k), i) = Slot(s, k + i)
<1>1. ReturnsSize \in Nat /\ ReturnsSize > 1
  BY DistParameters
<1>2. \A i \in Nat : Slot(s, i) \in 0 .. ReturnsSize - 1
  BY <1>1, DivMod DEF Slot
<1>3. ASSUME NEW i \in 0 .. ReturnsSize - 1, NEW j \in 0 .. ReturnsSize - 1, Slot(s, i) = Slot(s, j)
      PROVE  i = j
  <2>1. /\ s + i \in Int /\ s + j \in Int /\ (s + i) - (s + j) < ReturnsSize
        /\ (s + j) - (s + i) < ReturnsSize /\ ReturnsSize > 0
    BY <1>1
  <2>2. s + i = s + j
    BY <1>1, <1>3, <2>1, SameRemainder, Zenon DEF Slot
  <2> QED  BY <2>2
<1>4. Slot(s, 0) = s
  <2>1. s + 0 = s + ReturnsSize * 0 /\ 0 <= s /\ s < ReturnsSize /\ s + 0 \in Int /\ s \in Int /\ 0 \in Int /\ ReturnsSize > 0
    BY <1>1
  <2> QED  BY <1>1, <2>1, RemainderShift, Zenon DEF Slot
<1>5. ASSUME NEW k \in Nat, NEW i \in Nat PROVE Slot(Slot(s, k), i) = Slot(s, k + i)
  <2> DEFINE r == (s + k) % ReturnsSize
             d == (s + k) \div ReturnsSize
             t == (r + i) % ReturnsSize
             e == (r + i) \div ReturnsSize
  <2>1. s + k = ReturnsSize * d + r /\ d \in Int /\ r \in 0 .. ReturnsSize - 1
    BY <1>1, DivMod
  <2> HIDE DEF r, d
  <2>2. r + i = ReturnsSize * e + t /\ e \in Int /\ t \in 0 .. ReturnsSize - 1
    BY <1>1, <2>1, DivMod
  <2> HIDE DEF t, e
  <2>3. ReturnsSize * d + ReturnsSize * e = ReturnsSize * (d + e)
    BY <1>1, <2>1, <2>2
  <2>4. PICK q \in Int : q = d + e
    BY <2>1, <2>2
  <2>5. s + (k + i) = t + ReturnsSize * q
    <3>1. /\ ReturnsSize * d \in Int /\ ReturnsSize * e \in Int /\ ReturnsSize * q \in Int
      BY <1>1, <2>1, <2>2, <2>4
    <3>2. s + (k + i) = (ReturnsSize * d + r) + i
      BY <2>1, <3>1
    <3> QED  BY <2>1, <2>2, <2>3, <2>4, <3>1, <3>2
  <2>6. s + (k + i) \in Int /\ 0 <= t /\ t < ReturnsSize /\ t \in Int
    BY <1>1, <2>2
  <2>7. (s + (k + i)) % ReturnsSize = t
    BY <1>1, <2>4, <2>5, <2>6, RemainderShift
  <2> QED  BY <2>7, Zenon DEF Slot, r, t
<1> QED  BY <1>2, <1>3, <1>4, <1>5, Zenon

\* What store_return does to the array.
LEMMA StoreHolds ==
  ASSUME NEW m, NEW nm, NEW s \in 0 .. ReturnsSize - 1, NEW c \in 0 .. ReturnsSize - 1,
         NEW h, NEW nh, NEW ns, NEW nc, NEW old, Holds(m, s, c, h), old \notin h,
         nm[Slot(s, c)] = old,
         \A i \in 0 .. ReturnsSize - 1 : i # Slot(s, c) => nm[i] = m[i],
         \/ old = NoPkt /\ ns = s /\ nc = c /\ nh = h
         \/ old # NoPkt /\ c # ReturnsSize - 1 /\ ns = s /\ nc = c + 1 /\ nh = h \union {old}
         \/ /\ old # NoPkt /\ c = ReturnsSize - 1 /\ ns = Slot(s, 1) /\ nc = c
            /\ nh = (h \union {old}) \ {m[s]}
  PROVE  Holds(nm, ns, nc, nh)
<1>1. ReturnsSize \in Nat /\ ReturnsSize > 1
  BY DistParameters
<1>2. /\ \A i \in Nat : Slot(s, i) \in 0 .. ReturnsSize - 1
      /\ \A i, j \in 0 .. ReturnsSize - 1 : Slot(s, i) = Slot(s, j) => i = j
      /\ Slot(s, 0) = s
      /\ \A i \in Nat : Slot(Slot(s, 1), i) = Slot(s, 1 + i)
  <2>1. /\ \A i \in Nat : Slot(s, i) \in 0 .. ReturnsSize - 1
        /\ \A i, j \in 0 .. ReturnsSize - 1 : Slot(s, i) = Slot(s, j) => i = j
        /\ Slot(s, 0) = s
        /\ \A k \in Nat, i \in Nat : Slot(Slot(s, k), i) = Slot(s, k + i)
    BY SlotFacts, Zenon
  <2>2. 1 \in Nat
    BY Zenon
  <2> QED  BY <2>1, <2>2, Zenon
<1>3. \A i \in 0 .. c - 1 : nm[Slot(s, i)] = m[Slot(s, i)]
  <2> TAKE i \in 0 .. c - 1
  <2>1. i \in 0 .. ReturnsSize - 1 /\ i \in Nat /\ i # c
    BY <1>1
  <2> QED  BY <1>2, <2>1, Zenon
<1>4. /\ h = {m[Slot(s, i)] : i \in 0 .. c - 1}
      /\ \A i, j \in 0 .. c - 1 : m[Slot(s, i)] = m[Slot(s, j)] => i = j
  BY Zenon DEF Holds
<1>5. \A i \in 0 .. c - 1 : nm[Slot(s, i)] \in h /\ nm[Slot(s, i)] # old
  BY <1>3, <1>4
<1>6. CASE old = NoPkt /\ ns = s /\ nc = c /\ nh = h
  <2>1. nh = {nm[Slot(s, i)] : i \in 0 .. c - 1}
    BY <1>3, <1>4, <1>6
  <2>2. \A i, j \in 0 .. c - 1 : nm[Slot(s, i)] = nm[Slot(s, j)] => i = j
    BY <1>3, <1>4, Zenon
  <2>3. Holds(nm, s, c, nh)
    BY <2>1, <2>2, Zenon DEF Holds
  <2> QED  BY <1>6, <2>3, Zenon
<1>7. CASE old # NoPkt /\ c # ReturnsSize - 1 /\ ns = s /\ nc = c + 1 /\ nh = h \union {old}
  <2>1. \A i : i \in 0 .. nc - 1 <=> i \in 0 .. c - 1 \/ i = c
    BY <1>7
  <2>2. nh = {nm[Slot(s, i)] : i \in 0 .. nc - 1}
    <3>1. ASSUME NEW p \in nh PROVE \E i \in 0 .. nc - 1 : p = nm[Slot(s, i)]
      BY <1>3, <1>4, <1>7, <2>1, <3>1, Zenon
    <3>2. ASSUME NEW i \in 0 .. nc - 1 PROVE nm[Slot(s, i)] \in nh
      BY <1>5, <1>7, <2>1, <3>2, Zenon
    <3> QED  BY <3>1, <3>2
  <2>3. \A i, j \in 0 .. nc - 1 : nm[Slot(s, i)] = nm[Slot(s, j)] => i = j
    <3> TAKE i, j \in 0 .. nc - 1
    <3>1. CASE i = c /\ j = c
      BY <3>1, Zenon
    <3>2. CASE i \in 0 .. c - 1 /\ j = c
      BY <1>5, <3>2, Zenon
    <3>3. CASE i = c /\ j \in 0 .. c - 1
      BY <1>5, <3>3, Zenon
    <3>4. CASE i \in 0 .. c - 1 /\ j \in 0 .. c - 1
      BY <1>3, <1>4, <3>4, Zenon
    <3> QED  BY <2>1, <3>1, <3>2, <3>3, <3>4, Zenon
  <2>4. Holds(nm, s, nc, nh)
    BY <2>2, <2>3, Zenon DEF Holds
  <2> QED  BY <1>7, <2>4, Zenon
<1>8. CASE /\ old # NoPkt /\ c = ReturnsSize - 1 /\ ns = Slot(s, 1) /\ nc = c
           /\ nh = (h \union {old}) \ {m[s]}
  <2>1. \A i \in 0 .. nc - 1 : i \in Nat /\ Slot(ns, i) = Slot(s, 1 + i) /\ (1 + i \in 0 .. c - 1 \/ 1 + i = c)
    BY <1>1, <1>2, <1>8
  <2>2. \A j \in 0 .. c - 1 : j # 0 => j - 1 \in 0 .. nc - 1 /\ 1 + (j - 1) = j
    BY <1>8
  <2>3. 0 \in 0 .. c - 1 /\ c - 1 \in 0 .. nc - 1 /\ 1 + (c - 1) = c
    BY <1>1, <1>8
  <2>4. m[s] \in h /\ nm[Slot(s, 0)] = m[s] /\ m[s] # old
    <3>1. m[Slot(s, 0)] \in h
      BY <1>4, <2>3, Zenon
    <3> QED  BY <1>2, <1>3, <2>3, <3>1, Zenon
  <2>5. nh = {nm[Slot(ns, i)] : i \in 0 .. nc - 1}
    <3>1. ASSUME NEW p \in nh PROVE \E i \in 0 .. nc - 1 : p = nm[Slot(ns, i)]
      <4>1. CASE p = old
        BY <2>1, <2>3, <4>1, Zenon
      <4>2. CASE p # old
        <5>1. PICK j \in 0 .. c - 1 : p = m[Slot(s, j)]
          BY <1>4, <1>8, <3>1, <4>2, Zenon
        <5>2. j # 0
          BY <1>2, <1>8, <3>1, <5>1, Zenon
        <5>3. j - 1 \in 0 .. nc - 1 /\ 1 + (j - 1) = j
          BY <2>2, <5>2, Zenon
        <5>4. Slot(ns, j - 1) = Slot(s, 1 + (j - 1))
          BY <2>1, <5>3, Zenon
        <5>5. p = nm[Slot(ns, j - 1)]
          BY <1>3, <5>1, <5>3, <5>4, Zenon
        <5> QED  BY <5>3, <5>5, Zenon
      <4> QED  BY <4>1, <4>2, Zenon
    <3>2. ASSUME NEW i \in 0 .. nc - 1 PROVE nm[Slot(ns, i)] \in nh
      <4>1. nm[Slot(ns, i)] = nm[Slot(s, 1 + i)]
        BY <2>1, <3>2, Zenon
      <4>2. CASE 1 + i = c
        BY <1>8, <2>4, <4>1, <4>2, Zenon
      <4>3. CASE 1 + i \in 0 .. c - 1
        <5>1. 1 + i # 0
          BY <3>2
        <5>2. m[Slot(s, 1 + i)] # m[s]
          BY <1>2, <1>4, <2>3, <4>3, <5>1, Zenon
        <5>3. nm[Slot(s, 1 + i)] \in h /\ nm[Slot(s, 1 + i)] # m[s]
          BY <1>3, <1>5, <4>3, <5>2, Zenon
        <5> QED  BY <1>8, <4>1, <5>3, Zenon
      <4> QED  BY <2>1, <3>2, <4>2, <4>3, Zenon
    <3> QED  BY <3>1, <3>2
  <2>6. \A i, j \in 0 .. nc - 1 : nm[Slot(ns, i)] = nm[Slot(ns, j)] => i = j
    <3> SUFFICES ASSUME NEW i \in 0 .. nc - 1, NEW j \in 0 .. nc - 1, nm[Slot(ns, i)] = nm[Slot(ns, j)]
                 PROVE  i = j
      BY Zenon
    <3>1. 1 + i = 1 + j
      <4>1. nm[Slot(s, 1 + i)] = nm[Slot(s, 1 + j)]
        BY <2>1, Zenon
      <4>2. CASE 1 + i = c
        BY <1>5, <2>1, <4>1, <4>2, Zenon
      <4>3. CASE 1 + j = c
        BY <1>5, <2>1, <4>1, <4>3, Zenon
      <4>4. CASE 1 + i \in 0 .. c - 1 /\ 1 + j \in 0 .. c - 1
        BY <1>3, <1>4, <4>1, <4>4, Zenon
      <4> QED  BY <2>1, <4>2, <4>3, <4>4, Zenon
    <3> QED  BY <3>1
  <2> QED  BY <2>5, <2>6, Zenon DEF Holds
<1> QED  BY <1>6, <1>7, <1>8, Zenon

\* What rte_distributor_returned_pkts_single does to it.
LEMMA FetchHolds ==
  ASSUME NEW m, NEW s \in 0 .. ReturnsSize - 1, NEW c \in 0 .. ReturnsSize - 1,
         NEW h, Holds(m, s, c, h), NEW g \in 0 .. c
  PROVE  Holds(m, Slot(s, g), c - g, h \ {m[Slot(s, i)] : i \in 0 .. g - 1})
<1> DEFINE nh == h \ {m[Slot(s, i)] : i \in 0 .. g - 1}
           ns == Slot(s, g)
<1>1. \A i \in 0 .. (c - g) - 1 : Slot(ns, i) = Slot(s, g + i) /\ g + i \in 0 .. c - 1 /\ g + i \notin 0 .. g - 1
  BY SlotFacts
<1>2. \A j \in 0 .. c - 1 : j \in 0 .. g - 1 \/ (j - g \in 0 .. (c - g) - 1 /\ g + (j - g) = j)
  OBVIOUS
<1>3. /\ h = {m[Slot(s, i)] : i \in 0 .. c - 1}
      /\ \A i, j \in 0 .. c - 1 : m[Slot(s, i)] = m[Slot(s, j)] => i = j
  BY Zenon DEF Holds
<1>4. 0 .. g - 1 \subseteq 0 .. c - 1
  OBVIOUS
<1> HIDE DEF ns
<1>5. nh = {m[Slot(ns, i)] : i \in 0 .. (c - g) - 1}
  <2>1. ASSUME NEW p \in nh PROVE \E i \in 0 .. (c - g) - 1 : p = m[Slot(ns, i)]
    <3>1. PICK j \in 0 .. c - 1 : p = m[Slot(s, j)]
      BY <1>3, <2>1, Zenon
    <3>2. j \notin 0 .. g - 1
      BY <2>1, <3>1, Zenon
    <3> QED  BY <1>1, <1>2, <3>1, <3>2, Zenon
  <2>2. ASSUME NEW i \in 0 .. (c - g) - 1 PROVE m[Slot(ns, i)] \in nh
    <3>1. m[Slot(ns, i)] = m[Slot(s, g + i)] /\ g + i \in 0 .. c - 1
      BY <1>1, <2>2, Zenon
    <3>2. \A j \in 0 .. g - 1 : m[Slot(s, g + i)] # m[Slot(s, j)]
      BY <1>1, <1>3, <1>4, <2>2, Zenon
    <3> QED  BY <1>3, <3>1, <3>2, Zenon
  <2> HIDE DEF nh
  <2> QED  BY <2>1, <2>2, Zenon
<1>6. \A i, j \in 0 .. (c - g) - 1 : m[Slot(ns, i)] = m[Slot(ns, j)] => i = j
  <2> SUFFICES ASSUME NEW i \in 0 .. (c - g) - 1, NEW j \in 0 .. (c - g) - 1, m[Slot(ns, i)] = m[Slot(ns, j)]
               PROVE  i = j
    BY Zenon
  <2>1. g + i = g + j
    BY <1>1, <1>3, Zenon
  <2> QED  BY <2>1
<1> QED  BY <1>5, <1>6, Zenon DEF Holds, ns

\* The array after a turn.
LEMMA TurnArray ==
  ASSUME FlowInv, ReturnInv, leavers = {}, frames # <<>>, NEW f \in FrameType, f.wkr \in Wkr,
         f.start = Top.start, f.count = Top.count, NEW old \in MaybePkt, old \notin handed,
         EndTurn(f, old)
  PROVE  /\ Len(frames') <= 1 /\ Holds(returns.mbufs, RetStart, RetCount, handed)'
         /\ handed' \subseteq handed \union ({old} \ {NoPkt})
<1>1. frames \in Seq(FrameType) /\ returns \in RetType
  BY Zenon DEF FlowInv, DistTypeOK
<1>2. Len(frames) <= 1 /\ Holds(returns.mbufs, f.start, f.count, handed)
  BY Zenon DEF ReturnInv, RetStart, RetCount
<1>3. PICK g : g = NextWkr(AfterStore(f, old))
  BY Zenon
<1>4. /\ g \in FrameType
      /\ g.start = IF Full(f, old) THEN (f.start + 1) % ReturnsSize ELSE f.start
      /\ g.count = IF old = NoPkt \/ Full(f, old) THEN f.count ELSE f.count + 1
  BY <1>3, TurnFrame, Zenon
<1>5. frames' = <<g>> \o Tail(frames) /\ Store(f, old, returns)
  BY <1>3, Zenon DEF EndTurn
<1>6. frames' # <<>> /\ Head(frames') = g /\ DOMAIN frames' = DOMAIN frames /\ frames' \in Seq(FrameType)
  BY <1>1, <1>4, <1>5, TopFacts, Zenon
<1>7. Len(frames') = Len(frames)
  <2>0. Tail(frames) \in Seq(FrameType)
    BY <1>1
  <2>1. PICK t \in Seq(FrameType) : t = Tail(frames)
    BY <2>0, Zenon
  <2>2. Len(t) = Len(frames) - 1 /\ Len(frames) \in Nat /\ Len(t) \in Nat
    BY <1>1, <2>1
  <2>3. Len(<<g>> \o t) = 1 + Len(t)
    BY <1>4
  <2>4. frames' = <<g>> \o t
    BY <1>5, <2>1, Zenon
  <2> QED  BY <2>2, <2>3, <2>4
<1>8. RetStart' = g.start /\ RetCount' = g.count
  BY <1>6, Zenon DEF RetStart, RetCount, Top
<1>9. /\ returns'.mbufs = [returns.mbufs EXCEPT ![Slot(f.start, f.count)] = old]
      /\ handed' = (handed \union ({old} \ {NoPkt})) \ (IF Full(f, old) THEN {returns.mbufs[f.start]} ELSE {})
  <2>1. returns'.mbufs = [returns.mbufs EXCEPT ![(f.start + f.count) % ReturnsSize] = old]
    BY <1>1, <1>5, StoreOK
  <2> QED  BY <1>5, <2>1, Zenon DEF Store, Slot
<1>10. PICK m : m = returns.mbufs
  BY Zenon
<1>11. PICK nm : nm = returns'.mbufs
  BY Zenon
<1>12. PICK h : h = handed
  BY Zenon
<1>13. PICK nh : nh = handed'
  BY Zenon
<1>14. PICK s \in 0 .. ReturnsSize - 1 : s = f.start
  BY Zenon DEF FrameType
<1>15. PICK c \in 0 .. ReturnsSize - 1 : c = f.count
  BY Zenon DEF FrameType
<1>16. Slot(s, c) \in 0 .. ReturnsSize - 1
  <2>1. c \in Nat
    OBVIOUS
  <2> QED  BY <2>1, SlotFacts, Zenon
<1>17. nm[Slot(s, c)] = old /\ \A i \in 0 .. ReturnsSize - 1 : i # Slot(s, c) => nm[i] = m[i]
  <2>1. m \in [0 .. ReturnsSize - 1 -> MaybePkt]
    BY <1>1, <1>10, Zenon DEF RetType
  <2>2. nm = [m EXCEPT ![Slot(s, c)] = old]
    BY <1>9, <1>10, <1>11, <1>14, <1>15, Zenon
  <2> QED  BY <1>16, <2>1, <2>2, Zenon
<1>18. \/ old = NoPkt /\ g.start = s /\ g.count = c /\ nh = h
       \/ old # NoPkt /\ c # ReturnsSize - 1 /\ g.start = s /\ g.count = c + 1 /\ nh = h \union {old}
       \/ /\ old # NoPkt /\ c = ReturnsSize - 1 /\ g.start = Slot(s, 1) /\ g.count = c
          /\ nh = (h \union {old}) \ {m[s]}
  <2>1. CASE old = NoPkt
    <3>1. ~ Full(f, old)
      BY <2>1, Zenon DEF Full
    <3>2. nh = h
      BY <1>9, <1>12, <1>13, <2>1, <3>1, Zenon
    <3> QED  BY <1>4, <1>14, <1>15, <2>1, <3>1, <3>2, Zenon
  <2>2. CASE old # NoPkt /\ c # ReturnsSize - 1
    <3>1. ~ Full(f, old)
      BY <1>15, <2>2, Zenon DEF Full
    <3>2. nh = h \union {old}
      BY <1>9, <1>12, <1>13, <2>2, <3>1, Zenon
    <3> QED  BY <1>4, <1>14, <1>15, <2>2, <3>1, <3>2, Zenon
  <2>3. CASE old # NoPkt /\ c = ReturnsSize - 1
    <3>1. Full(f, old)
      BY <1>15, <2>3, Zenon DEF Full
    <3>2. nh = (h \union {old}) \ {m[s]}
      BY <1>9, <1>10, <1>12, <1>13, <1>14, <2>3, <3>1, Zenon
    <3> QED  BY <1>4, <1>14, <1>15, <2>3, <3>1, <3>2, Zenon DEF Slot
  <2> QED  BY <2>1, <2>2, <2>3, Zenon
<1>19. Holds(m, s, c, h) /\ old \notin h
  BY <1>2, <1>10, <1>12, <1>14, <1>15, Zenon
<1>20. Holds(nm, g.start, g.count, nh)
  BY <1>17, <1>18, <1>19, StoreHolds
<1>21. Holds(returns.mbufs, RetStart, RetCount, handed)'
  BY <1>8, <1>11, <1>13, <1>20, Zenon DEF Holds, Slot
<1>22. handed' \subseteq handed \union ({old} \ {NoPkt})
  BY <1>9, Zenon
<1> QED  BY <1>2, <1>7, <1>21, <1>22, Zenon

\* What the workers carry after a step.
LEMMA CarryOK ==
  ASSUME ReturnInv, leavers = {}, leavers' = leavers, NEW w \in Wkr, NEW old,
         \A v \in Wkr : doing'[v] # "gone",
         \A v \in Wkr : v # w => Carries(v)' = Carries(v),
         \/ old = NoPkt /\ Carries(w)' = Carries(w)
         \/ old = Carries(w) /\ (Carries(w)' = NoPkt \/ Carries(w)' \in given' \ given),
         given \subseteq given', handed' \subseteq handed \union ({old} \ {NoPkt}),
         Len(frames') <= 1, Holds(returns.mbufs, RetStart, RetCount, handed)'
  PROVE  ReturnInv'
<1>1. /\ handed \subseteq given
      /\ \A v \in Wkr : Carries(v) # NoPkt => Carries(v) \in given \ handed
      /\ \A u, v \in Wkr : Carries(u) = Carries(v) /\ Carries(u) # NoPkt => u = v
  BY Zenon DEF ReturnInv
<1>2. handed' \subseteq given
  <2> SUFFICES ASSUME NEW p \in handed', p \notin handed PROVE p \in given
    BY <1>1, Zenon
  <2>1. p = old /\ old # NoPkt
    BY Zenon
  <2> QED  BY <1>1, <2>1, Zenon
<1>3. \A v \in Wkr : Carries(v)' # NoPkt => Carries(v)' \in given' \ handed'
  <2> SUFFICES ASSUME NEW v \in Wkr, Carries(v)' # NoPkt PROVE Carries(v)' \in given' \ handed'
    BY Zenon
  <2>1. CASE Carries(v)' = Carries(v) /\ (v # w \/ old = NoPkt)
    <3>1. Carries(v) \in given /\ Carries(v) \notin handed
      BY <1>1, <2>1, Zenon
    <3>2. Carries(v) # old
      BY <1>1, <2>1, Zenon
    <3> QED  BY <2>1, <3>1, <3>2, Zenon
  <2>2. CASE Carries(v)' \in given' \ given
    BY <1>2, <2>2, Zenon
  <2> QED  BY <2>1, <2>2, Zenon
<1>4. \A u, v \in Wkr : Carries(u)' = Carries(v)' /\ Carries(u)' # NoPkt => u = v
  <2> SUFFICES ASSUME NEW u \in Wkr, NEW v \in Wkr, Carries(u)' = Carries(v)', Carries(u)' # NoPkt, u # v
               PROVE  FALSE
    BY Zenon
  <2>1. CASE Carries(w)' = Carries(w)
    BY <1>1, <2>1, Zenon
  <2>2. CASE Carries(w)' # Carries(w)
    <3>1. Carries(w)' = NoPkt \/ Carries(w)' \notin given
      BY <2>2, Zenon
    <3>2. \A x \in Wkr : x # w /\ Carries(x)' # NoPkt => Carries(x)' \in given
      BY <1>1, Zenon
    <3> QED  BY <1>1, <3>1, <3>2, Zenon
  <2> QED  BY <2>1, <2>2, Zenon
<1>5. handed' \subseteq given'
  BY <1>2, Zenon
<1> QED  BY <1>3, <1>4, <1>5, Zenon DEF ReturnInv

\* A worker's word is not written and it goes on as it was.
LEMMA CarrySame ==
  ASSUME NEW v \in Wkr, bufs'[v] = bufs[v], doing'[v] = doing[v], has'[v] = has[v]
  PROVE  Carries(v)' = Carries(v)
BY Zenon DEF Carries, Works

\* Worker w asks for a packet and gets p; the one it gives back is stored.
LEMMA GiveReturn ==
  ASSUME FlowInv, ReturnInv, leavers = {}, leavers' = leavers, GivesInOrder, frames # <<>>,
         NEW f \in FrameType, f.wkr \in Wkr, f.start = Top.start, f.count = Top.count,
         NEW w \in Wkr, bufs[w].flag = "get", NEW p, p # NoPkt, Give(w, p), UNCHANGED workervars,
         EndTurn(f, bufs[w].pkt)
  PROVE  ReturnInv'
<1>1. /\ bufs \in [Wkr -> [flag : {"none", "get", "ret"}, pkt : MaybePkt]] /\ WkrOK(w)
      /\ handed \subseteq Pkts
  BY Zenon DEF FlowInv, DistTypeOK
<1>2. /\ bufs' = [bufs EXCEPT ![w] = Buf("none", p)] /\ given' = given \union {p}
      /\ doing' = doing /\ has' = has
  BY Zenon DEF Give, workervars
<1>3. bufs'[w] = Buf("none", p) /\ \A v \in Wkr : v # w => bufs'[v] = bufs[v]
  BY <1>1, <1>2, Zenon
<1>4. bufs'[w].flag = "none" /\ bufs'[w].pkt = p
  BY <1>3 DEF Buf
<1>5. p \notin given
  BY <1>4, Zenon DEF GivesInOrder
<1>6. doing[w] = "polling"
  BY <1>1, Zenon DEF WkrOK
<1>7. Carries(w) = bufs[w].pkt /\ Carries(w)' = p
  <2>1. "get" # "none"
    BY Zenon
  <2> QED  BY <1>2, <1>4, <1>6, <2>1, Zenon DEF Carries, Works
<1>8. PICK old \in MaybePkt : old = bufs[w].pkt
  BY <1>1, Zenon
<1>9. old \notin handed
  <2>1. NoPkt \notin Pkts
    BY DEF NoPkt, Pkts
  <2>2. \A v \in Wkr : Carries(v) # NoPkt => Carries(v) \notin handed
    BY Zenon DEF ReturnInv
  <2> QED  BY <1>1, <1>7, <1>8, <2>1, <2>2, Zenon
<1>10. /\ Len(frames') <= 1 /\ Holds(returns.mbufs, RetStart, RetCount, handed)'
       /\ handed' \subseteq handed \union ({old} \ {NoPkt})
  BY <1>8, <1>9, TurnArray, Zenon
<1>11. \A v \in Wkr : v # w => Carries(v)' = Carries(v)
  BY <1>2, <1>3, CarrySame, Zenon
<1>12. \A v \in Wkr : doing'[v] # "gone"
  BY <1>2, Zenon DEF ReturnInv
<1>13. given \subseteq given' /\ p \in given' \ given
  BY <1>2, <1>5, Zenon
<1>14. old = Carries(w) /\ (Carries(w)' = NoPkt \/ Carries(w)' \in given' \ given)
  BY <1>7, <1>8, <1>13, Zenon
<1> QED  BY <1>10, <1>11, <1>12, <1>13, <1>14, CarryOK, Zenon

\* A turn in which nothing is given back.
LEMMA NothingReturn ==
  ASSUME FlowInv, ReturnInv, leavers = {}, leavers' = leavers, frames # <<>>,
         NEW f \in FrameType, f.wkr \in Wkr, f.start = Top.start, f.count = Top.count,
         EndTurn(f, NoPkt), UNCHANGED <<bufs, workervars, given>>
  PROVE  ReturnInv'
<1>1. bufs' = bufs /\ doing' = doing /\ has' = has /\ given' = given /\ NoPkt \in MaybePkt
  BY Zenon DEF workervars, MaybePkt
<1>2. NoPkt \notin handed
  BY DEF FlowInv, DistTypeOK, NoPkt, Pkts
<1>3. /\ Len(frames') <= 1 /\ Holds(returns.mbufs, RetStart, RetCount, handed)'
      /\ handed' \subseteq handed \union ({NoPkt} \ {NoPkt})
  BY <1>1, <1>2, TurnArray, Zenon
<1>4. \A v \in Wkr : Carries(v)' = Carries(v) /\ doing'[v] # "gone"
  BY <1>1, CarrySame, Zenon DEF ReturnInv
<1>5. given \subseteq given'
  BY <1>1, Zenon
<1> QED  BY <1>3, <1>4, <1>5, CarryOK, Zenon

\* A step that leaves the array, the workers and the packets as they are.
LEMMA SameReturn ==
  ASSUME ReturnInv, leavers = {}, leavers' = leavers, given' = given, handed' = handed,
         \A v \in Wkr : Carries(v)' = Carries(v) /\ doing'[v] # "gone",
         Len(frames') <= 1, returns'.mbufs = returns.mbufs, RetStart' = RetStart, RetCount' = RetCount
  PROVE  ReturnInv'
<1>1. Holds(returns.mbufs, RetStart, RetCount, handed)'
  <2>1. Holds(returns.mbufs, RetStart, RetCount, handed)
    BY Zenon DEF ReturnInv
  <2>2. PICK m, s, c, h : m = returns.mbufs /\ s = RetStart /\ c = RetCount /\ h = handed
    BY Zenon
  <2>3. m = returns'.mbufs /\ s = RetStart' /\ c = RetCount' /\ h = handed' /\ Holds(m, s, c, h)
    BY <2>1, <2>2, Zenon
  <2>4. Holds(returns'.mbufs, RetStart', RetCount', handed')
    BY <2>3, Zenon
  <2> QED  BY <2>4, Zenon DEF Holds, Slot
<1>2. PICK w \in Wkr : TRUE
  BY DistParameters DEF Wkr
<1>3. given \subseteq given' /\ handed' \subseteq handed \union ({NoPkt} \ {NoPkt})
  BY Zenon
<1> QED  BY <1>1, <1>2, <1>3, CarryOK, Zenon

\* The frame and the array at the end of a call, when there is only one.
LEMMA EndCallReturn ==
  ASSUME FlowInv, ReturnInv, leavers = {}, EndCall
  PROVE  ReturnInv'
<1>1. /\ frames # <<>> /\ leavers' = leavers /\ given' = given /\ bufs' = bufs /\ doing' = doing /\ has' = has
  BY Zenon DEF EndCall, inputvars, workervars
<1>2. frames \in Seq(FrameType) /\ returns \in RetType /\ Len(frames) <= 1
  BY Zenon DEF FlowInv, DistTypeOK, ReturnInv
<1>3. ~ (Len(frames) > 1)
  BY <1>2
<1>4. Top \in FrameType
  BY <1>1, <1>2 DEF Top
<1>5. PICK s, c : s = Top.start /\ c = Top.count
  BY Zenon
<1>6. s \in 0 .. ReturnsSize - 1 /\ c \in 0 .. ReturnsSize - 1
  BY <1>4, <1>5, Zenon DEF FrameType
<1>7. /\ returns' = [returns EXCEPT !.start = s, !.count = c] /\ handed' = handed
      /\ frames' = IF flushing' THEN <<[Frame(<<>>) EXCEPT !.start = s, !.count = c]>> ELSE <<>>
  BY <1>3, <1>5, Zenon DEF EndCall
<1>8. returns'.mbufs = returns.mbufs /\ returns'.start = s /\ returns'.count = c
  <2>1. PICK r : r = [returns EXCEPT !.start = s]
    BY Zenon
  <2>2. r \in RetType /\ r.mbufs = returns.mbufs /\ r.start = s
    BY <1>2, <1>6, <2>1, Zenon DEF RetType
  <2>3. returns' = [r EXCEPT !.count = c]
    BY <1>7, <2>1, Zenon
  <2> QED  BY <1>6, <2>2, <2>3, Zenon DEF RetType
<1>9. RetStart = s /\ RetCount = c
  BY <1>1, <1>5, Zenon DEF RetStart, RetCount
<1>10. Len(frames') <= 1 /\ RetStart' = s /\ RetCount' = c
  <2>1. CASE ~ flushing'
    <3>1. frames' = <<>>
      BY <1>7, <2>1, Zenon
    <3>2. Len(<<>>) <= 1
      OBVIOUS
    <3> QED  BY <1>8, <3>1, <3>2, Zenon DEF RetStart, RetCount
  <2>2. CASE flushing'
    <3>1. PICK g : g = [Frame(<<>>) EXCEPT !.start = s, !.count = c]
      BY Zenon
    <3>2. g.start = s /\ g.count = c
      BY <3>1, Zenon DEF Frame
    <3>3. frames' = <<g>>
      BY <1>7, <2>2, <3>1, Zenon
    <3>4. <<g>> # <<>> /\ Len(<<g>>) = 1 /\ Head(<<g>>) = g
      OBVIOUS
    <3>5. Len(<<g>>) <= 1
      BY <3>4
    <3> QED  BY <3>2, <3>3, <3>4, <3>5, Zenon DEF RetStart, RetCount, Top
  <2> QED  BY <2>1, <2>2, Zenon
<1>11. \A v \in Wkr : Carries(v)' = Carries(v) /\ doing'[v] # "gone"
  BY <1>1, CarrySame, Zenon DEF ReturnInv
<1> QED  BY <1>1, <1>7, <1>8, <1>9, <1>10, <1>11, SameReturn, Zenon

\* A call starts from the array as it is.
LEMMA CallReturn ==
  ASSUME FlowInv, ReturnInv, leavers = {}, frames = <<>>, NEW in, frames' = <<Frame(in)>>,
         UNCHANGED <<leavers, bufs, returns, workervars, given, handed>>
  PROVE  ReturnInv'
<1>1. PICK g : g = Frame(in)
  BY Zenon
<1>2. g.start = returns.start /\ g.count = returns.count
  BY <1>1, Zenon DEF Frame
<1>3. frames' = <<g>>
  BY <1>1, Zenon
<1>4. <<g>> # <<>> /\ Len(<<g>>) <= 1 /\ Head(<<g>>) = g
  OBVIOUS
<1>5. /\ leavers' = leavers /\ given' = given /\ bufs' = bufs /\ doing' = doing /\ has' = has
      /\ returns' = returns /\ handed' = handed
  BY Zenon DEF workervars
<1>6. RetStart' = RetStart /\ RetCount' = RetCount /\ returns'.mbufs = returns.mbufs /\ Len(frames') <= 1
  BY <1>2, <1>3, <1>4, <1>5, Zenon DEF RetStart, RetCount, Top
<1>7. \A v \in Wkr : Carries(v)' = Carries(v) /\ doing'[v] # "gone"
  BY <1>5, CarrySame, Zenon DEF ReturnInv
<1> QED  BY <1>5, <1>6, <1>7, SameReturn, Zenon

\* The application fetches packets.
LEMMA FetchReturn ==
  ASSUME FlowInv, ReturnInv, leavers = {}, frames = <<>>, frames' = frames, handed' \subseteq handed,
         Holds(returns'.mbufs, returns'.start, returns'.count, handed'),
         UNCHANGED <<leavers, bufs, workervars, given>>
  PROVE  ReturnInv'
<1>1. /\ leavers' = leavers /\ given' = given /\ bufs' = bufs /\ doing' = doing /\ has' = has
  BY Zenon DEF workervars
<1>2. RetStart' = returns'.start /\ RetCount' = returns'.count
  BY Zenon DEF RetStart, RetCount
<1>3. Holds(returns.mbufs, RetStart, RetCount, handed)'
  BY <1>2, Zenon DEF Holds, Slot
<1>4. Len(frames') <= 1
  BY Zenon DEF ReturnInv
<1>5. \A v \in Wkr : Carries(v)' = Carries(v) /\ doing'[v] # "gone"
  BY <1>1, CarrySame, Zenon DEF ReturnInv
<1>6. PICK w \in Wkr : TRUE
  BY DistParameters DEF Wkr
<1>7. given \subseteq given' /\ handed' \subseteq handed \union ({NoPkt} \ {NoPkt})
  BY <1>1, Zenon
<1> QED  BY <1>1, <1>3, <1>4, <1>5, <1>6, <1>7, CarryOK, Zenon

\* A step of a worker.
LEMMA WorkerReturn ==
  ASSUME FlowInv, ReturnInv, leavers = {}, NEW w \in Wkr, WorkerCall(w)
  PROVE  ReturnInv'
<1>1. /\ leavers' = leavers /\ given' = given /\ frames' = frames /\ returns' = returns /\ handed' = handed
  BY Zenon DEF WorkerCall, RequestPkt, PollPkt, ReturnPkt, inputvars
<1>2. /\ bufs \in [Wkr -> [flag : {"none", "get", "ret"}, pkt : MaybePkt]] /\ WkrOK(w)
      /\ doing \in [Wkr -> {"working", "polling", "gone"}] /\ has \in [Wkr -> MaybePkt]
  BY Zenon DEF FlowInv, DistTypeOK
<1>3. /\ Carries(w)' = Carries(w) /\ doing'[w] # "gone"
      /\ \A v \in Wkr : v # w => bufs'[v] = bufs[v] /\ doing'[v] = doing[v] /\ has'[v] = has[v]
  <2>1. CASE RequestPkt(w)
    <3>1. /\ doing[w] = "working" /\ bufs[w].flag = "none"
          /\ bufs' = [bufs EXCEPT ![w] = Buf("get", has[w])]
          /\ doing' = [doing EXCEPT ![w] = "polling"] /\ has' = [has EXCEPT ![w] = NoPkt]
      BY <2>1, Zenon DEF RequestPkt
    <3>2. /\ bufs'[w].flag = "get" /\ bufs'[w].pkt = has[w] /\ doing'[w] = "polling"
          /\ \A v \in Wkr : v # w => bufs'[v] = bufs[v] /\ doing'[v] = doing[v] /\ has'[v] = has[v]
      BY <1>2, <3>1, Zenon DEF Buf
    <3>3. Carries(w) = has[w] /\ Carries(w)' = has[w]
      BY <3>1, <3>2, Zenon DEF Carries, Works
    <3> QED  BY <3>2, <3>3, Zenon
  <2>2. CASE PollPkt(w)
    <3>1. /\ doing[w] = "polling" /\ bufs[w].flag # "get" /\ bufs[w].pkt # NoPkt /\ bufs' = bufs
          /\ doing' = [doing EXCEPT ![w] = "working"] /\ has' = [has EXCEPT ![w] = bufs[w].pkt]
      BY <2>2, Zenon DEF PollPkt
    <3>2. bufs[w].flag = "none"
      BY <1>2, <3>1, Zenon DEF WkrOK
    <3>3. /\ bufs'[w].flag = "none" /\ doing'[w] = "working" /\ has'[w] = bufs[w].pkt
          /\ \A v \in Wkr : v # w => bufs'[v] = bufs[v] /\ doing'[v] = doing[v] /\ has'[v] = has[v]
      BY <1>2, <3>1, <3>2, Zenon
    <3>4. Carries(w) = bufs[w].pkt /\ Carries(w)' = bufs[w].pkt
      BY <3>1, <3>2, <3>3, Zenon DEF Carries, Works
    <3> QED  BY <3>3, <3>4, Zenon
  <2>3. CASE ReturnPkt(w)
    BY <2>3, Zenon DEF ReturnPkt
  <2> QED  BY <2>1, <2>2, <2>3, Zenon DEF WorkerCall
<1>4. \A v \in Wkr : Carries(v)' = Carries(v) /\ doing'[v] # "gone"
  BY <1>3, CarrySame, Zenon DEF ReturnInv
<1>5. Len(frames') <= 1 /\ returns'.mbufs = returns.mbufs /\ RetStart' = RetStart /\ RetCount' = RetCount
  BY <1>1, Zenon DEF ReturnInv, RetStart, RetCount, Top
<1> QED  BY <1>1, <1>4, <1>5, SameReturn, Zenon

\* Worker w waits, has nothing to do and gives a packet back.
LEMMA IdleReturn ==
  ASSUME FlowInv, ReturnInv, leavers = {}, ReturnsIdle
  PROVE  ReturnInv'
<1>1. PICK w \in Wkr : w = Top.wkr
  BY Zenon DEF ReturnsIdle
<1>2. /\ frames # <<>> /\ bufs[w].flag = "get" /\ bufs' = [bufs EXCEPT ![w] = Buf("get", NoPkt)]
      /\ EndTurn(Top, bufs[w].pkt)
      /\ leavers' = leavers /\ doing' = doing /\ has' = has /\ given' = given
  BY <1>1, Zenon DEF ReturnsIdle, inputvars, workervars
<1>3. /\ bufs \in [Wkr -> [flag : {"none", "get", "ret"}, pkt : MaybePkt]]
      /\ handed \subseteq Pkts /\ frames \in Seq(FrameType)
  BY Zenon DEF FlowInv, DistTypeOK
<1>4. bufs'[w] = Buf("get", NoPkt) /\ \A v \in Wkr : v # w => bufs'[v] = bufs[v]
  BY <1>2, <1>3, Zenon
<1>5. Carries(w) = bufs[w].pkt /\ Carries(w)' = NoPkt
  <2>1. bufs'[w].flag = "get" /\ bufs'[w].pkt = NoPkt /\ "get" # "none"
    BY <1>4 DEF Buf
  <2> QED  BY <1>2, <2>1, Zenon DEF Carries
<1>6. PICK old \in MaybePkt : old = bufs[w].pkt
  BY <1>3, Zenon
<1>7. old \notin handed
  <2>1. NoPkt \notin Pkts
    BY DEF NoPkt, Pkts
  <2>2. \A v \in Wkr : Carries(v) # NoPkt => Carries(v) \notin handed
    BY Zenon DEF ReturnInv
  <2> QED  BY <1>3, <1>5, <1>6, <2>1, <2>2, Zenon
<1>8. PICK f \in FrameType : f = Top
  BY <1>2, <1>3 DEF Top
<1>9. /\ f.wkr \in Wkr /\ f.start = Top.start /\ f.count = Top.count /\ EndTurn(f, old)
  BY <1>1, <1>2, <1>6, <1>8, Zenon
<1>10. /\ Len(frames') <= 1 /\ Holds(returns.mbufs, RetStart, RetCount, handed)'
       /\ handed' \subseteq handed \union ({old} \ {NoPkt})
  BY <1>2, <1>7, <1>9, TurnArray, Zenon
<1>11. \A v \in Wkr : v # w => Carries(v)' = Carries(v)
  BY <1>2, <1>4, CarrySame, Zenon
<1>12. \A v \in Wkr : doing'[v] # "gone"
  BY <1>2, Zenon DEF ReturnInv
<1>13. given \subseteq given'
  BY <1>2, Zenon
<1>14. old = Carries(w) /\ Carries(w)' = NoPkt
  BY <1>5, <1>6, Zenon
<1> QED  BY <1>2, <1>10, <1>11, <1>12, <1>13, <1>14, CarryOK, Zenon

\* A call moves on without a turn of a worker.
LEMMA MoveReturn ==
  ASSUME FlowInv, ReturnInv, leavers = {}, frames # <<>>, NEW g \in FrameType,
         g.start = Top.start, g.count = Top.count, frames' = <<g>> \o Tail(frames),
         UNCHANGED <<leavers, bufs, returns, workervars, given, handed>>
  PROVE  ReturnInv'
<1>1. /\ leavers' = leavers /\ given' = given /\ bufs' = bufs /\ doing' = doing /\ has' = has
      /\ returns' = returns /\ handed' = handed
  BY Zenon DEF workervars
<1>2. frames \in Seq(FrameType) /\ Len(frames) <= 1
  BY Zenon DEF FlowInv, DistTypeOK, ReturnInv
<1>3. Len(frames') <= 1
  <2>1. Tail(frames) \in Seq(FrameType)
    BY <1>2
  <2>2. PICK t \in Seq(FrameType) : t = Tail(frames)
    BY <2>1, Zenon
  <2>3. Len(t) = Len(frames) - 1 /\ Len(frames) \in Nat /\ Len(t) \in Nat
    BY <1>2, <2>2
  <2>4. Len(<<g>> \o t) = 1 + Len(t)
    OBVIOUS
  <2>5. frames' = <<g>> \o t
    BY <2>2, Zenon
  <2> QED  BY <1>2, <2>3, <2>4, <2>5
<1>4. frames' # <<>> /\ Head(frames') = g
  BY <1>2, TopFacts, Zenon
<1>5. RetStart' = RetStart /\ RetCount' = RetCount /\ returns'.mbufs = returns.mbufs
  BY <1>1, <1>4, Zenon DEF RetStart, RetCount, Top
<1>6. \A v \in Wkr : Carries(v)' = Carries(v) /\ doing'[v] # "gone"
  BY <1>1, CarrySame, Zenon DEF ReturnInv
<1> QED  BY <1>1, <1>3, <1>5, <1>6, SameReturn, Zenon

\* A worker is given the packet at the head of its backlog.
LEMMA PopReturn ==
  ASSUME FlowInv, ReturnInv, leavers = {}, leavers' = leavers, GivesInOrder,
         NEW f, NEW bl, Served(f, bl), f.start = Top.start, f.count = Top.count,
         NEW w \in Wkr, w = f.wkr, bufs[w].flag = "get", bl[w] # <<>>, PopBacklog(f, w, bl),
         UNCHANGED workervars
  PROVE  ReturnInv'
<1>1. frames # <<>> /\ f \in FrameType /\ f.wkr \in Wkr /\ bl \in [Wkr -> Seq(Pkts)]
  BY Zenon DEF Served
<1>2. PICK p : p = Head(bl[w])
  BY Zenon
<1>3. p # NoPkt
  <2>1. PICK s \in Seq(Pkts) : s = bl[w]
    BY <1>1, Zenon
  <2>2. s # <<>> /\ p = Head(s)
    BY <1>2, <2>1, Zenon
  <2>3. p \in Pkts
    BY <2>2
  <2> QED  BY <2>3 DEF Pkts, NoPkt
<1>4. Give(w, p) /\ EndTurn(f, bufs[w].pkt)
  BY <1>2, Zenon DEF PopBacklog
<1> QED  BY <1>1, <1>3, <1>4, GiveReturn, Zenon

\* Every step keeps the packets taken back.
LEMMA ReturnStep ==
  ASSUME FlowInv, ReturnInv, DistNext
  PROVE  ReturnInv'
<1>1. GivesInOrder /\ leavers' = leavers
  <2>1. GivesInOrder
    BY FlowStep, Zenon
  <2>2. ASSUME NEW n \in Bursts, Process(n) \/ ReturnedPkts(n) PROVE leavers' = leavers
    BY <2>2, Zenon DEF Process, ReturnedPkts, inputvars
  <2>3. ASSUME NEW w \in Wkr, WorkerCall(w) PROVE leavers' = leavers
    BY <2>3, Zenon DEF WorkerCall, RequestPkt, PollPkt, ReturnPkt, inputvars
  <2>4. ASSUME Flush \/ ClearReturns \/ DistStep PROVE leavers' = leavers
    BY <2>4, Zenon DEF Flush, ClearReturns, DistStep, DealBacklog, DealNext, DealNothing, DealShutdown, Dealt,
                DealLast, ReturnsBacklog, ReturnsIdle, ReturnsNothing, ReturnsShutdown, EndCall, inputvars
  <2> QED  BY <2>1, <2>2, <2>3, <2>4, Zenon DEF DistNext, DistCall
<1> SUFFICES ASSUME leavers = {} PROVE ReturnInv'
  BY <1>1, Zenon DEF ReturnInv
<1>2. \A v \in Wkr : bufs[v].flag # "ret"
  BY Zenon DEF FlowInv, WkrOK, ReturnInv
<1>3. frames \in Seq(FrameType) /\ returns \in RetType
  BY Zenon DEF FlowInv, DistTypeOK
<1>4. ASSUME Dealing
      PROVE  /\ Served(Pull(Top).f, Pull(Top).backlog) /\ Pull(Top).f.wkr = Top.wkr
             /\ Pull(Top).f.start = Top.start /\ Pull(Top).f.count = Top.count
  BY <1>4, PullServed, Zenon
<1>5. CASE DealBacklog \/ DealNext \/ DealNothing \/ DealShutdown
  <2>1. PICK f : f = Pull(Top).f
    BY Zenon
  <2>2. PICK bl : bl = Pull(Top).backlog
    BY Zenon
  <2>3. Dealing
    BY <1>5, Zenon DEF DealBacklog, DealNext, DealNothing, DealShutdown
  <2>4. Served(f, bl) /\ f.wkr = Top.wkr /\ f.start = Top.start /\ f.count = Top.count
    BY <1>4, <2>1, <2>2, <2>3, Zenon
  <2>5. frames # <<>> /\ f \in FrameType /\ f.wkr \in Wkr
    BY <2>4, Zenon DEF Served
  <2>6. PICK w \in Wkr : w = f.wkr
    BY <2>5, Zenon
  <2>7. w = Top.wkr
    BY <2>4, <2>6, Zenon
  <2>8. CASE DealBacklog
    <3>1. bufs[w].flag = "get" /\ bl[w] # <<>> /\ PopBacklog(f, w, bl) /\ UNCHANGED workervars
      BY <2>1, <2>2, <2>7, <2>8, Zenon DEF DealBacklog
    <3> QED  BY <1>1, <2>4, <2>6, <3>1, PopReturn, Zenon
  <2>9. CASE DealNext
    <3>1. PICK g : g = [f EXCEPT !.mb = NoPkt]
      BY Zenon
    <3>2. g \in FrameType /\ g.wkr = f.wkr /\ g.start = f.start /\ g.count = f.count
      BY <2>5, <3>1, Zenon DEF FrameType, MaybePkt
    <3>3. PICK p : p = f.mb
      BY Zenon
    <3>4. bufs[w].flag = "get" /\ p # NoPkt /\ Give(w, p) /\ EndTurn(g, bufs[w].pkt) /\ UNCHANGED workervars
      BY <2>1, <2>7, <2>9, <3>1, <3>3, Zenon DEF DealNext
    <3>5. g.wkr \in Wkr /\ g.start = Top.start /\ g.count = Top.count
      BY <2>4, <2>5, <3>2, Zenon
    <3> QED  BY <1>1, <2>5, <3>2, <3>4, <3>5, GiveReturn, Zenon
  <2>10. CASE DealNothing
    <3>1. EndTurn(f, NoPkt) /\ UNCHANGED <<bufs, workervars, given>>
      BY <2>1, <2>10, Zenon DEF DealNothing
    <3> QED  BY <1>1, <2>4, <2>5, <3>1, NothingReturn, Zenon
  <2>11. CASE DealShutdown
    BY <1>2, <2>6, <2>7, <2>11, Zenon DEF DealShutdown
  <2> QED  BY <1>5, <2>8, <2>9, <2>10, <2>11, Zenon
<1>6. CASE Dealt
  <2>1. PICK g : g = [Top EXCEPT !.at = "last", !.wkr = 0]
    BY Zenon
  <2>2. /\ frames # <<>> /\ frames' = <<g>> \o Tail(frames)
        /\ UNCHANGED <<leavers, bufs, returns, workervars, given, handed>>
    BY <1>6, <2>1, Zenon DEF Dealt, inputvars
  <2>3. g \in FrameType /\ g.start = Top.start /\ g.count = Top.count
    <3>1. Top \in FrameType
      BY <1>3, <2>2 DEF Top
    <3>2. PICK h : h = [Top EXCEPT !.at = "last"]
      BY Zenon
    <3>3. h \in FrameType /\ h.start = Top.start /\ h.count = Top.count
      BY <3>1, <3>2, Zenon DEF FrameType
    <3>4. g = [h EXCEPT !.wkr = 0]
      BY <2>1, <3>2, Zenon
    <3> QED  BY <3>3, <3>4, DistParameters DEF FrameType
  <2> QED  BY <2>2, <2>3, MoveReturn, Zenon
<1>7. CASE DealLast \/ ReturnsBacklog \/ ReturnsNothing \/ ReturnsShutdown
  <2>1. /\ frames # <<>> /\ Top.at # "deal" /\ Top.wkr \in Wkr
    BY <1>7, Zenon DEF DealLast, ReturnsBacklog, ReturnsNothing, ReturnsShutdown
  <2>2. Served(Top, backlog) /\ Top \in FrameType
    BY <2>1, TopServed, Zenon DEF Served
  <2>3. PICK f : f = Top
    BY Zenon
  <2>4. PICK w \in Wkr : w = f.wkr
    BY <2>1, <2>3, Zenon
  <2>5. PICK bl : bl = backlog
    BY Zenon
  <2>6. Served(f, bl) /\ f \in FrameType /\ f.wkr \in Wkr /\ f.start = Top.start /\ f.count = Top.count
    BY <2>1, <2>2, <2>3, <2>5, Zenon
  <2>7. ASSUME bufs[w].flag = "get", bl[w] # <<>>, PopBacklog(f, w, bl), UNCHANGED workervars PROVE ReturnInv'
    BY <1>1, <2>4, <2>6, <2>7, PopReturn, Zenon
  <2>8. CASE DealLast
    <3>1. CASE backlog[w] # <<>> /\ bufs[w].flag = "get"
      BY <2>3, <2>4, <2>5, <2>7, <2>8, <3>1, Zenon DEF DealLast
    <3>2. CASE ~ (backlog[w] # <<>> /\ bufs[w].flag = "get")
      <4>1. PICK g : g = NextWkr(f)
        BY Zenon
      <4>2. g \in FrameType /\ g.start = f.start /\ g.count = f.count
        <5>1. f.at # "deal"
          BY <2>1, <2>3, Zenon
        <5>2. f.wkr + 1 \in 0 .. NumWorkers
          BY <2>6, DistParameters, SMT DEF Wkr
        <5>3. g = [f EXCEPT !.wkr = f.wkr + 1]
          BY <4>1, <5>1, Zenon DEF NextWkr
        <5> QED  BY <2>6, <5>2, <5>3, Zenon DEF FrameType
      <4>3. /\ frames' = <<g>> \o Tail(frames)
            /\ UNCHANGED <<leavers, bufs, returns, workervars, given, handed>>
        BY <2>3, <2>4, <2>8, <3>2, <4>1, Zenon DEF DealLast, inputvars
      <4>4. g.start = Top.start /\ g.count = Top.count
        BY <2>6, <4>2, Zenon
      <4> QED  BY <2>1, <4>2, <4>3, <4>4, MoveReturn, Zenon
    <3> QED  BY <3>1, <3>2, Zenon
  <2>9. CASE ReturnsBacklog
    BY <2>3, <2>4, <2>5, <2>7, <2>9, Zenon DEF ReturnsBacklog
  <2>10. CASE ReturnsNothing
    <3>1. EndTurn(f, NoPkt) /\ UNCHANGED <<bufs, workervars, given>>
      BY <2>3, <2>10, Zenon DEF ReturnsNothing
    <3> QED  BY <1>1, <2>1, <2>6, <3>1, NothingReturn, Zenon
  <2>11. CASE ReturnsShutdown
    BY <1>2, <2>3, <2>4, <2>11, Zenon DEF ReturnsShutdown
  <2> QED  BY <1>7, <2>8, <2>9, <2>10, <2>11, Zenon
<1>8. CASE ReturnsIdle
  BY <1>8, IdleReturn, Zenon
<1>9. CASE EndCall
  BY <1>9, EndCallReturn, Zenon
<1>10. ASSUME NEW n \in Bursts, Process(n) PROVE ReturnInv'
  BY <1>10, CallReturn, Zenon DEF Process
<1>11. CASE Flush
  <2>1. UNCHANGED <<leavers, bufs, returns, workervars, given, handed>>
    BY <1>11, Zenon DEF Flush, inputvars
  <2> QED  BY <1>11, <2>1, CallReturn, Zenon DEF Flush
<1>12. ASSUME frames = <<>> PROVE Holds(returns.mbufs, returns.start, returns.count, handed)
  BY <1>12, Zenon DEF ReturnInv, RetStart, RetCount
<1>13. ASSUME NEW n \in Bursts, ReturnedPkts(n) PROVE ReturnInv'
  <2>1. PICK g : g = Min({n, returns.count})
    BY Zenon
  <2>2. PICK s \in 0 .. ReturnsSize - 1 : s = returns.start
    BY <1>3, Zenon DEF RetType
  <2>3. PICK c \in 0 .. ReturnsSize - 1 : c = returns.count
    BY <1>3, Zenon DEF RetType
  <2>4. g \in 0 .. c
    <3>1. n \in Nat /\ c \in Nat
      BY DistParameters
    <3> QED  BY <2>1, <2>3, <3>1 DEF Min
  <2>5. PICK m, h : m = returns.mbufs /\ h = handed
    BY Zenon
  <2>6. Holds(m, s, c, h)
    BY <1>12, <1>13, <2>2, <2>3, <2>5, Zenon DEF ReturnedPkts
  <2>7. Holds(m, Slot(s, g), c - g, h \ {m[Slot(s, i)] : i \in 0 .. g - 1})
    BY <2>4, <2>6, FetchHolds, Zenon
  <2>8. /\ frames = <<>> /\ frames' = frames
        /\ handed' = h \ {m[Slot(s, i)] : i \in 0 .. g - 1}
        /\ returns' = [returns EXCEPT !.start = Slot(s, g), !.count = c - g]
        /\ UNCHANGED <<leavers, bufs, workervars, given>>
    BY <1>13, <2>1, <2>2, <2>3, <2>5, Zenon DEF ReturnedPkts, Slot, inputvars
  <2>9. returns'.mbufs = m /\ returns'.start = Slot(s, g) /\ returns'.count = c - g
    <3>1. PICK r : r = [returns EXCEPT !.start = Slot(s, g)]
      BY Zenon
    <3>2. Slot(s, g) \in 0 .. ReturnsSize - 1 /\ c - g \in 0 .. ReturnsSize - 1
      <4>1. g \in Nat /\ c - g \in 0 .. ReturnsSize - 1
        BY <2>4, DistParameters
      <4> QED  BY <4>1, SlotFacts, Zenon
    <3>3. r \in RetType /\ r.mbufs = m /\ r.start = Slot(s, g)
      BY <1>3, <2>5, <3>1, <3>2, Zenon DEF RetType
    <3>4. returns' = [r EXCEPT !.count = c - g]
      BY <2>8, <3>1, Zenon
    <3> QED  BY <3>2, <3>3, <3>4, Zenon DEF RetType
  <2>10. Holds(returns'.mbufs, returns'.start, returns'.count, handed') /\ handed' \subseteq handed
    <3>1. handed' \subseteq handed
      BY <2>5, <2>8, Zenon
    <3> QED  BY <2>7, <2>8, <2>9, <3>1, Zenon
  <2> QED  BY <2>8, <2>10, FetchReturn, Zenon
<1>14. CASE ClearReturns
  <2>1. /\ frames = <<>> /\ frames' = frames /\ handed' = {}
        /\ returns' = [returns EXCEPT !.start = 0, !.count = 0]
        /\ UNCHANGED <<leavers, bufs, workervars, given>>
    BY <1>14, Zenon DEF ClearReturns, inputvars
  <2>2. returns'.count = 0
    <3>1. PICK r : r = [returns EXCEPT !.start = 0]
      BY Zenon
    <3>2. 0 \in 0 .. ReturnsSize - 1
      BY DistParameters
    <3>3. r \in RetType
      BY <1>3, <3>1, <3>2, Zenon DEF RetType
    <3>4. returns' = [r EXCEPT !.count = 0]
      BY <2>1, <3>1, Zenon
    <3> QED  BY <3>2, <3>3, <3>4, Zenon DEF RetType
  <2>3. Holds(returns'.mbufs, returns'.start, returns'.count, handed')
    <3>1. 0 .. returns'.count - 1 = {}
      BY <2>2
    <3> QED  BY <2>1, <3>1, Zenon DEF Holds
  <2>4. handed' \subseteq handed
    BY <2>1, Zenon
  <2> QED  BY <2>1, <2>3, <2>4, FetchReturn, Zenon
<1>15. ASSUME NEW w \in Wkr, WorkerCall(w) PROVE ReturnInv'
  BY <1>15, WorkerReturn, Zenon
<1> QED  BY <1>5, <1>6, <1>7, <1>8, <1>9, <1>10, <1>11, <1>13, <1>14, <1>15, Zenon
         DEF DistNext, DistStep, DistCall

\* Between calls, the packets that were taken back from workers and not fetched
\* since are the ones in the returns array, as long as no worker leaves:
\* store_return, process_returns and rte_distributor_returned_pkts_single agree
\* on its places, whatever its size.
THEOREM DistReturns == DistSpec => []ReturnsKept
<1>1. DistInit => ReturnInv
  <2> SUFFICES ASSUME DistInit PROVE ReturnInv
    BY Zenon
  <2>1. frames = <<>> /\ returns.count = 0 /\ handed = {} /\ given = {}
    BY Zenon DEF DistInit
  <2>2. Len(frames) <= 1 /\ 0 .. returns.count - 1 = {}
    BY <2>1
  <2>3. RetCount = returns.count
    BY <2>1, Zenon DEF RetCount
  <2>4. \A w \in Wkr : doing[w] # "gone" /\ Carries(w) = NoPkt
    <3> TAKE w \in Wkr
    <3>1. doing[w] = "working" /\ bufs[w].flag = "none" /\ has[w] = NoPkt
      BY Zenon DEF DistInit, Buf
    <3> QED  BY <3>1, Zenon DEF Carries, Works
  <2>5. Holds(returns.mbufs, RetStart, RetCount, handed)
    BY <2>1, <2>2, <2>3, Zenon DEF Holds
  <2>6. handed \subseteq given
    BY <2>1, Zenon
  <2> QED  BY <2>2, <2>4, <2>5, <2>6, Zenon DEF ReturnInv
<1>2. FlowInv /\ ReturnInv /\ [DistNext]_distvars => ReturnInv'
  <2> SUFFICES ASSUME FlowInv, ReturnInv, [DistNext]_distvars PROVE ReturnInv'
    BY Zenon
  <2>1. CASE DistNext
    BY <2>1, ReturnStep, Zenon
  <2>2. CASE UNCHANGED distvars
    <3>1. /\ leavers' = leavers /\ given' = given /\ bufs' = bufs /\ doing' = doing /\ has' = has
          /\ returns' = returns /\ handed' = handed /\ frames' = frames
      BY <2>2, Zenon DEF distvars
    <3>2. CASE leavers = {}
      <4>1. \A v \in Wkr : Carries(v)' = Carries(v) /\ doing'[v] # "gone"
        BY <3>1, <3>2, CarrySame, Zenon DEF ReturnInv
      <4>2. Len(frames') <= 1 /\ returns'.mbufs = returns.mbufs /\ RetStart' = RetStart /\ RetCount' = RetCount
        BY <3>1, <3>2, Zenon DEF ReturnInv, RetStart, RetCount, Top
      <4> QED  BY <3>1, <3>2, <4>1, <4>2, SameReturn, Zenon
    <3> QED  BY <3>1, <3>2, Zenon DEF ReturnInv
  <2> QED  BY <2>1, <2>2, Zenon
<1>3. FlowInv /\ ReturnInv => ReturnsKept
  BY Zenon DEF ReturnInv, ReturnsKept, ReturnsAll, InReturns, Holds, Slot, RetStart, RetCount
<1> QED  BY <1>1, <1>2, <1>3, DistInvariant, PTL DEF DistSpec
==============================================================================
