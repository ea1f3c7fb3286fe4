---------------------------- MODULE StackProofs ----------------------------
(***************************************************************************)
(* Proofs about the lock-free stack.  Some spread of the list elements over *)
(* the two lists and the calls in progress agrees with the heads, the links *)
(* and the counts; the counters of the heads make what a call has read of a *)
(* list current whenever its compare-and-swap succeeds.  From this follow   *)
(* the safety of the elements and that every step is a step of the standard *)
(* stack.                                                                   *)
(***************************************************************************)
EXTENDS StackLf, FiniteSetTheorems, WellFoundedInduction, TLAPS

-----------------------------------------------------------------------------
(* The inductive invariant                                                  *)

HeadWords == [top : 0 .. Capacity, cnt : Nat]
Data == Obj \union {NoObj}
Local == [op : Op, num : Nat, ln : Nat, old : HeadWords, half : {"top", "cnt"},
          tmp : 0 .. Capacity, i : Nat, first : 0 .. Capacity, last : 0 .. Capacity,
          objs : Seq(Data)]
Labels == {"idle", "len", "reserve", "phead", "phead2", "walk", "walkn", "fill",
           "uhead", "uhead2", "link", "ucas", "ulen"}

\* The types of the stack's state; a list's count is never below zero.
StackType ==
  /\ head \in [List -> HeadWords] /\ len \in [List -> Nat]
  /\ next \in [Elem -> 0 .. Capacity] /\ data \in [Elem -> Data]
  /\ pc \in [Thread -> Labels] /\ loc \in [Thread -> Local]

\* Where an element may be: on a list, or in the hands of a call.
On(l) == <<"list", l>>
Of(t) == <<"call", t>>
Place == {On(l) : l \in List} \union {Of(t) : t \in Thread}

\* The elements of a place in their order, each in one place and once.
Spread(sq) ==
  /\ sq \in [Place -> Seq(Elem)]
  /\ \A p, q \in Place : \A i \in 1 .. Len(sq[p]), j \in 1 .. Len(sq[q]) :
       sq[p][i] = sq[q][j] => p = q /\ i = j
  /\ \A e \in Elem : \E p \in Place : \E i \in 1 .. Len(sq[p]) : sq[p][i] = e

\* The i-th element of a list, NULL past its end.
At(s, i) == IF i <= Len(s) THEN s[i] ELSE NULL

Linked(s) == \A i \in 1 .. Len(s) - 1 : next[s[i]] = s[i + 1]

\* A list is linked from its head to a NULL.
ListOK(s, l) ==
  /\ head[l].top = At(s, 1)
  /\ \A i \in 1 .. Len(s) : next[s[i]] = At(s, i + 1)

\* The elements of a call are linked from first to last, ...
OwnOK(s, t) ==
  IF Owning(t)
  THEN /\ loc[t].num > 0 /\ Len(s) = loc[t].num
       /\ Linked(s)
       /\ loc[t].first = s[1] /\ loc[t].last = s[loc[t].num]
       /\ pc[t] = "ucas" => next[loc[t].last] = loc[t].old.top
  ELSE s = <<>>

\* ... and the ones it has filled hold the objects of its table, the last first.
FillOK(s, t) ==
  loc[t].op = "push" /\ Owning(t) =>
    /\ pc[t] = "fill" => loc[t].i < loc[t].num /\ loc[t].tmp = s[loc[t].i + 1]
    /\ \A k \in 1 .. (IF pc[t] = "fill" THEN loc[t].i ELSE loc[t].num) :
         data[s[k]] = <<t, loc[t].num + 1 - k>>

\* The counter of a head that was read is not ahead of the list's: should the
\* two heads be equal, the list has not changed since, and the walk over it has
\* read what is there.
WalkOK(s, t) ==
  /\ pc[t] # "idle" => loc[t].num \in 1 .. MaxNum
  /\ pc[t] = "fill" => loc[t].op = "push"
  /\ pc[t] = "phead2" /\ loc[t].half = "cnt" => loc[t].old.cnt <= head[Src(t)].cnt
  /\ pc[t] \in {"walk", "walkn"} =>
       loc[t].old.cnt <= head[Src(t)].cnt /\ loc[t].i <= loc[t].num
  /\ pc[t] = "walkn" => loc[t].op = "pop" /\ loc[t].i < loc[t].num /\ loc[t].tmp # NULL
  /\ pc[t] \in {"walk", "walkn"} /\ head[Src(t)] = loc[t].old =>
       /\ loc[t].i <= Len(s)
       /\ loc[t].tmp = At(s, loc[t].i + 1)
       /\ loc[t].i > 0 => loc[t].last = s[loc[t].i]
       /\ loc[t].op = "pop" =>
            loc[t].objs = [k \in 1 .. loc[t].i + (IF pc[t] = "walkn" THEN 1 ELSE 0) |->
                             data[s[k]]]

\* A list has the elements its count says and those that are due: reserved and
\* not yet taken off it, or put on it and not yet counted.
DueFor(t, l) ==
  \/ Src(t) = l /\ pc[t] \in {"phead", "phead2", "walk", "walkn"}
  \/ Dst(t) = l /\ pc[t] = "ulen"
AllPairs == Thread \X (1 .. MaxNum)
Due(l) == {d \in AllPairs : d[2] <= loc[d[1]].num /\ DueFor(d[1], l)}

Holds(sq) ==
  /\ Spread(sq)
  /\ \A l \in List : ListOK(sq[On(l)], l) /\ Len(sq[On(l)]) = len[l] + Cardinality(Due(l))
  /\ \A t \in Thread :
       OwnOK(sq[Of(t)], t) /\ FillOK(sq[Of(t)], t) /\ WalkOK(sq[On(Src(t))], t)

\* The inductive invariant: some spread of the elements over the places agrees
\* with the heads, the links, the counts and what the calls have read.
StackInv == StackType /\ \E sq \in [Place -> Seq(Elem)] : Holds(sq)

-----------------------------------------------------------------------------
(* Sequences and places                                                     *)

\* Places are told apart.
LEMMA PlaceDistinct ==
  /\ \A l \in List : On(l) \in Place
  /\ \A t \in Thread : Of(t) \in Place
  /\ \A l \in List, t \in Thread : On(l) # Of(t)
  /\ \A l, k \in List : On(l) = On(k) => l = k
  /\ \A t, u \in Thread : Of(t) = Of(u) => t = u
  /\ \A p \in Place : (\E l \in List : p = On(l)) \/ (\E t \in Thread : p = Of(t))
<1>1. /\ \A l \in List : On(l) \in Place
      /\ \A t \in Thread : Of(t) \in Place
  BY Zenon DEF Place
<1>2. /\ \A l \in List, t \in Thread : On(l) # Of(t)
      /\ \A l, k \in List : On(l) = On(k) => l = k
      /\ \A t, u \in Thread : Of(t) = Of(u) => t = u
  BY SMT DEF On, Of
<1>3. \A p \in Place : (\E l \in List : p = On(l)) \/ (\E t \in Thread : p = Of(t))
  BY Zenon DEF Place
<1> QED  BY <1>1, <1>2, <1>3, Zenon

\* The elements of a place in a spread.
LEMMA SpreadElem ==
  ASSUME NEW sq, Spread(sq), NEW p \in Place
  PROVE  /\ sq[p] \in Seq(Elem) /\ Len(sq[p]) \in Nat
         /\ \A i \in 1 .. Len(sq[p]) : sq[p][i] \in Elem
<1>1. sq[p] \in Seq(Elem)
  BY Zenon DEF Spread
<1> QED  BY <1>1, SMT

\* No element is in two places, or twice in one.
LEMMA SpreadOnce ==
  ASSUME NEW sq, Spread(sq), NEW p \in Place, NEW q \in Place,
         NEW i \in 1 .. Len(sq[p]), NEW j \in 1 .. Len(sq[q]), sq[p][i] = sq[q][j]
  PROVE  p = q /\ i = j
BY SMT DEF Spread

\* The end of a sequence taken from its front, and what remains.
LEMMA Halves ==
  ASSUME NEW s \in Seq(Elem), NEW n \in 0 .. Len(s)
  PROVE  /\ SubSeq(s, 1, n) \in Seq(Elem) /\ Len(SubSeq(s, 1, n)) = n
         /\ \A i \in 1 .. n : SubSeq(s, 1, n)[i] = s[i]
         /\ SubSeq(s, n + 1, Len(s)) \in Seq(Elem)
         /\ Len(SubSeq(s, n + 1, Len(s))) = Len(s) - n
         /\ \A i \in 1 .. Len(s) - n : SubSeq(s, n + 1, Len(s))[i] = s[i + n]
<1>1. Len(s) \in Nat /\ \A i \in 1 .. Len(s) : s[i] \in Elem
  BY SMT
<1>2. /\ SubSeq(s, 1, n) \in Seq(Elem) /\ Len(SubSeq(s, 1, n)) = n
      /\ \A i \in 1 .. n : SubSeq(s, 1, n)[i] = s[i]
  BY <1>1, SMT
<1>3. SubSeq(s, n + 1, Len(s)) = [i \in 1 .. Len(s) - n |-> s[i + n]]
  BY <1>1, SMT
<1>4. /\ SubSeq(s, n + 1, Len(s)) \in Seq(Elem)
      /\ Len(SubSeq(s, n + 1, Len(s))) = Len(s) - n
      /\ \A i \in 1 .. Len(s) - n : SubSeq(s, n + 1, Len(s))[i] = s[i + n]
  BY <1>1, <1>3, SMT
<1> QED  BY <1>2, <1>4, Zenon

LEMMA Nothing == <<>> \in Seq(Elem) /\ Len(<<>>) = 0 /\ 1 .. 0 = {}
BY SMT

\* Two sequences one after the other.
LEMMA Joined ==
  ASSUME NEW s \in Seq(Elem), NEW r \in Seq(Elem)
  PROVE  /\ s \o r \in Seq(Elem) /\ Len(s \o r) = Len(s) + Len(r)
         /\ \A i \in 1 .. Len(s) : (s \o r)[i] = s[i]
         /\ \A i \in 1 .. Len(r) : (s \o r)[Len(s) + i] = r[i]
<1>1. Len(s) \in Nat /\ Len(r) \in Nat
  BY SMT
<1>2. s \o r \in Seq(Elem) /\ Len(s \o r) = Len(s) + Len(r)
  BY SMT
<1>3. \A i \in 1 .. Len(s) + Len(r) : (s \o r)[i] = IF i <= Len(s) THEN s[i] ELSE r[i - Len(s)]
  BY <1>1, SMT
<1> QED  BY <1>1, <1>2, <1>3, SMT

\* A pop takes a front of a list: the elements are still spread.
LEMMA SpreadPop ==
  ASSUME NEW sq, Spread(sq), NEW l \in Place, NEW c \in Place, l # c, sq[c] = <<>>,
         NEW n \in 0 .. Len(sq[l]),
         NEW sr, sr = [sq EXCEPT ![c] = SubSeq(sq[l], 1, n),
                                 ![l] = SubSeq(sq[l], n + 1, Len(sq[l]))]
  PROVE  Spread(sr)
<1>0. PICK s : s = sq[l]
  BY Zenon
<1>1. s \in Seq(Elem) /\ Len(s) \in Nat /\ n \in 0 .. Len(s) /\ n \in Nat
  <2>1. s \in Seq(Elem) /\ Len(s) \in Nat /\ n \in 0 .. Len(s)
    BY <1>0, SpreadElem, Zenon
  <2> QED  BY <2>1, SMT
<1>2. sq \in [Place -> Seq(Elem)]
  BY Zenon DEF Spread
<1>3. /\ sr[c] = SubSeq(s, 1, n) /\ sr[l] = SubSeq(s, n + 1, Len(s))
      /\ \A p \in Place : p # c /\ p # l => sr[p] = sq[p]
  BY <1>0, <1>2, Zenon
<1>4. /\ sr[c] \in Seq(Elem) /\ Len(sr[c]) = n
      /\ \A i \in 1 .. n : sr[c][i] = s[i]
      /\ sr[l] \in Seq(Elem) /\ Len(sr[l]) = Len(s) - n
      /\ \A i \in 1 .. Len(s) - n : sr[l][i] = s[i + n]
  <2>1. /\ SubSeq(s, 1, n) \in Seq(Elem) /\ Len(SubSeq(s, 1, n)) = n
        /\ \A i \in 1 .. n : SubSeq(s, 1, n)[i] = s[i]
        /\ SubSeq(s, n + 1, Len(s)) \in Seq(Elem)
        /\ Len(SubSeq(s, n + 1, Len(s))) = Len(s) - n
        /\ \A i \in 1 .. Len(s) - n : SubSeq(s, n + 1, Len(s))[i] = s[i + n]
    BY <1>1, Halves, Zenon
  <2> QED  BY <1>3, <2>1, Zenon
<1>5. sr \in [Place -> Seq(Elem)]
  BY <1>2, <1>3, <1>4, Zenon
<1>6. ASSUME NEW p \in Place, NEW i \in 1 .. Len(sr[p])
      PROVE  \E q \in Place : \E j \in 1 .. Len(sq[q]) :
               /\ sr[p][i] = sq[q][j]
               /\ IF p = c THEN q = l /\ j = i /\ i <= n
                  ELSE q = p /\ j = IF p = l THEN i + n ELSE i
  <2>1. CASE p = c
    <3>1. i \in 1 .. n
      BY <1>4, <2>1, Zenon
    <3>2. i \in 1 .. Len(s) /\ i <= n
      BY <1>1, <3>1, SMT
    <3> QED  BY <1>0, <1>4, <2>1, <3>1, <3>2, Zenon
  <2>2. CASE p = l
    <3>1. i \in 1 .. Len(s) - n
      BY <1>4, <2>2, Zenon
    <3>2. i + n \in 1 .. Len(s)
      BY <1>1, <3>1, SMT
    <3> QED  BY <1>0, <1>4, <2>2, <3>1, <3>2, Zenon
  <2>3. CASE p # l /\ p # c
    BY <1>3, <2>3, Zenon
  <2> QED  BY <2>1, <2>2, <2>3, Zenon
<1>7. ASSUME NEW p \in Place, NEW q \in Place, NEW i \in 1 .. Len(sr[p]),
             NEW j \in 1 .. Len(sr[q]), sr[p][i] = sr[q][j]
      PROVE  p = q /\ i = j
  <2>1. PICK p1 \in Place : \E i1 \in 1 .. Len(sq[p1]) :
               /\ sr[p][i] = sq[p1][i1]
               /\ IF p = c THEN p1 = l /\ i1 = i /\ i <= n
                  ELSE p1 = p /\ i1 = IF p = l THEN i + n ELSE i
    BY <1>6, Zenon
  <2>2. PICK i1 \in 1 .. Len(sq[p1]) :
               /\ sr[p][i] = sq[p1][i1]
               /\ IF p = c THEN p1 = l /\ i1 = i /\ i <= n
                  ELSE p1 = p /\ i1 = IF p = l THEN i + n ELSE i
    BY <2>1, Zenon
  <2>3. PICK q1 \in Place : \E j1 \in 1 .. Len(sq[q1]) :
               /\ sr[q][j] = sq[q1][j1]
               /\ IF q = c THEN q1 = l /\ j1 = j /\ j <= n
                  ELSE q1 = q /\ j1 = IF q = l THEN j + n ELSE j
    BY <1>6, Zenon
  <2>4. PICK j1 \in 1 .. Len(sq[q1]) :
               /\ sr[q][j] = sq[q1][j1]
               /\ IF q = c THEN q1 = l /\ j1 = j /\ j <= n
                  ELSE q1 = q /\ j1 = IF q = l THEN j + n ELSE j
    BY <2>3, Zenon
  <2>5. p1 = q1 /\ i1 = j1
    <3>1. sq[p1][i1] = sq[q1][j1]
      BY <1>7, <2>2, <2>4, Zenon
    <3> QED  BY <3>1, SMT DEF Spread
  <2>6. i \in Nat /\ j \in Nat /\ i >= 1 /\ j >= 1
    BY SMT
  <2> QED  BY <1>1, <2>2, <2>4, <2>5, <2>6, SMT
<1>8. ASSUME NEW e \in Elem
      PROVE  \E p \in Place : \E i \in 1 .. Len(sr[p]) : sr[p][i] = e
  <2>1. PICK p \in Place : \E i \in 1 .. Len(sq[p]) : sq[p][i] = e
    BY Zenon DEF Spread
  <2>2. PICK i \in 1 .. Len(sq[p]) : sq[p][i] = e
    BY <2>1, Zenon
  <2>3. p # c
    <3>1. Len(sq[c]) = 0
      BY SMT
    <3> QED  BY <3>1, <2>2, SMT
  <2>4. CASE p # l
    BY <1>3, <2>2, <2>3, <2>4, Zenon
  <2>5. CASE p = l /\ i <= n
    <3>1. i \in 1 .. n
      BY <1>1, <2>5, SMT
    <3> QED  BY <1>0, <1>4, <2>2, <2>5, <3>1, Zenon
  <2>6. CASE p = l /\ ~ (i <= n)
    <3>1. i - n \in 1 .. Len(sr[l]) /\ i - n + n = i
      BY <1>0, <1>1, <1>4, <2>2, <2>6, SMT
    <3>2. sr[l][i - n] = s[i - n + n]
      BY <1>4, <3>1, Zenon
    <3>3. sr[l][i - n] = e
      BY <1>0, <2>2, <2>6, <3>1, <3>2, Zenon
    <3> QED  BY <3>1, <3>3, Zenon
  <2> QED  BY <2>4, <2>5, <2>6, Zenon
<1> QED  BY <1>5, <1>7, <1>8, Zenon DEF Spread

\* A push puts a call's elements before a list: the elements are still spread.
LEMMA SpreadPush ==
  ASSUME NEW sq, Spread(sq), NEW l \in Place, NEW c \in Place, l # c,
         NEW sr, sr = [sq EXCEPT ![l] = sq[c] \o sq[l], ![c] = <<>>]
  PROVE  Spread(sr)
<1>0. PICK s : s = sq[l]
  BY Zenon
<1>1. PICK r : r = sq[c]
  BY Zenon
<1>2. s \in Seq(Elem) /\ r \in Seq(Elem) /\ Len(s) \in Nat /\ Len(r) \in Nat
  BY <1>0, <1>1, SpreadElem, Zenon
<1>3. sq \in [Place -> Seq(Elem)]
  BY Zenon DEF Spread
<1>4. /\ sr[l] = r \o s /\ sr[c] = <<>>
      /\ \A p \in Place : p # c /\ p # l => sr[p] = sq[p]
  BY <1>0, <1>1, <1>3, Zenon
<1>5. /\ r \o s \in Seq(Elem) /\ Len(r \o s) = Len(r) + Len(s)
      /\ \A i \in 1 .. Len(r) : (r \o s)[i] = r[i]
      /\ \A i \in 1 .. Len(s) : (r \o s)[Len(r) + i] = s[i]
  BY <1>2, Joined, Zenon
<1>6. /\ sr[l] \in Seq(Elem) /\ Len(sr[l]) = Len(r) + Len(s)
      /\ \A i \in 1 .. Len(r) : sr[l][i] = r[i]
      /\ \A i \in 1 .. Len(s) : sr[l][Len(r) + i] = s[i]
  BY <1>4, <1>5, Zenon
<1>7. sr[c] \in Seq(Elem) /\ Len(sr[c]) = 0
  BY <1>4, Nothing, Zenon
<1>8. sr \in [Place -> Seq(Elem)]
  BY <1>3, <1>4, <1>6, <1>7, Zenon
<1>9. ASSUME NEW p \in Place, NEW i \in 1 .. Len(sr[p])
      PROVE  /\ p # c
             /\ \E q \in Place : \E j \in 1 .. Len(sq[q]) :
                  /\ sr[p][i] = sq[q][j]
                  /\ \/ p = l /\ q = c /\ j = i
                     \/ p = l /\ q = l /\ i = Len(r) + j
                     \/ p # l /\ q = p /\ q # c /\ j = i
  <2>1. p # c
    BY <1>7, Nothing, Zenon
  <2>2. CASE p = l /\ i \in 1 .. Len(r)
    BY <1>1, <1>6, <2>1, <2>2, Zenon
  <2>3. CASE p = l /\ ~ (i \in 1 .. Len(r))
    <3>1. i - Len(r) \in 1 .. Len(s) /\ i = Len(r) + (i - Len(r))
      BY <1>2, <1>6, <2>3, SMT
    <3>2. PICK j \in 1 .. Len(s) : i = Len(r) + j
      BY <3>1, Zenon
    <3>3. sr[p][i] = s[j]
      BY <1>6, <2>3, <3>2, Zenon
    <3> QED  BY <1>0, <2>1, <2>3, <3>2, <3>3, Zenon
  <2>4. CASE p # l
    BY <1>4, <2>1, <2>4, Zenon
  <2> QED  BY <2>2, <2>3, <2>4, Zenon
<1>10. ASSUME NEW p \in Place, NEW q \in Place, NEW i \in 1 .. Len(sr[p]),
              NEW j \in 1 .. Len(sr[q]), sr[p][i] = sr[q][j]
       PROVE  p = q /\ i = j
  <2>1. PICK p1, i1 :
                  /\ p1 \in Place /\ i1 \in 1 .. Len(sq[p1])
                  /\ sr[p][i] = sq[p1][i1]
                  /\ \/ p = l /\ p1 = c /\ i1 = i
                     \/ p = l /\ p1 = l /\ i = Len(r) + i1
                     \/ p # l /\ p1 = p /\ p1 # c /\ i1 = i
    <3>1. PICK p2 \in Place : \E i1 \in 1 .. Len(sq[p2]) :
                  /\ sr[p][i] = sq[p2][i1]
                  /\ \/ p = l /\ p2 = c /\ i1 = i
                     \/ p = l /\ p2 = l /\ i = Len(r) + i1
                     \/ p # l /\ p2 = p /\ p2 # c /\ i1 = i
      BY <1>9, Zenon
    <3> QED  BY <3>1, Zenon
  <2>2. PICK q1, j1 :
                  /\ q1 \in Place /\ j1 \in 1 .. Len(sq[q1])
                  /\ sr[q][j] = sq[q1][j1]
                  /\ \/ q = l /\ q1 = c /\ j1 = j
                     \/ q = l /\ q1 = l /\ j = Len(r) + j1
                     \/ q # l /\ q1 = q /\ q1 # c /\ j1 = j
    <3>1. PICK q2 \in Place : \E j1 \in 1 .. Len(sq[q2]) :
                  /\ sr[q][j] = sq[q2][j1]
                  /\ \/ q = l /\ q2 = c /\ j1 = j
                     \/ q = l /\ q2 = l /\ j = Len(r) + j1
                     \/ q # l /\ q2 = q /\ q2 # c /\ j1 = j
      BY <1>9, Zenon
    <3> QED  BY <3>1, Zenon
  <2>3. sq[p1][i1] = sq[q1][j1]
    BY <1>10, <2>1, <2>2, Zenon
  <2>4. p1 = q1 /\ i1 = j1
    BY <2>1, <2>2, <2>3, SMT DEF Spread
  <2> QED  BY <2>1, <2>2, <2>4, Zenon
<1>11. ASSUME NEW e \in Elem
       PROVE  \E p \in Place : \E i \in 1 .. Len(sr[p]) : sr[p][i] = e
  <2>1. PICK p \in Place : \E i \in 1 .. Len(sq[p]) : sq[p][i] = e
    BY Zenon DEF Spread
  <2>2. PICK i \in 1 .. Len(sq[p]) : sq[p][i] = e
    BY <2>1, Zenon
  <2>3. CASE p # l /\ p # c
    BY <1>4, <2>2, <2>3, Zenon
  <2>4. CASE p = l
    <3>1. Len(r) + i \in 1 .. Len(sr[l])
      BY <1>0, <1>2, <1>6, <2>4, SMT
    <3>2. i \in 1 .. Len(s) /\ s[i] = e
      BY <1>0, <2>2, <2>4, Zenon
    <3> QED  BY <1>6, <3>1, <3>2, Zenon
  <2>5. CASE p = c
    <3>1. i \in 1 .. Len(sr[l])
      BY <1>1, <1>2, <1>6, <2>5, SMT
    <3>2. i \in 1 .. Len(r) /\ r[i] = e
      BY <1>1, <2>2, <2>5, Zenon
    <3> QED  BY <1>6, <3>1, <3>2, Zenon
  <2> QED  BY <2>3, <2>4, <2>5, Zenon
<1> QED  BY <1>8, <1>10, <1>11, Zenon DEF Spread

-----------------------------------------------------------------------------
(* Elements that are due                                                    *)

\* The pairs of a call for n elements.
Pairs(t, n) == {t} \X (1 .. n)

LEMMA PairsCount ==
  ASSUME NEW t, NEW n \in Nat
  PROVE  IsFiniteSet(Pairs(t, n)) /\ Cardinality(Pairs(t, n)) = n
<1>1. IsFiniteSet({t}) /\ Cardinality({t}) = 1
  BY FS_Singleton, Zenon
<1>2. IsFiniteSet(1 .. n) /\ Cardinality(1 .. n) = n
  BY FS_Interval, SMT
<1>3. IsFiniteSet({t} \X (1 .. n)) /\ Cardinality({t} \X (1 .. n)) = 1 * n
  BY <1>1, <1>2, FS_Product, ZenonT(60)
<1> QED  BY <1>3, SMT DEF Pairs

\* What is due is a set of pairs.
LEMMA AllPairsFinite ==
  ASSUME NEW D, D \subseteq AllPairs
  PROVE  IsFiniteSet(D) /\ Cardinality(D) \in Nat
<1>1. IsFiniteSet(1 .. MaxNum)
  BY StackSizes, FS_Interval, SMT
<1>2. IsFiniteSet(AllPairs)
  BY <1>1, StackThreads, FS_Product, Zenon DEF AllPairs
<1>3. IsFiniteSet(D)
  BY <1>2, FS_Subset, Zenon
<1> QED  BY <1>3, FS_CardinalityType, Zenon

\* The pairs of one more call.
LEMMA DueMore ==
  ASSUME NEW D, D \subseteq AllPairs, NEW t, NEW n \in Nat, D \intersect Pairs(t, n) = {},
         NEW E, E = D \union Pairs(t, n)
  PROVE  Cardinality(E) = Cardinality(D) + n
<1>1. IsFiniteSet(D) /\ Cardinality(D) \in Nat
  BY AllPairsFinite, Zenon
<1>2. IsFiniteSet(Pairs(t, n)) /\ Cardinality(Pairs(t, n)) = n
  BY PairsCount, Zenon
<1>3. Cardinality(E) = Cardinality(D) + Cardinality(Pairs(t, n)) - Cardinality(D \intersect Pairs(t, n))
  BY <1>1, <1>2, FS_Union, Zenon
<1>4. Cardinality(D \intersect Pairs(t, n)) = 0
  BY FS_EmptySet, Zenon
<1> QED  BY <1>1, <1>2, <1>3, <1>4, SMT


\* A step of one call leaves the others where they are.
Others(t) == \A u \in Thread : u # t => pc'[u] = pc[u] /\ loc'[u] = loc[u]

LEMMA DueOther ==
  ASSUME NEW t \in Thread, Others(t), NEW l, NEW u \in Thread, u # t
  PROVE  loc'[u].num = loc[u].num /\ (DueFor(u, l)' <=> DueFor(u, l))
BY Zenon DEF Others, DueFor, Src, Dst

LEMMA DueKeep ==
  ASSUME NEW t \in Thread, Others(t), NEW l, DueFor(t, l)' <=> DueFor(t, l),
         loc'[t].num = loc[t].num \/ ~ DueFor(t, l)
  PROVE  Due(l)' = Due(l)
<1>1. ASSUME NEW d \in AllPairs
      PROVE  (d[2] <= loc'[d[1]].num /\ DueFor(d[1], l)') <=> (d[2] <= loc[d[1]].num /\ DueFor(d[1], l))
  <2>1. d[1] \in Thread
    BY SMT DEF AllPairs
  <2> QED  BY <2>1, DueOther, Zenon
<1>2. Due(l)' = {d \in AllPairs : d[2] <= loc'[d[1]].num /\ DueFor(d[1], l)'}
  BY Zenon DEF Due, AllPairs
<1> QED  BY <1>1, <1>2, Zenon DEF Due

\* The call at t has pairs that are due, or none.
LEMMA DueGain ==
  ASSUME NEW t \in Thread, Others(t), NEW l, ~ DueFor(t, l), DueFor(t, l)',
         NEW n \in 1 .. MaxNum, loc'[t].num = n
  PROVE  Cardinality(Due(l)') = Cardinality(Due(l)) + n
<1>1. ASSUME NEW d \in AllPairs
      PROVE  (d[2] <= loc'[d[1]].num /\ DueFor(d[1], l)')
               <=> (d[2] <= loc[d[1]].num /\ DueFor(d[1], l)) \/ (d[1] = t /\ d[2] <= n)
  <2>1. d[1] \in Thread
    BY SMT DEF AllPairs
  <2> QED  BY <2>1, DueOther, Zenon
<1>2. Due(l)' = {d \in AllPairs : d[2] <= loc'[d[1]].num /\ DueFor(d[1], l)'}
  BY Zenon DEF Due, AllPairs
<1>3. {d \in AllPairs : d[1] = t /\ d[2] <= n} = Pairs(t, n)
  <2>1. MaxNum \in Nat
    BY StackSizes, Zenon
  <2>2. n <= MaxNum /\ n \in Nat
    BY <2>1, SMT
  <2>3. ASSUME NEW d \in Pairs(t, n) PROVE d \in AllPairs /\ d[1] = t /\ d[2] <= n
    BY <2>1, <2>2, SMT DEF AllPairs, Pairs
  <2>4. ASSUME NEW d \in AllPairs, d[1] = t, d[2] <= n PROVE d \in Pairs(t, n)
    BY <2>1, <2>2, <2>4, SMT DEF AllPairs, Pairs
  <2> QED  BY <2>3, <2>4, Zenon
<1>4. Due(l)' = Due(l) \union Pairs(t, n)
  BY <1>1, <1>2, <1>3, Zenon DEF Due
<1>5. Due(l) \intersect Pairs(t, n) = {}
  <2>1. ASSUME NEW d \in Due(l) PROVE d[1] # t
    BY <2>1, Zenon DEF Due
  <2>2. ASSUME NEW d \in Pairs(t, n) PROVE d[1] = t
    BY SMT DEF Pairs
  <2> QED  BY <2>1, <2>2, Zenon
<1>6. Due(l) \subseteq AllPairs /\ n \in Nat
  BY StackSizes, SMT DEF Due
<1> QED  BY <1>4, <1>5, <1>6, DueMore, Zenon

LEMMA DueLose ==
  ASSUME NEW t \in Thread, Others(t), NEW l, DueFor(t, l), ~ DueFor(t, l)',
         NEW n \in 1 .. MaxNum, loc[t].num = n
  PROVE  Cardinality(Due(l)) = Cardinality(Due(l)') + n
<1>1. ASSUME NEW d \in AllPairs
      PROVE  (d[2] <= loc[d[1]].num /\ DueFor(d[1], l))
               <=> (d[2] <= loc'[d[1]].num /\ DueFor(d[1], l)') \/ (d[1] = t /\ d[2] <= n)
  <2>1. d[1] \in Thread
    BY SMT DEF AllPairs
  <2> QED  BY <2>1, DueOther, Zenon
<1>2. Due(l)' = {d \in AllPairs : d[2] <= loc'[d[1]].num /\ DueFor(d[1], l)'}
  BY Zenon DEF Due, AllPairs
<1>3. {d \in AllPairs : d[1] = t /\ d[2] <= n} = Pairs(t, n)
  <2>1. MaxNum \in Nat
    BY StackSizes, Zenon
  <2>2. n <= MaxNum /\ n \in Nat
    BY <2>1, SMT
  <2>3. ASSUME NEW d \in Pairs(t, n) PROVE d \in AllPairs /\ d[1] = t /\ d[2] <= n
    BY <2>1, <2>2, SMT DEF AllPairs, Pairs
  <2>4. ASSUME NEW d \in AllPairs, d[1] = t, d[2] <= n PROVE d \in Pairs(t, n)
    BY <2>1, <2>2, <2>4, SMT DEF AllPairs, Pairs
  <2> QED  BY <2>3, <2>4, Zenon
<1>4. Due(l) = Due(l)' \union Pairs(t, n)
  BY <1>1, <1>2, <1>3, Zenon DEF Due
<1>5. Due(l)' \intersect Pairs(t, n) = {}
  <2>1. ASSUME NEW d \in Due(l)' PROVE d[1] # t
    BY <1>2, <2>1, Zenon
  <2>2. ASSUME NEW d \in Pairs(t, n) PROVE d[1] = t
    BY SMT DEF Pairs
  <2> QED  BY <2>1, <2>2, Zenon
<1>6. Due(l)' \subseteq AllPairs /\ n \in Nat
  BY <1>2, StackSizes, SMT
<1> QED  BY <1>4, <1>5, <1>6, DueMore, Zenon

-----------------------------------------------------------------------------
(* What a step of another call leaves as it is                              *)

LEMMA KeepList ==
  ASSUME NEW l, NEW s, ListOK(s, l), head'[l] = head[l],
         \A i \in 1 .. Len(s) : next'[s[i]] = next[s[i]]
  PROVE  ListOK(s, l)'
BY SMT DEF ListOK, At

LEMMA KeepOwn ==
  ASSUME NEW t, NEW s \in Seq(Elem), OwnOK(s, t), pc'[t] = pc[t], loc'[t] = loc[t],
         \A i \in 1 .. Len(s) : next'[s[i]] = next[s[i]]
  PROVE  OwnOK(s, t)'
<1>1. CASE ~ Owning(t)
  BY <1>1, Zenon DEF OwnOK, Owning
<1>2. CASE Owning(t)
  <2>1. /\ Len(s) = loc[t].num /\ Len(s) > 0 /\ Linked(s)
        /\ loc[t].first = s[1] /\ loc[t].last = s[loc[t].num]
        /\ pc[t] = "ucas" => next[loc[t].last] = loc[t].old.top
    BY <1>2, Zenon DEF OwnOK
  <2>2. \A i \in 1 .. Len(s) - 1 : i \in 1 .. Len(s)
    BY SMT
  <2>3. Linked(s)'
    BY <2>1, <2>2, Zenon DEF Linked
  <2>4. loc[t].num \in 1 .. Len(s)
    BY <2>1, SMT
  <2>5. next'[loc[t].last] = next[loc[t].last]
    <3>1. next'[s[loc[t].num]] = next[s[loc[t].num]]
      BY <2>4, Zenon
    <3> QED  BY <2>1, <3>1, Zenon
  <2>6. Owning(t)'
    BY <1>2, Zenon DEF Owning
  <2> QED  BY <2>1, <2>3, <2>5, <2>6, Zenon DEF OwnOK
<1> QED  BY <1>1, <1>2, Zenon

LEMMA KeepFill ==
  ASSUME NEW t \in Thread, NEW s \in Seq(Elem), StackType, OwnOK(s, t), FillOK(s, t),
         pc'[t] = pc[t], loc'[t] = loc[t],
         \A i \in 1 .. Len(s) : data'[s[i]] = data[s[i]]
  PROVE  FillOK(s, t)'
<1> SUFFICES ASSUME loc[t].op = "push", Owning(t) PROVE FillOK(s, t)'
  BY Zenon DEF FillOK, Owning
<1>1. Len(s) = loc[t].num /\ loc[t].i \in Nat
  BY Zenon DEF OwnOK, StackType, Local
<1>2. \A k \in 1 .. (IF pc[t] = "fill" THEN loc[t].i ELSE loc[t].num) : k \in 1 .. Len(s)
  <2>1. pc[t] = "fill" => loc[t].i < loc[t].num
    BY Zenon DEF FillOK
  <2> QED  BY <1>1, <2>1, SMT
<1> QED  BY <1>2, Zenon DEF FillOK


\* The list a call walks over is the one it saw, ...
LEMMA KeepWalk ==
  ASSUME NEW t \in Thread, NEW s \in Seq(Elem), StackType, WalkOK(s, t),
         pc'[t] = pc[t], loc'[t] = loc[t], head'[Src(t)] = head[Src(t)],
         \A i \in 1 .. Len(s) : data'[s[i]] = data[s[i]]
  PROVE  WalkOK(s, t)'
<1>1. Src(t)' = Src(t)
  BY Zenon DEF Src
<1>2. ASSUME pc[t] \in {"walk", "walkn"}, head[Src(t)] = loc[t].old, loc[t].op = "pop"
      PROVE  loc[t].objs = [k \in 1 .. loc[t].i + (IF pc[t] = "walkn" THEN 1 ELSE 0) |-> data'[s[k]]]
  <2>1. /\ loc[t].i <= Len(s) /\ loc[t].tmp = At(s, loc[t].i + 1)
        /\ loc[t].objs = [k \in 1 .. loc[t].i + (IF pc[t] = "walkn" THEN 1 ELSE 0) |-> data[s[k]]]
        /\ pc[t] = "walkn" => loc[t].tmp # NULL
    BY <1>2, Zenon DEF WalkOK
  <2>2. loc[t].i \in Nat
    BY Zenon DEF StackType, Local
  <2>3. pc[t] = "walkn" => loc[t].i + 1 <= Len(s)
    BY <2>1, Zenon DEF At
  <2>4. \A k \in 1 .. loc[t].i + (IF pc[t] = "walkn" THEN 1 ELSE 0) : k \in 1 .. Len(s)
    BY <2>1, <2>2, <2>3, SMT
  <2> QED  BY <2>1, <2>4, Zenon
<1>3. pc[t] \in {"walk", "walkn"} /\ head[Src(t)] = loc[t].old =>
        /\ loc[t].i <= Len(s) /\ loc[t].tmp = At(s, loc[t].i + 1)
        /\ loc[t].i > 0 => loc[t].last = s[loc[t].i]
  BY Zenon DEF WalkOK
<1>4. /\ pc[t] # "idle" => loc[t].num \in 1 .. MaxNum
      /\ pc[t] = "fill" => loc[t].op = "push"
      /\ pc[t] = "phead2" /\ loc[t].half = "cnt" => loc[t].old.cnt <= head[Src(t)].cnt
      /\ pc[t] \in {"walk", "walkn"} =>
           loc[t].old.cnt <= head[Src(t)].cnt /\ loc[t].i <= loc[t].num
      /\ pc[t] = "walkn" => loc[t].op = "pop" /\ loc[t].i < loc[t].num /\ loc[t].tmp # NULL
  BY Zenon DEF WalkOK
<1> QED  BY <1>1, <1>2, <1>3, <1>4, Zenon DEF WalkOK

\* ... or its head has moved on, and the compare-and-swap will fail.
LEMMA MovedWalk ==
  ASSUME NEW t \in Thread, NEW s, NEW r, StackType, StackType', WalkOK(s, t),
         pc'[t] = pc[t], loc'[t] = loc[t],
         head'[Src(t)].cnt > head[Src(t)].cnt
  PROVE  WalkOK(r, t)'
<1>1. Src(t)' = Src(t) /\ Src(t) \in List
  BY Zenon DEF Src, List
<1>2. /\ pc[t] # "idle" => loc[t].num \in 1 .. MaxNum
      /\ pc[t] = "fill" => loc[t].op = "push"
      /\ pc[t] = "phead2" /\ loc[t].half = "cnt" => loc[t].old.cnt <= head[Src(t)].cnt
      /\ pc[t] \in {"walk", "walkn"} =>
           loc[t].old.cnt <= head[Src(t)].cnt /\ loc[t].i <= loc[t].num
      /\ pc[t] = "walkn" => loc[t].op = "pop" /\ loc[t].i < loc[t].num /\ loc[t].tmp # NULL
  BY Zenon DEF WalkOK
<1>3. head[Src(t)].cnt \in Nat /\ head'[Src(t)].cnt \in Nat /\ loc[t].old.cnt \in Nat
  BY <1>1, Zenon DEF StackType, Local, HeadWords
<1>4. loc[t].old.cnt <= head[Src(t)].cnt =>
        loc[t].old.cnt <= head'[Src(t)].cnt /\ loc[t].old.cnt # head'[Src(t)].cnt
  BY <1>3, SMT
<1> QED  BY <1>1, <1>2, <1>4, Zenon DEF WalkOK

\* A step that leaves the heads alone, and of the elements changes only its own.
LEMMA OwnStep ==
  ASSUME NEW t \in Thread, NEW sq, StackType, Holds(sq), Others(t), UNCHANGED head,
         \A p \in Place : p # Of(t) =>
           \A i \in 1 .. Len(sq[p]) : next'[sq[p][i]] = next[sq[p][i]] /\ data'[sq[p][i]] = data[sq[p][i]],
         \A l \in List : Len(sq[On(l)]) = len'[l] + Cardinality(Due(l)'),
         OwnOK(sq[Of(t)], t)', FillOK(sq[Of(t)], t)', WalkOK(sq[On(Src(t))], t)'
  PROVE  Holds(sq)'
<1>1. Spread(sq)'
  BY Zenon DEF Holds, Spread, Place, Elem, On, Of
<1>2. ASSUME NEW l \in List PROVE ListOK(sq[On(l)], l)'
  <2>1. On(l) \in Place /\ On(l) # Of(t)
    BY PlaceDistinct, Zenon
  <2>2. \A i \in 1 .. Len(sq[On(l)]) : next'[sq[On(l)][i]] = next[sq[On(l)][i]]
    BY <2>1, Zenon
  <2> QED  BY <2>2, KeepList, Zenon DEF Holds
<1>3. ASSUME NEW u \in Thread
      PROVE  OwnOK(sq[Of(u)], u)' /\ FillOK(sq[Of(u)], u)' /\ WalkOK(sq[On(Src(u))], u)'
  <2>1. CASE u = t
    BY <2>1, Zenon
  <2>2. CASE u # t
    <3>1. pc'[u] = pc[u] /\ loc'[u] = loc[u]
      BY <2>2, Zenon DEF Others
    <3>2. Src(u)' = Src(u) /\ Src(u) \in List
      BY <3>1, Zenon DEF Src, List
    <3>3. On(Src(u)) \in Place /\ Of(u) \in Place /\ On(Src(u)) # Of(t) /\ Of(u) # Of(t)
      BY <2>2, <3>2, PlaceDistinct, Zenon
    <3>4. sq[On(Src(u))] \in Seq(Elem) /\ sq[Of(u)] \in Seq(Elem)
      BY <3>3, SpreadElem, Zenon DEF Holds
    <3>5. OwnOK(sq[Of(u)], u) /\ FillOK(sq[Of(u)], u) /\ WalkOK(sq[On(Src(u))], u)
      BY Zenon DEF Holds
    <3>6. OwnOK(sq[Of(u)], u)'
      BY <3>1, <3>3, <3>4, <3>5, KeepOwn, Zenon
    <3>7. FillOK(sq[Of(u)], u)'
      BY <3>1, <3>3, <3>4, <3>5, KeepFill, Zenon
    <3>8. WalkOK(sq[On(Src(u))], u)'
      <4>1. PICK s : s = sq[On(Src(u))]
        BY Zenon
      <4>2. \A i \in 1 .. Len(s) : data'[s[i]] = data[s[i]]
        BY <3>3, <4>1, Zenon
      <4>3. WalkOK(s, u)'
        BY <3>1, <3>4, <3>5, <4>1, <4>2, KeepWalk, Zenon
      <4> QED  BY <3>2, <4>1, <4>3, Zenon
    <3> QED  BY <3>6, <3>7, <3>8, Zenon
  <2> QED  BY <2>1, <2>2, Zenon
<1> QED  BY <1>1, <1>2, <1>3, Zenon DEF Holds

\* A step that only changes the locals of its call.
LEMMA LocalStep ==
  ASSUME NEW t \in Thread, NEW sq, StackType, Holds(sq), Others(t),
         UNCHANGED <<head, len, next, data>>,
         \A l \in List : DueFor(t, l)' <=> DueFor(t, l),
         loc'[t].num = loc[t].num \/ \A l \in List : ~ DueFor(t, l),
         OwnOK(sq[Of(t)], t)', FillOK(sq[Of(t)], t)', WalkOK(sq[On(Src(t))], t)'
  PROVE  Holds(sq)'
<1>1. ASSUME NEW l \in List PROVE Len(sq[On(l)]) = len'[l] + Cardinality(Due(l)')
  <2>1. Due(l)' = Due(l)
    BY DueKeep, Zenon
  <2> QED  BY <2>1, Zenon DEF Holds
<1> QED  BY <1>1, OwnStep, Zenon

-----------------------------------------------------------------------------
(* The steps of a call                                                      *)

LEMMA LocalFields ==
  ASSUME StackType, NEW t \in Thread
  PROVE  /\ loc[t] \in Local /\ pc[t] \in Labels
         /\ loc[t].op \in Op /\ loc[t].num \in Nat /\ loc[t].ln \in Nat
         /\ loc[t].old \in HeadWords /\ loc[t].half \in {"top", "cnt"}
         /\ loc[t].tmp \in 0 .. Capacity /\ loc[t].i \in Nat
         /\ loc[t].first \in 0 .. Capacity /\ loc[t].last \in 0 .. Capacity
         /\ loc[t].objs \in Seq(Data)
         /\ Src(t) \in List /\ Dst(t) \in List /\ Src(t) # Dst(t)
<1>1. loc[t] \in Local /\ pc[t] \in Labels
  BY Zenon DEF StackType
<1>2. Src(t) \in List /\ Dst(t) \in List /\ Src(t) # Dst(t)
  BY Zenon DEF Src, Dst, List
<1> QED  BY <1>1, <1>2, Zenon DEF Local

LEMMA Moves ==
  ASSUME StackType, NEW t \in Thread, NEW v \in Local, NEW q \in Labels,
         pc' = [pc EXCEPT ![t] = q], loc' = [loc EXCEPT ![t] = v]
  PROVE  /\ pc' \in [Thread -> Labels] /\ loc' \in [Thread -> Local]
         /\ pc'[t] = q /\ loc'[t] = v /\ Others(t)
BY Zenon DEF StackType, Others

LEMMA LocalType ==
  ASSUME StackType, NEW t \in Thread, NEW v \in Local, NEW q \in Labels,
         pc' = [pc EXCEPT ![t] = q], loc' = [loc EXCEPT ![t] = v],
         UNCHANGED <<head, len, next, data>>
  PROVE  /\ StackType' /\ pc'[t] = q /\ loc'[t] = v /\ Others(t)
BY Moves, Zenon DEF StackType

LEMMA NoLocalOK == NoLocal \in Local
<1>1. NoObj = <<>> /\ <<>> \in Seq(Data)
  BY SMT DEF NoObj
<1> QED  BY <1>1, StackSizes, SMT DEF NoLocal, Local, Op, HeadWords, NULL

LEMMA CallInv ==
  ASSUME NEW t \in Thread, NEW op \in Op, NEW num \in 1 .. MaxNum, StackInv, Call(t, op, num)
  PROVE  StackInv'
<1>1. PICK sq \in [Place -> Seq(Elem)] : Holds(sq)
  BY Zenon DEF StackInv
<1>2. StackType
  BY Zenon DEF StackInv
<1>3. PICK v : v = [NoLocal EXCEPT !.op = op, !.num = num]
  BY Zenon
<1>4. v \in Local /\ v.op = op /\ v.num = num
  <2>1. num \in Nat
    BY StackSizes, SMT
  <2> QED  BY <1>3, <2>1, NoLocalOK, Zenon DEF Local
<1>5. /\ pc' = [pc EXCEPT ![t] = "len"] /\ loc' = [loc EXCEPT ![t] = v]
      /\ pc[t] = "idle" /\ UNCHANGED <<head, len, next, data>>
  BY <1>3, Zenon DEF Call, Goto
<1>6. StackType' /\ pc'[t] = "len" /\ loc'[t] = v /\ Others(t)
  BY <1>2, <1>4, <1>5, LocalType, Zenon DEF Labels
<1>7. \A l \in List : ~ DueFor(t, l)' /\ ~ DueFor(t, l)
  BY <1>5, <1>6, SMT DEF DueFor
<1>8. ~ Owning(t) /\ ~ Owning(t)'
  BY <1>5, <1>6, SMT DEF Owning
<1>9. OwnOK(sq[Of(t)], t)' /\ FillOK(sq[Of(t)], t)'
  <2>1. OwnOK(sq[Of(t)], t)
    BY <1>1, Zenon DEF Holds
  <2> QED  BY <1>8, <2>1, Zenon DEF OwnOK, FillOK
<1>10. WalkOK(sq[On(Src(t))], t)'
  BY <1>4, <1>6, SMT DEF WalkOK
<1>11. Holds(sq)'
  BY <1>1, <1>2, <1>5, <1>6, <1>7, <1>9, <1>10, LocalStep, Zenon
<1> QED  BY <1>6, <1>11, Zenon DEF StackInv, Place, Elem, On, Of


\* pc[t] from, pc'[t] to: what a step that changes the locals only has to show.
LEMMA WithLocals ==
  ASSUME NEW t \in Thread, NEW v \in Local, NEW q \in Labels, StackInv,
         pc' = [pc EXCEPT ![t] = q], loc' = [loc EXCEPT ![t] = v],
         UNCHANGED <<head, len, next, data>>,
         v.op = loc[t].op, v.num = loc[t].num,
         \A l \in List : DueFor(t, l)' <=> DueFor(t, l),
         ASSUME NEW s \in Seq(Elem), StackType, OwnOK(s, t), FillOK(s, t), loc'[t] = v, pc'[t] = q
         PROVE  OwnOK(s, t)' /\ FillOK(s, t)',
         ASSUME NEW s \in Seq(Elem), StackType, ListOK(s, Src(t)), WalkOK(s, t), loc'[t] = v,
                pc'[t] = q, Src(t)' = Src(t)
         PROVE  WalkOK(s, t)'
  PROVE  StackInv'
<1>1. PICK sq \in [Place -> Seq(Elem)] : Holds(sq)
  BY Zenon DEF StackInv
<1>2. StackType
  BY Zenon DEF StackInv
<1>3. StackType' /\ pc'[t] = q /\ loc'[t] = v /\ Others(t)
  BY <1>2, LocalType, Zenon
<1>4. Src(t)' = Src(t) /\ Src(t) \in List
  BY <1>3, Zenon DEF Src, List
<1>5. On(Src(t)) \in Place /\ Of(t) \in Place
  BY <1>4, PlaceDistinct, Zenon
<1>6. sq[On(Src(t))] \in Seq(Elem) /\ sq[Of(t)] \in Seq(Elem)
  BY <1>1, <1>5, Zenon
<1>7. OwnOK(sq[Of(t)], t)' /\ FillOK(sq[Of(t)], t)'
  <2>1. OwnOK(sq[Of(t)], t) /\ FillOK(sq[Of(t)], t)
    BY <1>1, Zenon DEF Holds
  <2> QED  BY <1>2, <1>3, <1>6, <2>1, Zenon
<1>8. WalkOK(sq[On(Src(t))], t)'
  <2>1. PICK s \in Seq(Elem) : s = sq[On(Src(t))]
    BY <1>6, Zenon
  <2>2. ListOK(s, Src(t)) /\ WalkOK(s, t)
    BY <1>1, <1>4, <2>1, Zenon DEF Holds
  <2>3. WalkOK(s, t)'
    BY <1>2, <1>3, <1>4, <2>2, Zenon
  <2> QED  BY <1>4, <2>1, <2>3, Zenon
<1>9. Holds(sq)'
  BY <1>1, <1>2, <1>3, <1>7, <1>8, LocalStep, Zenon
<1> QED  BY <1>1, <1>3, <1>9, Zenon DEF StackInv, Place, Elem, On, Of

\* The same for a step before the call has elements.
LEMMA BeforeOwning ==
  ASSUME NEW t \in Thread, NEW v \in Local, NEW q \in Labels, StackInv,
         pc' = [pc EXCEPT ![t] = q], loc' = [loc EXCEPT ![t] = v],
         UNCHANGED <<head, len, next, data>>,
         v.op = loc[t].op, v.num = loc[t].num,
         \/ pc[t] \in {"len", "reserve"} /\ q = "reserve"
         \/ pc[t] \in {"phead", "phead2", "walk", "walkn"} /\ q \in {"phead", "phead2", "walk", "walkn"},
         ASSUME NEW s \in Seq(Elem), StackType, ListOK(s, Src(t)), WalkOK(s, t), loc'[t] = v,
                pc'[t] = q, Src(t)' = Src(t)
         PROVE  WalkOK(s, t)'
  PROVE  StackInv'
<1>1. StackType
  BY Zenon DEF StackInv
<1>2. StackType' /\ pc'[t] = q /\ loc'[t] = v /\ Others(t)
  BY <1>1, LocalType, Zenon
<1>3. Src(t)' = Src(t) /\ Dst(t)' = Dst(t)
  BY <1>2, Zenon DEF Src, Dst
<1>4. \A l \in List : DueFor(t, l)' <=> DueFor(t, l)
  BY <1>2, <1>3, SMT DEF DueFor
<1>5. ~ Owning(t) /\ ~ Owning(t)'
  BY <1>2, SMT DEF Owning
<1>6. ASSUME NEW s \in Seq(Elem), OwnOK(s, t), FillOK(s, t)
      PROVE  OwnOK(s, t)' /\ FillOK(s, t)'
  BY <1>5, <1>6, Zenon DEF OwnOK, FillOK
<1> QED  BY <1>4, <1>6, WithLocals, Zenon

LEMMA LoadLenInv ==
  ASSUME NEW t \in Thread, StackInv, LoadLen(t) \/ ReserveFails(t)
  PROVE  StackInv'
<1>1. StackType
  BY Zenon DEF StackInv
<1>2. PICK v : v = [loc[t] EXCEPT !.ln = len[Src(t)]]
  BY Zenon
<1>3. v \in Local /\ v.op = loc[t].op /\ v.num = loc[t].num
  <2>1. len[Src(t)] \in Nat /\ loc[t] \in Local
    BY <1>1, LocalFields, Zenon DEF StackType
  <2> QED  BY <1>2, <2>1, Zenon DEF Local
<1>4. /\ loc' = [loc EXCEPT ![t] = v] /\ UNCHANGED <<head, len, next, data>>
      /\ pc' = [pc EXCEPT ![t] = "reserve"] /\ pc[t] \in {"len", "reserve"}
  <2>1. CASE LoadLen(t)
    BY <1>2, <2>1, Zenon DEF LoadLen, Goto
  <2>2. CASE ReserveFails(t)
    <3>1. pc' = pc /\ pc[t] = "reserve"
      BY <2>2, Zenon DEF ReserveFails
    <3>2. pc' = [pc EXCEPT ![t] = "reserve"]
      BY <1>1, <3>1, Zenon DEF StackType
    <3> QED  BY <1>2, <2>2, <3>1, <3>2, Zenon DEF ReserveFails
  <2> QED  BY <2>1, <2>2, Zenon
<1>5. ASSUME NEW s \in Seq(Elem), WalkOK(s, t), loc'[t] = v, pc'[t] = "reserve"
      PROVE  WalkOK(s, t)'
  BY <1>3, <1>4, <1>5, SMT DEF WalkOK
<1> QED  BY <1>3, <1>4, <1>5, BeforeOwning, Zenon DEF Labels

LEMMA TooFewInv ==
  ASSUME NEW t \in Thread, StackInv, TooFew(t)
  PROVE  StackInv'
<1>1. PICK sq \in [Place -> Seq(Elem)] : Holds(sq)
  BY Zenon DEF StackInv
<1>2. StackType
  BY Zenon DEF StackInv
<1>3. /\ pc[t] = "reserve" /\ pc' = [pc EXCEPT ![t] = "idle"]
      /\ loc' = [loc EXCEPT ![t] = NoLocal] /\ UNCHANGED <<head, len, next, data>>
  BY Zenon DEF TooFew, Return, Goto
<1>4. StackType' /\ pc'[t] = "idle" /\ loc'[t] = NoLocal /\ Others(t)
  BY <1>2, <1>3, NoLocalOK, LocalType, Zenon DEF Labels
<1>5. \A l \in List : ~ DueFor(t, l)' /\ ~ DueFor(t, l)
  BY <1>3, <1>4, SMT DEF DueFor
<1>6. ~ Owning(t) /\ ~ Owning(t)'
  BY <1>3, <1>4, SMT DEF Owning
<1>7. OwnOK(sq[Of(t)], t)' /\ FillOK(sq[Of(t)], t)'
  <2>1. OwnOK(sq[Of(t)], t)
    BY <1>1, Zenon DEF Holds
  <2> QED  BY <1>6, <2>1, Zenon DEF OwnOK, FillOK
<1>8. WalkOK(sq[On(Src(t))], t)'
  BY <1>4, SMT DEF WalkOK
<1>9. Holds(sq)'
  BY <1>1, <1>2, <1>3, <1>4, <1>5, <1>7, <1>8, LocalStep, Zenon
<1> QED  BY <1>1, <1>4, <1>9, Zenon DEF StackInv, Place, Elem, On, Of


\* What one word of the head adds to what was read.
LEMMA WordOK ==
  ASSUME NEW old \in HeadWords, NEW h \in HeadWords, NEW half \in {"top", "cnt"}
  PROVE  /\ Word(old, half, h) \in HeadWords
         /\ half = "cnt" => Word(old, half, h).cnt = h.cnt
         /\ half = "top" => Word(old, half, h).cnt = old.cnt
BY SMT DEF Word, HeadWords

\* A walk starts at the head that was read.
LEMMA FromOK ==
  ASSUME NEW r \in Local, NEW old \in HeadWords, NEW v, v = From(r, old)
  PROVE  /\ v \in Local /\ v.op = r.op /\ v.num = r.num /\ v.old = old /\ v.tmp = old.top
         /\ v.i = 0 /\ v.objs = <<>> /\ v.half = r.half
<1>1. old.top \in 0 .. Capacity /\ 0 \in Nat /\ <<>> \in Seq(Data)
  BY SMT DEF HeadWords
<1> QED  BY <1>1, Zenon DEF Local, From

\* At the start of a walk.
LEMMA WalkStart ==
  ASSUME NEW t \in Thread, NEW s \in Seq(Elem), ListOK(s, Src(t)), WalkOK(s, t), StackType,
         NEW v \in Local, loc'[t] = v, pc'[t] = "walk", Src(t)' = Src(t), pc[t] # "idle",
         UNCHANGED <<head, data>>,
         v.op = loc[t].op, v.num = loc[t].num, v.old.cnt <= head[Src(t)].cnt,
         v.tmp = v.old.top, v.i = 0, v.objs = <<>>
  PROVE  WalkOK(s, t)'
<1>1. loc[t].num \in 1 .. MaxNum
  BY Zenon DEF WalkOK
<1>2. v.num \in Nat /\ v.num \in 1 .. MaxNum /\ 0 <= v.num /\ 0 <= Len(s)
  BY <1>1, StackSizes, SMT
<1>3. ASSUME head[Src(t)] = v.old
      PROVE  /\ v.i <= Len(s) /\ v.tmp = At(s, v.i + 1) /\ ~ (v.i > 0)
             /\ v.objs = [k \in 1 .. v.i + 0 |-> data[s[k]]]
  <2>1. head[Src(t)].top = At(s, 1) /\ v.i + 1 = 1
    BY SMT DEF ListOK
  <2>2. v.tmp = At(s, v.i + 1)
    BY <1>3, <2>1, Zenon
  <2>3. <<>> = [k \in 1 .. v.i + 0 |-> data[s[k]]]
    BY SMT
  <2> QED  BY <1>2, <2>2, <2>3, SMT
<1> QED  BY <1>2, <1>3, SMT DEF WalkOK

LEMMA PopLoadHeadInv ==
  ASSUME NEW t \in Thread, StackInv, PopLoadHead(t)
  PROVE  StackInv'
<1>1. StackType
  BY Zenon DEF StackInv
<1>2. PICK half \in {"top", "cnt"} :
        /\ \/ pc[t] = "phead" /\ Goto(t, "phead2")
           \/ pc[t] = "phead2" /\ half # loc[t].half /\ Goto(t, "walk")
        /\ loc' = [loc EXCEPT ![t] = [
                     From(loc[t], Word(loc[t].old, half, head[Src(t)])) EXCEPT !.half = half]]
        /\ UNCHANGED <<head, len, next, data>>
  BY Zenon DEF PopLoadHead
<1>3. PICK old : old = Word(loc[t].old, half, head[Src(t)])
  BY Zenon
<1>4. PICK w : w = From(loc[t], old)
  BY Zenon
<1>5. PICK v : v = [w EXCEPT !.half = half]
  BY Zenon
<1>6. PICK q : q = IF pc[t] = "phead" THEN "phead2" ELSE "walk"
  BY Zenon
<1>7. /\ old \in HeadWords
      /\ half = "cnt" => old.cnt = head[Src(t)].cnt
      /\ half = "top" => old.cnt = loc[t].old.cnt
  <2>1. loc[t].old \in HeadWords /\ head[Src(t)] \in HeadWords
    BY <1>1, LocalFields, Zenon DEF StackType
  <2> QED  BY <1>3, <2>1, WordOK, Zenon
<1>8. /\ w \in Local /\ w.op = loc[t].op /\ w.num = loc[t].num /\ w.old = old
      /\ w.tmp = old.top /\ w.i = 0 /\ w.objs = <<>>
  <2>1. loc[t] \in Local
    BY <1>1, LocalFields, Zenon
  <2> QED  BY <1>4, <1>7, <2>1, FromOK, Zenon
<1>9. /\ v \in Local /\ v.op = loc[t].op /\ v.num = loc[t].num /\ v.old = old
      /\ v.tmp = old.top /\ v.i = 0 /\ v.objs = <<>> /\ v.half = half
  BY <1>5, <1>8, Zenon DEF Local
<1>10. /\ pc' = [pc EXCEPT ![t] = q] /\ loc' = [loc EXCEPT ![t] = v]
       /\ pc[t] \in {"phead", "phead2"} /\ q \in {"phead2", "walk"}
       /\ q = "walk" => pc[t] = "phead2" /\ half # loc[t].half
  BY <1>2, <1>3, <1>4, <1>5, <1>6, SMT DEF Goto
<1>11. ASSUME NEW s \in Seq(Elem), ListOK(s, Src(t)), WalkOK(s, t), loc'[t] = v, pc'[t] = q,
              Src(t)' = Src(t)
       PROVE  WalkOK(s, t)'
  <2>1. head[Src(t)].cnt \in Nat
    BY <1>1, LocalFields, Zenon DEF StackType, HeadWords
  <2>2. CASE q = "walk"
    <3>1. old.cnt <= head[Src(t)].cnt
      <4>1. CASE half = "cnt"
        BY <1>7, <2>1, <4>1, SMT
      <4>2. CASE half = "top"
        <5>1. loc[t].half = "cnt"
          BY <1>1, <1>10, <2>2, <4>2, LocalFields, Zenon
        <5>2. loc[t].old.cnt <= head[Src(t)].cnt
          BY <1>10, <1>11, <2>2, <5>1, Zenon DEF WalkOK
        <5> QED  BY <1>7, <4>2, <5>2, Zenon
      <4> QED  BY <4>1, <4>2, Zenon
    <3>2. pc[t] # "idle"
      BY <1>10, SMT
    <3> QED  BY <1>1, <1>2, <1>9, <1>11, <2>2, <3>1, <3>2, WalkStart, Zenon
  <2>3. CASE q = "phead2"
    <3>1. loc[t].num \in 1 .. MaxNum
      BY <1>10, <1>11, SMT DEF WalkOK
    <3>2. v.half = "cnt" => v.old.cnt <= head[Src(t)].cnt
      BY <1>7, <1>9, <2>1, SMT
    <3>3. pc'[t] = "phead2" /\ head' = head
      BY <1>2, <1>11, <2>3, Zenon
    <3>4. loc'[t].num \in 1 .. MaxNum /\ (loc'[t].half = "cnt" => loc'[t].old.cnt <= head'[Src(t)'].cnt)
      BY <1>9, <1>11, <3>1, <3>2, <3>3, Zenon
    <3> QED  BY <3>3, <3>4, Zenon DEF WalkOK
  <2> QED  BY <1>10, <2>2, <2>3, Zenon
<1>12. q \in Labels /\ q \in {"phead", "phead2", "walk", "walkn"}
       /\ pc[t] \in {"phead", "phead2", "walk", "walkn"}
  BY <1>10, Zenon DEF Labels
<1> QED  BY <1>2, <1>9, <1>10, <1>11, <1>12, BeforeOwning, ZenonT(60)

LEMMA PopHeadFailsInv ==
  ASSUME NEW t \in Thread, StackInv, PopHeadFails(t)
  PROVE  StackInv'
<1>1. StackType
  BY Zenon DEF StackInv
<1>2. PICK v : v = From(loc[t], head[Src(t)])
  BY Zenon
<1>3. head[Src(t)] \in HeadWords /\ head[Src(t)].cnt \in Nat
  BY <1>1, LocalFields, Zenon DEF StackType, HeadWords
<1>4. /\ v \in Local /\ v.op = loc[t].op /\ v.num = loc[t].num /\ v.old = head[Src(t)]
      /\ v.tmp = v.old.top /\ v.i = 0 /\ v.objs = <<>>
  <2>1. loc[t] \in Local
    BY <1>1, LocalFields, Zenon
  <2>2. /\ v \in Local /\ v.op = loc[t].op /\ v.num = loc[t].num /\ v.old = head[Src(t)]
        /\ v.tmp = head[Src(t)].top /\ v.i = 0 /\ v.objs = <<>>
    <3>1. PICK h \in HeadWords : h = head[Src(t)]
      BY <1>3, Zenon
    <3>2. v = From(loc[t], h)
      BY <1>2, <3>1, Zenon
    <3>3. /\ v \in Local /\ v.op = loc[t].op /\ v.num = loc[t].num /\ v.old = h
          /\ v.tmp = h.top /\ v.i = 0 /\ v.objs = <<>>
      BY <2>1, <3>2, FromOK
    <3> QED  BY <3>1, <3>3, Zenon
  <2> QED  BY <2>2, Zenon
<1>5. /\ pc[t] = "walk" /\ pc' = pc /\ loc' = [loc EXCEPT ![t] = v]
      /\ UNCHANGED <<head, len, next, data>>
  BY <1>2, Zenon DEF PopHeadFails
<1>6. pc' = [pc EXCEPT ![t] = "walk"]
  BY <1>1, <1>5, Zenon DEF StackType
<1>7. v.old.cnt <= head[Src(t)].cnt
  BY <1>3, <1>4, SMT
<1>8. ASSUME NEW s \in Seq(Elem), ListOK(s, Src(t)), WalkOK(s, t), loc'[t] = v, pc'[t] = "walk",
             Src(t)' = Src(t)
      PROVE  WalkOK(s, t)'
  <2>1. pc[t] # "idle"
    BY <1>5, SMT
  <2> QED  BY <1>1, <1>4, <1>5, <1>7, <1>8, <2>1, WalkStart, Zenon
<1>9. "walk" \in Labels /\ "walk" \in {"phead", "phead2", "walk", "walkn"}
  BY Zenon DEF Labels
<1> QED  BY <1>4, <1>5, <1>6, <1>8, <1>9, BeforeOwning, Zenon


LEMMA WalkAgainInv ==
  ASSUME NEW t \in Thread, StackInv, WalkAgain(t)
  PROVE  StackInv'
<1>1. StackType
  BY Zenon DEF StackInv
<1>2. /\ pc[t] = "walk" /\ pc' = [pc EXCEPT ![t] = "phead"] /\ loc' = loc
      /\ UNCHANGED <<head, len, next, data>>
  BY Zenon DEF WalkAgain, Goto
<1>3. loc' = [loc EXCEPT ![t] = loc[t]] /\ loc[t] \in Local
  BY <1>1, <1>2, Zenon DEF StackType
<1>4. ASSUME NEW s \in Seq(Elem), WalkOK(s, t), loc'[t] = loc[t], pc'[t] = "phead"
      PROVE  WalkOK(s, t)'
  BY <1>2, <1>4, SMT DEF WalkOK
<1> QED  BY <1>2, <1>3, <1>4, BeforeOwning, Zenon DEF Labels

\* An element that is not NULL.
LEMMA NotNull ==
  ASSUME NEW e \in 0 .. Capacity, e # NULL PROVE e \in Elem
BY StackSizes, SMT DEF NULL, Elem

LEMMA NotNullElem == \A e \in Elem : e # NULL /\ e \in 0 .. Capacity
BY StackSizes, SMT DEF NULL, Elem

\* What a walk has read of a list that has not changed.
LEMMA WalkSeen ==
  ASSUME NEW t \in Thread, NEW s \in Seq(Elem), StackType, WalkOK(s, t),
         pc[t] \in {"walk", "walkn"}, head[Src(t)] = loc[t].old
  PROVE  /\ loc[t].i <= Len(s) /\ loc[t].tmp = At(s, loc[t].i + 1)
         /\ loc[t].i > 0 => loc[t].last = s[loc[t].i]
         /\ loc[t].op = "pop" /\ pc[t] = "walk" => loc[t].objs = [k \in 1 .. loc[t].i |-> data[s[k]]]
         /\ loc[t].op = "pop" /\ pc[t] = "walkn" =>
              loc[t].objs = [k \in 1 .. loc[t].i + 1 |-> data[s[k]]]
<1>1. /\ loc[t].i <= Len(s) /\ loc[t].tmp = At(s, loc[t].i + 1)
      /\ loc[t].i > 0 => loc[t].last = s[loc[t].i]
      /\ loc[t].op = "pop" =>
           loc[t].objs = [k \in 1 .. loc[t].i + (IF pc[t] = "walkn" THEN 1 ELSE 0) |-> data[s[k]]]
  BY Zenon DEF WalkOK
<1>2. CASE pc[t] = "walkn"
  BY <1>1, <1>2, Zenon
<1>3. CASE pc[t] = "walk"
  <2>1. loc[t].i + (IF pc[t] = "walkn" THEN 1 ELSE 0) = loc[t].i
    BY <1>3, LocalFields, SMT
  <2> QED  BY <1>1, <1>3, <2>1, Zenon
<1> QED  BY <1>2, <1>3, Zenon

\* What a walk must have read to go on.
LEMMA WalkGoesOn ==
  ASSUME NEW t \in Thread, NEW s \in Seq(Elem), NEW v \in Local, loc'[t] = v,
         pc'[t] \in {"walk", "walkn"}, UNCHANGED <<head, data>>, Src(t)' = Src(t),
         v.num \in 1 .. MaxNum, v.old.cnt <= head[Src(t)].cnt, v.i <= v.num,
         pc'[t] = "walkn" => v.op = "pop" /\ v.i < v.num /\ v.tmp # NULL,
         head[Src(t)] = v.old =>
           /\ v.i <= Len(s) /\ v.tmp = At(s, v.i + 1)
           /\ v.i > 0 => v.last = s[v.i]
           /\ v.op = "pop" /\ pc'[t] = "walk" => v.objs = [k \in 1 .. v.i |-> data[s[k]]]
           /\ v.op = "pop" /\ pc'[t] = "walkn" => v.objs = [k \in 1 .. v.i + 1 |-> data[s[k]]]
  PROVE  WalkOK(s, t)'
<1>1. v.i \in Nat
  BY Zenon DEF Local
<1>2. v.i + (IF pc'[t] = "walkn" THEN 1 ELSE 0) = IF pc'[t] = "walkn" THEN v.i + 1 ELSE v.i
  BY <1>1, SMT
<1>3. CASE pc'[t] = "walkn"
  <2>1. v.i + (IF pc'[t] = "walkn" THEN 1 ELSE 0) = v.i + 1
    BY <1>2, <1>3, Zenon
  <2> QED  BY <1>3, <2>1, Zenon DEF WalkOK
<1>4. CASE pc'[t] = "walk"
  <2>1. v.i + (IF pc'[t] = "walkn" THEN 1 ELSE 0) = v.i
    BY <1>2, <1>4, Zenon
  <2> QED  BY <1>4, <2>1, Zenon DEF WalkOK
<1> QED  BY <1>3, <1>4, Zenon

LEMMA WalkDataInv ==
  ASSUME NEW t \in Thread, StackInv, WalkData(t)
  PROVE  StackInv'
<1>1. StackType
  BY Zenon DEF StackInv
<1>2. PICK v : v = [loc[t] EXCEPT !.objs = Append(loc[t].objs, data[loc[t].tmp])]
  BY Zenon
<1>3. /\ pc[t] = "walk" /\ loc[t].i # loc[t].num /\ loc[t].tmp # NULL /\ loc[t].op = "pop"
      /\ pc' = [pc EXCEPT ![t] = "walkn"] /\ loc' = [loc EXCEPT ![t] = v]
      /\ UNCHANGED <<head, len, next, data>>
  BY <1>2, Zenon DEF WalkData, Goto, AtEnd
<1>4. /\ loc[t] \in Local /\ loc[t].tmp \in Elem /\ loc[t].i \in Nat /\ loc[t].num \in Nat
      /\ loc[t].objs \in Seq(Data)
  BY <1>1, <1>3, LocalFields, NotNull, Zenon
<1>5. data[loc[t].tmp] \in Data
  BY <1>1, <1>4, Zenon DEF StackType
<1>6. PICK x : x = Append(loc[t].objs, data[loc[t].tmp])
  BY Zenon
<1>7. x \in Seq(Data)
  BY <1>4, <1>5, <1>6, SMT
<1>8. /\ v \in Local /\ v.op = loc[t].op /\ v.num = loc[t].num /\ v.old = loc[t].old
      /\ v.tmp = loc[t].tmp /\ v.i = loc[t].i /\ v.last = loc[t].last /\ v.objs = x
  BY <1>2, <1>4, <1>6, <1>7, Zenon DEF Local
<1>9. ASSUME NEW s \in Seq(Elem), WalkOK(s, t), loc'[t] = v, pc'[t] = "walkn", Src(t)' = Src(t)
      PROVE  WalkOK(s, t)'
  <2>1. loc[t].i <= loc[t].num /\ loc[t].num \in 1 .. MaxNum /\ loc[t].old.cnt <= head[Src(t)].cnt
    BY <1>3, <1>9, SMT DEF WalkOK
  <2>2. loc[t].i < loc[t].num
    BY <1>3, <1>4, <2>1, SMT
  <2>3. ASSUME head[Src(t)] = loc[t].old
        PROVE  /\ loc[t].i <= Len(s) /\ loc[t].tmp = At(s, loc[t].i + 1)
               /\ loc[t].i > 0 => loc[t].last = s[loc[t].i]
               /\ x = [k \in 1 .. loc[t].i + 1 |-> data[s[k]]]
    <3>1. /\ loc[t].i <= Len(s) /\ loc[t].tmp = At(s, loc[t].i + 1)
          /\ loc[t].i > 0 => loc[t].last = s[loc[t].i]
          /\ loc[t].objs = [k \in 1 .. loc[t].i |-> data[s[k]]]
      BY <1>1, <1>3, <1>9, <2>3, WalkSeen, Zenon
    <3>2. loc[t].tmp = s[loc[t].i + 1]
      BY <1>3, <3>1, Zenon DEF At
    <3>3. x = [k \in 1 .. loc[t].i + 1 |-> data[s[k]]]
      <4>1. PICK i \in Nat : i = loc[t].i
        BY <1>4, Zenon
      <4>2. PICK f : f = [k \in 1 .. i + 1 |-> data[s[k]]]
        BY Zenon
      <4>3. loc[t].objs = [k \in 1 .. i |-> f[k]] /\ data[loc[t].tmp] = f[i + 1]
        BY <3>1, <3>2, <4>1, <4>2, SMT
      <4>4. x = Append([k \in 1 .. i |-> f[k]], f[i + 1])
        BY <1>6, <4>3, Zenon
      <4>5. x = [k \in 1 .. i + 1 |-> f[k]]
        BY <4>4, SMT
      <4> QED  BY <4>1, <4>2, <4>5, Zenon
    <3> QED  BY <3>1, <3>3, Zenon
  <2>4. UNCHANGED <<head, data>> /\ pc'[t] \in {"walk", "walkn"} /\ pc'[t] # "walk"
    BY <1>3, <1>9, Zenon
  <2>5. /\ v.num \in 1 .. MaxNum /\ v.old.cnt <= head[Src(t)].cnt /\ v.i <= v.num
        /\ v.op = "pop" /\ v.i < v.num /\ v.tmp # NULL
    BY <1>3, <1>8, <2>1, <2>2, Zenon
  <2>6. head[Src(t)] = v.old =>
           /\ v.i <= Len(s) /\ v.tmp = At(s, v.i + 1)
           /\ v.i > 0 => v.last = s[v.i]
           /\ v.objs = [k \in 1 .. v.i + 1 |-> data[s[k]]]
    BY <1>8, <2>3, Zenon
  <2> QED  BY <1>8, <1>9, <2>4, <2>5, <2>6, WalkGoesOn, Zenon
<1> QED  BY <1>3, <1>8, <1>9, BeforeOwning, Zenon DEF Labels

LEMMA WalkNextInv ==
  ASSUME NEW t \in Thread, StackInv, WalkNext(t)
  PROVE  StackInv'
<1>1. StackType
  BY Zenon DEF StackInv
<1>2. PICK v : v = [loc[t] EXCEPT !.last = loc[t].tmp, !.tmp = next[loc[t].tmp],
                                  !.i = loc[t].i + 1]
  BY Zenon
<1>3. /\ pc[t] = IF loc[t].op = "pop" THEN "walkn" ELSE "walk"
      /\ loc[t].i # loc[t].num /\ loc[t].tmp # NULL
      /\ pc' = [pc EXCEPT ![t] = "walk"] /\ loc' = [loc EXCEPT ![t] = v]
      /\ UNCHANGED <<head, len, next, data>>
  BY <1>2, Zenon DEF WalkNext, Goto, AtEnd
<1>4. /\ loc[t] \in Local /\ loc[t].tmp \in Elem /\ loc[t].i \in Nat /\ loc[t].num \in Nat
      /\ loc[t].tmp \in 0 .. Capacity
  BY <1>1, <1>3, LocalFields, NotNull, Zenon
<1>5. next[loc[t].tmp] \in 0 .. Capacity /\ loc[t].i + 1 \in Nat
  BY <1>1, <1>4, SMT DEF StackType
<1>6. /\ v \in Local /\ v.op = loc[t].op /\ v.num = loc[t].num /\ v.old = loc[t].old
      /\ v.tmp = next[loc[t].tmp] /\ v.i = loc[t].i + 1 /\ v.last = loc[t].tmp
      /\ v.objs = loc[t].objs
  BY <1>2, <1>4, <1>5, Zenon DEF Local
<1>7. pc[t] \in {"walk", "walkn"} /\ (loc[t].op = "pop" => pc[t] = "walkn")
  BY <1>3, Zenon
<1>8. ASSUME NEW s \in Seq(Elem), ListOK(s, Src(t)), WalkOK(s, t), loc'[t] = v, pc'[t] = "walk",
             Src(t)' = Src(t)
      PROVE  WalkOK(s, t)'
  <2>1. loc[t].i <= loc[t].num /\ loc[t].num \in 1 .. MaxNum /\ loc[t].old.cnt <= head[Src(t)].cnt
    BY <1>7, <1>8, SMT DEF WalkOK
  <2>2. loc[t].i + 1 <= loc[t].num
    BY <1>3, <1>4, <2>1, SMT
  <2>3. ASSUME head[Src(t)] = loc[t].old
        PROVE  /\ loc[t].i + 1 <= Len(s) /\ next[loc[t].tmp] = At(s, loc[t].i + 1 + 1)
               /\ loc[t].tmp = s[loc[t].i + 1]
               /\ loc[t].op = "pop" => loc[t].objs = [k \in 1 .. loc[t].i + 1 |-> data[s[k]]]
    <3>1. /\ loc[t].i <= Len(s) /\ loc[t].tmp = At(s, loc[t].i + 1)
          /\ loc[t].op = "pop" => loc[t].objs = [k \in 1 .. loc[t].i + 1 |-> data[s[k]]]
      BY <1>1, <1>7, <1>8, <2>3, WalkSeen, Zenon
    <3>2. loc[t].tmp = s[loc[t].i + 1] /\ loc[t].i + 1 <= Len(s)
      BY <1>3, <3>1, Zenon DEF At
    <3>3. loc[t].i + 1 \in 1 .. Len(s)
      BY <1>4, <3>2, SMT
    <3>4. next[s[loc[t].i + 1]] = At(s, loc[t].i + 1 + 1)
      BY <1>8, <3>3, Zenon DEF ListOK
    <3> QED  BY <3>1, <3>2, <3>4, Zenon
  <2>4. UNCHANGED <<head, data>> /\ pc'[t] \in {"walk", "walkn"} /\ pc'[t] # "walkn"
    BY <1>3, <1>8, Zenon
  <2>5. v.num \in 1 .. MaxNum /\ v.old.cnt <= head[Src(t)].cnt /\ v.i <= v.num
    BY <1>6, <2>1, <2>2, Zenon
  <2>6. head[Src(t)] = v.old =>
           /\ v.i <= Len(s) /\ v.tmp = At(s, v.i + 1)
           /\ v.i > 0 => v.last = s[v.i]
           /\ v.op = "pop" => v.objs = [k \in 1 .. v.i |-> data[s[k]]]
    BY <1>6, <2>3, Zenon
  <2> QED  BY <1>6, <1>8, <2>4, <2>5, <2>6, WalkGoesOn, Zenon
<1> QED  BY <1>3, <1>6, <1>7, <1>8, BeforeOwning, Zenon DEF Labels


\* The head of the other list is read before the call's elements are linked to it.
LEMMA LoadOther ==
  ASSUME NEW t \in Thread, NEW v \in Local, NEW q, StackInv,
         pc' = [pc EXCEPT ![t] = q], loc' = [loc EXCEPT ![t] = v],
         UNCHANGED <<head, len, next, data>>,
         v.op = loc[t].op, v.num = loc[t].num, v.first = loc[t].first, v.last = loc[t].last,
         pc[t] \in {"uhead", "uhead2", "ucas"}, q \in {"uhead2", "link"}
  PROVE  StackInv'
<1>1. StackType
  BY Zenon DEF StackInv
<1>2. q \in Labels
  BY Zenon DEF Labels
<1>3. StackType' /\ pc'[t] = q /\ loc'[t] = v /\ Others(t)
  BY <1>1, <1>2, LocalType, Zenon
<1>4. \A l \in List : ~ DueFor(t, l)' /\ ~ DueFor(t, l)
  BY <1>3, SMT DEF DueFor
<1>5. Owning(t) /\ Owning(t)' /\ q # "ucas" /\ q # "fill" /\ pc[t] # "fill"
  BY <1>3, SMT DEF Owning
<1>6. ASSUME NEW s \in Seq(Elem), OwnOK(s, t), FillOK(s, t)
      PROVE  OwnOK(s, t)' /\ FillOK(s, t)'
  <2>1. OwnOK(s, t)'
    BY <1>3, <1>5, <1>6, Zenon DEF OwnOK, Linked
  <2>2. FillOK(s, t)'
    BY <1>3, <1>5, <1>6, Zenon DEF FillOK
  <2> QED  BY <2>1, <2>2, Zenon
<1>7. ASSUME NEW s \in Seq(Elem), WalkOK(s, t)
      PROVE  WalkOK(s, t)'
  <2>1. v.num \in 1 .. MaxNum
    BY <1>7, SMT DEF WalkOK
  <2>2. q # "phead2" /\ ~ (q \in {"walk", "walkn"}) /\ q # "walkn"
    BY SMT
  <2> QED  BY <1>3, <1>5, <2>1, <2>2, Zenon DEF WalkOK
<1> QED  BY <1>2, <1>4, <1>6, <1>7, WithLocals, Zenon

LEMMA PushLoadHeadInv ==
  ASSUME NEW t \in Thread, StackInv, PushLoadHead(t)
  PROVE  StackInv'
<1>1. StackType
  BY Zenon DEF StackInv
<1>2. PICK half \in {"top", "cnt"} :
        /\ \/ pc[t] = "uhead" /\ Goto(t, "uhead2")
           \/ pc[t] = "uhead2" /\ half # loc[t].half /\ Goto(t, "link")
        /\ loc' = [loc EXCEPT ![t] = [loc[t] EXCEPT !.half = half,
                     !.old = Word(loc[t].old, half, head[Dst(t)])]]
        /\ UNCHANGED <<head, len, next, data>>
  BY Zenon DEF PushLoadHead
<1>3. PICK old : old = Word(loc[t].old, half, head[Dst(t)])
  BY Zenon
<1>4. PICK v : v = [loc[t] EXCEPT !.half = half, !.old = old]
  BY Zenon
<1>5. PICK q : q = IF pc[t] = "uhead" THEN "uhead2" ELSE "link"
  BY Zenon
<1>6. old \in HeadWords
  <2>1. loc[t].old \in HeadWords /\ head[Dst(t)] \in HeadWords
    BY <1>1, LocalFields, Zenon DEF StackType
  <2> QED  BY <1>3, <2>1, WordOK, Zenon
<1>7. /\ v \in Local /\ v.op = loc[t].op /\ v.num = loc[t].num
      /\ v.first = loc[t].first /\ v.last = loc[t].last
  <2>1. loc[t] \in Local
    BY <1>1, LocalFields, Zenon
  <2> QED  BY <1>4, <1>6, <2>1, Zenon DEF Local
<1>8. /\ pc' = [pc EXCEPT ![t] = q] /\ loc' = [loc EXCEPT ![t] = v]
      /\ pc[t] \in {"uhead", "uhead2", "ucas"} /\ q \in {"uhead2", "link"}
  BY <1>2, <1>3, <1>4, <1>5, SMT DEF Goto
<1> QED  BY <1>2, <1>7, <1>8, LoadOther, Zenon

LEMMA PushHeadFailsInv ==
  ASSUME NEW t \in Thread, StackInv, PushHeadFails(t)
  PROVE  StackInv'
<1>1. StackType
  BY Zenon DEF StackInv
<1>2. PICK v : v = [loc[t] EXCEPT !.old = head[Dst(t)]]
  BY Zenon
<1>3. /\ v \in Local /\ v.op = loc[t].op /\ v.num = loc[t].num
      /\ v.first = loc[t].first /\ v.last = loc[t].last
  <2>1. loc[t] \in Local /\ head[Dst(t)] \in HeadWords
    BY <1>1, LocalFields, Zenon DEF StackType
  <2> QED  BY <1>2, <2>1, Zenon DEF Local
<1>4. /\ pc[t] = "ucas" /\ pc' = [pc EXCEPT ![t] = "link"] /\ loc' = [loc EXCEPT ![t] = v]
      /\ UNCHANGED <<head, len, next, data>>
  BY <1>2, Zenon DEF PushHeadFails, Goto
<1> QED  BY <1>3, <1>4, LoadOther, Zenon


LEMMA NumOK ==
  ASSUME NEW sq, Holds(sq), NEW t \in Thread, pc[t] # "idle"
  PROVE  loc[t].num \in 1 .. MaxNum
BY Zenon DEF Holds, WalkOK

LEMMA ReserveInv ==
  ASSUME NEW t \in Thread, StackInv, Reserve(t)
  PROVE  StackInv'
<1>1. PICK sq \in [Place -> Seq(Elem)] : Holds(sq)
  BY Zenon DEF StackInv
<1>2. StackType
  BY Zenon DEF StackInv
<1>3. /\ pc[t] = "reserve" /\ loc[t].ln >= loc[t].num /\ len[Src(t)] = loc[t].ln
      /\ len' = [len EXCEPT ![Src(t)] = len[Src(t)] - loc[t].num]
      /\ pc' = [pc EXCEPT ![t] = "phead"] /\ UNCHANGED <<head, next, data, loc>>
  BY Zenon DEF Reserve, Goto
<1>4. /\ loc[t] \in Local /\ loc[t].num \in Nat /\ loc[t].ln \in Nat
      /\ Src(t) \in List /\ Dst(t) \in List /\ Src(t) # Dst(t)
  BY <1>2, LocalFields, Zenon
<1>5. /\ pc' \in [Thread -> Labels] /\ pc'[t] = "phead" /\ loc'[t] = loc[t] /\ Others(t)
      /\ Src(t)' = Src(t) /\ Dst(t)' = Dst(t)
  BY <1>2, <1>3, Zenon DEF StackType, Others, Labels, Src, Dst
<1>6. loc[t].num \in 1 .. MaxNum
  BY <1>1, <1>3, NumOK, Zenon
<1>7. /\ len[Src(t)] \in Nat /\ len'[Src(t)] = len[Src(t)] - loc[t].num
      /\ \A l \in List : l # Src(t) => len'[l] = len[l]
      /\ \A l \in List : len[l] \in Nat
  BY <1>2, <1>3, <1>4, Zenon DEF StackType
<1>8. len'[Src(t)] \in Nat
  BY <1>3, <1>4, <1>7, SMT
<1>9. len' \in [List -> Nat]
  BY <1>2, <1>3, <1>7, <1>8, Zenon DEF StackType
<1>10. StackType'
  BY <1>2, <1>3, <1>5, <1>9, Zenon DEF StackType
<1>11. \A l \in List : ~ DueFor(t, l) /\ (DueFor(t, l)' <=> l = Src(t))
  BY <1>3, <1>5, SMT DEF DueFor
<1>12. ASSUME NEW l \in List PROVE Len(sq[On(l)]) = len'[l] + Cardinality(Due(l)')
  <2>1. Len(sq[On(l)]) = len[l] + Cardinality(Due(l)) /\ Cardinality(Due(l)) \in Nat
    <3>1. Due(l) \subseteq AllPairs
      BY Zenon DEF Due
    <3> QED  BY <1>1, <3>1, AllPairsFinite, Zenon DEF Holds
  <2>2. CASE l # Src(t)
    <3>1. Due(l)' = Due(l)
      BY <1>5, <1>11, <2>2, DueKeep, Zenon
    <3> QED  BY <1>7, <2>1, <2>2, <3>1, Zenon
  <2>3. CASE l = Src(t)
    <3>1. Cardinality(Due(l)') = Cardinality(Due(l)) + loc[t].num
      BY <1>5, <1>6, <1>11, <2>3, DueGain, Zenon
    <3> QED  BY <1>4, <1>7, <2>1, <2>3, <3>1, SMT
  <2> QED  BY <2>2, <2>3, Zenon
<1>13. OwnOK(sq[Of(t)], t)' /\ FillOK(sq[Of(t)], t)'
  <2>1. ~ Owning(t) /\ ~ Owning(t)'
    BY <1>3, <1>5, SMT DEF Owning
  <2>2. OwnOK(sq[Of(t)], t)
    BY <1>1, Zenon DEF Holds
  <2> QED  BY <2>1, <2>2, Zenon DEF OwnOK, FillOK
<1>14. WalkOK(sq[On(Src(t))], t)'
  BY <1>5, <1>6, SMT DEF WalkOK
<1>15. Holds(sq)'
  BY <1>1, <1>2, <1>3, <1>5, <1>12, <1>13, <1>14, OwnStep, Zenon
<1> QED  BY <1>1, <1>10, <1>15, Zenon DEF StackInv, Place, Elem, On, Of

LEMMA AddLenInv ==
  ASSUME NEW t \in Thread, StackInv, AddLen(t)
  PROVE  StackInv'
<1>1. PICK sq \in [Place -> Seq(Elem)] : Holds(sq)
  BY Zenon DEF StackInv
<1>2. StackType
  BY Zenon DEF StackInv
<1>3. /\ pc[t] = "ulen" /\ len' = [len EXCEPT ![Dst(t)] = len[Dst(t)] + loc[t].num]
      /\ pc' = [pc EXCEPT ![t] = "idle"] /\ loc' = [loc EXCEPT ![t] = NoLocal]
      /\ UNCHANGED <<head, next, data>>
  BY Zenon DEF AddLen, Return, Goto
<1>4. loc[t].num \in Nat /\ Src(t) \in List /\ Dst(t) \in List /\ Src(t) # Dst(t)
  BY <1>2, LocalFields, Zenon
<1>5. /\ pc' \in [Thread -> Labels] /\ loc' \in [Thread -> Local]
      /\ pc'[t] = "idle" /\ loc'[t] = NoLocal /\ Others(t)
  BY <1>2, <1>3, NoLocalOK, Moves, Zenon DEF Labels
<1>6. loc[t].num \in 1 .. MaxNum
  BY <1>1, <1>3, NumOK, Zenon
<1>7. /\ len'[Dst(t)] = len[Dst(t)] + loc[t].num
      /\ \A l \in List : l # Dst(t) => len'[l] = len[l]
      /\ \A l \in List : len[l] \in Nat
  BY <1>2, <1>3, <1>4, Zenon DEF StackType
<1>8. len'[Dst(t)] \in Nat
  BY <1>4, <1>7, SMT
<1>9. len' \in [List -> Nat]
  BY <1>2, <1>3, <1>7, <1>8, Zenon DEF StackType
<1>10. StackType'
  BY <1>2, <1>3, <1>5, <1>9, Zenon DEF StackType
<1>11. \A l \in List : ~ DueFor(t, l)' /\ (DueFor(t, l) <=> l = Dst(t))
  BY <1>3, <1>5, SMT DEF DueFor
<1>12. ASSUME NEW l \in List PROVE Len(sq[On(l)]) = len'[l] + Cardinality(Due(l)')
  <2>1. Len(sq[On(l)]) = len[l] + Cardinality(Due(l))
    BY <1>1, Zenon DEF Holds
  <2>2. CASE l # Dst(t)
    <3>1. Due(l)' = Due(l)
      BY <1>5, <1>11, <2>2, DueKeep, Zenon
    <3> QED  BY <1>7, <2>1, <2>2, <3>1, Zenon
  <2>3. CASE l = Dst(t)
    <3>1. Cardinality(Due(l)) = Cardinality(Due(l)') + loc[t].num
      BY <1>5, <1>6, <1>11, <2>3, DueLose, Zenon
    <3>2. Due(l)' \subseteq AllPairs
      BY Zenon DEF Due, AllPairs
    <3>3. Cardinality(Due(l)') \in Nat
      BY <3>2, AllPairsFinite, Zenon
    <3> QED  BY <1>4, <1>7, <2>1, <2>3, <3>1, <3>3, SMT
  <2> QED  BY <2>2, <2>3, Zenon
<1>13. OwnOK(sq[Of(t)], t)' /\ FillOK(sq[Of(t)], t)'
  <2>1. ~ Owning(t) /\ ~ Owning(t)'
    BY <1>3, <1>5, SMT DEF Owning
  <2>2. OwnOK(sq[Of(t)], t)
    BY <1>1, Zenon DEF Holds
  <2> QED  BY <2>1, <2>2, Zenon DEF OwnOK, FillOK
<1>14. WalkOK(sq[On(Src(t))], t)'
  BY <1>5, SMT DEF WalkOK
<1>15. Holds(sq)'
  BY <1>1, <1>2, <1>3, <1>5, <1>12, <1>13, <1>14, OwnStep, Zenon
<1> QED  BY <1>1, <1>10, <1>15, Zenon DEF StackInv, Place, Elem, On, Of


\* Elements of the call at t are in no other place.
LEMMA OwnAlone ==
  ASSUME NEW sq, Spread(sq), NEW t \in Thread, NEW j \in 1 .. Len(sq[Of(t)]), NEW p \in Place,
         p # Of(t), NEW i \in 1 .. Len(sq[p])
  PROVE  sq[p][i] # sq[Of(t)][j] /\ sq[p][i] \in Elem
<1>1. Of(t) \in Place
  BY PlaceDistinct, Zenon
<1>2. sq[p][i] \in Elem
  BY SpreadElem, Zenon
<1> QED  BY <1>1, <1>2, SMT DEF Spread

LEMMA OwnInjective ==
  ASSUME NEW sq, Spread(sq), NEW t \in Thread,
         NEW i \in 1 .. Len(sq[Of(t)]), NEW j \in 1 .. Len(sq[Of(t)]), i # j
  PROVE  sq[Of(t)][i] # sq[Of(t)][j]
<1>1. Of(t) \in Place
  BY PlaceDistinct, Zenon
<1> QED  BY <1>1, SMT DEF Spread

LEMMA FillMoves ==
  ASSUME NEW t \in Thread, NEW sq \in [Place -> Seq(Elem)], StackType, Holds(sq), Fill(t)
  PROVE  StackType' /\ Holds(sq)'
<1>1. Holds(sq)
  OBVIOUS
<1>2. StackType
  OBVIOUS
<1>3. PICK v : v = [loc[t] EXCEPT !.tmp = next[loc[t].tmp], !.i = loc[t].i + 1]
  BY Zenon
<1>4. PICK q : q = IF loc[t].i + 1 = loc[t].num THEN "uhead" ELSE "fill"
  BY Zenon
<1>5. /\ pc[t] = "fill" /\ data' = [data EXCEPT ![loc[t].tmp] = <<t, loc[t].num - loc[t].i>>]
      /\ loc' = [loc EXCEPT ![t] = v] /\ pc' = [pc EXCEPT ![t] = q] /\ UNCHANGED <<head, len, next>>
  BY <1>3, <1>4, Zenon DEF Fill, Goto
<1>6. PICK s : s = sq[Of(t)]
  BY Zenon
<1>7. s \in Seq(Elem) /\ Spread(sq) /\ Len(s) \in Nat /\ \A k \in 1 .. Len(s) : s[k] \in Elem
  <2>1. Of(t) \in Place /\ Spread(sq)
    BY <1>1, PlaceDistinct, Zenon DEF Holds
  <2> QED  BY <1>6, <2>1, SpreadElem, Zenon
<1>8. /\ loc[t] \in Local /\ loc[t].i \in Nat /\ loc[t].num \in 1 .. MaxNum /\ loc[t].num \in Nat
      /\ loc[t].op = "push"
  <2>1. loc[t].op = "push"
    BY <1>1, <1>5, Zenon DEF Holds, WalkOK
  <2> QED  BY <1>1, <1>2, <1>5, <2>1, LocalFields, NumOK, Zenon
<1>9. OwnOK(s, t) /\ FillOK(s, t) /\ Owning(t)
  BY <1>1, <1>5, <1>6, Zenon DEF Holds, Owning
<1>10. /\ Len(s) = loc[t].num /\ Linked(s) /\ loc[t].first = s[1] /\ loc[t].last = s[loc[t].num]
       /\ loc[t].num > 0
  BY <1>9, Zenon DEF OwnOK
<1>11. /\ loc[t].i < loc[t].num /\ loc[t].tmp = s[loc[t].i + 1]
       /\ \A k \in 1 .. loc[t].i : data[s[k]] = <<t, loc[t].num + 1 - k>>
  BY <1>5, <1>8, <1>9, Zenon DEF FillOK
<1>12. PICK i \in Nat : i = loc[t].i
  BY <1>8, Zenon
<1>13. PICK n \in Nat : n = loc[t].num
  BY <1>8, Zenon
<1>14. i + 1 \in 1 .. Len(s) /\ i < n /\ n \in 1 .. MaxNum /\ Len(s) = n /\ i + 1 \in Nat
  BY <1>7, <1>8, <1>10, <1>11, <1>12, <1>13, SMT
<1>15. PICK e \in Elem : e = loc[t].tmp /\ e = s[i + 1]
  BY <1>7, <1>11, <1>12, <1>14, Zenon
<1>16. next[e] \in 0 .. Capacity /\ (i + 1 # n => next[e] = s[i + 2])
  <2>1. next[e] \in 0 .. Capacity
    BY <1>2, Zenon DEF StackType
  <2>2. i + 1 # n => i + 1 \in 1 .. Len(s) - 1 /\ i + 1 + 1 = i + 2
    BY <1>14, SMT
  <2> QED  BY <1>10, <1>15, <2>1, <2>2, Zenon DEF Linked
<1>17. /\ v \in Local /\ v.op = loc[t].op /\ v.num = n /\ v.first = loc[t].first
       /\ v.last = loc[t].last /\ v.tmp = next[e] /\ v.i = i + 1 /\ v.old = loc[t].old
  BY <1>3, <1>8, <1>12, <1>13, <1>14, <1>15, <1>16, Zenon DEF Local
<1>18. q \in Labels /\ q \in {"fill", "uhead"} /\ (q = "fill" <=> i + 1 # n)
  BY <1>4, <1>12, <1>13, Zenon DEF Labels
<1>19. /\ pc' \in [Thread -> Labels] /\ loc' \in [Thread -> Local]
       /\ pc'[t] = q /\ loc'[t] = v /\ Others(t)
  BY <1>2, <1>5, <1>17, <1>18, Moves, Zenon
<1>20. /\ <<t, n - i>> \in Data /\ data'[e] = <<t, n - i>>
       /\ \A x \in Elem : x # e => data'[x] = data[x]
       /\ data' \in [Elem -> Data]
  <2>1. <<t, n - i>> \in Data
    <3>1. n - i \in 1 .. MaxNum
      BY <1>14, StackSizes, SMT
    <3> QED  BY <3>1, Zenon DEF Data, Obj
  <2> QED  BY <1>2, <1>5, <1>12, <1>13, <1>15, <2>1, Zenon DEF StackType
<1>21. StackType'
  BY <1>2, <1>5, <1>19, <1>20, Zenon DEF StackType
<1>22. Owning(t)' /\ q # "ucas"
  BY <1>18, <1>19, Zenon DEF Owning
<1>23. OwnOK(s, t)'
  <2>1. Linked(s)'
    BY <1>5, <1>10, Zenon DEF Linked
  <2> QED  BY <1>10, <1>13, <1>17, <1>19, <1>22, <2>1, Zenon DEF OwnOK
<1>24. FillOK(s, t)'
  <2>1. ASSUME NEW k \in 1 .. i + 1 PROVE data'[s[k]] = <<t, n + 1 - k>>
    <3>1. CASE k = i + 1
      <4>1. n + 1 - k = n - i
        BY <3>1, SMT
      <4> QED  BY <1>15, <1>20, <3>1, <4>1, Zenon
    <3>2. CASE k # i + 1
      <4>1. k \in 1 .. i /\ k \in 1 .. Len(s)
        BY <1>14, <3>2, SMT
      <4>2. s[k] # e /\ s[k] \in Elem
        BY <1>6, <1>7, <1>14, <1>15, <3>2, <4>1, OwnInjective, Zenon
      <4> QED  BY <1>11, <1>12, <1>13, <1>20, <4>1, <4>2, Zenon
    <3> QED  BY <3>1, <3>2, Zenon
  <2>2. q = "fill" => i + 1 < n /\ i + 1 + 1 = i + 2
    BY <1>14, <1>18, SMT
  <2>3. q = "fill" => v.i < v.num /\ v.tmp = s[v.i + 1]
    BY <1>16, <1>17, <1>18, <2>2, Zenon
  <2>4. (IF q = "fill" THEN v.i ELSE v.num) = i + 1
    BY <1>17, <1>18, Zenon
  <2> QED  BY <1>17, <1>19, <2>1, <2>3, <2>4, Zenon DEF FillOK
<1>25. WalkOK(sq[On(Src(t))], t)'
  <2>1. q # "phead2" /\ ~ (q \in {"walk", "walkn"}) /\ q # "walkn"
    BY <1>18, SMT
  <2> QED  BY <1>8, <1>14, <1>17, <1>19, <2>1, Zenon DEF WalkOK
<1>26. ASSUME NEW l \in List PROVE Len(sq[On(l)]) = len'[l] + Cardinality(Due(l)')
  <2>1. ~ DueFor(t, l) /\ ~ DueFor(t, l)'
    BY <1>5, <1>18, <1>19, SMT DEF DueFor
  <2>2. Due(l)' = Due(l)
    BY <1>19, <2>1, DueKeep, Zenon
  <2> QED  BY <1>1, <1>5, <2>2, Zenon DEF Holds
<1>27. ASSUME NEW p \in Place, p # Of(t), NEW k \in 1 .. Len(sq[p])
       PROVE  next'[sq[p][k]] = next[sq[p][k]] /\ data'[sq[p][k]] = data[sq[p][k]]
  <2>1. sq[p][k] # e /\ sq[p][k] \in Elem
    BY <1>6, <1>7, <1>14, <1>15, <1>27, OwnAlone, Zenon
  <2> QED  BY <1>5, <1>20, <2>1, Zenon
<1>28. Holds(sq)'
  BY <1>1, <1>2, <1>5, <1>6, <1>19, <1>23, <1>24, <1>25, <1>26, <1>27, OwnStep, Zenon
<1> QED  BY <1>21, <1>28, Zenon

LEMMA FillInv ==
  ASSUME NEW t \in Thread, StackInv, Fill(t)
  PROVE  StackInv'
BY FillMoves, Zenon DEF StackInv, Place, Elem, On, Of


LEMMA LinkMoves ==
  ASSUME NEW t \in Thread, NEW sq \in [Place -> Seq(Elem)], StackType, Holds(sq), Link(t)
  PROVE  StackType' /\ Holds(sq)'
<1>1. Holds(sq)
  OBVIOUS
<1>2. StackType
  OBVIOUS
<1>3. /\ pc[t] = "link" /\ next' = [next EXCEPT ![loc[t].last] = loc[t].old.top]
      /\ loc' = loc /\ pc' = [pc EXCEPT ![t] = "ucas"] /\ UNCHANGED <<head, len, data>>
  BY Zenon DEF Link, Goto
<1>4. PICK s : s = sq[Of(t)]
  BY Zenon
<1>5. s \in Seq(Elem) /\ Spread(sq) /\ Len(s) \in Nat /\ \A k \in 1 .. Len(s) : s[k] \in Elem
  <2>1. Of(t) \in Place /\ Spread(sq)
    BY <1>1, PlaceDistinct, Zenon DEF Holds
  <2> QED  BY <1>4, <2>1, SpreadElem, Zenon
<1>6. /\ loc[t] \in Local /\ loc[t].num \in 1 .. MaxNum /\ loc[t].num \in Nat
      /\ loc[t].old \in HeadWords
  BY <1>1, <1>2, <1>3, LocalFields, NumOK, Zenon
<1>7. OwnOK(s, t) /\ FillOK(s, t) /\ Owning(t)
  BY <1>1, <1>3, <1>4, Zenon DEF Holds, Owning
<1>8. /\ Len(s) = loc[t].num /\ Linked(s) /\ loc[t].first = s[1] /\ loc[t].last = s[loc[t].num]
      /\ loc[t].num > 0
  BY <1>7, Zenon DEF OwnOK
<1>9. PICK n \in Nat : n = loc[t].num
  BY <1>6, Zenon
<1>10. n \in 1 .. Len(s)
  BY <1>5, <1>8, <1>9, SMT
<1>11. PICK e \in Elem : e = loc[t].last /\ e = s[n]
  BY <1>5, <1>8, <1>9, <1>10, Zenon
<1>12. /\ loc[t].old.top \in 0 .. Capacity /\ next'[e] = loc[t].old.top
       /\ \A x \in Elem : x # e => next'[x] = next[x]
       /\ next' \in [Elem -> 0 .. Capacity]
  <2>1. loc[t].old.top \in 0 .. Capacity
    BY <1>6, Zenon DEF HeadWords
  <2> QED  BY <1>2, <1>3, <1>11, <2>1, Zenon DEF StackType
<1>13. /\ pc' \in [Thread -> Labels] /\ loc' \in [Thread -> Local]
       /\ pc'[t] = "ucas" /\ loc'[t] = loc[t] /\ Others(t)
  <2>1. loc' = [loc EXCEPT ![t] = loc[t]]
    BY <1>2, <1>3, Zenon DEF StackType
  <2>2. "ucas" \in Labels
    BY Zenon DEF Labels
  <2> QED  BY <1>2, <1>3, <1>6, <2>1, <2>2, Moves, Zenon
<1>14. StackType'
  BY <1>2, <1>3, <1>12, <1>13, Zenon DEF StackType
<1>15. Owning(t)'
  BY <1>13, Zenon DEF Owning
<1>16. OwnOK(s, t)'
  <2>1. ASSUME NEW k \in 1 .. Len(s) - 1 PROVE next'[s[k]] = s[k + 1]
    <3>1. k \in 1 .. Len(s) /\ k # n
      BY <1>5, <1>8, <1>9, SMT
    <3>2. s[k] # e /\ s[k] \in Elem
      BY <1>4, <1>5, <1>10, <1>11, <3>1, OwnInjective, Zenon
    <3> QED  BY <1>8, <1>12, <3>2, Zenon DEF Linked
  <2>2. Linked(s)'
    BY <2>1, Zenon DEF Linked
  <2> QED  BY <1>8, <1>11, <1>12, <1>13, <1>15, <2>2, Zenon DEF OwnOK
<1>17. FillOK(s, t)'
  BY <1>3, <1>7, <1>13, Zenon DEF FillOK
<1>18. WalkOK(sq[On(Src(t))], t)'
  BY <1>6, <1>13, Zenon DEF WalkOK
<1>19. ASSUME NEW l \in List PROVE Len(sq[On(l)]) = len'[l] + Cardinality(Due(l)')
  <2>1. ~ DueFor(t, l) /\ ~ DueFor(t, l)'
    BY <1>3, <1>13, SMT DEF DueFor
  <2>2. Due(l)' = Due(l)
    BY <1>13, <2>1, DueKeep, Zenon
  <2> QED  BY <1>1, <1>3, <2>2, Zenon DEF Holds
<1>20. ASSUME NEW p \in Place, p # Of(t), NEW k \in 1 .. Len(sq[p])
       PROVE  next'[sq[p][k]] = next[sq[p][k]] /\ data'[sq[p][k]] = data[sq[p][k]]
  <2>1. sq[p][k] # e /\ sq[p][k] \in Elem
    BY <1>4, <1>5, <1>10, <1>11, <1>20, OwnAlone, Zenon
  <2> QED  BY <1>3, <1>12, <2>1, Zenon
<1>21. Holds(sq)'
  BY <1>1, <1>2, <1>3, <1>4, <1>13, <1>16, <1>17, <1>18, <1>19, <1>20, OwnStep, Zenon
<1> QED  BY <1>14, <1>21, Zenon

LEMMA LinkInv ==
  ASSUME NEW t \in Thread, StackInv, Link(t)
  PROVE  StackInv'
BY LinkMoves, Zenon DEF StackInv, Place, Elem, On, Of

\* A step that moves elements between the call at t and list l, whose counter it
\* advances; the elements themselves stay as they are.
LEMMA MoveStep ==
  ASSUME NEW t \in Thread, NEW l \in List, NEW sq, NEW sr, StackType, StackType', Holds(sq),
         Spread(sr), Others(t), UNCHANGED <<len, next, data>>,
         \A p \in Place : p # Of(t) /\ p # On(l) => sr[p] = sq[p],
         \A k \in List : k # l => head'[k] = head[k],
         head'[l].cnt > head[l].cnt,
         ListOK(sr[On(l)], l)', Len(sr[On(l)]) = len[l] + Cardinality(Due(l)'),
         \A k \in List : k # l => Due(k)' = Due(k),
         OwnOK(sr[Of(t)], t)', FillOK(sr[Of(t)], t)', WalkOK(sr[On(Src(t))], t)'
  PROVE  Holds(sr)'
<1>1. Spread(sr)'
  BY Zenon DEF Spread, Place, Elem, On, Of
<1>2. ASSUME NEW k \in List
      PROVE  ListOK(sr[On(k)], k)' /\ Len(sr[On(k)]) = len'[k] + Cardinality(Due(k)')
  <2>1. CASE k = l
    BY <2>1, Zenon
  <2>2. CASE k # l
    <3>1. On(k) \in Place /\ On(k) # Of(t) /\ On(k) # On(l)
      BY <2>2, PlaceDistinct, Zenon
    <3>2. sr[On(k)] = sq[On(k)]
      BY <3>1, Zenon
    <3>3. ListOK(sq[On(k)], k) /\ Len(sq[On(k)]) = len[k] + Cardinality(Due(k))
      BY Zenon DEF Holds
    <3>4. PICK s : s = sr[On(k)]
      BY Zenon
    <3>5. ListOK(s, k)'
      BY <2>2, <3>2, <3>3, <3>4, KeepList, Zenon
    <3> QED  BY <2>2, <3>2, <3>3, <3>4, <3>5, Zenon
  <2> QED  BY <2>1, <2>2, Zenon
<1>3. ASSUME NEW u \in Thread
      PROVE  OwnOK(sr[Of(u)], u)' /\ FillOK(sr[Of(u)], u)' /\ WalkOK(sr[On(Src(u))], u)'
  <2>1. CASE u = t
    BY <2>1, Zenon
  <2>2. CASE u # t
    <3>1. pc'[u] = pc[u] /\ loc'[u] = loc[u]
      BY <2>2, Zenon DEF Others
    <3>2. Src(u)' = Src(u) /\ Src(u) \in List
      BY <3>1, Zenon DEF Src, List
    <3>3. On(Src(u)) \in Place /\ Of(u) \in Place /\ On(Src(u)) # Of(t) /\ Of(u) # Of(t) /\ Of(u) # On(l)
      BY <2>2, <3>2, PlaceDistinct, Zenon
    <3>4. sr[Of(u)] = sq[Of(u)]
      BY <3>3, Zenon
    <3>5. sq[On(Src(u))] \in Seq(Elem) /\ sq[Of(u)] \in Seq(Elem)
      BY <3>3, SpreadElem, Zenon DEF Holds
    <3>6. OwnOK(sq[Of(u)], u) /\ FillOK(sq[Of(u)], u) /\ WalkOK(sq[On(Src(u))], u)
      BY Zenon DEF Holds
    <3>7. PICK s : s = sq[Of(u)]
      BY Zenon
    <3>8. OwnOK(s, u)'
      BY <3>1, <3>5, <3>6, <3>7, KeepOwn, Zenon
    <3>9. FillOK(s, u)'
      BY <3>1, <3>5, <3>6, <3>7, KeepFill, Zenon
    <3>10. PICK r : r = sq[On(Src(u))]
      BY Zenon
    <3>11. CASE Src(u) # l
      <4>1. On(Src(u)) # On(l)
        BY <3>2, <3>11, PlaceDistinct, Zenon
      <4>2. sr[On(Src(u))] = r
        BY <3>3, <3>10, <4>1, Zenon
      <4>3. WalkOK(r, u)'
        BY <3>1, <3>2, <3>5, <3>6, <3>10, <3>11, KeepWalk, Zenon
      <4> QED  BY <3>2, <3>4, <3>7, <3>8, <3>9, <4>2, <4>3, Zenon
    <3>12. CASE Src(u) = l
      <4>1. PICK r2 : r2 = sr[On(l)]
        BY Zenon
      <4>2. WalkOK(r2, u)'
        BY <3>1, <3>6, <3>12, MovedWalk, Zenon
      <4> QED  BY <3>2, <3>4, <3>7, <3>8, <3>9, <3>12, <4>1, <4>2, Zenon
    <3> QED  BY <3>11, <3>12, Zenon
  <2> QED  BY <2>1, <2>2, Zenon
<1> QED  BY <1>1, <1>2, <1>3, Zenon DEF Holds


\* The elements of a list from the n-th on, and of a list with others before it.
LEMMA AtRest ==
  ASSUME NEW s \in Seq(Elem), NEW n \in 0 .. Len(s), NEW i \in Nat \ {0},
         NEW r, r = SubSeq(s, n + 1, Len(s))
  PROVE  At(r, i) = At(s, i + n)
<1>1. /\ r \in Seq(Elem) /\ Len(r) = Len(s) - n
      /\ \A k \in 1 .. Len(s) - n : r[k] = s[k + n]
  BY Halves, Zenon
<1>2. Len(s) \in Nat /\ n \in Nat
  BY SMT
<1> QED  BY <1>1, <1>2, SMT DEF At

LEMMA AtJoin ==
  ASSUME NEW a \in Seq(Elem), NEW s \in Seq(Elem), NEW r, r = a \o s, NEW i \in Nat \ {0}
  PROVE  /\ i <= Len(a) => At(r, i) = a[i]
         /\ ~ (i <= Len(a)) => At(r, i) = At(s, i - Len(a))
<1>1. /\ Len(r) = Len(a) + Len(s)
      /\ \A k \in 1 .. Len(a) : r[k] = a[k]
      /\ \A k \in 1 .. Len(s) : r[Len(a) + k] = s[k]
  BY Joined, Zenon
<1>2. Len(s) \in Nat /\ Len(a) \in Nat
  BY SMT
<1>3. CASE i <= Len(a)
  <2>1. i \in 1 .. Len(a) /\ i <= Len(r)
    BY <1>1, <1>2, <1>3, SMT
  <2> QED  BY <1>1, <1>3, <2>1, Zenon DEF At
<1>4. CASE ~ (i <= Len(a))
  <2>1. PICK k \in Nat \ {0} : k = i - Len(a)
    <3>1. i - Len(a) \in Nat \ {0}
      BY <1>2, <1>4, SMT
    <3> QED  BY <3>1, Zenon
  <2>2. i = Len(a) + k /\ (i <= Len(r) <=> k <= Len(s)) /\ (k <= Len(s) => k \in 1 .. Len(s))
    BY <1>1, <1>2, <2>1, SMT
  <2> QED  BY <1>1, <1>4, <2>1, <2>2, Zenon DEF At
<1> QED  BY <1>3, <1>4, Zenon

LEMMA PopHeadMoves ==
  ASSUME NEW t \in Thread, NEW sq \in [Place -> Seq(Elem)], StackType, Holds(sq), PopHead(t),
         NEW sr,
         sr = [sq EXCEPT ![Of(t)] = SubSeq(sq[On(Src(t))], 1, loc[t].num),
                      ![On(Src(t))] = SubSeq(sq[On(Src(t))], loc[t].num + 1, Len(sq[On(Src(t))]))]
  PROVE  /\ StackType' /\ Holds(sr)' /\ sr \in [Place -> Seq(Elem)]
         /\ loc[t].num \in 1 .. Len(sq[On(Src(t))])
<1>1. Holds(sq) /\ sq \in [Place -> Seq(Elem)]
  OBVIOUS
<1>2. StackType
  OBVIOUS
<1>3. PICK l \in List : l = Src(t)
  BY <1>2, LocalFields, Zenon
<1>4. PICK v : v = [loc[t] EXCEPT !.first = loc[t].old.top, !.tmp = loc[t].old.top, !.i = 0]
  BY Zenon
<1>5. PICK q : q = IF loc[t].op = "push" THEN "fill" ELSE "uhead"
  BY Zenon
<1>6. /\ pc[t] = "walk" /\ loc[t].i = loc[t].num /\ head[l] = loc[t].old
      /\ head' = [head EXCEPT ![l] = [top |-> loc[t].tmp, cnt |-> loc[t].old.cnt + 1]]
      /\ loc' = [loc EXCEPT ![t] = v] /\ pc' = [pc EXCEPT ![t] = q] /\ UNCHANGED <<len, next, data>>
  BY <1>3, <1>4, <1>5, Zenon DEF PopHead, Goto
<1>7. PICK s : s = sq[On(l)]
  BY Zenon
<1>8. /\ On(l) \in Place /\ Of(t) \in Place /\ On(l) # Of(t) /\ Spread(sq)
      /\ s \in Seq(Elem) /\ Len(s) \in Nat /\ \A k \in 1 .. Len(s) : s[k] \in Elem
  <2>1. On(l) \in Place /\ Of(t) \in Place /\ On(l) # Of(t) /\ Spread(sq)
    BY <1>1, PlaceDistinct, Zenon DEF Holds
  <2> QED  BY <1>7, <2>1, SpreadElem, Zenon
<1>9. /\ loc[t] \in Local /\ loc[t].num \in 1 .. MaxNum /\ loc[t].num \in Nat
      /\ loc[t].old \in HeadWords /\ loc[t].op \in Op /\ loc[t].tmp \in 0 .. Capacity
  BY <1>1, <1>2, <1>6, LocalFields, NumOK, Zenon
<1>10. PICK n \in Nat : n = loc[t].num
  BY <1>9, Zenon
<1>11. n \in 1 .. MaxNum /\ n > 0
  BY <1>9, <1>10, SMT
<1>12. /\ n <= Len(s) /\ loc[t].tmp = At(s, n + 1) /\ loc[t].last = s[n]
  <2>1. WalkOK(s, t)
    BY <1>1, <1>3, <1>7, Zenon DEF Holds
  <2> QED  BY <1>2, <1>3, <1>6, <1>8, <1>10, <1>11, <2>1, WalkSeen, Zenon
<1>13. /\ loc[t].old.top = At(s, 1) /\ \A i \in 1 .. Len(s) : next[s[i]] = At(s, i + 1)
       /\ Len(s) = len[l] + Cardinality(Due(l))
  BY <1>1, <1>6, <1>7, Zenon DEF Holds, ListOK
<1>14. n \in 0 .. Len(s) /\ 1 <= Len(s) /\ n \in 1 .. Len(s)
  BY <1>8, <1>11, <1>12, SMT
<1>15. PICK a : a = SubSeq(s, 1, n)
  BY Zenon
<1>16. PICK r : r = SubSeq(s, n + 1, Len(s))
  BY Zenon
<1>17. /\ a \in Seq(Elem) /\ Len(a) = n /\ \A i \in 1 .. n : a[i] = s[i]
       /\ r \in Seq(Elem) /\ Len(r) = Len(s) - n /\ \A i \in 1 .. Len(s) - n : r[i] = s[i + n]
  BY <1>8, <1>14, <1>15, <1>16, Halves, Zenon
<1>18. sr = [sq EXCEPT ![Of(t)] = a, ![On(l)] = r]
  BY <1>3, <1>7, <1>10, <1>15, <1>16, Zenon
<1>19. sr[Of(t)] = a /\ sr[On(l)] = r /\ \A p \in Place : p # Of(t) /\ p # On(l) => sr[p] = sq[p]
  BY <1>1, <1>8, <1>18, Zenon
<1>20. Spread(sr)
  <2>1. sq[Of(t)] = <<>>
    <3>1. ~ Owning(t) /\ OwnOK(sq[Of(t)], t)
      BY <1>1, <1>6, Zenon DEF Holds, Owning
    <3> QED  BY <3>1, Zenon DEF OwnOK
  <2>2. n \in 0 .. Len(sq[On(l)])
    BY <1>7, <1>14, Zenon
  <2>3. sr = [sq EXCEPT ![Of(t)] = SubSeq(sq[On(l)], 1, n),
                        ![On(l)] = SubSeq(sq[On(l)], n + 1, Len(sq[On(l)]))]
    BY <1>7, <1>15, <1>16, <1>18, Zenon
  <2>4. On(l) \in Place /\ Of(t) \in Place /\ On(l) # Of(t) /\ Spread(sq)
    BY <1>8, Zenon
  <2> QED  BY <2>1, <2>2, <2>3, <2>4, SpreadPop, Zenon
<1>21. /\ v \in Local /\ v.op = loc[t].op /\ v.num = n /\ v.first = loc[t].old.top
       /\ v.last = loc[t].last /\ v.tmp = loc[t].old.top /\ v.i = 0
  <2>1. loc[t].old.top \in 0 .. Capacity /\ 0 \in Nat
    BY <1>9, SMT DEF HeadWords
  <2> QED  BY <1>4, <1>9, <1>10, <2>1, Zenon DEF Local
<1>22. /\ q \in Labels /\ q \in {"fill", "uhead"} /\ (q = "fill" <=> v.op = "push")
  BY <1>5, <1>21, Zenon DEF Labels
<1>23. /\ pc' \in [Thread -> Labels] /\ loc' \in [Thread -> Local]
       /\ pc'[t] = q /\ loc'[t] = v /\ Others(t)
  BY <1>2, <1>6, <1>21, <1>22, Moves, Zenon
<1>24. /\ head'[l].top = loc[t].tmp /\ head'[l].cnt > head[l].cnt
       /\ \A k \in List : k # l => head'[k] = head[k]
       /\ head' \in [List -> HeadWords]
  <2>1. loc[t].old.cnt \in Nat
    BY <1>9, Zenon DEF HeadWords
  <2>2. loc[t].old.cnt + 1 \in Nat /\ loc[t].old.cnt + 1 > loc[t].old.cnt
    BY <2>1, SMT
  <2>3. PICK h : h = [top |-> loc[t].tmp, cnt |-> loc[t].old.cnt + 1]
    BY Zenon
  <2>4. h \in HeadWords /\ h.top = loc[t].tmp /\ h.cnt = loc[t].old.cnt + 1
    BY <1>9, <2>2, <2>3, Zenon DEF HeadWords
  <2>5. head'[l] = h /\ \A k \in List : k # l => head'[k] = head[k]
    BY <1>2, <1>6, <2>3, Zenon DEF StackType
  <2>6. head' \in [List -> HeadWords]
    BY <1>2, <1>6, <2>3, <2>4, Zenon DEF StackType
  <2> QED  BY <1>6, <2>2, <2>4, <2>5, <2>6, Zenon
<1>25. StackType'
  BY <1>2, <1>6, <1>23, <1>24, Zenon DEF StackType
<1>26. ListOK(r, l)'
  <2>1. At(r, 1) = At(s, n + 1)
    <3>1. 1 \in Nat \ {0} /\ 1 + n = n + 1
      BY SMT
    <3>2. At(r, 1) = At(s, 1 + n)
      BY <1>8, <1>14, <1>16, <3>1, AtRest, Zenon
    <3> QED  BY <3>1, <3>2, Zenon
  <2>2. ASSUME NEW i \in 1 .. Len(r) PROVE next[r[i]] = At(r, i + 1)
    <3>1. i + n \in 1 .. Len(s) /\ i + 1 \in Nat \ {0} /\ i + n + 1 = i + 1 + n /\ i \in 1 .. Len(s) - n
      BY <1>8, <1>14, <1>17, SMT
    <3>2. At(r, i + 1) = At(s, i + 1 + n)
      BY <1>8, <1>14, <1>16, <3>1, AtRest, Zenon
    <3>3. next[s[i + n]] = At(s, i + n + 1)
      BY <1>13, <3>1, Zenon
    <3> QED  BY <1>17, <3>1, <3>2, <3>3, Zenon
  <2> QED  BY <1>6, <1>12, <1>24, <2>1, <2>2, Zenon DEF ListOK
<1>27. \A k \in List : ~ DueFor(t, k)' /\ (DueFor(t, k) <=> k = l)
  <2>1. ~ (q \in {"phead", "phead2", "walk", "walkn"}) /\ q # "ulen"
    BY <1>22, SMT
  <2> QED  BY <1>3, <1>6, <1>23, <2>1, Zenon DEF DueFor
<1>28. Len(r) = len[l] + Cardinality(Due(l)')
  <2>1. Cardinality(Due(l)) = Cardinality(Due(l)') + n
    BY <1>10, <1>11, <1>23, <1>27, DueLose, Zenon
  <2>2. Due(l)' \subseteq AllPairs
    BY Zenon DEF Due, AllPairs
  <2>3. Cardinality(Due(l)') \in Nat
    BY <2>2, AllPairsFinite, Zenon
  <2>4. len[l] \in Nat
    BY <1>2, Zenon DEF StackType
  <2> QED  BY <1>13, <1>17, <2>1, <2>3, <2>4, SMT
<1>29. \A k \in List : k # l => Due(k)' = Due(k)
  BY <1>23, <1>27, DueKeep, Zenon
<1>30. a[1] = s[1] /\ a[n] = s[n] /\ At(s, 1) = s[1]
  <2>1. 1 \in 1 .. n /\ n \in 1 .. n
    BY <1>11, SMT
  <2> QED  BY <1>14, <1>17, <2>1, Zenon DEF At
<1>31. OwnOK(a, t)'
  <2>1. ASSUME NEW i \in 1 .. Len(a) - 1 PROVE next[a[i]] = a[i + 1]
    <3>1. i \in 1 .. n /\ i + 1 \in 1 .. n /\ i \in 1 .. Len(s) /\ i + 1 <= Len(s)
      BY <1>8, <1>12, <1>17, SMT
    <3>2. At(s, i + 1) = s[i + 1]
      BY <3>1, Zenon DEF At
    <3> QED  BY <1>13, <1>17, <3>1, <3>2, Zenon
  <2>2. Linked(a)'
    BY <1>6, <2>1, Zenon DEF Linked
  <2>3. Owning(t)' /\ q # "ucas"
    BY <1>22, <1>23, Zenon DEF Owning
  <2> QED  BY <1>11, <1>12, <1>13, <1>17, <1>21, <1>23, <1>30, <2>2, <2>3, Zenon DEF OwnOK
<1>32. FillOK(a, t)'
  <2>1. v.op = "push" => q = "fill" /\ v.i < v.num /\ v.tmp = a[v.i + 1]
    <3>1. v.i + 1 = 1 /\ v.i < v.num
      BY <1>11, <1>21, SMT
    <3> QED  BY <1>13, <1>21, <1>22, <1>30, <3>1, Zenon
  <2>2. 1 .. v.i = {}
    BY <1>21, SMT
  <2> QED  BY <1>23, <2>1, <2>2, Zenon DEF FillOK
<1>33. WalkOK(sr[On(Src(t))], t)'
  <2>1. q # "phead2" /\ ~ (q \in {"walk", "walkn"}) /\ q # "walkn"
    BY <1>22, SMT
  <2> QED  BY <1>11, <1>21, <1>22, <1>23, <2>1, Zenon DEF WalkOK
<1>34. Holds(sr)'
  BY <1>1, <1>2, <1>6, <1>19, <1>20, <1>23, <1>24, <1>25, <1>26, <1>28, <1>29, <1>31, <1>32,
     <1>33, MoveStep, Zenon
<1>35. sr \in [Place -> Seq(Elem)]
  BY <1>20, Zenon DEF Spread
<1> QED  BY <1>3, <1>7, <1>10, <1>14, <1>25, <1>34, <1>35, Zenon

LEMMA PopHeadInv ==
  ASSUME NEW t \in Thread, StackInv, PopHead(t)
  PROVE  StackInv'
BY PopHeadMoves, Zenon DEF StackInv, Place, Elem, On, Of


LEMMA PushHeadMoves ==
  ASSUME NEW t \in Thread, NEW sq \in [Place -> Seq(Elem)], StackType, Holds(sq), PushHead(t),
         NEW sr,
         sr = [sq EXCEPT ![On(Dst(t))] = sq[Of(t)] \o sq[On(Dst(t))], ![Of(t)] = <<>>]
  PROVE  /\ StackType' /\ Holds(sr)' /\ sr \in [Place -> Seq(Elem)]
         /\ loc[t].num \in 1 .. Len(sr[On(Dst(t))])
<1>1. Holds(sq) /\ sq \in [Place -> Seq(Elem)]
  OBVIOUS
<1>2. StackType
  OBVIOUS
<1>3. PICK l \in List : l = Dst(t)
  BY <1>2, LocalFields, Zenon
<1>4. /\ pc[t] = "ucas" /\ head[l] = loc[t].old
      /\ head' = [head EXCEPT ![l] = [top |-> loc[t].first, cnt |-> loc[t].old.cnt + 1]]
      /\ loc' = loc /\ pc' = [pc EXCEPT ![t] = "ulen"] /\ UNCHANGED <<len, next, data>>
  BY <1>3, Zenon DEF PushHead, Goto
<1>5. PICK s : s = sq[On(l)]
  BY Zenon
<1>6. PICK a : a = sq[Of(t)]
  BY Zenon
<1>7. /\ On(l) \in Place /\ Of(t) \in Place /\ On(l) # Of(t) /\ Spread(sq)
      /\ s \in Seq(Elem) /\ Len(s) \in Nat /\ a \in Seq(Elem) /\ Len(a) \in Nat
      /\ \A k \in 1 .. Len(a) : a[k] \in Elem
  <2>1. On(l) \in Place /\ Of(t) \in Place /\ On(l) # Of(t) /\ Spread(sq)
    BY <1>1, PlaceDistinct, Zenon DEF Holds
  <2> QED  BY <1>5, <1>6, <2>1, SpreadElem, Zenon
<1>8. /\ loc[t] \in Local /\ loc[t].num \in 1 .. MaxNum /\ loc[t].num \in Nat
      /\ loc[t].old \in HeadWords /\ loc[t].first \in 0 .. Capacity
  BY <1>1, <1>2, <1>4, LocalFields, NumOK, Zenon
<1>9. PICK n \in Nat : n = loc[t].num
  BY <1>8, Zenon
<1>10. n \in 1 .. MaxNum /\ n > 0
  BY <1>8, <1>9, SMT
<1>11. /\ Len(a) = n /\ Linked(a) /\ loc[t].first = a[1] /\ loc[t].last = a[n]
       /\ next[a[n]] = loc[t].old.top
  <2>1. Owning(t) /\ OwnOK(a, t)
    BY <1>1, <1>4, <1>6, Zenon DEF Holds, Owning
  <2> QED  BY <1>4, <1>9, <2>1, Zenon DEF OwnOK
<1>12. /\ loc[t].old.top = At(s, 1) /\ \A i \in 1 .. Len(s) : next[s[i]] = At(s, i + 1)
       /\ Len(s) = len[l] + Cardinality(Due(l))
  BY <1>1, <1>4, <1>5, Zenon DEF Holds, ListOK
<1>13. PICK r : r = a \o s
  BY Zenon
<1>14. /\ r \in Seq(Elem) /\ Len(r) = n + Len(s)
       /\ \A i \in 1 .. n : r[i] = a[i]
       /\ \A j \in 1 .. Len(s) : r[n + j] = s[j]
  BY <1>7, <1>11, <1>13, Joined, Zenon
<1>15. sr = [sq EXCEPT ![On(l)] = r, ![Of(t)] = <<>>]
  BY <1>3, <1>5, <1>6, <1>13, Zenon
<1>16. sr[Of(t)] = <<>> /\ sr[On(l)] = r /\ \A p \in Place : p # Of(t) /\ p # On(l) => sr[p] = sq[p]
  BY <1>1, <1>7, <1>15, Zenon
<1>17. Spread(sr)
  BY <1>5, <1>6, <1>7, <1>13, <1>15, SpreadPush, Zenon
<1>18. /\ pc' \in [Thread -> Labels] /\ loc' \in [Thread -> Local]
       /\ pc'[t] = "ulen" /\ loc'[t] = loc[t] /\ Others(t)
  <2>1. loc' = [loc EXCEPT ![t] = loc[t]]
    BY <1>2, <1>4, Zenon DEF StackType
  <2>2. "ulen" \in Labels
    BY Zenon DEF Labels
  <2> QED  BY <1>2, <1>4, <1>8, <2>1, <2>2, Moves, Zenon
<1>19. /\ head'[l].top = loc[t].first /\ head'[l].cnt > head[l].cnt
       /\ \A k \in List : k # l => head'[k] = head[k]
       /\ head' \in [List -> HeadWords]
  <2>1. loc[t].old.cnt \in Nat
    BY <1>8, Zenon DEF HeadWords
  <2>2. loc[t].old.cnt + 1 \in Nat /\ loc[t].old.cnt + 1 > loc[t].old.cnt
    BY <2>1, SMT
  <2>3. PICK h : h = [top |-> loc[t].first, cnt |-> loc[t].old.cnt + 1]
    BY Zenon
  <2>4. h \in HeadWords /\ h.top = loc[t].first /\ h.cnt = loc[t].old.cnt + 1
    BY <1>8, <2>2, <2>3, Zenon DEF HeadWords
  <2>5. head'[l] = h /\ \A k \in List : k # l => head'[k] = head[k]
    BY <1>2, <1>4, <2>3, Zenon DEF StackType
  <2>6. head' \in [List -> HeadWords]
    BY <1>2, <1>4, <2>3, <2>4, Zenon DEF StackType
  <2> QED  BY <1>4, <2>2, <2>4, <2>5, <2>6, Zenon
<1>20. StackType'
  BY <1>2, <1>4, <1>18, <1>19, Zenon DEF StackType
<1>21. ListOK(r, l)'
  <2>1. At(r, 1) = a[1]
    <3>1. 1 \in Nat \ {0} /\ 1 <= Len(a)
      BY <1>10, <1>11, SMT
    <3> QED  BY <1>7, <1>13, <3>1, AtJoin, ZenonT(60)
  <2>2. ASSUME NEW i \in 1 .. Len(r) PROVE next[r[i]] = At(r, i + 1)
    <3>1. i \in Nat /\ i + 1 \in Nat \ {0} /\ 1 <= i /\ i <= n + Len(s)
      BY <1>7, <1>14, SMT
    <3>2. /\ i + 1 <= n => At(r, i + 1) = a[i + 1]
          /\ ~ (i + 1 <= n) => At(r, i + 1) = At(s, i + 1 - n)
      <4>1. /\ i + 1 <= Len(a) => At(r, i + 1) = a[i + 1]
            /\ ~ (i + 1 <= Len(a)) => At(r, i + 1) = At(s, i + 1 - Len(a))
        <5>1. a \in Seq(Elem) /\ s \in Seq(Elem)
          BY <1>7, Zenon
        <5>2. PICK j \in Nat \ {0} : j = i + 1
          BY <3>1, Zenon
        <5>3. /\ j <= Len(a) => At(r, j) = a[j]
              /\ ~ (j <= Len(a)) => At(r, j) = At(s, j - Len(a))
          BY <1>13, <5>1, AtJoin, ZenonT(60)
        <5> QED  BY <5>2, <5>3, SMT
      <4> QED  BY <1>11, <4>1, Zenon
    <3>3. CASE i < n
      <4>1. i \in 1 .. n /\ i \in 1 .. Len(a) - 1 /\ i + 1 <= n
        BY <1>11, <3>1, <3>3, SMT
      <4>2. next[a[i]] = a[i + 1]
        BY <1>11, <4>1, Zenon DEF Linked
      <4> QED  BY <1>14, <3>2, <4>1, <4>2, Zenon
    <3>4. CASE i = n
      <4>1. ~ (i + 1 <= n) /\ i + 1 - n = 1 /\ i \in 1 .. n
        BY <1>10, <3>4, SMT
      <4> QED  BY <1>11, <1>12, <1>14, <3>2, <3>4, <4>1, Zenon
    <3>5. CASE i > n
      <4>1. PICK j \in Nat : j = i - n
        BY <3>1, <3>5, SMT
      <4>2. /\ i = n + j /\ j \in 1 .. Len(s) /\ ~ (i + 1 <= n) /\ i + 1 - n = j + 1
        BY <1>7, <3>1, <3>5, <4>1, SMT
      <4> QED  BY <1>12, <1>14, <3>2, <4>2, Zenon
    <3> QED  BY <3>1, <3>3, <3>4, <3>5, SMT
  <2> QED  BY <1>4, <1>11, <1>19, <2>1, <2>2, Zenon DEF ListOK
<1>22. \A k \in List : ~ DueFor(t, k) /\ (DueFor(t, k)' <=> k = l)
  <2>1. Dst(t)' = Dst(t)
    BY <1>18, Zenon DEF Dst
  <2> QED  BY <1>3, <1>4, <1>18, <2>1, Zenon DEF DueFor
<1>23. Len(r) = len[l] + Cardinality(Due(l)')
  <2>1. Cardinality(Due(l)') = Cardinality(Due(l)) + n
    BY <1>9, <1>10, <1>18, <1>22, DueGain, Zenon
  <2>2. Due(l) \subseteq AllPairs
    BY Zenon DEF Due
  <2>3. Cardinality(Due(l)) \in Nat
    BY <2>2, AllPairsFinite, Zenon
  <2>4. len[l] \in Nat
    BY <1>2, Zenon DEF StackType
  <2> QED  BY <1>12, <1>14, <2>1, <2>3, <2>4, SMT
<1>24. \A k \in List : k # l => Due(k)' = Due(k)
  BY <1>18, <1>22, DueKeep, Zenon
<1>25. OwnOK(sr[Of(t)], t)' /\ FillOK(sr[Of(t)], t)'
  <2>1. ~ Owning(t)'
    BY <1>18, Zenon DEF Owning
  <2> QED  BY <1>16, <2>1, Zenon DEF OwnOK, FillOK
<1>26. WalkOK(sr[On(Src(t))], t)'
  BY <1>9, <1>10, <1>18, Zenon DEF WalkOK
<1>27. Holds(sr)'
  BY <1>1, <1>2, <1>4, <1>16, <1>17, <1>18, <1>19, <1>20, <1>21, <1>23, <1>24, <1>25, <1>26,
     MoveStep, Zenon
<1>28. sr \in [Place -> Seq(Elem)]
  BY <1>17, Zenon DEF Spread
<1>29. n \in 1 .. Len(r)
  BY <1>7, <1>10, <1>14, SMT
<1> QED  BY <1>3, <1>9, <1>16, <1>20, <1>27, <1>28, <1>29, Zenon

LEMMA PushHeadInv ==
  ASSUME NEW t \in Thread, StackInv, PushHead(t)
  PROVE  StackInv'
BY PushHeadMoves, Zenon DEF StackInv, Place, Elem, On, Of


-----------------------------------------------------------------------------
(* The invariant holds                                                      *)

\* rte_stack_lf_init: all elements are on the free list, the last one first.
LEMMA StackInitInv == Init => StackInv
<1> SUFFICES ASSUME Init PROVE StackInv
  OBVIOUS
<1>1. PICK c \in Nat : c = Capacity
  BY StackSizes, Zenon
<1>2. StackType
  <2>1. [top |-> Capacity, cnt |-> Capacity] \in HeadWords /\ [top |-> NULL, cnt |-> 0] \in HeadWords
    BY StackSizes, SMT DEF HeadWords, NULL
  <2>2. head \in [List -> HeadWords]
    BY <2>1, Zenon DEF Init
  <2>3. len \in [List -> Nat]
    BY StackSizes, SMT DEF Init
  <2>4. next \in [Elem -> 0 .. Capacity]
    BY StackSizes, SMT DEF Init, Elem
  <2>5. data \in [Elem -> Data]
    BY Zenon DEF Init, Data
  <2>6. pc \in [Thread -> Labels] /\ loc \in [Thread -> Local]
    BY NoLocalOK, Zenon DEF Init, Labels
  <2> QED  BY <2>2, <2>3, <2>4, <2>5, <2>6, Zenon DEF StackType
<1>3. PICK s : s = [i \in 1 .. c |-> c + 1 - i]
  BY Zenon
<1>4. s \in Seq(Elem) /\ Len(s) = c /\ \A i \in 1 .. c : s[i] = c + 1 - i
  <2>1. \A i \in 1 .. c : c + 1 - i \in Elem
    BY <1>1, SMT DEF Elem
  <2> QED  BY <1>3, <2>1, SMT
<1>5. PICK sq : sq = [p \in Place |-> IF p = On("free") THEN s ELSE <<>>]
  BY Zenon
<1>6. "free" \in List /\ "used" \in List /\ \A l \in List : l = "free" \/ l = "used"
  BY Zenon DEF List
<1>7. /\ sq[On("free")] = s /\ sq[On("used")] = <<>> /\ \A t \in Thread : sq[Of(t)] = <<>>
      /\ On("free") \in Place /\ \A p \in Place : p # On("free") => sq[p] = <<>>
  <2>1. On("free") \in Place /\ On("used") \in Place /\ On("used") # On("free")
    BY <1>6, PlaceDistinct, Zenon
  <2>2. \A t \in Thread : Of(t) \in Place /\ Of(t) # On("free")
    BY <1>6, PlaceDistinct, Zenon
  <2> QED  BY <1>5, <2>1, <2>2, Zenon
<1>8. sq \in [Place -> Seq(Elem)]
  BY <1>4, <1>5, Nothing, Zenon
<1>9. Spread(sq)
  <2>1. ASSUME NEW p \in Place, NEW i \in 1 .. Len(sq[p])
        PROVE  p = On("free") /\ i \in 1 .. c /\ sq[p][i] = c + 1 - i
    <3>1. p = On("free")
      BY <1>7, Nothing, Zenon
    <3> QED  BY <1>4, <1>7, <3>1, Zenon
  <2>2. ASSUME NEW p \in Place, NEW q \in Place, NEW i \in 1 .. Len(sq[p]),
               NEW j \in 1 .. Len(sq[q]), sq[p][i] = sq[q][j]
        PROVE  p = q /\ i = j
    <3>1. /\ p = On("free") /\ i \in 1 .. c /\ sq[p][i] = c + 1 - i
          /\ q = On("free") /\ j \in 1 .. c /\ sq[q][j] = c + 1 - j
      BY <2>1, Zenon
    <3>2. c + 1 - i = c + 1 - j
      BY <2>2, <3>1, Zenon
    <3>3. i = j
      BY <3>1, <3>2, SMT
    <3> QED  BY <3>1, <3>3, Zenon
  <2>3. ASSUME NEW e \in Elem PROVE \E p \in Place : \E i \in 1 .. Len(sq[p]) : sq[p][i] = e
    <3>1. c + 1 - e \in 1 .. c /\ c + 1 - (c + 1 - e) = e
      BY <1>1, SMT DEF Elem
    <3>2. PICK i \in 1 .. c : c + 1 - i = e
      BY <3>1, Zenon
    <3>3. i \in 1 .. Len(sq[On("free")]) /\ sq[On("free")][i] = e
      BY <1>4, <1>7, <3>2, Zenon
    <3> QED  BY <1>7, <3>3, Zenon
  <2> QED  BY <1>8, <2>2, <2>3, Zenon DEF Spread
<1>10. \A l \in List : Due(l) = {}
  <2>1. \A t \in Thread, l \in List : ~ DueFor(t, l)
    BY SMT DEF Init, DueFor
  <2>2. \A d \in AllPairs : d[1] \in Thread
    BY SMT DEF AllPairs
  <2> QED  BY <2>1, <2>2, Zenon DEF Due
<1>11. ASSUME NEW l \in List
       PROVE  ListOK(sq[On(l)], l) /\ Len(sq[On(l)]) = len[l] + Cardinality(Due(l))
  <2>1. Cardinality(Due(l)) = 0
    BY <1>10, FS_EmptySet, Zenon
  <2>2. CASE l = "free"
    <3>1. head[l].top = c /\ len[l] = c
      BY <1>1, <1>6, <2>2, SMT DEF Init
    <3>2. At(s, 1) = c
      BY <1>4, SMT DEF At, NULL
    <3>3. ASSUME NEW i \in 1 .. Len(s) PROVE next[s[i]] = At(s, i + 1)
      <4>1. i \in 1 .. c /\ s[i] = c + 1 - i /\ c + 1 - i \in Elem
        BY <1>1, <1>4, SMT DEF Elem
      <4>2. next[s[i]] = c - i
        BY <4>1, SMT DEF Init
      <4>3. CASE i = c
        BY <1>4, <4>1, <4>2, <4>3, SMT DEF At, NULL
      <4>4. CASE i # c
        <5>1. i + 1 \in 1 .. c /\ c + 1 - (i + 1) = c - i /\ i + 1 <= c
          BY <4>1, <4>4, SMT
        <5> QED  BY <1>4, <4>2, <5>1, Zenon DEF At
      <4> QED  BY <4>3, <4>4, Zenon
    <3>4. ListOK(s, l)
      BY <3>1, <3>2, <3>3, Zenon DEF ListOK
    <3>5. c = c + 0
      BY SMT
    <3> QED  BY <1>4, <1>7, <2>1, <2>2, <3>1, <3>4, <3>5, Zenon
  <2>3. CASE l = "used"
    <3>1. head[l].top = NULL /\ len[l] = 0
      BY <1>6, <2>3, SMT DEF Init
    <3>2. At(<<>>, 1) = NULL
      BY SMT DEF At
    <3>3. ListOK(<<>>, l)
      BY <3>1, <3>2, Nothing, Zenon DEF ListOK
    <3>4. 0 = 0 + 0
      BY SMT
    <3> QED  BY <1>7, <2>1, <2>3, <3>1, <3>3, <3>4, Nothing, Zenon
  <2> QED  BY <1>6, <2>2, <2>3, Zenon
<1>12. ASSUME NEW t \in Thread
       PROVE  OwnOK(sq[Of(t)], t) /\ FillOK(sq[Of(t)], t) /\ WalkOK(sq[On(Src(t))], t)
  <2>1. pc[t] = "idle" /\ ~ Owning(t)
    BY Zenon DEF Init, Owning
  <2>2. OwnOK(sq[Of(t)], t) /\ FillOK(sq[Of(t)], t)
    BY <1>7, <2>1, Zenon DEF OwnOK, FillOK
  <2> QED  BY <2>1, <2>2, Zenon DEF WalkOK
<1> QED  BY <1>2, <1>8, <1>9, <1>11, <1>12, Zenon DEF StackInv, Holds

\* Every step of the stack preserves the invariant.
LEMMA StackNextInv == StackInv /\ [Next]_vars => StackInv'
<1> SUFFICES ASSUME StackInv, [Next]_vars PROVE StackInv'
  OBVIOUS
<1>1. CASE UNCHANGED vars
  <2>1. PICK sq \in [Place -> Seq(Elem)] : Holds(sq)
    BY Zenon DEF StackInv
  <2>2. StackType'
    BY <1>1, Zenon DEF vars, StackInv, StackType
  <2>3. Spread(sq)'
    BY <2>1, Zenon DEF Holds, Spread, Place, Elem, On, Of
  <2>4. ASSUME NEW l \in List
        PROVE  ListOK(sq[On(l)], l)' /\ Len(sq[On(l)]) = len'[l] + Cardinality(Due(l)')
    <3>1. ListOK(sq[On(l)], l)'
      BY <1>1, <2>1, KeepList, Zenon DEF vars, Holds
    <3>2. Due(l)' = Due(l)
      BY <1>1, Zenon DEF vars, Due, DueFor, Src, Dst, AllPairs
    <3> QED  BY <1>1, <2>1, <3>1, <3>2, Zenon DEF vars, Holds
  <2>5. ASSUME NEW t \in Thread
        PROVE  OwnOK(sq[Of(t)], t)' /\ FillOK(sq[Of(t)], t)' /\ WalkOK(sq[On(Src(t))], t)'
    <3>1. OwnOK(sq[Of(t)], t) /\ FillOK(sq[Of(t)], t) /\ WalkOK(sq[On(Src(t))], t)
      BY <2>1, Zenon DEF Holds
    <3>2. OwnOK(sq[Of(t)], t)'
      BY <1>1, <3>1, Zenon DEF vars, OwnOK, Owning, Linked
    <3>3. FillOK(sq[Of(t)], t)'
      BY <1>1, <3>1, Zenon DEF vars, FillOK, Owning
    <3>4. WalkOK(sq[On(Src(t))], t)'
      BY <1>1, <3>1, Zenon DEF vars, WalkOK, Src
    <3> QED  BY <3>2, <3>3, <3>4, Zenon
  <2>6. Holds(sq)'
    BY <2>3, <2>4, <2>5, Zenon DEF Holds
  <2> QED  BY <2>1, <2>2, <2>6, Zenon DEF StackInv, Place, Elem, On, Of
<1>2. ASSUME NEW t \in Thread, Step(t) PROVE StackInv'
  BY <1>2, LoadLenInv, TooFewInv, ReserveInv, PopLoadHeadInv, WalkDataInv, WalkNextInv,
     WalkAgainInv, PopHeadInv, PopHeadFailsInv, FillInv, PushLoadHeadInv, LinkInv, PushHeadInv,
     PushHeadFailsInv, AddLenInv, Zenon DEF Step
<1>3. ASSUME NEW t \in Thread, NEW op \in Op, NEW num \in 1 .. MaxNum, Call(t, op, num)
      PROVE  StackInv'
  BY <1>3, CallInv, Zenon
<1> QED  BY <1>1, <1>2, <1>3, Zenon DEF Next

\* The stack's inductive invariant, for any number of threads, elements and
\* objects in a call.
THEOREM StackInvariant == Spec => []StackInv
BY StackInitInv, StackNextInv, PTL DEF Spec


-----------------------------------------------------------------------------
(* The elements from a pointer on                                           *)

\* A set of numbers that is not empty has a least one.
LEMMA LeastNat ==
  ASSUME NEW S, S \subseteq Nat, S # {}
  PROVE  \E m \in S : \A k \in S : m <= k
<1>1. PICK m \in S : \A k \in S : ~ (<<k, m>> \in OpToRel(<, Nat))
  BY NatLessThanWellFounded, WFMin, Zenon
<1>2. ASSUME NEW k \in S PROVE m <= k
  <2>1. m \in Nat /\ k \in Nat
    BY Zenon
  <2>2. ~ (k < m)
    BY <1>1, <2>1, Zenon DEF OpToRel
  <2> QED  BY <2>1, <2>2, SMT
<1> QED  BY <1>2, Zenon

\* The successor of an element, of NULL there is none.
Follow(nx, e) == IF e = NULL THEN NULL ELSE nx[e]

\* The function that Nth defines by recursion is there: a longest part of it
\* could be extended.
LEMMA NthThere ==
  ASSUME NEW nx \in [Elem -> 0 .. Capacity], NEW p \in 0 .. Capacity
  PROVE  \E g : g = [i \in 0 .. Capacity |-> IF i = 0 THEN p ELSE Follow(nx, g[i - 1])]
<1> DEFINE Part(n) == \E g \in [0 .. n -> 0 .. Capacity] :
                        g[0] = p /\ \A i \in 1 .. n : g[i] = Follow(nx, g[i - 1])
           Missing == {n \in Nat : ~ Part(n)}
<1>1. \A e \in 0 .. Capacity : Follow(nx, e) \in 0 .. Capacity
  BY NotNull, StackSizes, SMT DEF Follow, NULL
<1>2. Part(0)
  <2>1. PICK g : g = [i \in 0 .. 0 |-> p]
    BY Zenon
  <2>2. g \in [0 .. 0 -> 0 .. Capacity] /\ g[0] = p /\ 1 .. 0 = {}
    BY <2>1, SMT
  <2> QED  BY <2>2, Zenon
<1>3. ASSUME NEW n \in Nat, Part(n) PROVE Part(n + 1)
  <2>1. PICK g \in [0 .. n -> 0 .. Capacity] : g[0] = p /\ \A i \in 1 .. n : g[i] = Follow(nx, g[i - 1])
    BY <1>3, Zenon
  <2>2. PICK h : h = [i \in 0 .. n + 1 |-> IF i = n + 1 THEN Follow(nx, g[n]) ELSE g[i]]
    BY Zenon
  <2>3. \A i \in 0 .. n + 1 : (i # n + 1 => i \in 0 .. n) /\ 0 \in 0 .. n /\ n \in 0 .. n
    BY SMT
  <2>4. h \in [0 .. n + 1 -> 0 .. Capacity]
    BY <1>1, <2>1, <2>2, <2>3, SMT
  <2>5. h[0] = p
    BY <2>1, <2>2, SMT
  <2>6. ASSUME NEW i \in 1 .. n + 1 PROVE h[i] = Follow(nx, h[i - 1])
    <3>1. i \in 0 .. n + 1 /\ i - 1 \in 0 .. n + 1 /\ i - 1 # n + 1 /\ i - 1 \in 0 .. n
      BY SMT
    <3>2. h[i - 1] = g[i - 1]
      BY <2>2, <3>1, Zenon
    <3>3. CASE i = n + 1
      <4>1. i - 1 = n
        BY <3>3, SMT
      <4> QED  BY <2>2, <3>1, <3>2, <3>3, <4>1, Zenon
    <3>4. CASE i # n + 1
      <4>1. i \in 1 .. n
        BY <3>4, SMT
      <4>2. h[i] = g[i]
        BY <2>2, <3>1, <3>4, Zenon
      <4> QED  BY <2>1, <3>2, <4>1, <4>2, Zenon
    <3> QED  BY <3>3, <3>4, Zenon
  <2> QED  BY <2>4, <2>5, <2>6, Zenon
<1>4. Part(Capacity)
  <2>1. SUFFICES ASSUME Missing # {} PROVE FALSE
    BY StackSizes, Zenon
  <2>2. Missing \subseteq Nat
    BY Zenon
  <2> HIDE DEF Part
  <2>3. PICK m \in Missing : \A k \in Missing : m <= k
    BY <2>1, <2>2, LeastNat, Zenon
  <2>4. m \in Nat /\ ~ Part(m)
    BY <2>3, Zenon
  <2>5. m # 0
    BY <1>2, <2>4, Zenon
  <2>6. m - 1 \in Nat /\ m - 1 + 1 = m /\ ~ (m <= m - 1)
    BY <2>4, <2>5, SMT
  <2>7. m - 1 \notin Missing
    BY <2>3, <2>6, Zenon
  <2>8. Part(m - 1)
    BY <2>6, <2>7, Zenon
  <2>9. Part(m - 1 + 1)
    BY <1>3, <2>6, <2>8, Zenon
  <2> QED  BY <2>4, <2>6, <2>9, Zenon
<1>5. PICK g \in [0 .. Capacity -> 0 .. Capacity] :
        g[0] = p /\ \A i \in 1 .. Capacity : g[i] = Follow(nx, g[i - 1])
  BY <1>4, Zenon
<1>6. g = [i \in 0 .. Capacity |-> IF i = 0 THEN p ELSE Follow(nx, g[i - 1])]
  <2>1. \A i \in 0 .. Capacity : i # 0 => i \in 1 .. Capacity
    BY StackSizes, SMT
  <2>2. \A i \in 0 .. Capacity : g[i] = IF i = 0 THEN p ELSE Follow(nx, g[i - 1])
    BY <1>5, <2>1, Zenon
  <2> QED  BY <1>5, <2>2, Zenon
<1> QED  BY <1>6, Zenon

\* What Nth computes, with the links as a parameter.
Walk(nx, p) ==
  CHOOSE f : f = [i \in 0 .. Capacity |->
                    IF i = 0 THEN p ELSE IF f[i - 1] = NULL THEN NULL ELSE nx[f[i - 1]]]

LEMMA WalkIs ==
  ASSUME NEW nx \in [Elem -> 0 .. Capacity], NEW p \in 0 .. Capacity
  PROVE  /\ Walk(nx, p)[0] = p
         /\ \A i \in 1 .. Capacity : Walk(nx, p)[i] = Follow(nx, Walk(nx, p)[i - 1])
<1>1. PICK g : g = [i \in 0 .. Capacity |-> IF i = 0 THEN p ELSE Follow(nx, g[i - 1])]
  BY NthThere, Zenon
<1>2. g = [i \in 0 .. Capacity |-> IF i = 0 THEN p ELSE IF g[i - 1] = NULL THEN NULL ELSE nx[g[i - 1]]]
  BY <1>1, Zenon DEF Follow
<1>3. PICK f : f = Walk(nx, p)
  BY Zenon
<1>4. f = [i \in 0 .. Capacity |-> IF i = 0 THEN p ELSE IF f[i - 1] = NULL THEN NULL ELSE nx[f[i - 1]]]
  BY <1>2, <1>3, Zenon DEF Walk
<1>5. 0 \in 0 .. Capacity /\ \A i \in 1 .. Capacity : i \in 0 .. Capacity /\ i # 0
  BY StackSizes, SMT
<1>6. f[0] = p
  BY <1>4, <1>5, Zenon
<1>7. \A i \in 1 .. Capacity : f[i] = Follow(nx, f[i - 1])
  BY <1>4, <1>5, Zenon DEF Follow
<1> QED  BY <1>3, <1>6, <1>7, Zenon

\* It runs along a sequence of linked elements ...
LEMMA WalkAlong ==
  ASSUME NEW nx \in [Elem -> 0 .. Capacity], NEW s \in Seq(Elem), s # <<>>,
         \A i \in 1 .. Len(s) - 1 : nx[s[i]] = s[i + 1]
  PROVE  \A i \in 0 .. Capacity : i < Len(s) => Walk(nx, s[1])[i] = s[i + 1]
<1> DEFINE Off == {i \in 0 .. Capacity : i < Len(s) /\ Walk(nx, s[1])[i] # s[i + 1]}
<1>1. Len(s) \in Nat /\ Len(s) > 0 /\ \A i \in 1 .. Len(s) : s[i] \in Elem
  BY SMT
<1>2. s[1] \in 0 .. Capacity
  <2>1. 1 \in 1 .. Len(s)
    BY <1>1, SMT
  <2> QED  BY <1>1, <2>1, NotNullElem, Zenon
<1>3. PICK f : f = Walk(nx, s[1])
  BY Zenon
<1>4. f[0] = s[1] /\ \A i \in 1 .. Capacity : f[i] = Follow(nx, f[i - 1])
  BY <1>2, <1>3, WalkIs, Zenon
<1>5. SUFFICES ASSUME Off # {} PROVE FALSE
  BY Zenon
<1>6. Off \subseteq Nat
  BY SMT
<1>7. PICK m \in Off : \A k \in Off : m <= k
  BY <1>5, <1>6, LeastNat, Zenon
<1>8. m \in 0 .. Capacity /\ m < Len(s) /\ f[m] # s[m + 1] /\ m \in Nat
  BY <1>3, <1>6, <1>7, Zenon
<1>9. m # 0
  <2>1. 0 + 1 = 1
    BY SMT
  <2> QED  BY <1>4, <1>8, <2>1, Zenon
<1>10. /\ m - 1 \in 0 .. Capacity /\ m - 1 < Len(s) /\ ~ (m <= m - 1) /\ m - 1 + 1 = m
       /\ m \in 1 .. Capacity /\ m \in 1 .. Len(s) - 1 /\ m \in 1 .. Len(s)
  BY <1>1, <1>8, <1>9, StackSizes, SMT
<1>11. f[m - 1] = s[m - 1 + 1]
  BY <1>3, <1>7, <1>10, Zenon
<1>12. s[m] # NULL /\ nx[s[m]] = s[m + 1]
  BY <1>1, <1>10, NotNullElem, Zenon
<1>13. f[m] = s[m + 1]
  BY <1>4, <1>10, <1>11, <1>12, Zenon DEF Follow
<1> QED  BY <1>8, <1>13, Zenon

\* ... and, when the last of them has no successor, stops there.
LEMMA WalkEnds ==
  ASSUME NEW nx \in [Elem -> 0 .. Capacity], NEW s \in Seq(Elem), NEW p \in 0 .. Capacity,
         p = At(s, 1), \A i \in 1 .. Len(s) : nx[s[i]] = At(s, i + 1)
  PROVE  \A i \in 0 .. Capacity : Walk(nx, p)[i] = At(s, i + 1)
<1> DEFINE Off == {i \in 0 .. Capacity : Walk(nx, p)[i] # At(s, i + 1)}
<1>1. Len(s) \in Nat /\ \A i \in 1 .. Len(s) : s[i] \in Elem
  BY SMT
<1>2. PICK f : f = Walk(nx, p)
  BY Zenon
<1>3. f[0] = p /\ \A i \in 1 .. Capacity : f[i] = Follow(nx, f[i - 1])
  BY <1>2, WalkIs, Zenon
<1>4. SUFFICES ASSUME Off # {} PROVE FALSE
  BY Zenon
<1>5. Off \subseteq Nat
  BY SMT
<1>6. PICK m \in Off : \A k \in Off : m <= k
  BY <1>4, <1>5, LeastNat, Zenon
<1>7. m \in 0 .. Capacity /\ f[m] # At(s, m + 1) /\ m \in Nat
  BY <1>2, <1>5, <1>6, Zenon
<1>8. m # 0
  <2>1. 0 + 1 = 1
    BY SMT
  <2> QED  BY <1>3, <1>7, <2>1, Zenon
<1>9. m - 1 \in 0 .. Capacity /\ ~ (m <= m - 1) /\ m - 1 + 1 = m /\ m \in 1 .. Capacity
  BY <1>7, <1>8, StackSizes, SMT
<1>10. f[m - 1] = At(s, m)
  BY <1>2, <1>6, <1>9, Zenon
<1>11. f[m] = Follow(nx, At(s, m))
  BY <1>3, <1>9, <1>10, Zenon
<1>12. CASE m <= Len(s)
  <2>1. m \in 1 .. Len(s) /\ At(s, m) = s[m]
    BY <1>1, <1>9, <1>12, SMT DEF At
  <2>2. s[m] # NULL
    BY <1>1, <2>1, NotNullElem, Zenon
  <2> QED  BY <1>7, <1>11, <2>1, <2>2, Zenon DEF Follow
<1>13. CASE ~ (m <= Len(s))
  <2>1. At(s, m) = NULL /\ At(s, m + 1) = NULL
    BY <1>1, <1>7, <1>13, SMT DEF At
  <2> QED  BY <1>7, <1>11, <2>1, Zenon DEF Follow
<1> QED  BY <1>12, <1>13, Zenon


\* The elements of a sequence, as many as it is long when none occurs twice.
Elems(s) == {s[i] : i \in 1 .. Len(s)}

LEMMA ElemsCount ==
  ASSUME NEW s \in Seq(Elem), \A i, j \in 1 .. Len(s) : s[i] = s[j] => i = j
  PROVE  /\ IsFiniteSet(Elems(s)) /\ Cardinality(Elems(s)) = Len(s) /\ Elems(s) \subseteq Elem
         /\ Len(s) <= Capacity
<1>1. Len(s) \in Nat /\ \A i \in 1 .. Len(s) : s[i] \in Elem
  BY SMT
<1>2. IsFiniteSet(1 .. Len(s)) /\ Cardinality(1 .. Len(s)) = Len(s)
  <2>1. PICK n \in Int : n = Len(s) /\ n \in Nat /\ 1 \in Int
    BY <1>1, SMT
  <2>2. IsFiniteSet(1 .. n) /\ Cardinality(1 .. n) = IF 1 > n THEN 0 ELSE n - 1 + 1
    BY <2>1, FS_Interval, Zenon
  <2>3. Cardinality(1 .. n) = n
    BY <2>1, <2>2, SMT
  <2> QED  BY <2>1, <2>2, <2>3, Zenon
<1>3. PICK f : f = [i \in 1 .. Len(s) |-> s[i]]
  BY Zenon
<1>4. f \in Bijection(1 .. Len(s), Elems(s))
  <2>1. f \in [1 .. Len(s) -> Elems(s)]
    BY <1>3, Zenon DEF Elems
  <2>2. \A i, j \in 1 .. Len(s) : f[i] = f[j] => i = j
    BY <1>3, Zenon
  <2>3. \A e \in Elems(s) : \E i \in 1 .. Len(s) : f[i] = e
    BY <1>3, Zenon DEF Elems
  <2>4. DOMAIN f = 1 .. Len(s)
    BY <1>3, Zenon
  <2>5. f \in Injection(1 .. Len(s), Elems(s))
    BY <2>1, <2>2, <2>4, Zenon DEF Injection, IsInjective
  <2>6. f \in Surjection(1 .. Len(s), Elems(s))
    BY <2>1, <2>3, Zenon DEF Surjection
  <2> QED  BY <2>5, <2>6, Zenon DEF Bijection
<1>5. IsFiniteSet(Elems(s)) /\ Cardinality(Elems(s)) = Len(s)
  BY <1>2, <1>4, FS_Bijection, Zenon DEF ExistsBijection
<1>6. Elems(s) \subseteq Elem
  BY <1>1, Zenon DEF Elems
<1>7. IsFiniteSet(Elem) /\ Cardinality(Elem) = Capacity
  BY StackSizes, FS_Interval, SMT DEF Elem
<1>8. Cardinality(Elems(s)) <= Cardinality(Elem)
  BY <1>6, <1>7, FS_Subset, Zenon
<1> QED  BY <1>5, <1>6, <1>7, <1>8, Zenon

\* The elements of a place, and those of two.
LEMMA SpreadElems ==
  ASSUME NEW sq, Spread(sq), NEW p \in Place
  PROVE  /\ IsFiniteSet(Elems(sq[p])) /\ Cardinality(Elems(sq[p])) = Len(sq[p])
         /\ Elems(sq[p]) \subseteq Elem /\ Len(sq[p]) <= Capacity
         /\ \A q \in Place : q # p => Elems(sq[p]) \intersect Elems(sq[q]) = {}
<1>1. sq[p] \in Seq(Elem)
  BY SpreadElem, Zenon
<1>2. \A i, j \in 1 .. Len(sq[p]) : sq[p][i] = sq[p][j] => i = j
  BY SMT DEF Spread
<1>3. ASSUME NEW q \in Place, q # p PROVE Elems(sq[p]) \intersect Elems(sq[q]) = {}
  <2>1. \A i \in 1 .. Len(sq[p]), j \in 1 .. Len(sq[q]) : sq[p][i] # sq[q][j]
    BY <1>3, SMT DEF Spread
  <2> QED  BY <2>1, Zenon DEF Elems
<1>4. PICK s : s = sq[p]
  BY Zenon
<1>5. /\ IsFiniteSet(Elems(s)) /\ Cardinality(Elems(s)) = Len(s) /\ Elems(s) \subseteq Elem
      /\ Len(s) <= Capacity
  BY <1>1, <1>2, <1>4, ElemsCount, Zenon
<1> QED  BY <1>3, <1>4, <1>5, Zenon

\* What Chain computes from the links and a head.
Links(nx, p) ==
  LET f == Walk(nx, p)
      n == Cardinality({i \in 0 .. Capacity : f[i] # NULL})
  IN  [i \in 1 .. n |-> f[i - 1]]

LEMMA LinksAre ==
  ASSUME NEW nx \in [Elem -> 0 .. Capacity], NEW s \in Seq(Elem), NEW p \in 0 .. Capacity,
         p = At(s, 1), \A i \in 1 .. Len(s) : nx[s[i]] = At(s, i + 1), Len(s) <= Capacity
  PROVE  Links(nx, p) = s
<1>1. PICK f : f = Walk(nx, p)
  BY Zenon
<1>2. \A i \in 0 .. Capacity : f[i] = At(s, i + 1)
  BY <1>1, WalkEnds, Zenon
<1>3. Len(s) \in Nat /\ \A i \in 1 .. Len(s) : s[i] \in Elem
  BY SMT
<1>4. {i \in 0 .. Capacity : f[i] # NULL} = 0 .. Len(s) - 1
  <2>1. ASSUME NEW i \in 0 .. Capacity, f[i] # NULL PROVE i \in 0 .. Len(s) - 1
    <3>1. i + 1 <= Len(s)
      BY <1>2, <2>1, Zenon DEF At
    <3> QED  BY <1>3, <3>1, SMT
  <2>2. ASSUME NEW i \in 0 .. Len(s) - 1 PROVE i \in 0 .. Capacity /\ f[i] # NULL
    <3>1. i \in 0 .. Capacity /\ i + 1 <= Len(s) /\ i + 1 \in 1 .. Len(s)
      BY <1>3, StackSizes, SMT
    <3>2. f[i] = s[i + 1]
      BY <1>2, <3>1, Zenon DEF At
    <3> QED  BY <1>3, <3>1, <3>2, NotNullElem, Zenon
  <2> QED  BY <2>1, <2>2, Zenon
<1>5. Cardinality({i \in 0 .. Capacity : f[i] # NULL}) = Len(s)
  <2>1. PICK n \in Int : n = Len(s) - 1
    BY <1>3, SMT
  <2>2. Cardinality(0 .. n) = IF 0 > n THEN 0 ELSE n - 0 + 1
    <3>1. 0 \in Int
      OBVIOUS
    <3> QED  BY <3>1, FS_Interval, Zenon
  <2>3. Cardinality(0 .. n) = Len(s)
    BY <1>3, <2>1, <2>2, SMT
  <2> QED  BY <1>4, <2>1, <2>3, Zenon
<1>6. Links(nx, p) = [i \in 1 .. Len(s) |-> f[i - 1]]
  BY <1>1, <1>5, Zenon DEF Links
<1>7. \A i \in 1 .. Len(s) : f[i - 1] = s[i]
  <2>1. ASSUME NEW i \in 1 .. Len(s) PROVE f[i - 1] = s[i]
    <3>1. i - 1 \in 0 .. Capacity /\ i - 1 + 1 = i /\ i <= Len(s)
      BY <1>3, StackSizes, SMT
    <3> QED  BY <1>2, <3>1, Zenon DEF At
  <2> QED  BY <2>1, Zenon
<1>8. s = [i \in 1 .. Len(s) |-> s[i]]
  BY SMT
<1> QED  BY <1>6, <1>7, <1>8, Zenon

LEMMA ChainDef == \A l : Chain(l) = Links(next, head[l].top)
BY Zenon DEF Chain, Links, Nth, Walk

LEMMA ChainDefNext == \A l : Chain(l)' = Links(next', head'[l].top)
BY Zenon DEF Chain, Links, Nth, Walk

\* The chain of a list is its sequence in the spread.
LEMMA ChainIs ==
  ASSUME StackType, NEW sq, Holds(sq), NEW l \in List
  PROVE  Chain(l) = sq[On(l)] /\ OnList(l) = Elems(sq[On(l)])
<1>1. On(l) \in Place /\ Spread(sq)
  BY PlaceDistinct, Zenon DEF Holds
<1>2. sq[On(l)] \in Seq(Elem) /\ Len(sq[On(l)]) <= Capacity
  BY <1>1, SpreadElem, SpreadElems, Zenon
<1>3. ListOK(sq[On(l)], l)
  BY Zenon DEF Holds
<1>4. head[l].top \in 0 .. Capacity /\ next \in [Elem -> 0 .. Capacity]
  BY Zenon DEF StackType, HeadWords
<1>5. Chain(l) = sq[On(l)]
  BY <1>2, <1>3, <1>4, ChainDef, LinksAre, Zenon DEF ListOK
<1>6. DOMAIN sq[On(l)] = 1 .. Len(sq[On(l)])
  BY <1>2, SMT
<1> QED  BY <1>5, <1>6, Zenon DEF OnList, Elems

LEMMA ChainIsNext ==
  ASSUME StackType', NEW sq, Holds(sq)', NEW l \in List
  PROVE  Chain(l)' = sq[On(l)]
<1>1. On(l) \in Place /\ Spread(sq)
  <2>1. On(l) \in Place /\ Spread(sq)'
    BY PlaceDistinct, Zenon DEF Holds
  <2> QED  BY <2>1, Zenon DEF Spread, Place, Elem, On, Of
<1>2. sq[On(l)] \in Seq(Elem) /\ Len(sq[On(l)]) <= Capacity
  BY <1>1, SpreadElem, SpreadElems, Zenon
<1>3. ListOK(sq[On(l)], l)'
  BY Zenon DEF Holds
<1>4. head'[l].top \in 0 .. Capacity /\ next' \in [Elem -> 0 .. Capacity]
  BY Zenon DEF StackType, HeadWords
<1>5. /\ head'[l].top = At(sq[On(l)], 1)
      /\ \A i \in 1 .. Len(sq[On(l)]) : next'[sq[On(l)][i]] = At(sq[On(l)], i + 1)
  BY <1>3, Zenon DEF ListOK, At
<1> QED  BY <1>2, <1>4, <1>5, ChainDefNext, LinksAre, Zenon

\* The elements of a call are its sequence in the spread.
LEMMA OwnedIs ==
  ASSUME StackType, NEW sq, Holds(sq), NEW t \in Thread
  PROVE  /\ OwnedBy(t) = Elems(sq[Of(t)])
         /\ Owning(t) => Len(sq[Of(t)]) = loc[t].num
<1>1. Of(t) \in Place /\ Spread(sq) /\ OwnOK(sq[Of(t)], t)
  BY PlaceDistinct, Zenon DEF Holds
<1>2. PICK s : s = sq[Of(t)]
  BY Zenon
<1>3. /\ s \in Seq(Elem) /\ Len(s) <= Capacity /\ Len(s) \in Nat
      /\ \A i \in 1 .. Len(s) : s[i] \in Elem
  BY <1>1, <1>2, SpreadElem, SpreadElems, Zenon
<1>4. CASE ~ Owning(t)
  <2>1. s = <<>>
    BY <1>1, <1>2, <1>4, Zenon DEF OwnOK
  <2>2. Elems(s) = {}
    BY <2>1, Nothing, Zenon DEF Elems
  <2> QED  BY <1>2, <1>4, <2>2, Zenon DEF OwnedBy
<1>5. CASE Owning(t)
  <2>1. Len(s) = loc[t].num /\ loc[t].num > 0 /\ Linked(s) /\ loc[t].first = s[1]
    BY <1>1, <1>2, <1>5, Zenon DEF OwnOK
  <2>2. s # <<>> /\ next \in [Elem -> 0 .. Capacity]
    <3>1. s # <<>>
      BY <1>3, <2>1, SMT
    <3> QED  BY <3>1, Zenon DEF StackType
  <2>3. PICK f : f = Nth(loc[t].first)
    BY Zenon
  <2>4. \A i \in 0 .. Capacity : i < Len(s) => f[i] = s[i + 1]
    <3>1. f = Walk(next, s[1])
      BY <2>1, <2>3, Zenon DEF Nth, Walk
    <3> QED  BY <1>3, <2>1, <2>2, <3>1, WalkAlong, Zenon DEF Linked
  <2>5. OwnedBy(t) = {f[i] : i \in 0 .. Len(s) - 1}
    BY <1>5, <2>1, <2>3, Zenon DEF OwnedBy
  <2>6. ASSUME NEW i \in 0 .. Len(s) - 1 PROVE i + 1 \in 1 .. Len(s) /\ f[i] = s[i + 1]
    <3>1. i \in 0 .. Capacity /\ i < Len(s) /\ i + 1 \in 1 .. Len(s)
      BY <1>3, StackSizes, SMT
    <3> QED  BY <2>4, <3>1, Zenon
  <2>7. ASSUME NEW j \in 1 .. Len(s) PROVE \E i \in 0 .. Len(s) - 1 : f[i] = s[j]
    <3>1. j - 1 \in 0 .. Len(s) - 1 /\ j - 1 + 1 = j
      BY <1>3, SMT
    <3> QED  BY <2>6, <3>1, Zenon
  <2>8. {f[i] : i \in 0 .. Len(s) - 1} = Elems(s)
    <3>1. \A e : e \in {f[i] : i \in 0 .. Len(s) - 1} => e \in Elems(s)
      BY <2>6, Zenon DEF Elems
    <3>2. \A e : e \in Elems(s) => e \in {f[i] : i \in 0 .. Len(s) - 1}
      BY <2>7, Zenon DEF Elems
    <3> QED  BY <3>1, <3>2, Zenon
  <2> QED  BY <1>2, <2>1, <2>5, <2>8, Zenon
<1> QED  BY <1>4, <1>5, Zenon


-----------------------------------------------------------------------------
(* Every element is in one place                                            *)

LEMMA ElementsHold == StackInv => StackElements
<1> SUFFICES ASSUME StackInv PROVE StackElements
  OBVIOUS
<1>1. PICK sq \in [Place -> Seq(Elem)] : Holds(sq)
  BY Zenon DEF StackInv
<1>2. StackType /\ Spread(sq)
  BY <1>1, Zenon DEF StackInv, Holds
<1>3. "used" \in List /\ "free" \in List
  BY Zenon DEF List
<1>4. ElementsConserved
  <2>1. ASSUME NEW l \in List
        PROVE  Len(Chain(l)) = Cardinality(OnList(l)) /\ Len(Chain(l)) <= Capacity
    <3>1. On(l) \in Place
      BY PlaceDistinct, Zenon
    <3> QED  BY <1>1, <1>2, <3>1, ChainIs, SpreadElems, Zenon
  <2>2. ASSUME NEW t \in Thread, Owning(t) PROVE Cardinality(OwnedBy(t) \ {NULL}) = loc[t].num
    <3>1. Of(t) \in Place
      BY PlaceDistinct, Zenon
    <3>2. OwnedBy(t) = Elems(sq[Of(t)]) /\ Len(sq[Of(t)]) = loc[t].num
      BY <1>1, <1>2, <2>2, OwnedIs, Zenon
    <3>3. Cardinality(Elems(sq[Of(t)])) = Len(sq[Of(t)]) /\ Elems(sq[Of(t)]) \subseteq Elem
      BY <1>2, <3>1, SpreadElems, Zenon
    <3>4. OwnedBy(t) \ {NULL} = OwnedBy(t)
      BY <3>2, <3>3, NotNullElem, Zenon
    <3> QED  BY <3>2, <3>3, <3>4, Zenon
  <2>3. OnList("used") \intersect OnList("free") = {}
    <3>1. On("used") \in Place /\ On("free") \in Place /\ On("used") # On("free")
      BY <1>3, PlaceDistinct, Zenon
    <3>2. Elems(sq[On("used")]) \intersect Elems(sq[On("free")]) = {}
      BY <1>2, <3>1, SpreadElems, Zenon
    <3> QED  BY <1>1, <1>2, <1>3, <3>2, ChainIs, Zenon
  <2>4. ASSUME NEW t \in Thread, NEW l \in List PROVE OwnedBy(t) \intersect OnList(l) = {}
    <3>1. Of(t) \in Place /\ On(l) \in Place /\ Of(t) # On(l)
      BY PlaceDistinct, Zenon
    <3>2. Elems(sq[Of(t)]) \intersect Elems(sq[On(l)]) = {}
      BY <1>2, <3>1, SpreadElems, Zenon
    <3>3. OwnedBy(t) = Elems(sq[Of(t)])
      BY <1>1, <1>2, OwnedIs, Zenon
    <3>4. OnList(l) = Elems(sq[On(l)])
      BY <1>1, <1>2, ChainIs, Zenon
    <3> QED  BY <3>2, <3>3, <3>4, Zenon
  <2>5. ASSUME NEW t \in Thread, NEW u \in Thread, t # u
        PROVE  OwnedBy(t) \intersect OwnedBy(u) = {}
    <3>1. Of(t) \in Place /\ Of(u) \in Place /\ Of(t) # Of(u)
      BY <2>5, PlaceDistinct, Zenon
    <3>2. Elems(sq[Of(t)]) \intersect Elems(sq[Of(u)]) = {}
      BY <1>2, <3>1, SpreadElems, Zenon
    <3>3. OwnedBy(t) = Elems(sq[Of(t)]) /\ OwnedBy(u) = Elems(sq[Of(u)])
      BY <1>1, <1>2, OwnedIs, Zenon
    <3> QED  BY <3>2, <3>3, Zenon
  <2>6. Elem = UNION ({OnList(l) : l \in List} \union {OwnedBy(t) : t \in Thread})
    <3>1. ASSUME NEW e \in Elem
          PROVE  e \in UNION ({OnList(l) : l \in List} \union {OwnedBy(t) : t \in Thread})
      <4>1. PICK p \in Place : \E i \in 1 .. Len(sq[p]) : sq[p][i] = e
        BY <1>2, Zenon DEF Spread
      <4>2. e \in Elems(sq[p])
        BY <4>1, Zenon DEF Elems
      <4>3. CASE \E l \in List : p = On(l)
        <5>1. PICK l \in List : p = On(l)
          BY <4>3, Zenon
        <5>2. e \in OnList(l)
          BY <1>1, <1>2, <4>2, <5>1, ChainIs, Zenon
        <5> QED  BY <5>2, Zenon
      <4>4. CASE \E t \in Thread : p = Of(t)
        <5>1. PICK t \in Thread : p = Of(t)
          BY <4>4, Zenon
        <5>2. e \in OwnedBy(t)
          BY <1>1, <1>2, <4>2, <5>1, OwnedIs, Zenon
        <5> QED  BY <5>2, Zenon
      <4> QED  BY <4>3, <4>4, PlaceDistinct, Zenon
    <3>2. ASSUME NEW l \in List PROVE OnList(l) \subseteq Elem
      <4>1. On(l) \in Place
        BY PlaceDistinct, Zenon
      <4>2. Elems(sq[On(l)]) \subseteq Elem
        BY <1>2, <4>1, SpreadElems, Zenon
      <4> QED  BY <1>1, <1>2, <4>2, ChainIs, Zenon
    <3>3. ASSUME NEW t \in Thread PROVE OwnedBy(t) \subseteq Elem
      <4>1. Of(t) \in Place
        BY PlaceDistinct, Zenon
      <4>2. Elems(sq[Of(t)]) \subseteq Elem
        BY <1>2, <4>1, SpreadElems, Zenon
      <4> QED  BY <1>1, <1>2, <4>2, OwnedIs, Zenon
    <3>4. \A e : e \in UNION ({OnList(l) : l \in List} \union {OwnedBy(t) : t \in Thread}) => e \in Elem
      BY <3>2, <3>3, Zenon
    <3> QED  BY <3>1, <3>4, Zenon
  <2> QED  BY <2>1, <2>2, <2>3, <2>4, <2>5, <2>6, Zenon DEF ElementsConserved
<1>5. ASSUME NEW l \in List
      PROVE  /\ Chain(l) = sq[On(l)] /\ Len(sq[On(l)]) = len[l] + Cardinality(Due(l))
             /\ len[l] \in Nat /\ Cardinality(Due(l)) \in Nat
  <2>1. Due(l) \subseteq AllPairs
    BY Zenon DEF Due
  <2>2. Cardinality(Due(l)) \in Nat
    BY <2>1, AllPairsFinite, Zenon
  <2> QED  BY <1>1, <1>2, <2>2, ChainIs, Zenon DEF Holds, StackType
<1>6. CountNeverMore
  <2>1. ASSUME NEW l \in List PROVE len[l] <= Len(Chain(l))
    BY <1>5, SMT
  <2> QED  BY <2>1, Zenon DEF CountNeverMore
<1>7. ReservedArePresent
  <2>1. ASSUME NEW t \in Thread, pc[t] = "walk", head[Src(t)] = loc[t].old, loc[t].i < loc[t].num
        PROVE  loc[t].tmp # NULL
    <3>1. /\ Src(t) \in List /\ loc[t].i \in Nat /\ loc[t].num \in Nat
          /\ loc[t].num \in 1 .. MaxNum
      BY <1>1, <1>2, <2>1, LocalFields, NumOK, Zenon
    <3>2. PICK s : s = sq[On(Src(t))]
      BY Zenon
    <3>3. On(Src(t)) \in Place
      BY <3>1, PlaceDistinct, Zenon
    <3>4. s \in Seq(Elem) /\ Len(s) \in Nat /\ \A i \in 1 .. Len(s) : s[i] \in Elem
      BY <1>2, <3>2, <3>3, SpreadElem, Zenon
    <3>5. loc[t].tmp = At(s, loc[t].i + 1)
      BY <1>1, <1>2, <2>1, <3>2, <3>4, WalkSeen, Zenon DEF Holds
    <3>6. loc[t].num <= Cardinality(Due(Src(t)))
      <4>1. DueFor(t, Src(t))
        BY <2>1, Zenon DEF DueFor
      <4>2. PICK n \in Nat : n = loc[t].num
        BY <3>1, Zenon
      <4>3. ASSUME NEW d \in Pairs(t, n) PROVE d \in Due(Src(t))
        <5>1. d[1] = t /\ d[2] <= n /\ d \in AllPairs
          <6>1. \A k \in 1 .. n : k \in 1 .. MaxNum /\ k <= n
            BY <3>1, <4>2, StackSizes, SMT
          <6>2. d[1] = t /\ d[2] \in 1 .. n /\ d = <<d[1], d[2]>>
            BY SMT DEF Pairs
          <6>3. d \in AllPairs
            BY <6>1, <6>2, Zenon DEF AllPairs
          <6> QED  BY <6>1, <6>2, <6>3, Zenon
        <5> QED  BY <4>1, <4>2, <5>1, Zenon DEF Due
      <4>4. Pairs(t, n) \subseteq Due(Src(t))
        BY <4>3, Zenon
      <4>5. IsFiniteSet(Due(Src(t)))
        <5>1. Due(Src(t)) \subseteq AllPairs
          BY Zenon DEF Due
        <5> QED  BY <5>1, AllPairsFinite, Zenon
      <4>6. Cardinality(Pairs(t, n)) <= Cardinality(Due(Src(t)))
        BY <4>4, <4>5, FS_Subset, Zenon
      <4>7. Cardinality(Pairs(t, n)) = n
        BY PairsCount, Zenon
      <4> QED  BY <4>2, <4>6, <4>7, Zenon
    <3>7. loc[t].i + 1 \in 1 .. Len(s) /\ loc[t].i + 1 <= Len(s)
      <4>1. /\ Len(s) = len[Src(t)] + Cardinality(Due(Src(t)))
            /\ len[Src(t)] \in Nat /\ Cardinality(Due(Src(t))) \in Nat
        BY <1>5, <3>1, <3>2, Zenon
      <4> QED  BY <2>1, <3>1, <3>4, <3>6, <4>1, SMT
    <3>8. loc[t].tmp \in Elem
      BY <3>4, <3>5, <3>7, Zenon DEF At
    <3> QED  BY <3>8, NotNullElem, Zenon
  <2> QED  BY <2>1, Zenon DEF ReservedArePresent
<1> QED  BY <1>4, <1>6, <1>7, Zenon DEF StackElements

\* __rte_stack_lf_pop_elems and __rte_stack_lf_push_elems lose and duplicate no
\* list element, for any number of threads: each is on one list, once, or in the
\* hands of one call; the count of a list is never above its length; and a call
\* that has reserved elements meets the end of the list only if the head changed.
THEOREM StackKeepsElements == Spec => []StackElements
BY StackInvariant, ElementsHold, PTL


-----------------------------------------------------------------------------
(* Every step is a step of the standard stack, or none                      *)

\* Sequences with the same elements are the same.
LEMMA SameSeq ==
  ASSUME NEW S, NEW a \in Seq(S), NEW b \in Seq(S), Len(a) = Len(b),
         \A i \in 1 .. Len(a) : a[i] = b[i]
  PROVE  a = b
BY SMT

\* The objects of a sequence of elements.
Objects(d, s) == [i \in 1 .. Len(s) |-> d[s[i]]]

LEMMA ObjectsIn ==
  ASSUME NEW d \in [Elem -> Data], NEW s \in Seq(Elem)
  PROVE  /\ Objects(d, s) \in Seq(Data) /\ Len(Objects(d, s)) = Len(s)
         /\ \A i \in 1 .. Len(s) : Objects(d, s)[i] = d[s[i]]
<1>1. Len(s) \in Nat /\ \A i \in 1 .. Len(s) : s[i] \in Elem
  BY SMT
<1>2. Objects(d, s) \in [1 .. Len(s) -> Data]
  BY <1>1, Zenon DEF Objects
<1>3. Objects(d, s) \in Seq(Data) /\ Len(Objects(d, s)) = Len(s)
  BY <1>1, <1>2, SMT
<1>4. \A i \in 1 .. Len(s) : Objects(d, s)[i] = d[s[i]]
  BY Zenon DEF Objects
<1> QED  BY <1>3, <1>4, Zenon

\* The first n elements have the first n objects, and the others the others.
LEMMA ObjectsCut ==
  ASSUME NEW d \in [Elem -> Data], NEW s \in Seq(Elem), NEW n \in 1 .. Len(s)
  PROVE  /\ Objects(d, SubSeq(s, n + 1, Len(s))) =
              SubSeq(Objects(d, s), n + 1, Len(Objects(d, s)))
         /\ [k \in 1 .. n |-> d[s[k]]] = SubSeq(Objects(d, s), 1, n)
<1>1. /\ Objects(d, s) \in Seq(Data) /\ Len(Objects(d, s)) = Len(s)
      /\ \A i \in 1 .. Len(s) : Objects(d, s)[i] = d[s[i]]
  BY ObjectsIn, Zenon
<1>2. PICK o \in Seq(Data) : o = Objects(d, s)
  BY <1>1, Zenon
<1>3. PICK q \in Seq(Elem) : q = SubSeq(s, n + 1, Len(s))
  <2>1. SubSeq(s, n + 1, Len(s)) \in Seq(Elem)
    BY SMT
  <2> QED  BY <2>1, Zenon
<1>4. Len(q) = Len(s) - n /\ \A i \in 1 .. Len(q) : q[i] = s[n + i]
  BY <1>3, SMT
<1>5. /\ Objects(d, q) \in Seq(Data) /\ Len(Objects(d, q)) = Len(q)
      /\ \A i \in 1 .. Len(q) : Objects(d, q)[i] = d[q[i]]
  BY ObjectsIn, Zenon
<1>6. PICK p \in Seq(Data) : p = SubSeq(o, n + 1, Len(o))
  <2>1. Len(o) = Len(s)
    BY <1>1, <1>2, Zenon
  <2>2. SubSeq(o, n + 1, Len(o)) \in Seq(Data)
    BY <2>1, SMT
  <2> QED  BY <2>2, Zenon
<1>7. Len(p) = Len(s) - n /\ \A i \in 1 .. Len(p) : p[i] = o[n + i]
  BY <1>1, <1>2, <1>6, SMT
<1>8. ASSUME NEW i \in 1 .. Len(q) PROVE Objects(d, q)[i] = p[i]
  <2>1. n + i \in 1 .. Len(s) /\ i \in 1 .. Len(p)
    BY <1>4, <1>7, SMT
  <2> QED  BY <1>1, <1>2, <1>4, <1>5, <1>7, <2>1, ZenonT(60)
<1>9. Objects(d, q) = p
  <2>1. PICK a \in Seq(Data) : a = Objects(d, q)
    BY <1>5, Zenon
  <2>2. Len(a) = Len(p) /\ \A i \in 1 .. Len(a) : a[i] = p[i]
    BY <1>4, <1>5, <1>7, <1>8, <2>1, Zenon
  <2>3. a = p
    BY <2>2, SameSeq, Zenon
  <2> QED  BY <2>1, <2>3, Zenon
<1>10. PICK h \in Seq(Data) : h = SubSeq(o, 1, n)
  <2>1. Len(o) = Len(s)
    BY <1>1, <1>2, Zenon
  <2>2. SubSeq(o, 1, n) \in Seq(Data)
    BY <2>1, SMT
  <2> QED  BY <2>2, Zenon
<1>11. Len(h) = n /\ \A i \in 1 .. n : h[i] = o[i] /\ i \in 1 .. Len(s)
  BY <1>1, <1>2, <1>10, SMT
<1>12. [k \in 1 .. n |-> d[s[k]]] = h
  <2>1. \A i \in 1 .. n : h[i] = d[s[i]]
    BY <1>1, <1>2, <1>11, Zenon
  <2>2. h = [k \in 1 .. n |-> h[k]]
    BY <1>11, SMT
  <2> QED  BY <2>1, <2>2, Zenon
<1> QED  BY <1>2, <1>3, <1>6, <1>9, <1>10, <1>12, Zenon

\* The objects of two sequences one after the other.
LEMMA ObjectsJoin ==
  ASSUME NEW d \in [Elem -> Data], NEW s \in Seq(Elem), NEW r \in Seq(Elem)
  PROVE  Objects(d, s \o r) = Objects(d, s) \o Objects(d, r)
<1>1. PICK a \in Seq(Data) : a = Objects(d, s)
  BY ObjectsIn, Zenon
<1>2. PICK b \in Seq(Data) : b = Objects(d, r)
  BY ObjectsIn, Zenon
<1>3. Len(a) = Len(s) /\ \A i \in 1 .. Len(s) : a[i] = d[s[i]]
  BY <1>1, ObjectsIn, Zenon
<1>4. Len(b) = Len(r) /\ \A i \in 1 .. Len(r) : b[i] = d[r[i]]
  BY <1>2, ObjectsIn, Zenon
<1>5. PICK q \in Seq(Elem) : q = s \o r
  <2>1. s \o r \in Seq(Elem)
    BY SMT
  <2> QED  BY <2>1, Zenon
<1>6. Len(q) = Len(s) + Len(r)
  BY <1>5, SMT
<1>7. PICK e \in Seq(Data) : e = Objects(d, q)
  BY ObjectsIn, Zenon
<1>8. Len(e) = Len(q) /\ \A i \in 1 .. Len(q) : e[i] = d[q[i]]
  BY <1>7, ObjectsIn, Zenon
<1>9. PICK c \in Seq(Data) : c = a \o b
  <2>1. a \o b \in Seq(Data)
    BY SMT
  <2> QED  BY <2>1, Zenon
<1>10. Len(c) = Len(e)
  <2>1. Len(c) = Len(a) + Len(b)
    BY <1>9, SMT
  <2> QED  BY <1>3, <1>4, <1>6, <1>8, <2>1, Zenon
<1>11. ASSUME NEW i \in 1 .. Len(e) PROVE e[i] = c[i]
  <2>1. i \in Nat /\ Len(s) \in Nat /\ Len(r) \in Nat
    BY SMT
  <2>2. e[i] = d[q[i]]
    BY <1>8, Zenon
  <2>3. CASE i <= Len(s)
    <3>1. i \in 1 .. Len(s) /\ q[i] = s[i] /\ c[i] = a[i]
      BY <1>3, <1>5, <1>9, <2>1, <2>3, SMT
    <3> QED  BY <1>3, <2>2, <3>1, Zenon
  <2>4. CASE i > Len(s)
    <3>1. PICK j : j = i - Len(s)
      BY Zenon
    <3>2. j \in 1 .. Len(r)
      BY <1>6, <1>8, <2>1, <2>4, <3>1, SMT
    <3>3. q[i] = r[j]
      BY <1>5, <2>1, <2>4, <3>1, <3>2, SMT
    <3>4. c[i] = b[j]
      BY <1>3, <1>4, <1>9, <2>1, <2>4, <3>1, <3>2, SMT
    <3> QED  BY <1>4, <2>2, <3>2, <3>3, <3>4, Zenon
  <2> QED  BY <2>1, <2>3, <2>4, SMT
<1>12. e = c
  <2>1. Len(e) = Len(c) /\ \A i \in 1 .. Len(e) : e[i] = c[i]
    BY <1>10, <1>11, Zenon
  <2> QED  BY <2>1, SameSeq, Zenon
<1> QED  BY <1>1, <1>2, <1>5, <1>7, <1>9, <1>12, Zenon

\* The objects on the used list, now and after a step.
LEMMA ContentsIs ==
  ASSUME StackType, NEW sq, Holds(sq)
  PROVE  Contents = Objects(data, sq[On("used")])
<1>1. "used" \in List
  BY Zenon DEF List
<1>2. Chain("used") = sq[On("used")]
  BY <1>1, ChainIs, Zenon
<1>3. sq[On("used")] \in Seq(Elem)
  BY <1>1, PlaceDistinct, SpreadElem, Zenon DEF Holds
<1>4. DOMAIN sq[On("used")] = 1 .. Len(sq[On("used")])
  BY <1>3, SMT
<1> QED  BY <1>2, <1>4, Zenon DEF Contents, Objects

LEMMA ContentsIsNext ==
  ASSUME StackType', NEW sq, Holds(sq)'
  PROVE  Contents' = Objects(data', sq[On("used")])
<1>1. "used" \in List
  BY Zenon DEF List
<1>2. Chain("used")' = sq[On("used")]
  BY <1>1, ChainIsNext, Zenon
<1>3. sq[On("used")] \in Seq(Elem)
  <2>1. Spread(sq)
    BY Zenon DEF Holds, Spread, Place, Elem, On, Of
  <2> QED  BY <1>1, <2>1, PlaceDistinct, SpreadElem, Zenon
<1>4. DOMAIN sq[On("used")] = 1 .. Len(sq[On("used")])
  BY <1>3, SMT
<1>5. Contents' = [i \in DOMAIN Chain("used")' |-> data'[Chain("used")'[i]]]
  BY Zenon DEF Contents
<1> QED  BY <1>2, <1>4, <1>5, Zenon DEF Objects


\* What the call at t has popped.
TakenBy(t) == IF loc[t].op = "pop" /\ (Owning(t) \/ pc[t] = "ulen") THEN loc[t].objs ELSE <<>>

LEMMA TakenIs == Taken = [t \in Thread |-> TakenBy(t)]
BY Zenon DEF Taken, TakenBy

LEMMA TakenIsNext == Taken' = [t \in Thread |-> TakenBy(t)']
BY Zenon DEF Taken, TakenBy, Owning

\* A step of the call at t changes only what t has popped.
LEMMA TakenStep ==
  ASSUME NEW t \in Thread, Others(t)
  PROVE  Taken' = [Taken EXCEPT ![t] = TakenBy(t)']
<1>1. ASSUME NEW u \in Thread, u # t PROVE TakenBy(u)' = TakenBy(u)
  BY <1>1, Zenon DEF Others, TakenBy, Owning
<1>2. ASSUME NEW u \in Thread
      PROVE  TakenBy(u)' = [Taken EXCEPT ![t] = TakenBy(t)'][u]
  BY <1>1, TakenIs, Zenon
<1>3. [Taken EXCEPT ![t] = TakenBy(t)'] = [u \in Thread |-> [Taken EXCEPT ![t] = TakenBy(t)'][u]]
  BY TakenIs, Zenon
<1> QED  BY <1>2, <1>3, TakenIsNext, Zenon

LEMMA TakenKeep ==
  ASSUME NEW t \in Thread, Others(t), TakenBy(t)' = TakenBy(t)
  PROVE  Taken' = Taken
<1>1. Taken' = [Taken EXCEPT ![t] = TakenBy(t)]
  BY TakenStep, Zenon
<1>2. Taken[t] = TakenBy(t) /\ Taken = [u \in Thread |-> Taken[u]]
  BY TakenIs, Zenon
<1> QED  BY <1>1, <1>2, Zenon

\* The lists and their data are as they were.
LEMMA ContentsKeep ==
  ASSUME UNCHANGED <<head, next, data>>
  PROVE  Contents' = Contents
<1>1. Chain("used")' = Chain("used")
  BY ChainDef, ChainDefNext, Zenon
<1> QED  BY <1>1, Zenon DEF Contents

\* The steps of pop_elems and push_elems that change no list.
LEMMA QuietSteps ==
  ASSUME StackType, NEW t \in Thread,
         \/ LoadLen(t) \/ TooFew(t) \/ Reserve(t) \/ ReserveFails(t)
         \/ PopLoadHead(t) \/ WalkData(t) \/ WalkNext(t) \/ WalkAgain(t) \/ PopHeadFails(t)
         \/ \E op \in Op, num \in 1 .. MaxNum : Call(t, op, num)
  PROVE  Contents' = Contents /\ Taken' = Taken
<1>1. UNCHANGED <<head, next, data>>
  BY Zenon DEF LoadLen, TooFew, Reserve, ReserveFails, PopLoadHead, WalkData, WalkNext,
     WalkAgain, PopHeadFails, Call
<1>2. pc[t] \in {"idle", "len", "reserve", "phead", "phead2", "walk", "walkn"}
  <2>1. WalkNext(t) => pc[t] \in {"walk", "walkn"}
    BY Zenon DEF WalkNext
  <2> QED  BY <2>1, Zenon DEF LoadLen, TooFew, Reserve, ReserveFails, PopLoadHead, WalkData,
              WalkAgain, PopHeadFails, Call
<1>3. PICK a \in {"idle", "len", "reserve", "phead", "phead2", "walk", "walkn"} :
        pc' = [pc EXCEPT ![t] = a]
  <2>1. pc = [pc EXCEPT ![t] = pc[t]]
    BY Zenon DEF StackType
  <2>2. Reserve(t) \/ ReserveFails(t) \/ PopHeadFails(t) \/ LoadLen(t) \/ TooFew(t) =>
          \E a \in {"idle", "len", "reserve", "phead", "phead2", "walk", "walkn"} :
             pc' = [pc EXCEPT ![t] = a]
    BY <1>2, <2>1, Zenon DEF LoadLen, TooFew, Reserve, ReserveFails, PopHeadFails, Goto, Return
  <2> QED  BY <2>2, Zenon DEF PopLoadHead, WalkData, WalkNext, WalkAgain, Call, Goto
<1>4. \E v : loc' = [loc EXCEPT ![t] = v]
  <2>1. loc = [loc EXCEPT ![t] = loc[t]]
    BY Zenon DEF StackType
  <2> QED  BY <2>1, Zenon DEF LoadLen, TooFew, Reserve, ReserveFails, PopLoadHead, WalkData,
              WalkNext, WalkAgain, PopHeadFails, Call, Return
<1>5. Others(t)
  BY <1>3, <1>4, Zenon DEF Others, StackType
<1>6. pc'[t] = a
  BY <1>3, Zenon DEF StackType
<1>7. TakenBy(t) = <<>> /\ TakenBy(t)' = <<>>
  <2>1. ~ Owning(t) /\ pc[t] # "ulen"
    BY <1>2, Zenon DEF Owning
  <2>2. ~ Owning(t)' /\ pc'[t] # "ulen"
    BY <1>6, Zenon DEF Owning
  <2> QED  BY <2>1, <2>2, Zenon DEF TakenBy
<1> QED  BY <1>1, <1>5, <1>7, ContentsKeep, TakenKeep, Zenon

\* A step of a call that has elements and goes on having them, or gives them up.
LEMMA TakenOwned ==
  ASSUME StackType, NEW t \in Thread, NEW a \in {"fill", "uhead", "uhead2", "link", "ucas", "ulen"},
         Owning(t), pc' = [pc EXCEPT ![t] = a],
         \A u \in Thread : u # t => loc'[u] = loc[u],
         loc'[t].op = loc[t].op, loc'[t].objs = loc[t].objs
  PROVE  Taken' = Taken
<1>1. pc'[t] = a /\ \A u \in Thread : u # t => pc'[u] = pc[u]
  BY Zenon DEF StackType
<1>2. Others(t)
  BY <1>1, Zenon DEF Others
<1>3. Owning(t)' \/ pc'[t] = "ulen"
  BY <1>1, Zenon DEF Owning
<1>4. TakenBy(t)' = TakenBy(t)
  BY <1>3, Zenon DEF TakenBy
<1> QED  BY <1>2, <1>4, TakenKeep, Zenon


LEMMA FillTaken ==
  ASSUME NEW t \in Thread, NEW sq \in [Place -> Seq(Elem)], StackType, Holds(sq), Fill(t)
  PROVE  Contents' = Contents /\ Taken' = Taken
<1>1. StackType' /\ Holds(sq)'
  BY FillMoves, Zenon
<1>2. "used" \in List
  BY Zenon DEF List
<1>3. /\ pc[t] = "fill" /\ Owning(t) /\ loc[t].op = "push" /\ loc[t].tmp = sq[Of(t)][loc[t].i + 1]
      /\ loc[t].i + 1 \in 1 .. Len(sq[Of(t)])
  <2>1. pc[t] = "fill" /\ Owning(t)
    BY Zenon DEF Fill, Owning
  <2>2. OwnOK(sq[Of(t)], t) /\ FillOK(sq[Of(t)], t) /\ WalkOK(sq[On(Src(t))], t)
    BY Zenon DEF Holds
  <2>3. loc[t].op = "push" /\ Len(sq[Of(t)]) = loc[t].num
    BY <2>1, <2>2, Zenon DEF OwnOK, WalkOK
  <2>4. loc[t].i < loc[t].num /\ loc[t].tmp = sq[Of(t)][loc[t].i + 1]
    BY <2>1, <2>2, <2>3, Zenon DEF FillOK
  <2>5. loc[t].i \in Nat /\ loc[t].num \in Nat
    BY LocalFields, Zenon
  <2>6. loc[t].i + 1 \in 1 .. Len(sq[Of(t)])
    BY <2>3, <2>4, <2>5, SMT
  <2> QED  BY <2>1, <2>3, <2>4, <2>6, Zenon
<1>4. PICK s \in Seq(Elem) : s = sq[On("used")]
  BY <1>2, PlaceDistinct, SpreadElem, Zenon DEF Holds
<1>5. ASSUME NEW i \in 1 .. Len(s) PROVE data'[s[i]] = data[s[i]]
  <2>1. s[i] # loc[t].tmp
    <3>1. On("used") \in Place /\ Of(t) \in Place /\ On("used") # Of(t)
      BY <1>2, PlaceDistinct, Zenon
    <3>2. Spread(sq) /\ i \in 1 .. Len(sq[On("used")]) /\ s[i] = sq[On("used")][i]
      BY <1>4, Zenon DEF Holds
    <3>3. PICK j \in 1 .. Len(sq[Of(t)]) : loc[t].tmp = sq[Of(t)][j]
      BY <1>3, Zenon
    <3> QED  BY <3>1, <3>2, <3>3, SpreadOnce, Zenon
  <2>2. s[i] \in Elem
    BY <1>4, SMT
  <2> QED  BY <2>1, <2>2, Zenon DEF Fill, StackType
<1>6. Contents' = Contents
  <2>1. Objects(data', s) = Objects(data, s)
    BY <1>5, Zenon DEF Objects
  <2>2. Contents = Objects(data, s)
    BY <1>4, ContentsIs, Zenon
  <2>3. Contents' = Objects(data', s)
    BY <1>1, <1>4, ContentsIsNext, Zenon
  <2> QED  BY <2>1, <2>2, <2>3, Zenon
<1>7. Taken' = Taken
  <2>1. loc' = [loc EXCEPT ![t] = [loc[t] EXCEPT !.tmp = next[loc[t].tmp], !.i = loc[t].i + 1]]
    BY Zenon DEF Fill
  <2>2. PICK v : v = [loc[t] EXCEPT !.tmp = next[loc[t].tmp], !.i = loc[t].i + 1]
    BY Zenon
  <2>3. v.op = loc[t].op /\ v.objs = loc[t].objs
    <3>1. loc[t] \in Local
      BY Zenon DEF StackType
    <3> QED  BY <2>2, <3>1, Zenon DEF Local
  <2>4. loc'[t] = v /\ \A u \in Thread : u # t => loc'[u] = loc[u]
    BY <2>1, <2>2, Zenon DEF StackType
  <2>5. PICK a \in {"fill", "uhead", "uhead2", "link", "ucas", "ulen"} :
          pc' = [pc EXCEPT ![t] = a]
    <3>1. pc' = [pc EXCEPT ![t] = "uhead"] \/ pc' = [pc EXCEPT ![t] = "fill"]
      BY Zenon DEF Fill, Goto
    <3> QED  BY <3>1, Zenon
  <2> QED  BY <1>3, <2>3, <2>4, <2>5, TakenOwned, Zenon
<1> QED  BY <1>6, <1>7, Zenon

LEMMA LinkTaken ==
  ASSUME NEW t \in Thread, NEW sq \in [Place -> Seq(Elem)], StackType, Holds(sq), Link(t)
  PROVE  Contents' = Contents /\ Taken' = Taken
<1>1. StackType' /\ Holds(sq)'
  BY LinkMoves, Zenon
<1>2. data' = data /\ loc' = loc /\ pc' = [pc EXCEPT ![t] = "ucas"] /\ Owning(t)
  BY Zenon DEF Link, Goto, Owning
<1>3. Contents' = Contents
  BY <1>1, <1>2, ContentsIs, ContentsIsNext, Zenon
<1>4. Taken' = Taken
  <2>1. "ucas" \in {"fill", "uhead", "uhead2", "link", "ucas", "ulen"}
    BY Zenon
  <2> QED  BY <1>2, <2>1, TakenOwned, Zenon
<1> QED  BY <1>3, <1>4, Zenon

\* Reading the head of the list to push on, once or again.
LEMMA PushReads ==
  ASSUME NEW t \in Thread, StackType, PushLoadHead(t) \/ PushHeadFails(t)
  PROVE  Contents' = Contents /\ Taken' = Taken
<1>1. Contents' = Contents
  BY ContentsKeep, Zenon DEF PushLoadHead, PushHeadFails
<1>2. Owning(t)
  BY Zenon DEF PushLoadHead, PushHeadFails, Owning
<1>3. PICK a \in {"fill", "uhead", "uhead2", "link", "ucas", "ulen"} : pc' = [pc EXCEPT ![t] = a]
  BY Zenon DEF PushLoadHead, PushHeadFails, Goto
<1>4. loc[t] \in Local
  BY Zenon DEF StackType
<1>5. PICK v : loc' = [loc EXCEPT ![t] = v] /\ v.op = loc[t].op /\ v.objs = loc[t].objs
  <2>1. ASSUME NEW h, NEW w, w = [loc[t] EXCEPT !.half = h, !.old = Word(loc[t].old, h, head[Dst(t)])]
        PROVE  w.op = loc[t].op /\ w.objs = loc[t].objs
    BY <1>4, <2>1, Zenon DEF Local
  <2>2. ASSUME NEW w, w = [loc[t] EXCEPT !.old = head[Dst(t)]]
        PROVE  w.op = loc[t].op /\ w.objs = loc[t].objs
    BY <1>4, <2>2, Zenon DEF Local
  <2>3. CASE PushLoadHead(t)
    <3>1. PICK h : loc' = [loc EXCEPT ![t] = [loc[t] EXCEPT !.half = h,
                             !.old = Word(loc[t].old, h, head[Dst(t)])]]
      BY <2>3, Zenon DEF PushLoadHead
    <3> QED  BY <2>1, <3>1, Zenon
  <2>4. CASE PushHeadFails(t)
    BY <2>2, <2>4, Zenon DEF PushHeadFails
  <2> QED  BY <2>3, <2>4, Zenon
<1>6. loc'[t] = v /\ \A u \in Thread : u # t => loc'[u] = loc[u]
  BY <1>5, Zenon DEF StackType
<1> QED  BY <1>1, <1>2, <1>3, <1>5, <1>6, TakenOwned, Zenon

LEMMA AddLenReturns ==
  ASSUME NEW t \in Thread, StackType, AddLen(t)
  PROVE  Lifo!Return(t)
<1>1. Contents' = Contents
  BY ContentsKeep, Zenon DEF AddLen
<1>2. pc' = [pc EXCEPT ![t] = "idle"] /\ loc' = [loc EXCEPT ![t] = NoLocal]
  BY Zenon DEF AddLen, Return, Goto
<1>3. Others(t) /\ pc'[t] = "idle"
  BY <1>2, Zenon DEF Others, StackType
<1>4. TakenBy(t)' = <<>>
  BY <1>3, Zenon DEF TakenBy, Owning
<1>5. Taken' = [Taken EXCEPT ![t] = <<>>]
  BY <1>3, <1>4, TakenStep, Zenon
<1> QED  BY <1>1, <1>5, Zenon DEF Lifo!Return


\* The compare-and-swap of pop_elems: a pop takes effect when it succeeds on the
\* used list; on the free list it is the preparation of a push.
LEMMA PopHeadTakes ==
  ASSUME NEW t \in Thread, NEW sq \in [Place -> Seq(Elem)], StackType, Holds(sq), PopHead(t)
  PROVE  \/ Contents' = Contents /\ Taken' = Taken
         \/ \E n \in 1 .. Capacity : Lifo!Pop(t, n)
<1>1. PICK sr : sr = [sq EXCEPT ![Of(t)] = SubSeq(sq[On(Src(t))], 1, loc[t].num),
                        ![On(Src(t))] = SubSeq(sq[On(Src(t))], loc[t].num + 1, Len(sq[On(Src(t))]))]
  BY Zenon
<1>2. /\ StackType' /\ Holds(sr)'
      /\ loc[t].num \in 1 .. Len(sq[On(Src(t))])
  BY <1>1, PopHeadMoves, Zenon
<1>3. /\ "used" \in List /\ Src(t) \in List /\ data' = data
      /\ pc[t] = "walk" /\ loc[t].i = loc[t].num /\ head[Src(t)] = loc[t].old
  BY LocalFields, Zenon DEF List, PopHead
<1>4. /\ loc'[t].op = loc[t].op /\ loc'[t].objs = loc[t].objs
      /\ \A u \in Thread : u # t => loc'[u] = loc[u]
  <2>1. PICK v : v = [loc[t] EXCEPT !.first = loc[t].old.top, !.tmp = loc[t].old.top, !.i = 0]
    BY Zenon
  <2>2. loc[t] \in Local
    BY Zenon DEF StackType
  <2>3. v.op = loc[t].op /\ v.objs = loc[t].objs
    BY <2>1, <2>2, Zenon DEF Local
  <2>4. loc'[t] = v /\ \A u \in Thread : u # t => loc'[u] = loc[u]
    BY <2>1, Zenon DEF PopHead, StackType
  <2> QED  BY <2>3, <2>4, Zenon
<1>5. PICK a \in {"fill", "uhead"} : pc' = [pc EXCEPT ![t] = a]
  BY Zenon DEF PopHead, Goto
<1>6. pc'[t] = a /\ Others(t)
  BY <1>4, <1>5, Zenon DEF Others, StackType
<1>7. TakenBy(t) = <<>>
  BY <1>3, Zenon DEF TakenBy, Owning
<1>8. On("used") \in Place /\ On(Src(t)) \in Place /\ Of(t) \in Place /\ On(Src(t)) # Of(t)
  BY <1>3, PlaceDistinct, Zenon
<1>9. CASE loc[t].op = "push"
  <2>1. Src(t) = "free"
    BY <1>9, Zenon DEF Src
  <2>2. On("used") # On(Src(t)) /\ On("used") # Of(t)
    BY <1>3, <2>1, PlaceDistinct, Zenon
  <2>3. sr[On("used")] = sq[On("used")]
    BY <1>1, <1>8, <2>2, Zenon
  <2>4. Contents' = Contents
    <3>1. Contents = Objects(data, sq[On("used")])
      BY ContentsIs, Zenon
    <3>2. Contents' = Objects(data', sr[On("used")])
      BY <1>2, ContentsIsNext, Zenon
    <3> QED  BY <1>3, <2>3, <3>1, <3>2, Zenon
  <2>5. TakenBy(t)' = <<>>
    BY <1>4, <1>9, Zenon DEF TakenBy
  <2> QED  BY <1>6, <1>7, <2>4, <2>5, TakenKeep, Zenon
<1>10. CASE loc[t].op = "pop"
  <2>1. Src(t) = "used"
    BY <1>10, Zenon DEF Src
  <2>2. PICK s \in Seq(Elem) : s = sq[On("used")]
    BY <1>8, Zenon
  <2>3. PICK n \in 1 .. Len(s) : n = loc[t].num
    BY <1>2, <2>1, <2>2, Zenon
  <2>4. n \in 1 .. Capacity
    <3>1. Len(s) <= Capacity
      BY <1>8, <2>2, SpreadElems, Zenon DEF Holds
    <3> QED  BY <3>1, StackSizes, SMT
  <2>5. sr[On("used")] = SubSeq(s, n + 1, Len(s))
    BY <1>1, <1>8, <2>1, <2>2, <2>3, Zenon
  <2>6. data \in [Elem -> Data]
    BY Zenon DEF StackType
  <2>7. Contents = Objects(data, s)
    BY <2>2, ContentsIs, Zenon
  <2>8. Contents' = SubSeq(Contents, n + 1, Len(Contents))
    <3>1. Contents' = Objects(data, SubSeq(s, n + 1, Len(s)))
      BY <1>2, <1>3, <2>5, ContentsIsNext, Zenon
    <3> QED  BY <2>6, <2>7, <3>1, ObjectsCut, Zenon
  <2>9. loc[t].objs = [k \in 1 .. n |-> data[s[k]]]
    <3>1. WalkOK(sq[On(Src(t))], t)
      BY Zenon DEF Holds
    <3>2. loc[t].objs = [k \in 1 .. n + 0 |-> data[s[k]]]
      BY <1>3, <1>10, <2>1, <2>2, <2>3, <3>1, Zenon DEF WalkOK
    <3>3. 1 .. n + 0 = 1 .. n
      BY SMT
    <3> QED  BY <3>2, <3>3, Zenon
  <2>10. TakenBy(t)' = SubSeq(Contents, 1, n)
    <3>1. Owning(t)'
      BY <1>6, Zenon DEF Owning
    <3>2. TakenBy(t)' = loc[t].objs
      BY <1>4, <1>10, <3>1, Zenon DEF TakenBy
    <3> QED  BY <2>6, <2>7, <2>9, <3>2, ObjectsCut, Zenon
  <2>11. n <= Len(Contents)
    <3>1. Len(Contents) = Len(s)
      BY <2>6, <2>7, ObjectsIn, Zenon
    <3> QED  BY <3>1, SMT
  <2>12. Taken[t] = <<>> /\ Taken' = [Taken EXCEPT ![t] = SubSeq(Contents, 1, n)]
    BY <1>6, <1>7, <2>10, TakenIs, TakenStep, Zenon
  <2>13. Lifo!Pop(t, n)
    BY <2>8, <2>11, <2>12, Zenon DEF Lifo!Pop
  <2> QED  BY <2>4, <2>13, Zenon
<1>11. loc[t].op \in {"push", "pop"}
  BY Zenon DEF StackType, Local, Op
<1> QED  BY <1>9, <1>10, <1>11, Zenon

\* The compare-and-swap of push_elems: a push takes effect when it succeeds on the
\* used list; on the free list it gives back the elements of a pop.
LEMMA PushHeadPuts ==
  ASSUME NEW t \in Thread, NEW sq \in [Place -> Seq(Elem)], StackType, Holds(sq), PushHead(t)
  PROVE  \/ Contents' = Contents /\ Taken' = Taken
         \/ \E n \in 1 .. Capacity : Lifo!Push(t, n)
<1>1. PICK sr : sr = [sq EXCEPT ![On(Dst(t))] = sq[Of(t)] \o sq[On(Dst(t))], ![Of(t)] = <<>>]
  BY Zenon
<1>2. StackType' /\ Holds(sr)'
  BY <1>1, PushHeadMoves, Zenon
<1>3. /\ "used" \in List /\ Dst(t) \in List /\ data' = data /\ loc' = loc
      /\ pc[t] = "ucas" /\ pc' = [pc EXCEPT ![t] = "ulen"] /\ Owning(t)
  BY LocalFields, Zenon DEF List, PushHead, Goto, Owning
<1>4. Taken' = Taken
  <2>1. "ulen" \in {"fill", "uhead", "uhead2", "link", "ucas", "ulen"}
    BY Zenon
  <2> QED  BY <1>3, <2>1, TakenOwned, Zenon
<1>5. On("used") \in Place /\ On(Dst(t)) \in Place /\ Of(t) \in Place /\ On(Dst(t)) # Of(t)
  BY <1>3, PlaceDistinct, Zenon
<1>6. CASE loc[t].op = "pop"
  <2>1. Dst(t) = "free"
    BY <1>6, Zenon DEF Dst
  <2>2. On("used") # On(Dst(t)) /\ On("used") # Of(t)
    BY <1>3, <2>1, PlaceDistinct, Zenon
  <2>3. sr[On("used")] = sq[On("used")]
    BY <1>1, <1>5, <2>2, Zenon
  <2>4. Contents' = Contents
    <3>1. Contents = Objects(data, sq[On("used")])
      BY ContentsIs, Zenon
    <3>2. Contents' = Objects(data', sr[On("used")])
      BY <1>2, ContentsIsNext, Zenon
    <3> QED  BY <1>3, <2>3, <3>1, <3>2, Zenon
  <2> QED  BY <1>4, <2>4, Zenon
<1>7. CASE loc[t].op = "push"
  <2>1. Dst(t) = "used"
    BY <1>7, Zenon DEF Dst
  <2>2. PICK s \in Seq(Elem) : s = sq[On("used")]
    BY <1>5, Zenon
  <2>3. PICK o \in Seq(Elem) : o = sq[Of(t)]
    BY <1>5, Zenon
  <2>4. OwnOK(o, t) /\ FillOK(o, t)
    BY <2>3, Zenon DEF Holds
  <2>5. PICK n \in Nat : n = loc[t].num /\ n > 0 /\ Len(o) = n
    <3>1. loc[t].num \in Nat
      BY LocalFields, Zenon
    <3> QED  BY <1>3, <2>4, <3>1, Zenon DEF OwnOK
  <2>6. sr[On("used")] = o \o s
    BY <1>1, <1>5, <2>1, <2>2, <2>3, Zenon
  <2>7. Len(s) \in Nat /\ Len(o \o s) = n + Len(s)
    <3>1. Len(s) \in Nat
      BY SMT
    <3> QED  BY <2>5, <3>1, Joined, Zenon
  <2>8. Len(o \o s) <= Capacity
    <3>1. Spread(sr)
      BY <1>2, Zenon DEF Holds, Spread, Place, Elem, On, Of
    <3> QED  BY <1>5, <2>6, <3>1, SpreadElems, Zenon
  <2>9. data \in [Elem -> Data]
    BY Zenon DEF StackType
  <2>10. Contents = Objects(data, s) /\ Len(Contents) = Len(s)
    BY <2>2, <2>9, ContentsIs, ObjectsIn, Zenon
  <2>11. Contents' = Objects(data, o) \o Contents
    <3>1. Contents' = Objects(data, o \o s)
      BY <1>2, <1>3, <2>6, ContentsIsNext, Zenon
    <3> QED  BY <2>9, <2>10, <3>1, ObjectsJoin, Zenon
  <2>12. Objects(data, o) = Lifo!Table(t, n)
    <3>1. \A k \in 1 .. n : data[o[k]] = <<t, n + 1 - k>>
      <4>1. pc[t] # "fill"
        BY <1>3, Zenon
      <4> QED  BY <1>3, <1>7, <2>4, <2>5, <4>1, Zenon DEF FillOK
    <3> QED  BY <2>5, <3>1, Zenon DEF Objects, Lifo!Table
  <2>13. n \in 1 .. Capacity /\ Len(Contents) + n <= Capacity
    BY <2>5, <2>7, <2>8, <2>10, StackSizes, SMT
  <2>14. Lifo!Push(t, n)
    BY <1>4, <2>11, <2>12, <2>13, Zenon DEF Lifo!Push
  <2> QED  BY <2>13, <2>14, Zenon
<1>8. loc[t].op \in {"push", "pop"}
  BY Zenon DEF StackType, Local, Op
<1> QED  BY <1>6, <1>7, <1>8, Zenon


LEMMA LifoStep ==
  ASSUME StackInv, [Next]_vars
  PROVE  [Lifo!Next]_<<Contents, Taken>>
<1>1. PICK sq \in [Place -> Seq(Elem)] : Holds(sq)
  BY Zenon DEF StackInv
<1>2. StackType
  BY Zenon DEF StackInv
<1>3. CASE UNCHANGED vars
  <2>1. UNCHANGED <<head, next, data>>
    BY <1>3, Zenon DEF vars
  <2>2. Contents' = Contents
    BY <2>1, ContentsKeep, Zenon
  <2>3. Taken' = Taken
    BY <1>3, Zenon DEF vars, Taken, Owning
  <2> QED  BY <2>2, <2>3, Zenon
<1>4. ASSUME NEW t \in Thread, NEW op \in Op, NEW num \in 1 .. MaxNum, Call(t, op, num)
      PROVE  Contents' = Contents /\ Taken' = Taken
  BY <1>2, <1>4, QuietSteps, Zenon
<1>5. ASSUME NEW t \in Thread, Step(t)
      PROVE  \/ Contents' = Contents /\ Taken' = Taken
             \/ Lifo!Return(t)
             \/ \E n \in 1 .. Capacity : Lifo!Push(t, n) \/ Lifo!Pop(t, n)
  <2>1. CASE PopHead(t)
    BY <1>1, <1>2, <2>1, PopHeadTakes, Zenon
  <2>2. CASE PushHead(t)
    BY <1>1, <1>2, <2>2, PushHeadPuts, Zenon
  <2>3. CASE AddLen(t)
    BY <1>2, <2>3, AddLenReturns, Zenon
  <2>4. CASE Fill(t)
    BY <1>1, <1>2, <2>4, FillTaken, Zenon
  <2>5. CASE Link(t)
    BY <1>1, <1>2, <2>5, LinkTaken, Zenon
  <2>6. CASE PushLoadHead(t) \/ PushHeadFails(t)
    BY <1>2, <2>6, PushReads, Zenon
  <2>7. CASE \/ LoadLen(t) \/ TooFew(t) \/ Reserve(t) \/ ReserveFails(t)
             \/ PopLoadHead(t) \/ WalkData(t) \/ WalkNext(t) \/ WalkAgain(t) \/ PopHeadFails(t)
    BY <1>2, <2>7, QuietSteps, Zenon
  <2> QED  BY <1>5, <2>1, <2>2, <2>3, <2>4, <2>5, <2>6, <2>7, Zenon DEF Step
<1>6. ASSUME NEW t \in Thread, Step(t)
      PROVE  Lifo!Next \/ (Contents' = Contents /\ Taken' = Taken)
  BY <1>5, <1>6, Zenon DEF Lifo!Next
<1> QED  BY <1>3, <1>4, <1>6, Zenon DEF Next

LEMMA LifoInit == Init => Lifo!Init
<1> SUFFICES ASSUME Init PROVE Lifo!Init
  OBVIOUS
<1>1. Contents = <<>>
  <2>1. PICK sq \in [Place -> Seq(Elem)] : StackType /\ Holds(sq)
    BY StackInitInv, Zenon DEF StackInv
  <2>2. "used" \in List
    BY Zenon DEF List
  <2>3. sq[On("used")] \in Seq(Elem) /\ \A i \in 1 .. Len(sq[On("used")]) : sq[On("used")][i] \in Elem
    BY <2>1, <2>2, PlaceDistinct, SpreadElem, Zenon DEF Holds
  <2>4. PICK s \in Seq(Elem) : s = sq[On("used")]
    BY <2>3, Zenon
  <2>5. head["used"].top = NULL
    BY <2>2, Zenon DEF Init
  <2>6. At(s, 1) = NULL
    BY <2>1, <2>2, <2>4, <2>5, Zenon DEF Holds, ListOK
  <2>7. ~ (1 <= Len(s))
    <3>1. SUFFICES ASSUME 1 <= Len(s) PROVE FALSE
      OBVIOUS
    <3>2. 1 \in 1 .. Len(s)
      BY <3>1, SMT
    <3>3. s[1] \in Elem /\ At(s, 1) = s[1]
      BY <2>3, <2>4, <3>1, <3>2, Zenon DEF At
    <3> QED  BY <2>6, <3>3, NotNullElem, Zenon
  <2>8. Len(s) = 0
    BY <2>7, SMT
  <2>9. Objects(data, s) = <<>>
    <3>1. data \in [Elem -> Data]
      BY <2>1, Zenon DEF StackType
    <3>2. Objects(data, s) \in Seq(Data) /\ Len(Objects(data, s)) = 0
      BY <2>8, <3>1, ObjectsIn, Zenon
    <3> QED  BY <3>2, SMT
  <2> QED  BY <2>1, <2>4, <2>9, ContentsIs, Zenon
<1>2. Taken = [t \in Thread |-> <<>>]
  <2>1. \A t \in Thread : TakenBy(t) = <<>>
    BY Zenon DEF Init, TakenBy, Owning
  <2> QED  BY <2>1, TakenIs, Zenon
<1> QED  BY <1>1, <1>2, Zenon DEF Lifo!Init

\* rte_stack_lf.h implements rte_stack_std.h: for any number of threads and any
\* capacity, the pushes and pops of the lock-free stack take effect one at a
\* time, all their objects at once and in the order of the standard stack.
THEOREM StackImplementsLifo == Spec => RefinesLifo
<1>1. Init => Lifo!Init
  BY LifoInit
<1>2. StackInv /\ [Next]_vars => [Lifo!Next]_<<Contents, Taken>>
  BY LifoStep
<1> QED  BY <1>1, <1>2, StackInvariant, PTL DEF Spec, RefinesLifo, Lifo!Spec
=============================================================================
