------------------------------ MODULE MpProofs ------------------------------
(***************************************************************************)
(* The multi-process channel counts a peer once, unless its alarm goes off *)
(* before the deadline, refers to nothing that was freed and gives a reply *)
(* to the request it answers, for any number of peers, names, calls and    *)
(* faults.                                                                 *)
(***************************************************************************)
EXTENDS MpChannel, FiniteSetTheorems, TLAPS

MaybeName == Names \union {"none"}
MaybeCall == Calls \union {NoCall}
EntryType == [kind : {"sync", "async", "dummy"}, dst : Peers, name : MaybeName, call : Calls,
              got : {-1, 0, 1}, of : MaybeCall]
MsgType == [type : {"IGN", "REP"}, from : Peers, name : MaybeName, of : Calls]
ReplyType == [from : Peers, of : MaybeCall]
CallType ==
  [kind : {"none", "sync", "async"},
   state : {"new", "ask", "wait", "open", "ok", "failed", "done"},
   name : MaybeName, todo : SUBSET Peers, sent : Nat, recv : SUBSET ReplyType,
   processed : Nat, late : BOOLEAN, lost : Nat, callbacks : Nat]

MpTypeOK ==
  /\ role \in {"primary", "secondary"}
  /\ sock \in [Peers -> {"bound", "stale", "gone"}]
  /\ inbox \in [Peers -> SUBSET Calls] /\ net \in Seq(MsgType)
  /\ pending \in Seq(EntryType)
  /\ call \in [Calls -> CallType]
  /\ trig \in [{"mp", "intr"} -> MaybeCall]

Triggered(c) == c = trig.mp \/ c = trig.intr

\* The entry e is that of a call that waits for it.  An asynchronous request is
\* removed with its answer, and only a dummy stands for a request to nobody.
EntryOK(e) ==
  /\ e.kind = "sync" <=> call[e.call].kind = "sync"
  /\ e.kind = "sync" => call[e.call].state = "wait"
  /\ e.kind # "sync" => call[e.call].state = "open" /\ ~ Triggered(e.call)
  /\ e.kind = "dummy" => e.name = "none" /\ e.got = 1
  /\ e.kind # "dummy" => e.name = call[e.call].name /\ e.name \in Names
  /\ e.kind = "async" => e.got = 0

\* No two entries ask the same peer for the same thing, and a synchronous
\* request has one at a time.
Distinct(s) ==
  \A i, j \in DOMAIN s :
    /\ s[i].kind # "dummy" /\ s[j].kind # "dummy" /\ s[i].dst = s[j].dst /\ s[i].name = s[j].name => i = j
    /\ s[i].kind = "sync" /\ s[i].call = s[j].call => i = j

\* The places of the entries of call c.
Of(s, c) == {i \in DOMAIN s : s[i].call = c}
Froms(c) == {x.from : x \in call[c].recv}

\* What a synchronous request has asked is answered or, one at a time, pending.
SyncOK(c) ==
  /\ call[c].state \in {"ask", "wait"} => Froms(c) \intersect call[c].todo = {}
  /\ call[c].state = "wait" => \A i \in Of(pending, c) : pending[i].dst \notin Froms(c) \union call[c].todo
  /\ call[c].state \in {"ask", "ok"} => call[c].sent = Cardinality(Froms(c))
  /\ call[c].state = "wait" => call[c].sent = Cardinality(Froms(c)) + 1

\* What an asynchronous request has sent is processed, pending or lost to an alarm
\* before the deadline, unless there was nobody to send it to.
AsyncOK(c) ==
  call[c].state = "open" /\ ~ Triggered(c) =>
    \/ /\ call[c].sent = 0
       /\ \A i \in Of(pending, c) : pending[i].kind = "dummy" /\ call[c].processed = 0
       /\ \A i, j \in Of(pending, c) : i = j
    \/ /\ call[c].sent = call[c].processed + Cardinality(Of(pending, c)) + call[c].lost
       /\ \A i \in Of(pending, c) : pending[i].kind = "async"

CallOK(c) ==
  /\ call[c].state \in {"ask", "wait", "ok"} => call[c].kind = "sync"
  /\ call[c].state \in {"open", "done"} => call[c].kind = "async"
  /\ call[c].kind # "none" => call[c].name \in Names
  /\ call[c].kind = "none" <=> call[c].state = "new"
  /\ call[c].callbacks = IF call[c].state = "done" THEN 1 ELSE 0
  /\ call[c].kind = "sync" => SyncOK(c)
  /\ AsyncOK(c)

\* A request that was sent to somebody has no dummy.
Asked(c) == call[c].kind # "none" /\ \A i \in Of(pending, c) : pending[i].kind # "dummy"

TrigOK ==
  /\ \A th \in {"mp", "intr"} : trig[th] # NoCall => call[trig[th]].state = "open"
  /\ trig["mp"] # NoCall => trig["mp"] # trig["intr"]

MpInv ==
  /\ MpTypeOK
  /\ \A i \in DOMAIN pending : EntryOK(pending[i])
  /\ Distinct(pending)
  /\ \A c \in Calls : CallOK(c)
  /\ TrigOK
  /\ \A p \in Peers : \A c \in inbox[p] : Asked(c)
  /\ \A k \in DOMAIN net : Asked(net[k].of) /\ net[k].name = call[net[k].of].name


-----------------------------------------------------------------------------
(* The list of pending requests                                             *)

\* What a change of the list from s to t means for the entries of call d.
Keeps(s, t, d) ==
  /\ Cardinality(Of(t, d)) = Cardinality(Of(s, d))
  /\ \A j \in Of(t, d) : \E k \in Of(s, d) : t[j] = s[k]
  /\ (\A j, k \in Of(s, d) : j = k) => (\A j, k \in Of(t, d) : j = k)

LEMMA OfFinite ==
  ASSUME NEW s \in Seq(EntryType), NEW d
  PROVE  IsFiniteSet(Of(s, d)) /\ Cardinality(Of(s, d)) \in Nat
<1>1. Len(s) \in Nat /\ DOMAIN s = 1 .. Len(s)
  OBVIOUS
<1>2. IsFiniteSet(1 .. Len(s))
  BY <1>1, FS_Interval
<1>3. Of(s, d) \subseteq 1 .. Len(s)
  BY <1>1 DEF Of
<1>4. IsFiniteSet(Of(s, d))
  BY <1>2, <1>3, FS_Subset, Zenon
<1> QED  BY <1>4, FS_CardinalityType, Zenon

LEMMA CatFacts ==
  ASSUME NEW a \in Seq(EntryType), NEW b \in Seq(EntryType)
  PROVE  /\ a \o b \in Seq(EntryType) /\ Len(a \o b) = Len(a) + Len(b)
         /\ \A j \in 1 .. Len(a) : (a \o b)[j] = a[j]
         /\ \A j \in 1 .. Len(b) : (a \o b)[Len(a) + j] = b[j]
<1>1. a \o b \in Seq(EntryType) /\ Len(a \o b) = Len(a) + Len(b)
  OBVIOUS
<1>2. \A j \in 1 .. Len(a) : (a \o b)[j] = a[j]
  OBVIOUS
<1>3. \A j \in 1 .. Len(b) : (a \o b)[Len(a) + j] = b[j]
  OBVIOUS
<1> QED  BY <1>1, <1>2, <1>3, Zenon

\* The places of a list without its i-th entry are those of the list.
Shift(i, j) == IF j < i THEN j ELSE j + 1

LEMMA RemoveFacts ==
  ASSUME NEW s \in Seq(EntryType), NEW i \in DOMAIN s, NEW t, t = RemoveAt(s, i)
  PROVE  /\ t \in Seq(EntryType)
         /\ \A j \in DOMAIN t : Shift(i, j) \in DOMAIN s /\ Shift(i, j) # i /\ t[j] = s[Shift(i, j)]
         /\ \A j, k \in DOMAIN t : Shift(i, j) = Shift(i, k) => j = k
         /\ \A k \in DOMAIN s : k # i => \E j \in DOMAIN t : k = Shift(i, j)
<1>1. Len(s) \in Nat /\ DOMAIN s = 1 .. Len(s) /\ i \in 1 .. Len(s)
  OBVIOUS
<1>2. PICK a : a = SubSeq(s, 1, i - 1)
  BY Zenon
<1>3. PICK b : b = SubSeq(s, i + 1, Len(s))
  BY Zenon
<1>4. a \in Seq(EntryType) /\ Len(a) = i - 1 /\ \A j \in 1 .. i - 1 : a[j] = s[j]
  BY <1>1, <1>2
<1>5. b \in Seq(EntryType) /\ Len(b) = Len(s) - i /\ \A j \in 1 .. Len(s) - i : b[j] = s[i + j]
  BY <1>1, <1>3
<1>6. t = a \o b
  BY <1>2, <1>3, Zenon DEF RemoveAt
<1>7. t \in Seq(EntryType) /\ Len(t) = Len(s) - 1 /\ DOMAIN t = 1 .. Len(s) - 1
  <2>1. a \o b \in Seq(EntryType) /\ Len(a \o b) = Len(a) + Len(b)
    BY <1>4, <1>5, CatFacts, Zenon
  <2>2. Len(a) + Len(b) = Len(s) - 1
    BY <1>1, <1>4, <1>5
  <2>3. t \in Seq(EntryType) /\ Len(t) = Len(s) - 1
    BY <1>6, <2>1, <2>2, Zenon
  <2>4. DOMAIN t = 1 .. Len(t)
    BY <2>3
  <2> QED  BY <2>3, <2>4, Zenon
<1>8. \A j \in DOMAIN t : Shift(i, j) \in DOMAIN s /\ Shift(i, j) # i /\ t[j] = s[Shift(i, j)]
  <2> TAKE j \in DOMAIN t
  <2>1. j \in 1 .. Len(s) - 1
    BY <1>7
  <2>2. Shift(i, j) \in DOMAIN s /\ Shift(i, j) # i
    BY <1>1, <2>1 DEF Shift
  <2>3. CASE j < i
    <3>1. j \in 1 .. i - 1 /\ j \in 1 .. Len(a)
      BY <1>1, <1>4, <2>1, <2>3
    <3>2. t[j] = a[j]
      BY <1>4, <1>5, <1>6, <3>1
    <3> QED  BY <1>4, <2>2, <2>3, <3>1, <3>2, Zenon DEF Shift
  <2>4. CASE ~ (j < i)
    <3>1. PICK m \in 1 .. Len(s) - i : j = (i - 1) + m
      <4>1. j - (i - 1) \in 1 .. Len(s) - i /\ j = (i - 1) + (j - (i - 1))
        BY <1>1, <2>1, <2>4
      <4> QED  BY <4>1
    <3>2. t[j] = b[m]
      <4>1. m \in 1 .. Len(b) /\ j = Len(a) + m
        BY <1>4, <1>5, <3>1
      <4>2. (a \o b)[Len(a) + m] = b[m]
        BY <1>4, <1>5, <4>1, CatFacts
      <4> QED  BY <1>6, <4>1, <4>2, Zenon
    <3>3. i + m = j + 1
      BY <1>1, <2>1, <3>1
    <3> QED  BY <1>5, <2>2, <2>4, <3>1, <3>2, <3>3, Zenon DEF Shift
  <2> QED  BY <2>3, <2>4, Zenon
<1>9. \A j, k \in DOMAIN t : Shift(i, j) = Shift(i, k) => j = k
  BY <1>1, <1>7 DEF Shift
<1>10. \A k \in DOMAIN s : k # i => \E j \in DOMAIN t : k = Shift(i, j)
  <2> SUFFICES ASSUME NEW k \in DOMAIN s, k # i PROVE \E j \in DOMAIN t : k = Shift(i, j)
    BY Zenon
  <2>1. CASE k < i
    BY <1>1, <1>7, <2>1 DEF Shift
  <2>2. CASE ~ (k < i)
    <3>1. k - 1 \in DOMAIN t /\ k = Shift(i, k - 1)
      BY <1>1, <1>7, <2>2 DEF Shift
    <3> QED  BY <3>1, Zenon
  <2> QED  BY <2>1, <2>2, Zenon
<1> QED  BY <1>7, <1>8, <1>9, <1>10, Zenon

\* Lists with the same entries, but for those of places R, in other places.
Renumbers(s, t, f, R) ==
  /\ \A j \in DOMAIN t : f[j] \in DOMAIN s \ R /\ t[j] = s[f[j]]
  /\ \A j, k \in DOMAIN t : f[j] = f[k] => j = k
  /\ \A k \in DOMAIN s \ R : \E j \in DOMAIN t : k = f[j]

LEMMA Renumber ==
  ASSUME NEW s \in Seq(EntryType), NEW t \in Seq(EntryType), NEW d, NEW f, NEW R,
         Renumbers(s, t, f, R)
  PROVE  Cardinality(Of(t, d)) = Cardinality(Of(s, d) \ R)
<1> DEFINE A == Of(t, d)
           B == Of(s, d) \ R
           g == [j \in A |-> f[j]]
<1>1. \A j \in A : f[j] \in B
  BY Zenon DEF Of, Renumbers
<1>2. g \in [A -> B]
  BY <1>1, Zenon
<1>3. \A j, k \in A : g[j] = g[k] => j = k
  BY Zenon DEF Of, Renumbers
<1>4. \A k \in B : \E j \in A : g[j] = k
  <2> TAKE k \in B
  <2>1. PICK j \in DOMAIN t : k = f[j]
    BY Zenon DEF Of, Renumbers
  <2>2. j \in A
    BY <2>1, Zenon DEF Of, Renumbers
  <2> QED  BY <2>1, <2>2, Zenon
<1>5. DOMAIN g = A
  BY Zenon
<1> HIDE DEF g
<1>6. g \in Bijection(A, B)
  <2>1. g \in Injection(A, B)
    BY <1>2, <1>3, <1>5, Zenon DEF Injection, IsInjective
  <2>2. g \in Surjection(A, B)
    BY <1>2, <1>4, Zenon DEF Surjection
  <2> QED  BY <2>1, <2>2 DEF Bijection
<1>7. ExistsBijection(A, B)
  BY <1>6, Zenon DEF ExistsBijection
<1> HIDE DEF A, B
<1>8. IsFiniteSet(A)
  BY OfFinite, Zenon DEF A
<1>9. Cardinality(B) = Cardinality(A)
  BY <1>7, <1>8, FS_Bijection, Zenon
<1> QED  BY <1>9, Zenon DEF A, B

\* What removing an entry means for the entries of each call.
LEMMA RemoveOf ==
  ASSUME NEW s \in Seq(EntryType), NEW i \in DOMAIN s, NEW t, t = RemoveAt(s, i), NEW d
  PROVE  /\ d # s[i].call => Keeps(s, t, d)
         /\ d = s[i].call => Cardinality(Of(s, d)) = Cardinality(Of(t, d)) + 1
         /\ \A j \in DOMAIN t : \E k \in DOMAIN s : k # i /\ t[j] = s[k]
         /\ (\A j, k \in Of(s, d) : j = k) => (\A j, k \in Of(t, d) : j = k)
         /\ Distinct(s) => Distinct(t)
<1>1. /\ t \in Seq(EntryType)
      /\ \A j \in DOMAIN t : Shift(i, j) \in DOMAIN s /\ Shift(i, j) # i /\ t[j] = s[Shift(i, j)]
      /\ \A j, k \in DOMAIN t : Shift(i, j) = Shift(i, k) => j = k
      /\ \A k \in DOMAIN s : k # i => \E j \in DOMAIN t : k = Shift(i, j)
  BY RemoveFacts
<1>2. Cardinality(Of(t, d)) = Cardinality(Of(s, d) \ {i})
  <2> DEFINE f == [j \in DOMAIN t |-> Shift(i, j)]
             R == {i}
  <2>1. Renumbers(s, t, f, R)
    <3>1. \A j \in DOMAIN t : f[j] = Shift(i, j)
      BY Zenon
    <3> HIDE DEF f
    <3> QED  BY <1>1, <3>1 DEF Renumbers
  <2> HIDE DEF f, R
  <2>2. Cardinality(Of(t, d)) = Cardinality(Of(s, d) \ R)
    <3>1. t \in Seq(EntryType)
      BY <1>1, Zenon
    <3> QED  BY <2>1, <3>1, Renumber
  <2> QED  BY <2>2 DEF R
<1>3. \A j \in DOMAIN t : \E k \in DOMAIN s : k # i /\ t[j] = s[k]
  BY <1>1, Zenon
<1>4. \A j \in Of(t, d) : Shift(i, j) \in Of(s, d) /\ t[j] = s[Shift(i, j)]
  BY <1>1, Zenon DEF Of
<1>5. (\A j, k \in Of(s, d) : j = k) => (\A j, k \in Of(t, d) : j = k)
  <2>1. Of(t, d) \subseteq DOMAIN t
    BY DEF Of
  <2> QED  BY <1>1, <1>4, <2>1, Zenon
<1>6. ASSUME d # s[i].call PROVE Keeps(s, t, d)
  <2>1. Of(s, d) \ {i} = Of(s, d)
    BY <1>6 DEF Of
  <2> QED  BY <1>2, <1>4, <1>5, <2>1, Zenon DEF Keeps
<1>7. ASSUME d = s[i].call PROVE Cardinality(Of(s, d)) = Cardinality(Of(t, d)) + 1
  <2>1. i \in Of(s, d)
    BY <1>7, Zenon DEF Of
  <2>2. IsFiniteSet(Of(s, d)) /\ Cardinality(Of(s, d)) \in Nat
    BY OfFinite
  <2>3. Cardinality(Of(s, d) \ {i}) = Cardinality(Of(s, d)) - 1
    BY <2>1, <2>2, FS_RemoveElement, Zenon
  <2> QED  BY <1>2, <2>2, <2>3
<1>8. ASSUME Distinct(s) PROVE Distinct(t)
  <2> SUFFICES ASSUME NEW j \in DOMAIN t, NEW k \in DOMAIN t
               PROVE  /\ t[j].kind # "dummy" /\ t[k].kind # "dummy" /\ t[j].dst = t[k].dst /\ t[j].name = t[k].name
                         => j = k
                      /\ t[j].kind = "sync" /\ t[j].call = t[k].call => j = k
    BY Zenon DEF Distinct
  <2>1. PICK m \in DOMAIN s, n \in DOMAIN s : t[j] = s[m] /\ t[k] = s[n] /\ (m = n => j = k)
    BY <1>1, Zenon
  <2> QED  BY <1>8, <2>1, Zenon DEF Distinct
<1> QED  BY <1>3, <1>5, <1>6, <1>7, <1>8, Zenon


\* What is left of a list when the places R are of other calls.
LEMMA RenumberKeeps ==
  ASSUME NEW s \in Seq(EntryType), NEW t \in Seq(EntryType), NEW d, NEW f, NEW R,
         Renumbers(t, s, f, R), \A j \in Of(t, d) : j \notin R
  PROVE  Keeps(s, t, d)
<1>1. Cardinality(Of(s, d)) = Cardinality(Of(t, d) \ R)
  BY Renumber
<1>2. Of(t, d) \ R = Of(t, d)
  OBVIOUS
<1>3. \A j \in Of(t, d) : \E m \in Of(s, d) : j = f[m] /\ s[m] = t[j]
  <2> TAKE j \in Of(t, d)
  <2>1. j \in DOMAIN t \ R /\ t[j].call = d
    BY Zenon DEF Of
  <2>2. PICK m \in DOMAIN s : j = f[m]
    BY <2>1, Zenon DEF Renumbers
  <2>3. s[m] = t[j]
    BY <2>2, Zenon DEF Renumbers
  <2> QED  BY <2>1, <2>2, <2>3, Zenon DEF Of
<1>4. Cardinality(Of(t, d)) = Cardinality(Of(s, d))
  BY <1>1, <1>2, Zenon
<1> QED  BY <1>3, <1>4, Zenon DEF Keeps

\* t is the list s followed by the list u.
Joined(s, u, t) ==
  /\ t \in Seq(EntryType) /\ Len(t) = Len(s) + Len(u)
  /\ \A j \in 1 .. Len(s) : t[j] = s[j]
  /\ \A j \in 1 .. Len(u) : t[Len(s) + j] = u[j]

LEMMA JoinCat ==
  ASSUME NEW s \in Seq(EntryType), NEW u \in Seq(EntryType)
  PROVE  Joined(s, u, s \o u)
BY CatFacts, Zenon DEF Joined

LEMMA JoinAppend ==
  ASSUME NEW s \in Seq(EntryType), NEW e \in EntryType
  PROVE  <<e>> \in Seq(EntryType) /\ Len(<<e>>) = 1 /\ <<e>>[1] = e /\ Joined(s, <<e>>, Append(s, e))
<1>1. <<e>> \in Seq(EntryType) /\ Len(<<e>>) = 1 /\ <<e>>[1] = e
  OBVIOUS
<1>2. Append(s, e) \in Seq(EntryType) /\ Len(Append(s, e)) = Len(s) + 1
  OBVIOUS
<1>3. \A j \in 1 .. Len(s) : Append(s, e)[j] = s[j]
  OBVIOUS
<1>4. Append(s, e)[Len(s) + 1] = e
  OBVIOUS
<1>5. \A j \in 1 .. Len(<<e>>) : j = 1
  BY <1>1
<1>6. \A j \in 1 .. Len(<<e>>) : Append(s, e)[Len(s) + j] = <<e>>[j]
  BY <1>1, <1>4, <1>5, Zenon
<1> QED  BY <1>1, <1>2, <1>3, <1>6, Zenon DEF Joined

\* The places of both parts.
LEMMA JoinPlaces ==
  ASSUME NEW s \in Seq(EntryType), NEW u \in Seq(EntryType), NEW t, Joined(s, u, t)
  PROVE  /\ Len(s) \in Nat /\ Len(u) \in Nat /\ DOMAIN s = 1 .. Len(s) /\ DOMAIN u = 1 .. Len(u)
         /\ DOMAIN t = 1 .. Len(s) + Len(u)
         /\ \A j \in DOMAIN s : j \in DOMAIN t /\ t[j] = s[j]
         /\ \A j \in DOMAIN u : Len(s) + j \in DOMAIN t /\ t[Len(s) + j] = u[j] /\ Len(s) + j \notin DOMAIN s
         /\ \A k \in DOMAIN t : k \in DOMAIN s \/ \E j \in DOMAIN u : k = Len(s) + j
<1>1. Len(s) \in Nat /\ Len(u) \in Nat /\ DOMAIN s = 1 .. Len(s) /\ DOMAIN u = 1 .. Len(u)
  OBVIOUS
<1>2. t \in Seq(EntryType) /\ Len(t) = Len(s) + Len(u)
  BY Zenon DEF Joined
<1>3. DOMAIN t = 1 .. Len(s) + Len(u)
  BY <1>2
<1>4. \A j \in DOMAIN s : j \in DOMAIN t
  BY <1>1, <1>3
<1>5. \A j \in DOMAIN u : Len(s) + j \in DOMAIN t /\ Len(s) + j \notin DOMAIN s
  BY <1>1, <1>3
<1>6. \A k \in DOMAIN t : k \in DOMAIN s \/ \E j \in DOMAIN u : k = Len(s) + j
  <2> TAKE k \in DOMAIN t
  <2>1. k \in DOMAIN s \/ (k - Len(s) \in DOMAIN u /\ k = Len(s) + (k - Len(s)))
    BY <1>1, <1>3
  <2> QED  BY <2>1, Zenon
<1> QED  BY <1>1, <1>3, <1>4, <1>5, <1>6, Zenon DEF Joined


\* What joining lists means for the entries of each call.
LEMMA JoinOf ==
  ASSUME NEW s \in Seq(EntryType), NEW u \in Seq(EntryType), NEW t, Joined(s, u, t), NEW d
  PROVE  /\ (\A j \in DOMAIN u : u[j].call # d) => Keeps(s, t, d)
         /\ (\A j \in DOMAIN s : s[j].call # d) => Keeps(u, t, d)
         /\ (\A j \in DOMAIN s : s[j].call # d) /\ (\A j \in DOMAIN u : u[j].call = d)
              => Cardinality(Of(t, d)) = Len(u)
<1>0. t \in Seq(EntryType)
  BY Zenon DEF Joined
<1>1. /\ Len(s) \in Nat /\ Len(u) \in Nat /\ DOMAIN s = 1 .. Len(s) /\ DOMAIN u = 1 .. Len(u)
      /\ DOMAIN t = 1 .. Len(s) + Len(u)
      /\ \A j \in DOMAIN s : j \in DOMAIN t /\ t[j] = s[j]
      /\ \A j \in DOMAIN u : Len(s) + j \in DOMAIN t /\ t[Len(s) + j] = u[j] /\ Len(s) + j \notin DOMAIN s
      /\ \A k \in DOMAIN t : k \in DOMAIN s \/ \E j \in DOMAIN u : k = Len(s) + j
  BY JoinPlaces
<1> DEFINE f == [j \in DOMAIN s |-> j]
           g == [j \in DOMAIN u |-> Len(s) + j]
           S == DOMAIN s
           U == DOMAIN t \ DOMAIN s
<1>2. \A j \in DOMAIN s : f[j] = j
  BY Zenon
<1>3. \A j \in DOMAIN u : g[j] = Len(s) + j
  BY Zenon
<1> HIDE DEF f, g
<1>4. Renumbers(t, s, f, U)
  BY <1>1, <1>2, Zenon DEF Renumbers
<1>5. Renumbers(t, u, g, S)
  <2>1. \A j, k \in DOMAIN u : Len(s) + j = Len(s) + k => j = k
    BY <1>1
  <2>2. \A j \in DOMAIN u : g[j] \in DOMAIN t \ S /\ u[j] = t[g[j]]
    BY <1>1, <1>3, Zenon
  <2>3. \A j, k \in DOMAIN u : g[j] = g[k] => j = k
    BY <1>3, <2>1, Zenon
  <2>4. \A k \in DOMAIN t \ S : \E j \in DOMAIN u : k = g[j]
    BY <1>1, <1>3, ZenonT(60)
  <2> QED  BY <2>2, <2>3, <2>4, Zenon DEF Renumbers
<1>6. ASSUME \A j \in DOMAIN u : u[j].call # d PROVE Keeps(s, t, d)
  <2>1. \A j \in Of(t, d) : j \notin U
    BY <1>1, <1>6, Zenon DEF Of
  <2> HIDE DEF U
  <2> QED  BY <1>0, <1>4, <2>1, RenumberKeeps, Zenon
<1>7. ASSUME \A j \in DOMAIN s : s[j].call # d PROVE Keeps(u, t, d)
  <2>1. \A j \in Of(t, d) : j \notin S
    BY <1>1, <1>7, Zenon DEF Of
  <2> HIDE DEF S
  <2> QED  BY <1>0, <1>5, <2>1, RenumberKeeps
<1>8. ASSUME \A j \in DOMAIN s : s[j].call # d, \A j \in DOMAIN u : u[j].call = d
      PROVE  Cardinality(Of(t, d)) = Len(u)
  <2>1. Cardinality(Of(t, d)) = Cardinality(Of(u, d))
    BY <1>7, <1>8, Zenon DEF Keeps
  <2>2. Of(u, d) = 1 .. Len(u)
    BY <1>1, <1>8, Zenon DEF Of
  <2>3. Cardinality(1 .. Len(u)) = Len(u)
    <3>1. 1 \in Int /\ Len(u) \in Int
      BY <1>1
    <3>2. Cardinality(1 .. Len(u)) = IF 1 > Len(u) THEN 0 ELSE Len(u) - 1 + 1
      BY <3>1, FS_Interval, Zenon
    <3> QED  BY <1>1, <3>2
  <2> QED  BY <2>1, <2>2, <2>3, Zenon
<1> QED  BY <1>6, <1>7, <1>8, Zenon

\* The entries e and x may be on the list together.
Apart(e, x) ==
  /\ ~ (e.kind # "dummy" /\ x.kind # "dummy" /\ e.dst = x.dst /\ e.name = x.name)
  /\ e.kind = "sync" \/ x.kind = "sync" => e.call # x.call

LEMMA JoinDistinct ==
  ASSUME NEW s \in Seq(EntryType), NEW u \in Seq(EntryType), NEW t, Joined(s, u, t),
         Distinct(s), Distinct(u),
         \A i \in DOMAIN s, j \in DOMAIN u : Apart(s[i], u[j])
  PROVE  Distinct(t)
<1>1. /\ \A j \in DOMAIN s : j \in DOMAIN t /\ t[j] = s[j]
      /\ \A j \in DOMAIN u : Len(s) + j \in DOMAIN t /\ t[Len(s) + j] = u[j] /\ Len(s) + j \notin DOMAIN s
      /\ \A k \in DOMAIN t : k \in DOMAIN s \/ \E j \in DOMAIN u : k = Len(s) + j
  BY JoinPlaces, Zenon
<1> SUFFICES ASSUME NEW i \in DOMAIN t, NEW j \in DOMAIN t
             PROVE  /\ t[i].kind # "dummy" /\ t[j].kind # "dummy" /\ t[i].dst = t[j].dst /\ t[i].name = t[j].name
                       => i = j
                    /\ t[i].kind = "sync" /\ t[i].call = t[j].call => i = j
  BY Zenon DEF Distinct
<1>2. CASE i \in DOMAIN s /\ j \in DOMAIN s
  <2>1. t[i] = s[i] /\ t[j] = s[j]
    BY <1>1, <1>2, Zenon
  <2> QED  BY <1>2, <2>1, Zenon DEF Distinct
<1>3. CASE i \in DOMAIN s /\ j \notin DOMAIN s
  <2>1. PICK m \in DOMAIN u : j = Len(s) + m
    BY <1>1, <1>3, Zenon
  <2>2. t[i] = s[i] /\ t[j] = u[m]
    BY <1>1, <1>3, <2>1, Zenon
  <2> QED  BY <1>3, <2>2, Zenon DEF Apart
<1>4. CASE i \notin DOMAIN s /\ j \in DOMAIN s
  <2>1. PICK m \in DOMAIN u : i = Len(s) + m
    BY <1>1, <1>4, Zenon
  <2>2. t[i] = u[m] /\ t[j] = s[j]
    BY <1>1, <1>4, <2>1, Zenon
  <2>3. Apart(s[j], u[m])
    BY <1>4, Zenon
  <2> QED  BY <2>2, <2>3, Zenon DEF Apart
<1>5. CASE i \notin DOMAIN s /\ j \notin DOMAIN s
  <2>1. PICK m \in DOMAIN u : i = Len(s) + m
    BY <1>1, <1>5, Zenon
  <2>2. PICK n \in DOMAIN u : j = Len(s) + n
    BY <1>1, <1>5, Zenon
  <2>3. t[i] = u[m] /\ t[j] = u[n]
    BY <1>1, <2>1, <2>2, Zenon
  <2>4. m = n => i = j
    BY <2>1, <2>2, Zenon
  <2> QED  BY <2>3, <2>4, ZenonT(60) DEF Distinct
<1> QED  BY <1>2, <1>3, <1>4, <1>5, Zenon

LEMMA FunctionSeq ==
  ASSUME NEW m \in Nat, NEW u \in [1 .. m -> EntryType]
  PROVE  u \in Seq(EntryType) /\ Len(u) = m /\ DOMAIN u = 1 .. m
<1>1. DOMAIN u = 1 .. m
  OBVIOUS
<1>2. u \in Seq(EntryType)
  OBVIOUS
<1> QED  BY <1>1, <1>2

\* What an asynchronous request to the peers in S puts on the list.
LEMMA SendFacts ==
  ASSUME NEW S \in SUBSET Peers, NEW n \in Names, NEW c \in Calls, NEW u,
         u = [i \in 1 .. Cardinality(S) |-> Entry("async", SetToSeq(S)[i], n, c)]
  PROVE  /\ u \in Seq(EntryType) /\ Len(u) = Cardinality(S)
         /\ \A j \in DOMAIN u : u[j] = Entry("async", u[j].dst, n, c) /\ u[j].dst \in S
         /\ \A i, j \in DOMAIN u : u[i].dst = u[j].dst => i = j
<1>1. IsFiniteSet(S)
  BY MpParameters, FS_Subset, Zenon
<1>2. PICK m \in Nat : ExistsBijection(1 .. m, S)
  BY <1>1, FS_NatBijection, Zenon
<1>3. Cardinality(S) = m
  BY <1>2, FS_CountingElements, Zenon
<1>4. PICK q : q = SetToSeq(S)
  OBVIOUS
<1>5. q \in [1 .. m -> S] /\ \A i, j \in 1 .. m : q[i] = q[j] => i = j
  <2>1. PICK b : b \in Bijection(1 .. m, S)
    BY <1>2, Zenon DEF ExistsBijection
  <2>2. b \in [1 .. m -> S] /\ \A i, j \in 1 .. m : b[i] = b[j] => i = j
    BY <2>1 DEF Bijection, Injection, IsInjective
  <2>3. q = CHOOSE x \in [1 .. m -> S] : \A i, j \in 1 .. m : x[i] = x[j] => i = j
    BY <1>3, <1>4 DEF SetToSeq
  <2>4. \E x \in [1 .. m -> S] : \A i, j \in 1 .. m : x[i] = x[j] => i = j
    BY <2>2, Zenon
  <2> QED  BY <2>3, <2>4, Zenon
<1>6. u = [i \in 1 .. m |-> Entry("async", q[i], n, c)]
  BY <1>3, <1>4, Zenon
<1>7. \A i \in 1 .. m : q[i] \in Peers /\ q[i] \in S
  BY <1>5, Zenon
<1>8. \A i \in 1 .. m : Entry("async", q[i], n, c) \in EntryType /\ Entry("async", q[i], n, c).dst = q[i]
  BY <1>7 DEF Entry, EntryType, MaybeName, MaybeCall
<1>9. u \in Seq(EntryType) /\ Len(u) = m /\ DOMAIN u = 1 .. m
  <2>1. u \in [1 .. m -> EntryType]
    BY <1>6, <1>8, Zenon
  <2> QED  BY <2>1, FunctionSeq, Zenon
<1>10. \A i \in 1 .. m : u[i] = Entry("async", q[i], n, c) /\ u[i].dst = q[i]
  BY <1>6, <1>8, Zenon
<1>11. \A j \in DOMAIN u : u[j] = Entry("async", u[j].dst, n, c) /\ u[j].dst \in S
  BY <1>7, <1>9, <1>10, Zenon
<1>12. \A i, j \in DOMAIN u : u[i].dst = u[j].dst => i = j
  <2> SUFFICES ASSUME NEW i \in DOMAIN u, NEW j \in DOMAIN u, u[i].dst = u[j].dst
               PROVE  i = j
    OBVIOUS
  <2>1. i \in 1 .. m /\ j \in 1 .. m
    BY <1>9, Zenon
  <2>2. q[i] = q[j]
    BY <1>10, <2>1, Zenon
  <2> QED  BY <1>5, <2>1, <2>2, Zenon
<1> QED  BY <1>3, <1>9, <1>11, <1>12, Zenon


-----------------------------------------------------------------------------
(* What a step on behalf of one call leaves alone                           *)

LEMMA KeepsSame ==
  ASSUME NEW s, NEW d
  PROVE  Keeps(s, s, d)
BY Zenon DEF Keeps

\* The step is one of call c: it changes neither another call nor its entries,
\* and no message is new but a request of c.
StepOf(c) ==
  /\ \A d \in Calls : d # c => /\ call'[d] = call[d]
                               /\ Triggered(d)' <=> Triggered(d)
                               /\ Keeps(pending, pending', d)
  /\ CallOK(c)'
  /\ \A j \in Of(pending', c) : EntryOK(pending[j])'
  /\ Distinct(pending')
  /\ Asked(c) => Asked(c)' /\ call'[c].name = call[c].name
  /\ \A p \in Peers : \A x \in inbox'[p] : x \in inbox[p] \/ (x = c /\ Asked(c)')
  /\ \A k \in DOMAIN net' : \E j \in DOMAIN net : net'[k] = net[j]

\* The fields of what is in a list.
LEMMA EntryFields ==
  ASSUME NEW s \in Seq(EntryType), NEW i \in DOMAIN s
  PROVE  /\ s[i] \in EntryType /\ s[i].kind \in {"sync", "async", "dummy"} /\ s[i].dst \in Peers
         /\ s[i].name \in MaybeName /\ s[i].call \in Calls /\ s[i].got \in {-1, 0, 1} /\ s[i].of \in MaybeCall
<1>1. s[i] \in EntryType
  OBVIOUS
<1> QED  BY <1>1 DEF EntryType

LEMMA MsgFields ==
  ASSUME NEW s \in Seq(MsgType), NEW i \in DOMAIN s
  PROVE  /\ s[i] \in MsgType /\ s[i].type \in {"IGN", "REP"} /\ s[i].from \in Peers
         /\ s[i].name \in MaybeName /\ s[i].of \in Calls
<1>1. s[i] \in MsgType
  OBVIOUS
<1> QED  BY <1>1 DEF MsgType

LEMMA OtherCall ==
  ASSUME NEW d, call'[d] = call[d], Triggered(d)' <=> Triggered(d), Keeps(pending, pending', d)
  PROVE  /\ CallOK(d) => CallOK(d)'
         /\ Asked(d) => Asked(d)' /\ call'[d].name = call[d].name
         /\ \A j \in Of(pending', d) :
              \E k \in Of(pending, d) : pending'[j] = pending[k] /\ (EntryOK(pending[k]) => EntryOK(pending[j])')
<1>1. Cardinality(Of(pending', d)) = Cardinality(Of(pending, d))
  BY Zenon DEF Keeps
<1>2. \A j \in Of(pending', d) : \E k \in Of(pending, d) : pending'[j] = pending[k]
  BY Zenon DEF Keeps
<1>3. (\A j, k \in Of(pending, d) : j = k) => (\A j, k \in Of(pending', d) : j = k)
  BY Zenon DEF Keeps
<1>4. Froms(d)' = Froms(d)
  BY Zenon DEF Froms
<1>5. SyncOK(d) => SyncOK(d)'
  BY <1>2, <1>4, Zenon DEF SyncOK
<1>6. AsyncOK(d) => AsyncOK(d)'
  BY <1>1, <1>2, <1>3, Zenon DEF AsyncOK
<1>7. CallOK(d) => CallOK(d)'
  BY <1>5, <1>6, Zenon DEF CallOK
<1>8. Asked(d) => Asked(d)' /\ call'[d].name = call[d].name
  BY <1>2, Zenon DEF Asked
<1>9. \A j \in Of(pending', d) :
        \E k \in Of(pending, d) : pending'[j] = pending[k] /\ (EntryOK(pending[k]) => EntryOK(pending[j])')
  <2> TAKE j \in Of(pending', d)
  <2>1. PICK k \in Of(pending, d) : pending'[j] = pending[k]
    BY <1>2, Zenon
  <2>2. pending[k].call = d
    BY Zenon DEF Of
  <2>3. EntryOK(pending[k]) => EntryOK(pending[j])'
    BY <2>1, <2>2, Zenon DEF EntryOK
  <2> QED  BY <2>1, <2>3, Zenon
<1> QED  BY <1>7, <1>8, <1>9, Zenon

LEMMA StepOK ==
  ASSUME MpInv, MpTypeOK', TrigOK', NEW c \in Calls, StepOf(c)
  PROVE  MpInv'
<1>0. MpTypeOK
  BY Zenon DEF MpInv
<1>1. \A d \in Calls : d # c =>
        /\ CallOK(d) => CallOK(d)'
        /\ Asked(d) => Asked(d)' /\ call'[d].name = call[d].name
        /\ \A j \in Of(pending', d) :
              \E k \in Of(pending, d) : pending'[j] = pending[k] /\ (EntryOK(pending[k]) => EntryOK(pending[j])')
  <2> TAKE d \in Calls
  <2> HAVE d # c
  <2>1. call'[d] = call[d] /\ (Triggered(d)' <=> Triggered(d)) /\ Keeps(pending, pending', d)
    BY Zenon DEF StepOf
  <2> QED  BY <2>1, OtherCall, Zenon
<1>2. \A j \in DOMAIN pending' : EntryOK(pending[j])'
  <2> TAKE j \in DOMAIN pending'
  <2>1. PICK d : d = pending'[j].call
    OBVIOUS
  <2>2. d \in Calls
    BY <2>1, EntryFields, Zenon DEF MpTypeOK
  <2>3. j \in Of(pending', d)
    BY <2>1, Zenon DEF Of
  <2>4. CASE d = c
    BY <2>3, <2>4, Zenon DEF StepOf
  <2>5. CASE d # c
    <3>1. PICK k \in Of(pending, d) : EntryOK(pending[k]) => EntryOK(pending[j])'
      BY <1>1, <2>2, <2>3, <2>5, Zenon
    <3>2. EntryOK(pending[k])
      BY Zenon DEF MpInv, Of
    <3> QED  BY <3>1, <3>2, Zenon
  <2> QED  BY <2>4, <2>5, Zenon
<1>3. \A d \in Calls : CallOK(d)'
  BY <1>1, Zenon DEF MpInv, StepOf
<1>4. \A d \in Calls : Asked(d) => Asked(d)' /\ call'[d].name = call[d].name
  BY <1>1, Zenon DEF StepOf
<1>5. \A p \in Peers : \A x \in inbox'[p] : Asked(x)'
  <2> TAKE p \in Peers
  <2> TAKE x \in inbox'[p]
  <2>1. CASE x \in inbox[p]
    <3>1. x \in Calls
      BY <1>0, <2>1 DEF MpTypeOK
    <3>2. Asked(x)
      BY <2>1, Zenon DEF MpInv
    <3> QED  BY <1>4, <3>1, <3>2, Zenon
  <2>2. CASE x = c /\ Asked(c)'
    BY <2>2, Zenon
  <2> QED  BY <2>1, <2>2, Zenon DEF StepOf
<1>6. \A k \in DOMAIN net' : Asked(net[k].of)' /\ net'[k].name = call'[net'[k].of].name
  <2> TAKE k \in DOMAIN net'
  <2>1. PICK j \in DOMAIN net : net'[k] = net[j]
    BY Zenon DEF StepOf
  <2>2. PICK d : d = net[j].of
    OBVIOUS
  <2>3. d \in Calls
    BY <1>0, <2>2, MsgFields, Zenon DEF MpTypeOK
  <2>4. Asked(d) /\ net[j].name = call[d].name
    BY <2>2, Zenon DEF MpInv
  <2>5. Asked(d)' /\ call'[d].name = call[d].name
    BY <1>4, <2>3, <2>4, Zenon
  <2>6. net'[k].of = d /\ net'[k].name = call[d].name
    BY <2>1, <2>2, <2>4, Zenon
  <2> QED  BY <2>5, <2>6, Zenon DEF Asked
<1>7. Distinct(pending')
  BY Zenon DEF StepOf
<1> QED  BY <1>2, <1>3, <1>5, <1>6, <1>7, Zenon DEF MpInv, Distinct


LEMMA CallFields ==
  ASSUME MpTypeOK, NEW c \in Calls
  PROVE  /\ call[c] \in CallType /\ call[c].kind \in {"none", "sync", "async"} /\ call[c].name \in MaybeName
         /\ call[c].state \in {"new", "ask", "wait", "open", "ok", "failed", "done"}
         /\ call[c].todo \in SUBSET Peers /\ call[c].sent \in Nat /\ call[c].recv \in SUBSET ReplyType
         /\ call[c].processed \in Nat /\ call[c].late \in BOOLEAN /\ call[c].lost \in Nat /\ call[c].callbacks \in Nat
<1>1. call[c] \in CallType
  BY Zenon DEF MpTypeOK
<1> QED  BY <1>1 DEF CallType

\* Only a call that waits, or one that is open and not about to run its
\* callback, has entries.
LEMMA NoEntries ==
  ASSUME MpInv, NEW c \in Calls, call[c].state \notin {"wait", "open"} \/ (Triggered(c) /\ call[c].state # "wait")
  PROVE  \A j \in DOMAIN pending : pending[j].call # c
<1> SUFFICES ASSUME NEW j \in DOMAIN pending, pending[j].call = c
             PROVE  FALSE
  OBVIOUS
<1>1. EntryOK(pending[j])
  BY Zenon DEF MpInv
<1> QED  BY <1>1, Zenon DEF EntryOK

\* A step that gives call c the record r and triggers nothing.
LEMMA CallStep ==
  ASSUME MpInv, NEW c \in Calls, NEW r \in CallType, call' = [call EXCEPT ![c] = r],
         role' = role, trig' = trig, net' = net,
         sock' \in [Peers -> {"bound", "stale", "gone"}],
         inbox' \in [Peers -> SUBSET Calls], pending' \in Seq(EntryType),
         call[c].state = "open" => r.state = "open",
         \A d \in Calls : d # c => Keeps(pending, pending', d),
         CallOK(c)', \A j \in Of(pending', c) : EntryOK(pending[j])', Distinct(pending'),
         Asked(c) => Asked(c)' /\ r.name = call[c].name,
         \A p \in Peers : \A x \in inbox'[p] : x \in inbox[p] \/ (x = c /\ Asked(c)')
  PROVE  MpInv'
<1>1. MpTypeOK
  BY Zenon DEF MpInv
<1>2. call \in [Calls -> CallType]
  BY <1>1, Zenon DEF MpTypeOK
<1>3. call' \in [Calls -> CallType] /\ call'[c] = r /\ \A d \in Calls : d # c => call'[d] = call[d]
  BY <1>2, Zenon
<1>4. MpTypeOK'
  BY <1>1, <1>3, Zenon DEF MpTypeOK
<1>5. TrigOK'
  <2>1. TrigOK
    BY Zenon DEF MpInv
  <2>2. \A th \in {"mp", "intr"} : trig[th] \in MaybeCall
    BY <1>1, Zenon DEF MpTypeOK
  <2>3. \A th \in {"mp", "intr"} : trig[th] # NoCall => call'[trig[th]].state = "open"
    <3> TAKE th \in {"mp", "intr"}
    <3> HAVE trig[th] # NoCall
    <3>1. PICK d : d = trig[th]
      OBVIOUS
    <3>2. d \in Calls
      BY <2>2, <3>1, Zenon DEF MaybeCall
    <3>3. call[d].state = "open"
      BY <2>1, <3>1, Zenon DEF TrigOK
    <3>4. call'[d].state = "open"
      BY <1>3, <3>2, <3>3, Zenon
    <3> QED  BY <3>1, <3>4, Zenon
  <2> QED  BY <2>1, <2>3, Zenon DEF TrigOK
<1>6. \A d : Triggered(d)' <=> Triggered(d)
  BY Zenon DEF Triggered
<1>7. StepOf(c)
  BY <1>3, <1>6, Zenon DEF StepOf
<1> QED  BY <1>4, <1>5, <1>7, StepOK, Zenon

\* One that also leaves the list alone.
LEMMA QuietStep ==
  ASSUME MpInv, NEW c \in Calls, NEW r \in CallType, call' = [call EXCEPT ![c] = r],
         role' = role, trig' = trig, net' = net, pending' = pending,
         sock' \in [Peers -> {"bound", "stale", "gone"}], inbox' \in [Peers -> SUBSET Calls],
         call[c].state = "open" => r.state = "open",
         r.kind # "none", call[c].kind # "none" => r.name = call[c].name,
         (\A j \in DOMAIN pending : pending[j].call # c) \/ (r.kind = call[c].kind /\ r.state = call[c].state),
         CallOK(c)',
         \A p \in Peers : \A x \in inbox'[p] :
            x \in inbox[p] \/ (x = c /\ \A j \in DOMAIN pending : pending[j].call # c)
  PROVE  MpInv'
<1>1. MpTypeOK
  BY Zenon DEF MpInv
<1>2. call' \in [Calls -> CallType] /\ call'[c] = r
  BY <1>1, Zenon DEF MpTypeOK
<1>3. pending' \in Seq(EntryType)
  BY <1>1, Zenon DEF MpTypeOK
<1>4. \A d \in Calls : Keeps(pending, pending', d)
  BY KeepsSame, Zenon
<1>5. \A j \in Of(pending', c) : EntryOK(pending[j])'
  <2> TAKE j \in Of(pending', c)
  <2>1. j \in DOMAIN pending /\ pending[j].call = c /\ pending'[j] = pending[j]
    BY Zenon DEF Of
  <2>2. EntryOK(pending[j])
    BY <2>1, Zenon DEF MpInv
  <2>3. r.kind = call[c].kind /\ r.state = call[c].state
    BY <2>1, Zenon
  <2>4. call[c].kind # "none"
    BY <2>3, Zenon
  <2>5. Triggered(c)' <=> Triggered(c)
    BY Zenon DEF Triggered
  <2> QED  BY <1>2, <2>1, <2>2, <2>3, <2>4, <2>5, Zenon DEF EntryOK
<1>6. Distinct(pending')
  BY Zenon DEF MpInv
<1>7. Asked(c) => Asked(c)' /\ r.name = call[c].name
  BY <1>2, Zenon DEF Asked
<1>8. (\A j \in DOMAIN pending : pending[j].call # c) => Asked(c)'
  BY <1>2, Zenon DEF Asked, Of
<1>9. \A p \in Peers : \A x \in inbox'[p] : x \in inbox[p] \/ (x = c /\ Asked(c)')
  BY <1>8, Zenon
<1> QED  BY <1>3, <1>4, <1>5, <1>6, <1>7, <1>9, CallStep, Zenon

\* A call that failed owes nothing.
LEMMA FailedOK ==
  ASSUME NEW c, call'[c].state = "failed", call'[c].kind # "none", call'[c].name \in Names, call'[c].callbacks = 0
  PROVE  CallOK(c)'
BY Zenon DEF CallOK, SyncOK, AsyncOK


-----------------------------------------------------------------------------
(* The peers                                                                *)

\* A step that leaves the requester alone and takes nothing but old requests
\* and their answers along.
LEMMA PeerFrame ==
  ASSUME MpInv, UNCHANGED <<role, pending, call, trig>>,
         sock' \in [Peers -> {"bound", "stale", "gone"}],
         inbox' \in [Peers -> SUBSET Calls], net' \in Seq(MsgType),
         \A p \in Peers : \A x \in inbox'[p] : x \in inbox[p],
         \A k \in DOMAIN net' : \/ \E j \in DOMAIN net : net'[k] = net[j]
                                \/ \E p \in Peers : net'[k].of \in inbox[p] /\ net'[k].name = call[net'[k].of].name
  PROVE  MpInv'
<1>1. role' = role /\ pending' = pending /\ call' = call /\ trig' = trig
  OBVIOUS
<1>2. MpTypeOK' /\ TrigOK'
  BY <1>1, Zenon DEF MpInv, MpTypeOK, TrigOK
<1>3. \A d : Asked(d)' <=> Asked(d)
  BY <1>1, Zenon DEF Asked
<1>4. \A d \in Calls : CallOK(d)'
  <2> TAKE d \in Calls
  <2>1. call'[d] = call[d] /\ (Triggered(d)' <=> Triggered(d))
    BY <1>1, Zenon DEF Triggered
  <2>2. Keeps(pending, pending', d)
    BY <1>1, KeepsSame, Zenon
  <2>3. CallOK(d)
    BY Zenon DEF MpInv
  <2> QED  BY <2>1, <2>2, <2>3, OtherCall, Zenon
<1>5. \A i \in DOMAIN pending : EntryOK(pending[i])' <=> EntryOK(pending[i])
  BY <1>1, Zenon DEF EntryOK, Triggered
<1>6. \A i \in DOMAIN pending' : EntryOK(pending[i])'
  BY <1>1, <1>5, Zenon DEF MpInv
<1>7. Distinct(pending)'
  BY <1>1, Zenon DEF MpInv
<1>8. \A k \in DOMAIN net' : Asked(net[k].of)' /\ net'[k].name = call'[net'[k].of].name
  <2> TAKE k \in DOMAIN net'
  <2>1. Asked(net'[k].of) /\ net'[k].name = call[net'[k].of].name
    BY Zenon DEF MpInv
  <2> QED  BY <1>1, <2>1, Zenon DEF Asked
<1>9. \A p \in Peers : \A x \in inbox'[p] : Asked(x)'
  BY <1>3, Zenon DEF MpInv
<1> QED  BY <1>2, <1>4, <1>6, <1>7, <1>8, <1>9, Zenon DEF MpInv

LEMMA PeerAnswers ==
  ASSUME MpInv, NEW p \in Peers, NEW c \in Calls, NEW ty \in {"IGN", "REP"}, c \in inbox[p],
         inbox' = [inbox EXCEPT ![p] = @ \ {c}],
         net' = Append(net, [type |-> ty, from |-> p, name |-> call[c].name, of |-> c]),
         UNCHANGED <<role, sock, pending, call, trig>>
  PROVE  MpInv'
<1>1. MpTypeOK
  BY Zenon DEF MpInv
<1>2. PICK m : m = [type |-> ty, from |-> p, name |-> call[c].name, of |-> c]
  OBVIOUS
<1>3. m \in MsgType /\ m.of = c /\ m.name = call[c].name
  <2>1. call[c].name \in MaybeName
    BY <1>1, CallFields, Zenon
  <2> QED  BY <1>2, <2>1 DEF MsgType
<1>4. net \in Seq(MsgType) /\ net' = Append(net, m)
  BY <1>1, <1>2, Zenon DEF MpTypeOK
<1>5. net' \in Seq(MsgType) /\ \A k \in DOMAIN net' : (k \in DOMAIN net /\ net'[k] = net[k]) \/ net'[k] = m
  BY <1>3, <1>4
<1>6. inbox \in [Peers -> SUBSET Calls]
  BY <1>1, Zenon DEF MpTypeOK
<1>7. inbox' \in [Peers -> SUBSET Calls] /\ \A q \in Peers : \A x \in inbox'[q] : x \in inbox[q]
  BY <1>6
<1>8. sock' \in [Peers -> {"bound", "stale", "gone"}]
  BY <1>1, Zenon DEF MpTypeOK
<1>9. \A k \in DOMAIN net' : \/ \E j \in DOMAIN net : net'[k] = net[j]
                             \/ \E q \in Peers : net'[k].of \in inbox[q] /\ net'[k].name = call[net'[k].of].name
  BY <1>3, <1>5, Zenon
<1> QED  BY <1>5, <1>7, <1>8, <1>9, PeerFrame, Zenon

LEMMA PeerStepOK ==
  ASSUME MpInv, NEW p \in Peers, PeerStep(p)
  PROVE  MpInv'
<1>1. MpTypeOK
  BY Zenon DEF MpInv
<1>2. ASSUME NEW c \in Calls, PeerIgnores(p, c) PROVE MpInv'
  BY <1>2, PeerAnswers, Zenon DEF PeerIgnores
<1>3. ASSUME NEW c \in Calls, PeerReplies(p, c) PROVE MpInv'
  BY <1>3, PeerAnswers, Zenon DEF PeerReplies
<1>4. \A k \in DOMAIN net : \E j \in DOMAIN net : net[k] = net[j]
  BY Zenon
<1>5. CASE PeerReady(p)
  BY <1>1, <1>4, <1>5, PeerFrame, Zenon DEF PeerReady, MpTypeOK
<1>6. ASSUME NEW s \in {"gone", "stale"}, PeerEnds(p, s) PROVE MpInv'
  <2>1. sock' \in [Peers -> {"bound", "stale", "gone"}] /\ inbox' \in [Peers -> SUBSET Calls]
    BY <1>1, <1>6 DEF PeerEnds, MpTypeOK
  <2>2. \A q \in Peers : \A x \in inbox'[q] : x \in inbox[q]
    BY <1>1, <1>6 DEF PeerEnds, MpTypeOK
  <2>3. net' = net /\ net' \in Seq(MsgType) /\ UNCHANGED <<role, pending, call, trig>>
    BY <1>1, <1>6, Zenon DEF PeerEnds, MpTypeOK
  <2> QED  BY <1>4, <2>1, <2>2, <2>3, PeerFrame, Zenon
<1> QED  BY <1>2, <1>3, <1>5, <1>6, Zenon DEF PeerStep


-----------------------------------------------------------------------------
(* rte_mp_request_sync                                                      *)

LEMMA NewCallFields ==
  /\ NewCall \in CallType /\ NewCall.kind = "none" /\ NewCall.todo = {} /\ NewCall.sent = 0
  /\ NewCall.recv = {} /\ NewCall.processed = 0 /\ NewCall.callbacks = 0 /\ NewCall.late = FALSE /\ NewCall.lost = 0
BY DEF NewCall, CallType, MaybeName

\* What the requester leaves alone has its type.
LEMMA SameTypes ==
  ASSUME MpInv
  PROVE  /\ sock \in [Peers -> {"bound", "stale", "gone"}] /\ inbox \in [Peers -> SUBSET Calls]
         /\ pending \in Seq(EntryType) /\ call \in [Calls -> CallType] /\ MpTypeOK
         /\ \A p \in Peers : inbox[p] \subseteq Calls
<1>1. MpTypeOK
  BY Zenon DEF MpInv
<1>2. inbox \in [Peers -> SUBSET Calls]
  BY <1>1, Zenon DEF MpTypeOK
<1>3. \A p \in Peers : inbox[p] \subseteq Calls
  BY <1>2
<1> QED  BY <1>1, <1>2, <1>3, Zenon DEF MpTypeOK

LEMMA DestsType ==
  Dests \subseteq Peers
BY MpParameters, Zenon DEF Dests

LEMMA SyncCallOK ==
  ASSUME MpInv, NEW c \in Calls, NEW n \in Names, SyncCall(c, n)
  PROVE  MpInv'
<1>1. call[c].state = "new" /\ call[c].kind = "none"
  BY Zenon DEF SyncCall, Next1, MpInv, CallOK
<1>2. PICK r : r = [NewCall EXCEPT !.kind = "sync", !.state = "ask", !.name = n, !.todo = Dests]
  OBVIOUS
<1>3. /\ r \in CallType /\ r.kind = "sync" /\ r.state = "ask" /\ r.name = n
      /\ r.sent = 0 /\ r.recv = {} /\ r.callbacks = 0
  BY <1>2, NewCallFields, DestsType, Zenon DEF CallType, MaybeName
<1>4. /\ call' = [call EXCEPT ![c] = r] /\ role' = role /\ trig' = trig /\ net' = net /\ pending' = pending
      /\ sock' = sock /\ inbox' = inbox
  BY <1>2, Zenon DEF SyncCall, peervars
<1>5. call'[c] = r
  BY <1>4, SameTypes, Zenon
<1>6. CallOK(c)'
  <2>1. Froms(c)' = {}
    BY <1>3, <1>5, Zenon DEF Froms
  <2>2. SyncOK(c)'
    BY <1>3, <1>5, <2>1, FS_EmptySet, Zenon DEF SyncOK
  <2>3. AsyncOK(c)'
    BY <1>3, <1>5, Zenon DEF AsyncOK
  <2> QED  BY <1>3, <1>5, <2>2, <2>3, Zenon DEF CallOK
<1>7. \A j \in DOMAIN pending : pending[j].call # c
  BY <1>1, NoEntries, Zenon
<1> QED  BY <1>1, <1>3, <1>4, <1>6, <1>7, SameTypes, QuietStep, Zenon

\* A synchronous request that asks has no entry, one that waits has one.
LEMMA SyncFacts ==
  ASSUME MpInv, NEW c \in Calls, call[c].state \in {"ask", "wait"}
  PROVE  /\ call[c].kind = "sync" /\ call[c].name \in Names /\ call[c].callbacks = 0 /\ SyncOK(c)
         /\ call[c].state = "ask" => \A j \in DOMAIN pending : pending[j].call # c
         /\ \A i, j \in DOMAIN pending : pending[i].call = c /\ pending[j].call = c => i = j
         /\ \A i \in DOMAIN pending : pending[i].call = c => pending[i].kind = "sync"
<1>1. CallOK(c)
  BY Zenon DEF MpInv
<1>2. call[c].kind = "sync" /\ call[c].name \in Names /\ call[c].callbacks = 0 /\ SyncOK(c)
  BY <1>1, Zenon DEF CallOK
<1>3. call[c].state = "ask" => \A j \in DOMAIN pending : pending[j].call # c
  BY NoEntries, Zenon
<1>4. \A i \in DOMAIN pending : pending[i].call = c => pending[i].kind = "sync"
  BY <1>2, Zenon DEF MpInv, EntryOK
<1>5. \A i, j \in DOMAIN pending : pending[i].call = c /\ pending[j].call = c => i = j
  BY <1>4, Zenon DEF MpInv, Distinct
<1> QED  BY <1>2, <1>3, <1>4, <1>5, Zenon

LEMMA SyncFailsFields ==
  ASSUME MpInv, NEW c \in Calls, call[c].state \in {"ask", "wait"}, SyncFails(c)
  PROVE  /\ \E r \in CallType : /\ call' = [call EXCEPT ![c] = r] /\ r.state = "failed"
                                /\ r.kind = "sync" /\ r.name = call[c].name
         /\ CallOK(c)'
<1>1. PICK r : r = [call[c] EXCEPT !.state = "failed", !.todo = {}, !.sent = 0, !.recv = {}, !.late = FALSE]
  OBVIOUS
<1>2. call' = [call EXCEPT ![c] = r]
  BY <1>1, Zenon DEF SyncFails
<1>3. call[c] \in CallType
  BY SameTypes, Zenon
<1>4. call[c].kind = "sync" /\ call[c].name \in Names /\ call[c].callbacks = 0
  BY SyncFacts, Zenon
<1>5. /\ r \in CallType /\ r.state = "failed" /\ r.kind = call[c].kind /\ r.name = call[c].name
      /\ r.callbacks = call[c].callbacks
  BY <1>1, <1>3, Zenon DEF CallType
<1>6. call'[c] = r
  BY <1>2, SameTypes, Zenon
<1>7. CallOK(c)'
  BY <1>4, <1>5, <1>6, FailedOK, Zenon
<1> QED  BY <1>2, <1>4, <1>5, <1>7, Zenon

LEMMA SyncCannotOK ==
  ASSUME MpInv, NEW c \in Calls, NEW p \in Peers, SyncCannot(c, p)
  PROVE  MpInv'
<1>1. /\ call[c].state = "ask" /\ SyncFails(c) /\ role' = role /\ trig' = trig /\ net' = net /\ pending' = pending
      /\ sock' = sock /\ inbox' = inbox
  BY Zenon DEF SyncCannot, peervars
<1>2. PICK r \in CallType : /\ call' = [call EXCEPT ![c] = r] /\ r.state = "failed"
                            /\ r.kind = "sync" /\ r.name = call[c].name
  BY <1>1, SyncFailsFields, Zenon
<1>3. CallOK(c)'
  BY <1>1, SyncFailsFields, Zenon
<1>4. \A j \in DOMAIN pending : pending[j].call # c
  BY <1>1, SyncFacts, Zenon
<1> QED  BY <1>1, <1>2, <1>3, <1>4, SameTypes, QuietStep, Zenon

LEMMA SyncRefusedOK ==
  ASSUME MpInv, NEW c \in Calls, NEW p \in Peers, SyncRefused(c, p)
  PROVE  MpInv'
<1>1. /\ call[c].state = "ask" /\ sock' = [sock EXCEPT ![p] = "gone"]
      /\ role' = role /\ trig' = trig /\ net' = net /\ pending' = pending /\ inbox' = inbox
  BY Zenon DEF SyncRefused
<1>2. PICK r : r = [call[c] EXCEPT !.todo = @ \ {p}]
  BY Zenon
<1>3. call' = [call EXCEPT ![c] = r]
  BY <1>2, Zenon DEF SyncRefused
<1>4. call[c] \in CallType
  BY SameTypes, Zenon
<1>5. /\ r \in CallType /\ r.state = "ask" /\ r.kind = call[c].kind /\ r.name = call[c].name
      /\ r.callbacks = call[c].callbacks /\ r.sent = call[c].sent /\ r.recv = call[c].recv
      /\ r.todo = call[c].todo \ {p}
  BY <1>1, <1>2, <1>4 DEF CallType
<1>6. call'[c] = r
  BY <1>3, SameTypes, Zenon
<1>7. /\ call[c].kind = "sync" /\ call[c].name \in Names /\ call[c].callbacks = 0 /\ SyncOK(c)
      /\ \A j \in DOMAIN pending : pending[j].call # c
  BY <1>1, SyncFacts, Zenon
<1>8. CallOK(c)'
  <2>1. Froms(c)' = Froms(c)
    BY <1>5, <1>6, Zenon DEF Froms
  <2>2. Froms(c) \intersect call[c].todo = {} /\ call[c].sent = Cardinality(Froms(c))
    BY <1>1, <1>7, Zenon DEF SyncOK
  <2>3. Froms(c) \intersect r.todo = {}
    BY <1>5, <2>2
  <2>4. SyncOK(c)'
    BY <1>5, <1>6, <2>1, <2>2, <2>3, Zenon DEF SyncOK
  <2>5. AsyncOK(c)'
    BY <1>5, <1>6, Zenon DEF AsyncOK
  <2> QED  BY <1>5, <1>6, <1>7, <2>4, <2>5, Zenon DEF CallOK
<1>9. sock' \in [Peers -> {"bound", "stale", "gone"}]
  BY <1>1, SameTypes
<1> QED  BY <1>1, <1>3, <1>5, <1>7, <1>8, <1>9, SameTypes, QuietStep, Zenon

LEMMA SyncDoneOK ==
  ASSUME MpInv, NEW c \in Calls, SyncDone(c)
  PROVE  MpInv'
<1>1. /\ call[c].state = "ask" /\ sock' = sock
      /\ role' = role /\ trig' = trig /\ net' = net /\ pending' = pending /\ inbox' = inbox
  BY Zenon DEF SyncDone, peervars
<1>2. PICK r : r = [call[c] EXCEPT !.state = "ok", !.late = FALSE]
  OBVIOUS
<1>3. call' = [call EXCEPT ![c] = r]
  BY <1>2, Zenon DEF SyncDone
<1>4. call[c] \in CallType
  BY SameTypes, Zenon
<1>5. /\ r \in CallType /\ r.state = "ok" /\ r.kind = call[c].kind /\ r.name = call[c].name
      /\ r.callbacks = call[c].callbacks /\ r.sent = call[c].sent /\ r.recv = call[c].recv
  BY <1>1, <1>2, <1>4, Zenon DEF CallType
<1>6. call'[c] = r
  BY <1>3, SameTypes, Zenon
<1>7. /\ call[c].kind = "sync" /\ call[c].name \in Names /\ call[c].callbacks = 0 /\ SyncOK(c)
      /\ \A j \in DOMAIN pending : pending[j].call # c
  BY <1>1, SyncFacts, Zenon
<1>8. CallOK(c)'
  <2>1. Froms(c)' = Froms(c)
    BY <1>5, <1>6, Zenon DEF Froms
  <2>2. call[c].sent = Cardinality(Froms(c))
    BY <1>1, <1>7, Zenon DEF SyncOK
  <2>3. SyncOK(c)'
    BY <1>5, <1>6, <2>1, <2>2, Zenon DEF SyncOK
  <2>4. AsyncOK(c)'
    BY <1>5, <1>6, Zenon DEF AsyncOK
  <2> QED  BY <1>5, <1>6, <1>7, <2>3, <2>4, Zenon DEF CallOK
<1> QED  BY <1>1, <1>3, <1>5, <1>7, <1>8, SameTypes, QuietStep, Zenon

LEMMA DeadlineOK ==
  ASSUME MpInv, NEW c \in Calls, Deadline(c)
  PROVE  MpInv'
<1>1. /\ call[c].state \in {"ask", "wait", "open"} /\ sock' = sock
      /\ role' = role /\ trig' = trig /\ net' = net /\ pending' = pending /\ inbox' = inbox
  BY Zenon DEF Deadline, peervars
<1>2. PICK r : r = [call[c] EXCEPT !.late = TRUE]
  BY Zenon
<1>3. call' = [call EXCEPT ![c] = r]
  BY <1>2, Zenon DEF Deadline
<1>4. call[c] \in CallType
  BY SameTypes, Zenon
<1>5. /\ r \in CallType /\ r.state = call[c].state /\ r.kind = call[c].kind /\ r.name = call[c].name
      /\ r.callbacks = call[c].callbacks /\ r.sent = call[c].sent /\ r.recv = call[c].recv
      /\ r.todo = call[c].todo /\ r.processed = call[c].processed /\ r.lost = call[c].lost
  BY <1>1, <1>2, <1>4, Zenon DEF CallType
<1>6. call'[c] = r
  BY <1>3, SameTypes, Zenon
<1>7. CallOK(c)
  BY Zenon DEF MpInv
<1>8. CallOK(c)'
  <2>1. Froms(c)' = Froms(c) /\ (Triggered(c)' <=> Triggered(c))
    BY <1>1, <1>5, <1>6, Zenon DEF Froms, Triggered
  <2>2. SyncOK(c) => SyncOK(c)'
    BY <1>1, <1>5, <1>6, <2>1, Zenon DEF SyncOK
  <2>3. AsyncOK(c) => AsyncOK(c)'
    BY <1>1, <1>5, <1>6, <2>1, Zenon DEF AsyncOK
  <2> QED  BY <1>5, <1>6, <1>7, <2>2, <2>3, Zenon DEF CallOK
<1>9. r.kind # "none"
  BY <1>1, <1>5, <1>7, Zenon DEF CallOK
<1> QED  BY <1>1, <1>3, <1>5, <1>8, <1>9, SameTypes, QuietStep, Zenon


LEMMA FromsFacts ==
  ASSUME MpInv, NEW c \in Calls
  PROVE  Froms(c) \subseteq Peers /\ IsFiniteSet(Froms(c)) /\ Cardinality(Froms(c)) \in Nat
<1>1. call[c].recv \in SUBSET ReplyType
  BY SameTypes, CallFields, Zenon
<1>2. Froms(c) \subseteq Peers
  BY <1>1 DEF Froms, ReplyType
<1>3. IsFiniteSet(Froms(c))
  BY <1>2, MpParameters, FS_Subset, Zenon
<1> QED  BY <1>2, <1>3, FS_CardinalityType, Zenon

LEMMA SyncSendOK ==
  ASSUME MpInv, NEW c \in Calls, NEW p \in Peers, SyncSend(c, p)
  PROVE  MpInv'
<1>1. /\ call[c].state = "ask" /\ p \in call[c].todo /\ ~ Exists(p, call[c].name)
      /\ inbox' = [inbox EXCEPT ![p] = @ \union {c}]
      /\ role' = role /\ trig' = trig /\ net' = net /\ sock' = sock
  BY Zenon DEF SyncSend
<1> DEFINE todo == call[c].todo \ {p}
           sent == call[c].sent + 1
<1>2. PICK r : r = [call[c] EXCEPT !.state = "wait", !.todo = todo, !.sent = sent]
  OBVIOUS
<1>3. PICK e : e = Entry("sync", p, call[c].name, c)
  OBVIOUS
<1>4. call' = [call EXCEPT ![c] = r] /\ pending' = Append(pending, e)
  BY <1>2, <1>3, Zenon DEF SyncSend
<1>5. call[c] \in CallType /\ pending \in Seq(EntryType)
  BY SameTypes, Zenon
<1>6. /\ r \in CallType /\ r.state = "wait" /\ r.kind = call[c].kind /\ r.name = call[c].name
      /\ r.callbacks = call[c].callbacks /\ r.sent = call[c].sent + 1 /\ r.recv = call[c].recv
      /\ r.todo = call[c].todo \ {p}
  <2>1. todo \in SUBSET Peers /\ sent \in Nat
    BY <1>5 DEF CallType
  <2> HIDE DEF todo, sent
  <2>2. /\ r \in CallType /\ r.state = "wait" /\ r.kind = call[c].kind /\ r.name = call[c].name
        /\ r.callbacks = call[c].callbacks /\ r.sent = sent /\ r.recv = call[c].recv
        /\ r.todo = todo
    BY <1>2, <1>5, <2>1, Zenon DEF CallType
  <2> QED  BY <2>2, Zenon DEF todo, sent
<1>7. call'[c] = r
  BY <1>4, SameTypes, Zenon
<1>8. /\ call[c].kind = "sync" /\ call[c].name \in Names /\ call[c].callbacks = 0 /\ SyncOK(c)
      /\ \A j \in DOMAIN pending : pending[j].call # c
  BY <1>1, SyncFacts, Zenon
<1>9. /\ e \in EntryType /\ e.kind = "sync" /\ e.dst = p /\ e.name = call[c].name /\ e.call = c
  BY <1>3, <1>8 DEF Entry, EntryType, MaybeName, MaybeCall
<1>10. PICK u : u = <<e>>
  BY Zenon
<1>11. /\ u \in Seq(EntryType) /\ Len(u) = 1 /\ u[1] = e /\ Joined(pending, u, pending')
  BY <1>4, <1>5, <1>9, <1>10, JoinAppend, Zenon
<1>12. \A j \in DOMAIN u : u[j] = e
  <2>1. DOMAIN u = 1 .. 1
    BY <1>11
  <2>2. \A j \in 1 .. 1 : j = 1
    OBVIOUS
  <2> QED  BY <1>11, <2>1, <2>2, Zenon
<1>13. pending' \in Seq(EntryType)
  BY <1>11, Zenon DEF Joined
<1>14. \A d \in Calls : d # c => Keeps(pending, pending', d)
  <2> TAKE d \in Calls
  <2> HAVE d # c
  <2>1. \A j \in DOMAIN u : u[j].call # d
    BY <1>9, <1>12, Zenon
  <2>2. PICK t : t = pending'
    OBVIOUS
  <2>3. Joined(pending, u, t)
    BY <1>11, <2>2, Zenon
  <2>4. Keeps(pending, t, d)
    BY <1>5, <1>11, <2>1, <2>3, JoinOf, Zenon
  <2> QED  BY <2>2, <2>4, Zenon
<1>15. \A j \in Of(pending', c) : pending'[j] = e
  <2> TAKE j \in Of(pending', c)
  <2>1. j \in DOMAIN pending' /\ pending'[j].call = c
    BY Zenon DEF Of
  <2>2. PICK t : t = pending'
    OBVIOUS
  <2>3. Joined(pending, u, t) /\ j \in DOMAIN t
    BY <1>11, <2>1, <2>2, Zenon
  <2>4. \/ j \in DOMAIN pending /\ t[j] = pending[j]
        \/ \E m \in DOMAIN u : t[j] = u[m]
    BY <1>5, <1>11, <2>3, JoinPlaces
  <2> QED  BY <1>8, <1>12, <2>1, <2>2, <2>4, Zenon
<1>16. CallOK(c)'
  <2>1. Froms(c)' = Froms(c)
    BY <1>6, <1>7, Zenon DEF Froms
  <2>2. Froms(c) \intersect call[c].todo = {} /\ call[c].sent = Cardinality(Froms(c))
    BY <1>1, <1>8, Zenon DEF SyncOK
  <2>3. Froms(c) \intersect r.todo = {} /\ p \notin Froms(c) \union r.todo
    BY <1>1, <1>6, <2>2
  <2>4. SyncOK(c)'
    BY <1>6, <1>7, <1>9, <1>15, <2>1, <2>2, <2>3, Zenon DEF SyncOK
  <2>5. AsyncOK(c)'
    BY <1>6, <1>7, Zenon DEF AsyncOK
  <2> QED  BY <1>6, <1>7, <1>8, <2>4, <2>5, Zenon DEF CallOK
<1>17. \A j \in Of(pending', c) : EntryOK(pending[j])'
  <2> TAKE j \in Of(pending', c)
  <2>1. pending'[j] = e
    BY <1>15, Zenon
  <2> QED  BY <1>6, <1>7, <1>8, <1>9, <2>1, Zenon DEF EntryOK
<1>18. Distinct(pending')
  <2>1. Distinct(pending)
    BY Zenon DEF MpInv
  <2>2. Distinct(u)
    <3>1. DOMAIN u = 1 .. 1
      BY <1>11
    <3>2. \A i, j \in 1 .. 1 : i = j
      OBVIOUS
    <3> QED  BY <3>1, <3>2, Zenon DEF Distinct
  <2>3. \A i \in DOMAIN pending, j \in DOMAIN u : Apart(pending[i], u[j])
    <3> TAKE i \in DOMAIN pending, j \in DOMAIN u
    <3>1. ~ (pending[i].dst = p /\ pending[i].name = call[c].name)
      BY <1>1, Zenon DEF Exists, Matches
    <3>2. u[j] = e /\ pending[i].call # c
      BY <1>8, <1>12, Zenon
    <3> QED  BY <1>9, <3>1, <3>2, Zenon DEF Apart
  <2>4. PICK t : t = pending'
    OBVIOUS
  <2>5. Joined(pending, u, t)
    BY <1>11, <2>4, Zenon
  <2>6. Distinct(t)
    BY <1>5, <1>11, <2>1, <2>2, <2>3, <2>5, JoinDistinct, Zenon
  <2> QED  BY <2>4, <2>6, Zenon
<1>19. Asked(c)'
  BY <1>6, <1>7, <1>8, <1>9, <1>15, Zenon DEF Asked
<1>20. inbox' \in [Peers -> SUBSET Calls] /\ \A q \in Peers : \A x \in inbox'[q] : x \in inbox[q] \/ x = c
  BY <1>1, SameTypes
<1>21. \A q \in Peers : \A x \in inbox'[q] : x \in inbox[q] \/ (x = c /\ Asked(c)')
  BY <1>19, <1>20, Zenon
<1>22. sock' \in [Peers -> {"bound", "stale", "gone"}]
  BY <1>1, SameTypes, Zenon
<1>23. call[c].state = "open" => r.state = "open"
  BY <1>1, Zenon
<1> QED  BY <1>1, <1>4, <1>6, <1>13, <1>14, <1>16, <1>17, <1>18, <1>19, <1>20, <1>21, <1>22, <1>23, CallStep, Zenon

\* What taking the entry off the list means when it is that of a synchronous
\* request.
LEMMA SyncRemoved ==
  ASSUME MpInv, NEW c \in Calls, call[c].state = "wait", NEW i \in DOMAIN pending, pending[i].call = c,
         pending' = Without(i)
  PROVE  /\ pending' \in Seq(EntryType) /\ Distinct(pending')
         /\ \A d \in Calls : d # c => Keeps(pending, pending', d)
         /\ Of(pending', c) = {}
<1>1. pending \in Seq(EntryType) /\ Distinct(pending)
  BY SameTypes, Zenon DEF MpInv
<1>2. PICK t : t = RemoveAt(pending, i)
  OBVIOUS
<1>3. t = pending'
  BY <1>2, Zenon DEF Without
<1>4. t \in Seq(EntryType)
  BY <1>1, <1>2, RemoveFacts, Zenon
<1>5. /\ \A d : d # pending[i].call => Keeps(pending, t, d)
      /\ \A j \in DOMAIN t : \E k \in DOMAIN pending : k # i /\ t[j] = pending[k]
      /\ Distinct(t)
  <2>1. \A d : d # pending[i].call => Keeps(pending, t, d)
    BY <1>1, <1>2, RemoveOf, Zenon
  <2>2. Distinct(t)
    BY <1>1, <1>2, RemoveOf, Zenon
  <2>3. \A j \in DOMAIN t : \E k \in DOMAIN pending : k # i /\ t[j] = pending[k]
    BY <1>1, <1>2, RemoveOf
  <2> QED  BY <2>1, <2>2, <2>3, Zenon
<1>6. \A k \in DOMAIN pending : pending[k].call = c => k = i
  <2>1. \A j, k \in DOMAIN pending : pending[j].call = c /\ pending[k].call = c => j = k
    BY SyncFacts, Zenon
  <2> QED  BY <2>1, Zenon
<1>7. Of(t, c) = {}
  BY <1>5, <1>6, Zenon DEF Of
<1> QED  BY <1>3, <1>4, <1>5, <1>7, Zenon

LEMMA SyncTimeoutOK ==
  ASSUME MpInv, NEW c \in Calls, NEW i \in DOMAIN pending, SyncTimeout(c, i)
  PROVE  MpInv'
<1>1. /\ call[c].state = "wait" /\ pending[i].call = c /\ SyncFails(c) /\ pending' = Without(i)
      /\ role' = role /\ trig' = trig /\ net' = net /\ sock' = sock /\ inbox' = inbox
  BY Zenon DEF SyncTimeout, peervars
<1>2. PICK r \in CallType : /\ call' = [call EXCEPT ![c] = r] /\ r.state = "failed"
                            /\ r.kind = "sync" /\ r.name = call[c].name
  BY <1>1, SyncFailsFields, Zenon
<1>3. CallOK(c)'
  BY <1>1, SyncFailsFields, Zenon
<1>4. /\ pending' \in Seq(EntryType) /\ Distinct(pending')
      /\ \A d \in Calls : d # c => Keeps(pending, pending', d)
      /\ Of(pending', c) = {}
  BY <1>1, SyncRemoved, Zenon
<1>5. call'[c] = r
  BY <1>2, SameTypes, Zenon
<1>6. Asked(c)'
  BY <1>2, <1>4, <1>5, Zenon DEF Asked
<1>7. \A j \in Of(pending', c) : EntryOK(pending[j])'
  BY <1>4, Zenon
<1> QED  BY <1>1, <1>2, <1>3, <1>4, <1>6, <1>7, SameTypes, CallStep, Zenon

LEMMA SyncReplyOK ==
  ASSUME MpInv, NEW c \in Calls, NEW i \in DOMAIN pending, SyncReply(c, i)
  PROVE  MpInv'
<1> DEFINE e == pending[i]
           sent == IF e.got = -1 THEN call[c].sent - 1 ELSE call[c].sent
           recv == IF e.got = 1 THEN call[c].recv \union {[from |-> e.dst, of |-> e.of]} ELSE call[c].recv
<1>1. /\ call[c].state = "wait" /\ pending[i].call = c /\ e.got # 0 /\ pending' = Without(i)
      /\ role' = role /\ trig' = trig /\ net' = net /\ sock' = sock /\ inbox' = inbox
  BY Zenon DEF SyncReply, peervars
<1>2. PICK r : r = [call[c] EXCEPT !.state = "ask", !.sent = sent, !.recv = recv]
  OBVIOUS
<1>3. call' = [call EXCEPT ![c] = r]
  BY <1>2 DEF SyncReply
<1>4. call[c] \in CallType
  BY SameTypes, Zenon
<1>5. e.got \in {-1, 1} /\ e.dst \in Peers /\ e.of \in MaybeCall
  <2>1. e.got \in {-1, 0, 1} /\ e.dst \in Peers /\ e.of \in MaybeCall
    BY SameTypes, EntryFields, Zenon
  <2> QED  BY <1>1, <2>1
<1>6. /\ call[c].kind = "sync" /\ call[c].name \in Names /\ call[c].callbacks = 0 /\ SyncOK(c)
  BY <1>1, SyncFacts, Zenon
<1>7. /\ Froms(c) \intersect call[c].todo = {} /\ e.dst \notin Froms(c) \union call[c].todo
      /\ call[c].sent = Cardinality(Froms(c)) + 1
  BY <1>1, <1>6, Zenon DEF SyncOK, Of
<1>8. Froms(c) \subseteq Peers /\ IsFiniteSet(Froms(c)) /\ Cardinality(Froms(c)) \in Nat
  BY FromsFacts, Zenon
<1>9. sent \in Nat /\ (e.got = -1 => sent = Cardinality(Froms(c))) /\ (e.got = 1 => sent = Cardinality(Froms(c)) + 1)
  BY <1>5, <1>7, <1>8
<1>10. recv \in SUBSET ReplyType /\ {x.from : x \in recv} = IF e.got = 1 THEN Froms(c) \union {e.dst} ELSE Froms(c)
  <2>1. call[c].recv \in SUBSET ReplyType
    BY <1>4 DEF CallType
  <2>2. [from |-> e.dst, of |-> e.of] \in ReplyType /\ [from |-> e.dst, of |-> e.of].from = e.dst
    BY <1>5 DEF ReplyType
  <2>3. recv \in SUBSET ReplyType
    BY <2>1, <2>2, Zenon
  <2> HIDE DEF e
  <2>4. {x.from : x \in call[c].recv \union {[from |-> e.dst, of |-> e.of]}} = {x.from : x \in call[c].recv} \union {e.dst}
    BY <2>2
  <2>5. {x.from : x \in recv} = IF e.got = 1 THEN Froms(c) \union {e.dst} ELSE Froms(c)
    BY <2>4, Zenon DEF Froms
  <2> QED  BY <2>3, <2>5, Zenon
<1> HIDE DEF sent, recv, e
<1>11. /\ r \in CallType /\ r.state = "ask" /\ r.kind = call[c].kind /\ r.name = call[c].name
       /\ r.callbacks = call[c].callbacks /\ r.sent = sent /\ r.recv = recv
       /\ r.todo = call[c].todo
  BY <1>2, <1>4, <1>9, <1>10, Zenon DEF CallType
<1>12. call'[c] = r
  BY <1>3, SameTypes, Zenon
<1>13. /\ pending' \in Seq(EntryType) /\ Distinct(pending')
       /\ \A d \in Calls : d # c => Keeps(pending, pending', d)
       /\ Of(pending', c) = {}
  BY <1>1, SyncRemoved, Zenon
<1>14. Froms(c)' = IF e.got = 1 THEN Froms(c) \union {e.dst} ELSE Froms(c)
  BY <1>10, <1>11, <1>12, Zenon DEF Froms
<1>15. sent = Cardinality(Froms(c)')
  <2>1. CASE e.got = -1
    BY <1>9, <1>14, <2>1
  <2>2. CASE e.got = 1
    <3>1. Cardinality(Froms(c) \union {e.dst}) = Cardinality(Froms(c)) + 1
      BY <1>7, <1>8, FS_AddElement, Zenon
    <3> QED  BY <1>9, <1>14, <2>2, <3>1, Zenon
  <2> QED  BY <1>5, <2>1, <2>2, Zenon
<1>16. Froms(c)' \intersect r.todo = {}
  BY <1>7, <1>11, <1>14
<1>17. CallOK(c)'
  <2>1. SyncOK(c)'
    BY <1>11, <1>12, <1>15, <1>16, Zenon DEF SyncOK
  <2>2. AsyncOK(c)'
    BY <1>11, <1>12, Zenon DEF AsyncOK
  <2> QED  BY <1>6, <1>11, <1>12, <2>1, <2>2, Zenon DEF CallOK
<1>18. Asked(c)'
  BY <1>6, <1>11, <1>12, <1>13, Zenon DEF Asked
<1>19. \A j \in Of(pending', c) : EntryOK(pending[j])'
  BY <1>13, Zenon
<1> QED  BY <1>1, <1>3, <1>11, <1>13, <1>17, <1>18, <1>19, SameTypes, CallStep, Zenon


-----------------------------------------------------------------------------
(* rte_mp_request_async                                                     *)

\* What a callback is run for is an open call.
LEMMA TriggeredOpen ==
  ASSUME MpInv, NEW c \in Calls, Triggered(c)
  PROVE  call[c].state = "open"
<1>1. c # NoCall
  BY MpParameters DEF Calls, NoCall
<1>2. c = trig["mp"] \/ c = trig["intr"]
  BY DEF Triggered
<1>3. TrigOK
  BY Zenon DEF MpInv
<1>4. CASE c = trig["mp"]
  BY <1>1, <1>3, <1>4, Zenon DEF TrigOK
<1>5. CASE c = trig["intr"]
  BY <1>1, <1>3, <1>5, Zenon DEF TrigOK
<1> QED  BY <1>2, <1>4, <1>5, Zenon

LEMMA AsyncNoDummyOK ==
  ASSUME MpInv, NEW c \in Calls, NEW n \in Names, NEW out \in Outcomes(n), AsyncNoDummy(c, n, out)
  PROVE  MpInv'
<1>1. call[c].state = "new" /\ call[c].kind = "none"
  BY Zenon DEF AsyncNoDummy, Next1, MpInv, CallOK
<1>2. PICK r : r = [NewCall EXCEPT !.kind = "async", !.name = n, !.state = "failed"]
  OBVIOUS
<1>3. r \in CallType /\ r.kind = "async" /\ r.state = "failed" /\ r.name = n /\ r.callbacks = 0
  BY <1>2, NewCallFields, Zenon DEF CallType, MaybeName
<1>4. /\ call' = [call EXCEPT ![c] = r] /\ role' = role /\ trig' = trig /\ net' = net /\ pending' = pending
      /\ inbox' = inbox
  BY <1>2, Zenon DEF AsyncNoDummy
<1>5. sock' \in [Peers -> {"bound", "stale", "gone"}]
  <2>1. sock' = [p \in Peers |-> IF p \in DOMAIN out THEN "gone" ELSE sock[p]]
    BY Zenon DEF AsyncNoDummy
  <2> QED  BY <2>1, SameTypes
<1>6. call'[c] = r
  BY <1>4, SameTypes, Zenon
<1>7. CallOK(c)'
  BY <1>3, <1>6, FailedOK, Zenon
<1>8. \A j \in DOMAIN pending : pending[j].call # c
  BY <1>1, NoEntries, Zenon
<1> QED  BY <1>1, <1>3, <1>4, <1>5, <1>7, <1>8, SameTypes, QuietStep, Zenon

FailedFor(out) == {p \in DOMAIN out : out[p] \in {"exists", "error", "fault", "noalarm"}}
SentTo(out) == {p \in DOMAIN out : out[p] \in {"sent"}}

\* What all outcomes of rte_mp_request_async have in common.
LEMMA AsyncCallFacts ==
  ASSUME MpInv, NEW c \in Calls, NEW n \in Names, NEW out \in Outcomes(n), AsyncCall(c, n, out)
  PROVE  /\ call[c].state = "new" /\ call[c].kind = "none" /\ ~ Triggered(c)
         /\ \A j \in DOMAIN pending : pending[j].call # c
         /\ role' = role /\ trig' = trig /\ net' = net
         /\ sock' \in [Peers -> {"bound", "stale", "gone"}] /\ inbox' \in [Peers -> SUBSET Calls]
         /\ \A p \in Peers : \A x \in inbox'[p] : x \in inbox[p] \/ (x = c /\ (FailedFor(out) = {} => SentTo(out) # {}))
         /\ SentTo(out) \in SUBSET Peers /\ Cardinality(SentTo(out)) \in Nat
         /\ \A p \in SentTo(out) : ~ Exists(p, n)
<1> DEFINE F == FailedFor(out)
           S == SentTo(out)
<1>1. call[c].state = "new" /\ call[c].kind = "none"
  BY Zenon DEF AsyncCall, Next1, MpInv, CallOK
<1>2. ~ Triggered(c)
  BY <1>1, TriggeredOpen, Zenon
<1>3. \A j \in DOMAIN pending : pending[j].call # c
  BY <1>1, NoEntries, Zenon
<1>4. role' = role /\ trig' = trig /\ net' = net
  BY Zenon DEF AsyncCall
<1>5. sock' \in [Peers -> {"bound", "stale", "gone"}]
  <2>1. sock' = [p \in Peers |-> IF p \in {q \in DOMAIN out : out[q] \in {"refused"}} THEN "gone" ELSE sock[p]]
    BY Zenon DEF AsyncCall
  <2> QED  BY <2>1, SameTypes
<1>6. inbox' \in [Peers -> SUBSET Calls] /\ \A p \in Peers : \A x \in inbox'[p] : x \in inbox[p] \/ (x = c /\ (F = {} => S # {}))
  <2> DEFINE A == {q \in DOMAIN out : out[q] \in {"sent", "noalarm"}}
  <2>1. inbox' = [p \in Peers |-> IF p \in A THEN inbox[p] \union {c} ELSE inbox[p]]
    BY Zenon DEF AsyncCall
  <2>2. \A p \in A : F = {} => S # {}
    BY DEF FailedFor, SentTo
  <2> HIDE DEF A
  <2>3. inbox' \in [Peers -> SUBSET Calls]
    BY <2>1, SameTypes
  <2>4. \A p \in Peers : inbox'[p] = IF p \in A THEN inbox[p] \union {c} ELSE inbox[p]
    BY <2>1, Zenon
  <2>5. \A p \in Peers : \A x \in inbox'[p] : x \in inbox[p] \/ (x = c /\ p \in A)
    BY <2>4, Zenon
  <2> QED  BY <2>2, <2>3, <2>5, Zenon
<1>7. DOMAIN out = Dests /\ \A p \in Dests : Exists(p, n) => out[p] = "exists"
  BY DEF Outcomes
<1>8. S \in SUBSET Peers /\ \A p \in S : ~ Exists(p, n)
  BY <1>7, DestsType DEF SentTo
<1>9. Cardinality(S) \in Nat
  BY <1>8, MpParameters, FS_Subset, FS_CardinalityType, Zenon
<1> QED  BY <1>1, <1>2, <1>3, <1>4, <1>5, <1>6, <1>8, <1>9, Zenon

\* The call it makes.
AsyncRecord(c, n, out, r) ==
  /\ call' = [call EXCEPT ![c] = r] /\ call'[c] = r
  /\ r.kind = "async" /\ r.name = n /\ r.callbacks = 0 /\ r.processed = 0 /\ r.lost = 0
  /\ r.state = IF FailedFor(out) # {} THEN "failed" ELSE "open"
  /\ r.sent = IF FailedFor(out) # {} THEN 0 ELSE Cardinality(SentTo(out))

LEMMA AsyncCallRecord ==
  ASSUME MpInv, NEW c \in Calls, NEW n \in Names, NEW out \in Outcomes(n), AsyncCall(c, n, out)
  PROVE  \E r \in CallType : AsyncRecord(c, n, out, r)
<1> DEFINE F == FailedFor(out)
           S == SentTo(out)
<1>1. PICK st : st = IF F # {} THEN "failed" ELSE "open"
  OBVIOUS
<1>2. PICK ct : ct = IF F # {} THEN 0 ELSE Cardinality(S)
  OBVIOUS
<1>3. PICK r : r = [NewCall EXCEPT !.kind = "async", !.name = n, !.state = st, !.sent = ct]
  OBVIOUS
<1>4. call' = [call EXCEPT ![c] = r]
  BY <1>1, <1>2, <1>3 DEF AsyncCall, FailedFor, SentTo
<1>5. Cardinality(S) \in Nat
  BY AsyncCallFacts, Zenon
<1>6. st \in {"failed", "open"} /\ ct \in Nat
  BY <1>1, <1>2, <1>5
<1>7. /\ r \in CallType /\ r.kind = "async" /\ r.name = n /\ r.callbacks = 0 /\ r.processed = 0 /\ r.lost = 0
      /\ r.state = st /\ r.sent = ct
  BY <1>3, <1>6, NewCallFields, Zenon DEF CallType, MaybeName
<1>8. call'[c] = r
  BY <1>4, SameTypes, Zenon
<1>9. AsyncRecord(c, n, out, r)
  BY <1>1, <1>2, <1>4, <1>7, <1>8, Zenon DEF AsyncRecord
<1> QED  BY <1>7, <1>9, Zenon


\* A message could not be sent: the call fails and nothing is queued.
LEMMA AsyncFailed ==
  ASSUME MpInv, NEW c \in Calls, NEW n \in Names, NEW out \in Outcomes(n), AsyncCall(c, n, out), FailedFor(out) # {}
  PROVE  MpInv'
<1>1. /\ call[c].state = "new" /\ call[c].kind = "none"
      /\ \A j \in DOMAIN pending : pending[j].call # c
      /\ role' = role /\ trig' = trig /\ net' = net
      /\ sock' \in [Peers -> {"bound", "stale", "gone"}] /\ inbox' \in [Peers -> SUBSET Calls]
      /\ \A p \in Peers : \A x \in inbox'[p] : x \in inbox[p] \/ x = c
  BY AsyncCallFacts, Zenon
<1>2. PICK r \in CallType :
           /\ call' = [call EXCEPT ![c] = r] /\ call'[c] = r
           /\ r.kind = "async" /\ r.name = n /\ r.callbacks = 0 /\ r.state = "failed"
  <2>1. PICK r \in CallType : AsyncRecord(c, n, out, r)
    BY AsyncCallRecord, Zenon
  <2> QED  BY <2>1, Zenon DEF AsyncRecord
<1>3. pending' = pending
  BY DEF AsyncCall, FailedFor
<1>4. CallOK(c)'
  BY <1>2, FailedOK, Zenon
<1> QED  BY <1>1, <1>2, <1>3, <1>4, QuietStep, Zenon

\* There was nobody to send it to: a dummy goes to the front of the list.
LEMMA AsyncDummy ==
  ASSUME MpInv, NEW c \in Calls, NEW n \in Names, NEW out \in Outcomes(n), AsyncCall(c, n, out),
         FailedFor(out) = {}, SentTo(out) = {}
  PROVE  MpInv'
<1>1. /\ call[c].state = "new" /\ call[c].kind = "none" /\ ~ Triggered(c)
      /\ \A j \in DOMAIN pending : pending[j].call # c
      /\ role' = role /\ trig' = trig /\ net' = net
      /\ sock' \in [Peers -> {"bound", "stale", "gone"}] /\ inbox' \in [Peers -> SUBSET Calls]
      /\ \A p \in Peers : \A x \in inbox'[p] : x \in inbox[p]
  BY AsyncCallFacts, Zenon
<1>2. PICK r \in CallType :
           /\ call' = [call EXCEPT ![c] = r] /\ call'[c] = r
           /\ r.kind = "async" /\ r.name = n /\ r.callbacks = 0 /\ r.processed = 0 /\ r.lost = 0 /\ r.state = "open"
           /\ r.sent = Cardinality(SentTo(out))
  <2>1. PICK r \in CallType : AsyncRecord(c, n, out, r)
    BY AsyncCallRecord, Zenon
  <2> QED  BY <2>1, Zenon DEF AsyncRecord
<1>3. r.sent = 0
  BY <1>2, FS_EmptySet, Zenon
<1>4. PICK e : e = [Entry("dummy", Primary, "none", c) EXCEPT !.got = 1]
  BY Zenon
<1>5. e \in EntryType /\ e.kind = "dummy" /\ e.call = c /\ e.name = "none" /\ e.got = 1
  BY <1>4, MpParameters DEF Entry, EntryType, MaybeName, MaybeCall
<1>6. PICK u : u = <<e>>
  BY Zenon
<1>7. pending \in Seq(EntryType) /\ Distinct(pending)
  BY SameTypes, Zenon DEF MpInv
<1>8. u \in Seq(EntryType) /\ Len(u) = 1 /\ u[1] = e /\ DOMAIN u = 1 .. 1
  <2>1. u \in Seq(EntryType) /\ Len(u) = 1 /\ u[1] = e
    BY <1>5, <1>6
  <2> QED  BY <2>1
<1>9. \A j \in DOMAIN u : j = 1 /\ u[j] = e
  <2>1. \A j \in 1 .. 1 : j = 1
    OBVIOUS
  <2> QED  BY <1>8, <2>1, Zenon
<1>10. PICK t : t = u \o pending
  BY Zenon
<1>11. pending' = t
  BY <1>4, <1>6, <1>10 DEF AsyncCall, FailedFor, SentTo
<1>12. Joined(u, pending, t)
  BY <1>7, <1>8, <1>10, JoinCat, Zenon
<1>13. t \in Seq(EntryType)
  BY <1>12, Zenon DEF Joined
<1>14. \A d \in Calls : d # c => Keeps(pending, t, d)
  <2> TAKE d \in Calls
  <2> HAVE d # c
  <2>1. \A j \in DOMAIN u : u[j].call # d
    BY <1>5, <1>9, Zenon
  <2> QED  BY <1>7, <1>8, <1>12, <2>1, JoinOf, Zenon
<1>15. \A j \in Of(t, c) : j = 1 /\ t[j] = e
  <2> TAKE j \in Of(t, c)
  <2>1. j \in DOMAIN t /\ t[j].call = c
    BY Zenon DEF Of
  <2>2. \/ j \in DOMAIN u /\ t[j] = u[j]
        \/ \E m \in DOMAIN pending : t[j] = pending[m]
    BY <1>7, <1>8, <1>12, <2>1, JoinPlaces
  <2> QED  BY <1>1, <1>9, <2>1, <2>2, Zenon
<1>16. Distinct(t)
  <2>1. Distinct(u)
    BY <1>9, Zenon DEF Distinct
  <2>2. \A i \in DOMAIN u, j \in DOMAIN pending : Apart(u[i], pending[j])
    BY <1>1, <1>5, <1>9, Zenon DEF Apart
  <2> QED  BY <1>7, <1>8, <1>12, <2>1, <2>2, JoinDistinct, Zenon
<1>17. ~ Triggered(c)'
  BY <1>1, Zenon DEF Triggered
<1>18. CallOK(c)'
  <2>1. AsyncOK(c)'
    BY <1>2, <1>3, <1>5, <1>11, <1>15, Zenon DEF AsyncOK
  <2> QED  BY <1>2, <2>1, Zenon DEF CallOK
<1>19. \A j \in Of(pending', c) : EntryOK(pending[j])'
  <2> TAKE j \in Of(pending', c)
  <2>1. pending'[j] = e
    BY <1>11, <1>15, Zenon
  <2> QED  BY <1>2, <1>5, <1>17, <2>1, Zenon DEF EntryOK
<1>20. ~ Asked(c)
  BY <1>1, Zenon DEF Asked
<1>21. /\ pending' \in Seq(EntryType) /\ Distinct(pending')
       /\ \A d \in Calls : d # c => Keeps(pending, pending', d)
  BY <1>11, <1>13, <1>14, <1>16, Zenon
<1> QED  BY <1>1, <1>2, <1>18, <1>19, <1>20, <1>21, CallStep, Zenon

\* It was sent to the peers S: one entry for each goes to the end of the list.
LEMMA AsyncSent ==
  ASSUME MpInv, NEW c \in Calls, NEW n \in Names, NEW out \in Outcomes(n), AsyncCall(c, n, out),
         FailedFor(out) = {}, SentTo(out) # {}
  PROVE  MpInv'
<1> DEFINE S == SentTo(out)
<1>1. /\ call[c].state = "new" /\ call[c].kind = "none" /\ ~ Triggered(c)
      /\ \A j \in DOMAIN pending : pending[j].call # c
      /\ role' = role /\ trig' = trig /\ net' = net
      /\ sock' \in [Peers -> {"bound", "stale", "gone"}] /\ inbox' \in [Peers -> SUBSET Calls]
      /\ \A p \in Peers : \A x \in inbox'[p] : x \in inbox[p] \/ x = c
      /\ S \in SUBSET Peers /\ \A p \in S : ~ Exists(p, n)
  BY AsyncCallFacts, Zenon
<1>2. PICK r \in CallType :
           /\ call' = [call EXCEPT ![c] = r] /\ call'[c] = r
           /\ r.kind = "async" /\ r.name = n /\ r.callbacks = 0 /\ r.processed = 0 /\ r.lost = 0 /\ r.state = "open"
           /\ r.sent = Cardinality(S)
  <2>1. PICK r \in CallType : AsyncRecord(c, n, out, r)
    BY AsyncCallRecord, Zenon
  <2> QED  BY <2>1, Zenon DEF AsyncRecord
<1>3. PICK u : u = [i \in 1 .. Cardinality(S) |-> Entry("async", SetToSeq(S)[i], n, c)]
  BY Zenon
<1>4. PICK t : t = pending \o u
  BY Zenon
<1>5. pending' = t
  BY <1>3, <1>4, Zenon DEF AsyncCall, FailedFor, SentTo
<1> HIDE DEF S
<1>6. /\ u \in Seq(EntryType) /\ Len(u) = Cardinality(S)
      /\ \A j \in DOMAIN u : u[j] = Entry("async", u[j].dst, n, c) /\ u[j].dst \in S
      /\ \A i, j \in DOMAIN u : u[i].dst = u[j].dst => i = j
  BY <1>1, <1>3, SendFacts
<1>7. \A j \in DOMAIN u : u[j].kind = "async" /\ u[j].name = n /\ u[j].call = c /\ u[j].got = 0 /\ u[j].dst \in S
  <2> TAKE j \in DOMAIN u
  <2>1. PICK q : q = u[j].dst
    OBVIOUS
  <2>2. u[j] = Entry("async", q, n, c) /\ q \in S
    BY <1>6, <2>1, Zenon
  <2> QED  BY <2>1, <2>2 DEF Entry
<1>8. pending \in Seq(EntryType) /\ Distinct(pending)
  BY SameTypes, Zenon DEF MpInv
<1>9. Joined(pending, u, t)
  BY <1>4, <1>6, <1>8, JoinCat, Zenon
<1>10. t \in Seq(EntryType)
  BY <1>9, Zenon DEF Joined
<1>11. \A d \in Calls : d # c => Keeps(pending, t, d)
  <2> TAKE d \in Calls
  <2> HAVE d # c
  <2>1. \A j \in DOMAIN u : u[j].call # d
    BY <1>7, Zenon
  <2> QED  BY <1>6, <1>8, <1>9, <2>1, JoinOf, Zenon
<1>12. Cardinality(Of(t, c)) = Cardinality(S)
  <2>1. \A j \in DOMAIN u : u[j].call = c
    BY <1>7, Zenon
  <2>2. Cardinality(Of(t, c)) = Len(u)
    BY <1>1, <1>6, <1>8, <1>9, <2>1, JoinOf
  <2> QED  BY <1>6, <2>2, Zenon
<1>13. \A j \in Of(t, c) : \E m \in DOMAIN u : t[j] = u[m]
  <2> TAKE j \in Of(t, c)
  <2>1. j \in DOMAIN t /\ t[j].call = c
    BY Zenon DEF Of
  <2>2. /\ \A k \in DOMAIN pending : t[k] = pending[k]
        /\ \A k \in DOMAIN u : t[Len(pending) + k] = u[k]
        /\ \A k \in DOMAIN t : k \in DOMAIN pending \/ \E m \in DOMAIN u : k = Len(pending) + m
    <3>1. pending \in Seq(EntryType) /\ u \in Seq(EntryType)
      BY <1>6, <1>8, Zenon
    <3> QED  BY <1>9, <3>1, JoinPlaces
  <2> QED  BY <1>1, <2>1, <2>2, Zenon
<1>14. \A j \in Of(t, c) : t[j].kind = "async" /\ t[j].name = n /\ t[j].call = c /\ t[j].got = 0
  BY <1>7, <1>13, Zenon
<1>15. Distinct(t)
  <2>1. Distinct(u)
    BY <1>6, <1>7, Zenon DEF Distinct
  <2>2. \A i \in DOMAIN pending, j \in DOMAIN u : Apart(pending[i], u[j])
    <3> TAKE i \in DOMAIN pending, j \in DOMAIN u
    <3>1. ~ (pending[i].dst = u[j].dst /\ pending[i].name = n)
      BY <1>1, <1>7, Zenon DEF Exists, Matches
    <3> QED  BY <1>1, <1>7, <3>1, Zenon DEF Apart
  <2> QED  BY <1>6, <1>8, <1>9, <2>1, <2>2, JoinDistinct, Zenon
<1>16. ~ Triggered(c)'
  BY <1>1, Zenon DEF Triggered
<1>17. CallOK(c)'
  <2>1. r.sent = r.processed + Cardinality(Of(t, c)) + r.lost
    <3>1. Cardinality(Of(t, c)) \in Nat
      BY <1>10, OfFinite, Zenon
    <3> QED  BY <1>2, <1>12, <3>1
  <2>2. AsyncOK(c)'
    BY <1>2, <1>5, <1>14, <2>1, Zenon DEF AsyncOK
  <2> QED  BY <1>2, <2>2, Zenon DEF CallOK
<1>18. \A j \in Of(pending', c) : EntryOK(pending[j])'
  <2> TAKE j \in Of(pending', c)
  <2>1. pending'[j].kind = "async" /\ pending'[j].name = n /\ pending'[j].call = c /\ pending'[j].got = 0
    BY <1>5, <1>14, Zenon
  <2> QED  BY <1>2, <1>16, <2>1, Zenon DEF EntryOK
<1>19. ~ Asked(c)
  BY <1>1, Zenon DEF Asked
<1>20. Asked(c)'
  BY <1>2, <1>5, <1>14, Zenon DEF Asked
<1>21. /\ pending' \in Seq(EntryType) /\ Distinct(pending')
       /\ \A d \in Calls : d # c => Keeps(pending, pending', d)
  BY <1>5, <1>10, <1>11, <1>15, Zenon
<1>22. \A p \in Peers : \A x \in inbox'[p] : x \in inbox[p] \/ (x = c /\ Asked(c)')
  BY <1>1, <1>20, Zenon
<1> QED  BY <1>1, <1>2, <1>17, <1>18, <1>19, <1>21, <1>22, CallStep, Zenon


LEMMA BeginOK ==
  ASSUME MpInv, NEW c \in Calls, NEW n \in Names, Begin(c, n)
  PROVE  MpInv'
<1>1. ASSUME NEW out \in Outcomes(n), AsyncCall(c, n, out) PROVE MpInv'
  BY <1>1, AsyncFailed, AsyncDummy, AsyncSent, Zenon
<1> QED  BY <1>1, SyncCallOK, AsyncNoDummyOK, Zenon DEF Begin

-----------------------------------------------------------------------------
(* process_async_request and trigger_async_action                           *)

\* What the list t is without the i-th entry, that of the asynchronous request c.
Removed(i, c, t) ==
  /\ c \in Calls /\ call[c].kind = "async" /\ call[c].state = "open" /\ ~ Triggered(c)
  /\ call[c].name \in Names /\ call[c].callbacks = 0
  /\ t \in Seq(EntryType) /\ Distinct(t) /\ \A d : d # c => Keeps(pending, t, d)
  /\ Cardinality(Of(t, c)) \in Nat /\ (Cardinality(Of(t, c)) = 0 => Of(t, c) = {})
  /\ Cardinality(Of(pending, c)) = Cardinality(Of(t, c)) + 1
  /\ \A j \in Of(t, c) : \E k \in Of(pending, c) : k # i /\ t[j] = pending[k]

LEMMA AsyncRemoved ==
  ASSUME MpInv, NEW i \in DOMAIN pending, NEW c, c = pending[i].call, pending[i].kind # "sync",
         NEW t, t = RemoveAt(pending, i)
  PROVE  Removed(i, c, t)
<1>1. pending \in Seq(EntryType) /\ Distinct(pending) /\ EntryOK(pending[i])
  BY SameTypes, Zenon DEF MpInv
<1>2. c \in Calls
  BY <1>1, EntryFields, Zenon
<1>3. CallOK(c)
  BY <1>2, Zenon DEF MpInv
<1>4. /\ call[c].kind = "async" /\ call[c].state = "open" /\ ~ Triggered(c)
      /\ call[c].name \in Names /\ call[c].callbacks = 0
  BY <1>1, <1>3, Zenon DEF EntryOK, CallOK
<1>5. t \in Seq(EntryType)
  BY <1>1, RemoveFacts, Zenon
<1>6. Distinct(t) /\ \A d : d # c => Keeps(pending, t, d)
  BY <1>1, RemoveOf
<1>7. Cardinality(Of(pending, c)) = Cardinality(Of(t, c)) + 1
  BY <1>1, RemoveOf
<1>8. \A j \in Of(t, c) : \E k \in Of(pending, c) : k # i /\ t[j] = pending[k]
  <2>1. \A j \in DOMAIN t : \E k \in DOMAIN pending : k # i /\ t[j] = pending[k]
    BY <1>1, RemoveOf
  <2> QED  BY <2>1, Zenon DEF Of
<1>9. IsFiniteSet(Of(t, c)) /\ Cardinality(Of(t, c)) \in Nat
  BY <1>5, OfFinite, Zenon
<1>10. Cardinality(Of(t, c)) = 0 => Of(t, c) = {}
  BY <1>9, FS_EmptySet, Zenon
<1> QED  BY <1>2, <1>4, <1>5, <1>6, <1>7, <1>8, <1>9, <1>10, Zenon DEF Removed

\* How it counts: the callback is due exactly when nothing is pending and nothing
\* was lost, but for a dummy that is handled late.
Handles(e, i) ==
  /\ e.call = pending[i].call /\ e.kind = pending[i].kind /\ e.kind \in {"async", "dummy"} /\ e.got \in {-1, 0, 1}
  /\ e.kind = "dummy" => e.got = 1

Answered(e) == e.got = 1 /\ e.kind = "async"
ProcessedWith(e) ==
  IF Answered(e) \/ (e.got # -1 /\ call[e.call].late) THEN call[e.call].processed + 1 ELSE call[e.call].processed
SentWith(e) == IF e.got = -1 THEN call[e.call].sent - 1 ELSE call[e.call].sent
LostWith(e) == IF e.got = 0 /\ ~ call[e.call].late THEN call[e.call].lost + 1 ELSE call[e.call].lost

Counts(c, t, pr, sn, ls) ==
  /\ pr \in Nat /\ sn \in Nat /\ ls \in Nat
  /\ pr = sn => Of(t, c) = {}
  /\ pr # sn => \/ sn = 0 /\ Of(t, c) = {}
                \/ sn = pr + Cardinality(Of(t, c)) + ls /\ \A j \in Of(t, c) : t[j].kind = "async"

LEMMA AsyncCounts ==
  ASSUME MpInv, NEW i \in DOMAIN pending, NEW e, Handles(e, i), NEW t, t = RemoveAt(pending, i)
  PROVE  Counts(e.call, t, ProcessedWith(e), SentWith(e), LostWith(e))
<1>0. PICK c : c = e.call
  OBVIOUS
<1>a. PICK pr : pr = ProcessedWith(e)
  OBVIOUS
<1>b. PICK sn : sn = SentWith(e)
  OBVIOUS
<1>d. PICK ls : ls = LostWith(e)
  OBVIOUS
<1>c. /\ c = pending[i].call /\ e.kind = pending[i].kind /\ e.kind \in {"async", "dummy"} /\ e.got \in {-1, 0, 1}
      /\ e.kind = "dummy" => e.got = 1
      /\ pr = IF (e.got = 1 /\ e.kind = "async") \/ (e.got # -1 /\ call[c].late)
              THEN call[c].processed + 1 ELSE call[c].processed
      /\ sn = IF e.got = -1 THEN call[c].sent - 1 ELSE call[c].sent
      /\ ls = IF e.got = 0 /\ ~ call[c].late THEN call[c].lost + 1 ELSE call[c].lost
  BY <1>0, <1>a, <1>b, <1>d, Zenon DEF Handles, ProcessedWith, SentWith, LostWith, Answered
<1> DEFINE N == Cardinality(Of(t, c))
<1>1. /\ c \in Calls /\ call[c].state = "open" /\ ~ Triggered(c)
      /\ N \in Nat /\ (N = 0 => Of(t, c) = {})
      /\ Cardinality(Of(pending, c)) = N + 1
      /\ \A j \in Of(t, c) : \E k \in Of(pending, c) : k # i /\ t[j] = pending[k]
  <2>1. pending[i].kind # "sync"
    BY <1>c
  <2>2. Removed(i, c, t)
    BY <1>c, <2>1, AsyncRemoved
  <2> QED  BY <2>2, Zenon DEF Removed
<1>2. call[c].processed \in Nat /\ call[c].sent \in Nat /\ call[c].lost \in Nat
  BY <1>1, SameTypes, CallFields, Zenon
<1>3. i \in Of(pending, c)
  BY <1>c, Zenon DEF Of
<1>4. AsyncOK(c)
  BY <1>1, Zenon DEF MpInv, CallOK
<1>5. ASSUME e.kind = "dummy" PROVE Counts(c, t, pr, sn, ls)
  <2>1. call[c].sent = 0 /\ call[c].processed = 0 /\ \A j, k \in Of(pending, c) : j = k
    <3>1. pending[i].kind # "async"
      BY <1>5, <1>c
    <3> QED  BY <1>1, <1>3, <1>4, <3>1, Zenon DEF AsyncOK
  <2>2. Of(t, c) = {}
    BY <1>1, <1>3, <2>1, Zenon
  <2>3. e.got = 1
    BY <1>5, <1>c
  <2>4. pr \in Nat /\ sn = 0 /\ ls \in Nat
    BY <1>2, <1>c, <2>1, <2>3
  <2> QED  BY <2>2, <2>4 DEF Counts
<1>6. ASSUME e.kind = "async" PROVE Counts(c, t, pr, sn, ls)
  <2>1. /\ call[c].sent = call[c].processed + (N + 1) + call[c].lost
        /\ \A j \in Of(pending, c) : pending[j].kind = "async"
    <3>1. pending[i].kind # "dummy"
      BY <1>6, <1>c
    <3> QED  BY <1>1, <1>3, <1>4, <3>1, Zenon DEF AsyncOK
  <2>2. \A j \in Of(t, c) : t[j].kind = "async"
    BY <1>1, <2>1, Zenon
  <2> HIDE DEF N
  <2>3. pr \in Nat /\ sn \in Nat /\ ls \in Nat /\ sn = pr + N + ls
    <3>1. CASE e.got = 1
      BY <1>1, <1>2, <1>6, <1>c, <2>1, <3>1
    <3>2. CASE e.got = 0
      BY <1>1, <1>2, <1>6, <1>c, <2>1, <3>2
    <3>3. CASE e.got = -1
      BY <1>1, <1>2, <1>6, <1>c, <2>1, <3>3
    <3> QED  BY <1>c, <3>1, <3>2, <3>3
  <2>4. pr = sn => N = 0
    BY <1>1, <2>3
  <2>5. pr = sn => Of(t, c) = {}
    BY <1>1, <2>4, Zenon
  <2> QED  BY <2>2, <2>3, <2>5, Zenon DEF N, Counts
<1>7. Counts(c, t, pr, sn, ls)
  BY <1>5, <1>6, <1>c, Zenon
<1> QED  BY <1>0, <1>7, <1>a, <1>b, <1>d, Zenon


\* The call c is the one of the i-th entry, and t is the list without it.
LEMMA AsyncHandleOK ==
  ASSUME MpInv, NEW i \in DOMAIN pending, NEW e, NEW th \in {"mp", "intr"}, AsyncHandle(e, i, th),
         trig[th] = NoCall,
         Handles(e, i), e.dst \in Peers, e.of \in MaybeCall,
         role' = role, sock' = sock, inbox' = inbox, net' \in Seq(MsgType),
         \A k \in DOMAIN net' : \E j \in DOMAIN net : net'[k] = net[j]
  PROVE  MpInv'
<1>1. PICK c : c = pending[i].call
  OBVIOUS
<1>2. PICK t : t = RemoveAt(pending, i)
  OBVIOUS
<1>3. c = e.call /\ e.kind \in {"async", "dummy"} /\ e.kind = pending[i].kind
  BY <1>1, Zenon DEF Handles
<1>4. PICK pr : pr = ProcessedWith(e)
  OBVIOUS
<1>5. PICK sn : sn = SentWith(e)
  OBVIOUS
<1>a. PICK ls : ls = LostWith(e)
  OBVIOUS
<1>6. PICK rv : rv = IF Answered(e) THEN call[c].recv \union {[from |-> e.dst, of |-> e.of]} ELSE call[c].recv
  BY Zenon
<1>7. PICK r : r = [call[c] EXCEPT !.processed = pr, !.sent = sn, !.lost = ls, !.recv = rv]
  OBVIOUS
<1>8. /\ pending' = t /\ call' = [call EXCEPT ![c] = r]
      /\ trig' = IF pr = sn THEN [trig EXCEPT ![th] = c] ELSE trig
  BY <1>2, <1>3, <1>4, <1>5, <1>6, <1>7, <1>a DEF AsyncHandle, Without, ProcessedWith, SentWith, LostWith, Answered
<1>9. Removed(i, c, t)
  <2>1. pending[i].kind # "sync"
    BY <1>3
  <2> QED  BY <1>1, <1>2, <2>1, AsyncRemoved
<1>10. /\ pr \in Nat /\ sn \in Nat /\ ls \in Nat
       /\ pr = sn => Of(t, c) = {}
       /\ pr # sn => \/ sn = 0 /\ Of(t, c) = {}
                     \/ sn = pr + Cardinality(Of(t, c)) + ls /\ \A j \in Of(t, c) : t[j].kind = "async"
  <2>1. Counts(e.call, t, ProcessedWith(e), SentWith(e), LostWith(e))
    BY <1>2, AsyncCounts
  <2>2. Counts(c, t, pr, sn, ls)
    BY <1>3, <1>4, <1>5, <1>a, <2>1, Zenon
  <2> QED  BY <2>2, Zenon DEF Counts
<1>11. /\ c \in Calls /\ call[c].kind = "async" /\ call[c].state = "open" /\ ~ Triggered(c)
       /\ call[c].name \in Names /\ call[c].callbacks = 0
       /\ t \in Seq(EntryType) /\ Distinct(t) /\ \A d : d # c => Keeps(pending, t, d)
       /\ \A j \in Of(t, c) : \E k \in Of(pending, c) : k # i /\ t[j] = pending[k]
  BY <1>9, Zenon DEF Removed
<1>12. call[c] \in CallType /\ MpTypeOK
  BY <1>11, SameTypes, Zenon
<1>13. rv \in SUBSET ReplyType
  <2>1. call[c].recv \in SUBSET ReplyType
    BY <1>12 DEF CallType
  <2>2. [from |-> e.dst, of |-> e.of] \in ReplyType
    BY DEF ReplyType
  <2> QED  BY <1>6, <2>1, <2>2, Zenon
<1>14. /\ r \in CallType /\ r.kind = call[c].kind /\ r.state = call[c].state /\ r.name = call[c].name
       /\ r.callbacks = call[c].callbacks /\ r.processed = pr /\ r.sent = sn /\ r.lost = ls
  BY <1>7, <1>10, <1>12, <1>13, ZenonT(60) DEF CallType
<1>15. call'[c] = r /\ call' \in [Calls -> CallType] /\ \A d \in Calls : d # c => call'[d] = call[d]
  BY <1>8, <1>11, <1>14, SameTypes, Zenon
<1>16. trig \in [{"mp", "intr"} -> MaybeCall] /\ c \in MaybeCall /\ c # NoCall
  <2>1. c # NoCall
    BY <1>11, MpParameters DEF Calls, NoCall
  <2> QED  BY <1>11, <1>12, <2>1, Zenon DEF MpTypeOK, MaybeCall
<1>17. /\ trig' \in [{"mp", "intr"} -> MaybeCall]
       /\ pr = sn => trig'[th] = c
       /\ pr # sn => trig' = trig
       /\ \A x \in {"mp", "intr"} : x # th => trig'[x] = trig[x]
       /\ trig'[th] = c \/ trig'[th] = NoCall
  BY <1>8, <1>16, Zenon
<1>18. MpTypeOK'
  <2>1. pending' \in Seq(EntryType)
    BY <1>8, <1>11, Zenon
  <2> QED  BY <1>12, <1>15, <1>17, <2>1, Zenon DEF MpTypeOK
<1>19. \A x \in {"mp", "intr"} : trig[x] # c
  BY <1>11 DEF Triggered
<1>20. TrigOK'
  <2>1. TrigOK
    BY Zenon DEF MpInv
  <2>2. \A x \in {"mp", "intr"} : trig'[x] # NoCall => call'[trig'[x]].state = "open"
    <3> TAKE x \in {"mp", "intr"}
    <3> HAVE trig'[x] # NoCall
    <3>1. CASE trig'[x] = c
      BY <1>11, <1>14, <1>15, <3>1, Zenon
    <3>2. CASE trig'[x] # c
      <4>1. trig'[x] = trig[x]
        BY <1>17, <3>2, Zenon
      <4>2. PICK d : d = trig[x]
        OBVIOUS
      <4>3. d \in Calls /\ d # c
        BY <1>16, <3>2, <4>1, <4>2, Zenon DEF MaybeCall
      <4>4. call[d].state = "open"
        BY <2>1, <4>1, <4>2, Zenon DEF TrigOK
      <4> QED  BY <1>15, <4>1, <4>2, <4>3, <4>4, Zenon
    <3> QED  BY <3>1, <3>2, Zenon
  <2>3. trig'["mp"] # NoCall => trig'["mp"] # trig'["intr"]
    <3>1. trig["mp"] # NoCall => trig["mp"] # trig["intr"]
      BY <2>1, Zenon DEF TrigOK
    <3>2. trig["mp"] # c /\ trig["intr"] # c
      BY <1>19, Zenon
    <3>3. CASE th = "mp"
      BY <1>17, <3>1, <3>2, <3>3
    <3>4. CASE th = "intr"
      BY <1>17, <3>1, <3>2, <3>4
    <3> QED  BY <3>3, <3>4, Zenon
  <2> QED  BY <2>2, <2>3, Zenon DEF TrigOK
<1>21. \A d \in Calls : d # c => (Triggered(d)' <=> Triggered(d))
  <2> TAKE d \in Calls
  <2> HAVE d # c
  <2>1. d # NoCall
    BY MpParameters DEF Calls, NoCall
  <2>2. CASE th = "mp"
    BY <1>17, <2>1, <2>2 DEF Triggered
  <2>3. CASE th = "intr"
    BY <1>17, <2>1, <2>3 DEF Triggered
  <2> QED  BY <2>2, <2>3, Zenon
<1>22. pr = sn => Triggered(c)'
  BY <1>17 DEF Triggered
<1>23. pr # sn => ~ Triggered(c)'
  BY <1>11, <1>17, Zenon DEF Triggered
<1>24. CallOK(c)'
  <2>1. AsyncOK(c)'
    <3>1. CASE pr = sn
      BY <1>22, <3>1, Zenon DEF AsyncOK
    <3>2. CASE pr # sn
      BY <1>8, <1>10, <1>14, <1>15, <3>2, Zenon DEF AsyncOK
    <3> QED  BY <3>1, <3>2, Zenon
  <2> QED  BY <1>11, <1>14, <1>15, <2>1, Zenon DEF CallOK
<1>25. \A j \in Of(t, c) : t[j].call = c /\ \E k \in DOMAIN pending : t[j] = pending[k] /\ EntryOK(pending[k])
  BY <1>11, Zenon DEF Of, MpInv
<1>26. \A j \in Of(pending', c) : EntryOK(pending[j])'
  <2> TAKE j \in Of(pending', c)
  <2>1. PICK k \in DOMAIN pending : t[j] = pending[k] /\ EntryOK(pending[k]) /\ t[j].call = c
    BY <1>8, <1>25, Zenon
  <2>2. pending'[j] = pending[k] /\ pending[k].call = c
    BY <1>8, <2>1, Zenon
  <2>3. ~ Triggered(c)'
    BY <1>8, <1>10, <1>23, Zenon
  <2>4. PICK x : x = pending[k]
    OBVIOUS
  <2>5. x.call = c /\ pending'[j] = x /\ EntryOK(x)
    BY <2>1, <2>2, <2>4, Zenon
  <2>6. call'[c].kind = call[c].kind /\ call'[c].state = call[c].state /\ call'[c].name = call[c].name
    BY <1>14, <1>15, Zenon
  <2> QED  BY <2>3, <2>5, <2>6, Zenon DEF EntryOK
<1>27. Asked(c) => Asked(c)' /\ call'[c].name = call[c].name
  <2>1. call'[c].kind = call[c].kind /\ call'[c].name = call[c].name
    BY <1>14, <1>15, Zenon
  <2>2. \A j \in Of(pending', c) : \E k \in Of(pending, c) : pending'[j] = pending[k]
    BY <1>8, <1>11, Zenon
  <2> QED  BY <2>1, <2>2, Zenon DEF Asked
<1>28. StepOf(c)
  <2>1. \A d \in Calls : d # c => Keeps(pending, pending', d)
    BY <1>8, <1>11, Zenon
  <2>2. Distinct(pending')
    BY <1>8, <1>11, Zenon
  <2>3. \A p \in Peers : \A x \in inbox'[p] : x \in inbox[p]
    BY Zenon
  <2> QED  BY <1>15, <1>21, <1>24, <1>26, <1>27, <2>1, <2>2, <2>3, Zenon DEF StepOf
<1> QED  BY <1>11, <1>18, <1>20, <1>28, StepOK, Zenon


LEMMA AlarmOK ==
  ASSUME MpInv, NEW i \in DOMAIN pending, Alarm(i)
  PROVE  MpInv'
<1>1. PICK e : e = pending[i]
  OBVIOUS
<1>2. /\ trig.intr = NoCall
      /\ e.kind # "sync"
      /\ AsyncHandle(e, i, "intr")
      /\ role' = role /\ sock' = sock /\ inbox' = inbox /\ net' = net
  BY <1>1, Zenon DEF Alarm, peervars
<1>3. MpTypeOK
  BY Zenon DEF MpInv
<1>4. e.kind \in {"sync", "async", "dummy"} /\ e.got \in {-1, 0, 1} /\ e.dst \in Peers /\ e.of \in MaybeCall /\ EntryOK(e)
  <2>1. pending \in Seq(EntryType)
    BY <1>3, Zenon DEF MpTypeOK
  <2>2. e.kind \in {"sync", "async", "dummy"} /\ e.got \in {-1, 0, 1} /\ e.dst \in Peers /\ e.of \in MaybeCall
    BY <1>1, <2>1, EntryFields, Zenon
  <2> QED  BY <1>1, <2>2, Zenon DEF MpInv
<1>5. Handles(e, i)
  BY <1>1, <1>2, <1>4, Zenon DEF Handles, EntryOK
<1>6. net' \in Seq(MsgType) /\ \A k \in DOMAIN net' : \E j \in DOMAIN net : net'[k] = net[j]
  BY <1>2, <1>3, Zenon DEF MpTypeOK
<1>7. trig["intr"] = NoCall
  BY <1>2
<1> QED  BY <1>2, <1>4, <1>5, <1>6, <1>7, AsyncHandleOK, Zenon

\* The message at the front of the socket, and those behind it.
LEMMA HeadFacts ==
  ASSUME MpInv, net # <<>>
  PROVE  /\ 1 \in DOMAIN net /\ Head(net) = net[1]
         /\ Tail(net) \in Seq(MsgType) /\ \A k \in DOMAIN Tail(net) : \E j \in DOMAIN net : Tail(net)[k] = net[j]
         /\ Len(Tail(net)) < Len(net)
         /\ net[1].type \in {"IGN", "REP"} /\ net[1].from \in Peers /\ net[1].of \in Calls
         /\ net[1].name \in Names /\ net[1].name = call[net[1].of].name /\ Asked(net[1].of)
<1>1. net \in Seq(MsgType)
  BY Zenon DEF MpInv, MpTypeOK
<1>2. 1 \in DOMAIN net /\ Head(net) = net[1] /\ Tail(net) \in Seq(MsgType) /\ Len(Tail(net)) < Len(net)
  BY <1>1
<1>3. \A k \in DOMAIN Tail(net) : k + 1 \in DOMAIN net /\ Tail(net)[k] = net[k + 1]
  BY <1>1
<1>4. net[1].type \in {"IGN", "REP"} /\ net[1].from \in Peers /\ net[1].of \in Calls
  BY <1>1, <1>2, MsgFields, Zenon
<1>5. PICK d : d = net[1].of
  OBVIOUS
<1>6. Asked(d) /\ net[1].name = call[d].name
  BY <1>2, <1>5, Zenon DEF MpInv
<1>7. CallOK(d)
  BY <1>4, <1>5, Zenon DEF MpInv
<1>8. net[1].name \in Names
  BY <1>6, <1>7, Zenon DEF Asked, CallOK
<1> QED  BY <1>2, <1>3, <1>4, <1>5, <1>6, <1>8, Zenon

LEMMA ReceiveDropOK ==
  ASSUME MpInv, ReceiveDrop
  PROVE  MpInv'
<1>1. net # <<>> /\ net' = Tail(net) /\ UNCHANGED <<role, pending, call, trig>> /\ sock' = sock /\ inbox' = inbox
  BY Zenon DEF ReceiveDrop, peervars
<1>2. net' \in Seq(MsgType) /\ \A k \in DOMAIN net' : \E j \in DOMAIN net : net'[k] = net[j]
  BY <1>1, HeadFacts, Zenon
<1>3. sock' \in [Peers -> {"bound", "stale", "gone"}] /\ inbox' \in [Peers -> SUBSET Calls]
  BY <1>1, SameTypes, Zenon
<1>4. \A p \in Peers : \A x \in inbox'[p] : x \in inbox[p]
  BY <1>1, Zenon
<1> QED  BY <1>1, <1>2, <1>3, <1>4, PeerFrame, Zenon

\* The entry that an answer is written into.
Answer(i) == [pending[i] EXCEPT !.got = IF Head(net).type = "REP" THEN 1 ELSE -1, !.of = Head(net).of]

LEMMA ReceiveFacts ==
  ASSUME MpInv, NEW i \in DOMAIN pending, Receive(i)
  PROVE  /\ net # <<>> /\ net' = Tail(net) /\ trig.mp = NoCall
         /\ pending[i].dst = net[1].from /\ pending[i].name = net[1].name
         /\ pending[i].kind \in {"sync", "async"} /\ EntryOK(pending[i])
         /\ Answer(i) \in EntryType
         /\ Answer(i).kind = pending[i].kind /\ Answer(i).dst = pending[i].dst /\ Answer(i).name = pending[i].name
         /\ Answer(i).call = pending[i].call /\ Answer(i).of = net[1].of
         /\ Answer(i).got = IF net[1].type = "REP" THEN 1 ELSE -1
         /\ IF pending[i].kind = "sync"
            THEN pending' = [pending EXCEPT ![i] = Answer(i)] /\ call' = call /\ trig' = trig
            ELSE AsyncHandle(Answer(i), i, "mp")
         /\ role' = role /\ sock' = sock /\ inbox' = inbox
<1>1. /\ net # <<>> /\ net' = Tail(net) /\ trig.mp = NoCall
      /\ i \in Matches(Head(net).from, Head(net).name)
      /\ IF Answer(i).kind = "sync"
         THEN pending' = [pending EXCEPT ![i] = Answer(i)] /\ call' = call /\ trig' = trig
         ELSE AsyncHandle(Answer(i), i, "mp")
      /\ role' = role /\ sock' = sock /\ inbox' = inbox
  BY Zenon DEF Receive, peervars, Answer
<1>2. Head(net) = net[1] /\ net[1].type \in {"IGN", "REP"} /\ net[1].of \in Calls /\ net[1].name \in Names
  BY <1>1, HeadFacts, Zenon
<1>3. pending[i].dst = net[1].from /\ pending[i].name = net[1].name
  BY <1>1, <1>2 DEF Matches
<1>4. pending[i] \in EntryType /\ pending[i].kind \in {"sync", "async", "dummy"} /\ EntryOK(pending[i])
  BY SameTypes, EntryFields, Zenon DEF MpInv
<1>5. pending[i].kind # "dummy"
  <2>1. net[1].name # "none"
    BY <1>2, MpParameters, Zenon
  <2> QED  BY <1>3, <1>4, <2>1, Zenon DEF EntryOK
<1>6. PICK g : g = IF net[1].type = "REP" THEN 1 ELSE -1
  OBVIOUS
<1>7. PICK o : o = net[1].of
  OBVIOUS
<1>8. Answer(i) = [pending[i] EXCEPT !.got = g, !.of = o]
  BY <1>2, <1>6, <1>7, ZenonT(60) DEF Answer
<1>9. g \in {-1, 0, 1} /\ o \in MaybeCall
  BY <1>2, <1>6, <1>7 DEF MaybeCall
<1>10. /\ Answer(i) \in EntryType
       /\ Answer(i).kind = pending[i].kind /\ Answer(i).dst = pending[i].dst /\ Answer(i).name = pending[i].name
       /\ Answer(i).call = pending[i].call /\ Answer(i).of = o /\ Answer(i).got = g
  BY <1>4, <1>8, <1>9, ZenonT(60) DEF EntryType
<1> QED  BY <1>1, <1>3, <1>4, <1>5, <1>6, <1>7, <1>10, Zenon

LEMMA ReceiveAsync ==
  ASSUME MpInv, NEW i \in DOMAIN pending, Receive(i), pending[i].kind # "sync"
  PROVE  MpInv'
<1>1. PICK e : e = Answer(i)
  OBVIOUS
<1>2. /\ net # <<>> /\ net' = Tail(net) /\ trig.mp = NoCall /\ pending[i].kind = "async"
      /\ e \in EntryType /\ e.kind = pending[i].kind /\ e.dst = pending[i].dst /\ e.call = pending[i].call
      /\ e.got = (IF net[1].type = "REP" THEN 1 ELSE -1)
      /\ AsyncHandle(e, i, "mp")
      /\ role' = role /\ sock' = sock /\ inbox' = inbox
  BY <1>1, ReceiveFacts
<1>3. e.got \in {-1, 0, 1} /\ e.dst \in Peers /\ e.of \in MaybeCall /\ e.got # 0
  BY <1>2 DEF EntryType
<1>4. Handles(e, i)
  BY <1>2, <1>3 DEF Handles
<1>5. net' \in Seq(MsgType) /\ \A k \in DOMAIN net' : \E j \in DOMAIN net : net'[k] = net[j]
  BY <1>2, HeadFacts, Zenon
<1>6. trig["mp"] = NoCall
  BY <1>2
<1> QED  BY <1>2, <1>3, <1>4, <1>5, <1>6, AsyncHandleOK, Zenon


\* The answer to a synchronous request stays on the list for its caller.
LEMMA ReceiveSync ==
  ASSUME MpInv, NEW i \in DOMAIN pending, Receive(i), pending[i].kind = "sync"
  PROVE  MpInv'
<1>1. PICK e : e = Answer(i)
  OBVIOUS
<1>2. PICK c : c = pending[i].call
  OBVIOUS
<1>3. PICK t : t = [pending EXCEPT ![i] = e]
  BY ZenonT(60)
<1>4. /\ net # <<>> /\ net' = Tail(net) /\ EntryOK(pending[i])
      /\ e \in EntryType /\ e.kind = "sync" /\ e.dst = pending[i].dst /\ e.name = pending[i].name /\ e.call = c
      /\ pending' = t /\ call' = call /\ trig' = trig
      /\ role' = role /\ sock' = sock /\ inbox' = inbox
  BY <1>1, <1>2, <1>3, ReceiveFacts
<1>5. pending \in Seq(EntryType) /\ Distinct(pending) /\ MpTypeOK
  BY SameTypes, Zenon DEF MpInv
<1>6. t \in Seq(EntryType)
  BY <1>3, <1>4, <1>5
<1>7. DOMAIN t = DOMAIN pending /\ t[i] = e /\ \A j \in DOMAIN pending : j # i => t[j] = pending[j]
  BY <1>3, Zenon
<1>8. \A j \in DOMAIN t : /\ t[j].kind = pending[j].kind /\ t[j].dst = pending[j].dst
                          /\ t[j].name = pending[j].name /\ t[j].call = pending[j].call
  BY <1>2, <1>4, <1>7, Zenon
<1>9. c \in Calls /\ call[c].kind = "sync" /\ call[c].state = "wait"
  <2>1. c \in Calls
    BY <1>2, <1>5, EntryFields, Zenon
  <2> QED  BY <1>2, <1>4, <2>1, Zenon DEF EntryOK
<1>10. \A d : Of(t, d) = Of(pending, d)
  BY <1>7, <1>8, Zenon DEF Of
<1>11. \A d \in Calls : d # c => Keeps(pending, t, d)
  <2> TAKE d \in Calls
  <2> HAVE d # c
  <2>1. \A j \in Of(t, d) : t[j] = pending[j]
    BY <1>2, <1>7, <1>8, Zenon DEF Of
  <2> QED  BY <1>10, <2>1, Zenon DEF Keeps
<1>12. Distinct(t)
  <2> SUFFICES ASSUME NEW j \in DOMAIN t, NEW k \in DOMAIN t
               PROVE  /\ t[j].kind # "dummy" /\ t[k].kind # "dummy" /\ t[j].dst = t[k].dst /\ t[j].name = t[k].name
                         => j = k
                      /\ t[j].kind = "sync" /\ t[j].call = t[k].call => j = k
    BY Zenon DEF Distinct
  <2>1. /\ t[j].kind = pending[j].kind /\ t[j].dst = pending[j].dst
        /\ t[j].name = pending[j].name /\ t[j].call = pending[j].call
        /\ t[k].kind = pending[k].kind /\ t[k].dst = pending[k].dst
        /\ t[k].name = pending[k].name /\ t[k].call = pending[k].call
    BY <1>8, Zenon
  <2>2. j \in DOMAIN pending /\ k \in DOMAIN pending
    BY <1>7, Zenon
  <2> QED  BY <1>5, <2>1, <2>2, Zenon DEF Distinct
<1>13. Triggered(c)' <=> Triggered(c)
  BY <1>4, Zenon DEF Triggered
<1>14. CallOK(c)'
  <2>1. CallOK(c)
    BY <1>9, Zenon DEF MpInv
  <2>2. Froms(c)' = Froms(c)
    BY <1>4, Zenon DEF Froms
  <2>3. SyncOK(c)
    BY <1>9, <2>1, Zenon DEF CallOK
  <2>4. \A j \in Of(t, c) : t[j].dst = pending[j].dst /\ j \in Of(pending, c)
    BY <1>8, <1>10, Zenon DEF Of
  <2>5. SyncOK(c)'
    BY <1>4, <2>2, <2>3, <2>4, Zenon DEF SyncOK
  <2>6. AsyncOK(c)'
    BY <1>4, <1>9, Zenon DEF AsyncOK
  <2> QED  BY <1>4, <2>1, <2>5, <2>6, Zenon DEF CallOK
<1>15. \A j \in Of(t, c) : j \in DOMAIN pending /\ pending[j].kind = "sync" /\ j = i
  <2>1. \A j, k \in DOMAIN pending : pending[j].call = c /\ pending[k].call = c => j = k
    BY <1>9, SyncFacts, Zenon
  <2>2. \A j \in Of(t, c) : j \in DOMAIN pending /\ pending[j].call = c
    BY <1>10, Zenon DEF Of
  <2> QED  BY <1>2, <2>1, <2>2, Zenon
<1>16. \A j \in Of(pending', c) : EntryOK(pending[j])'
  <2> TAKE j \in Of(pending', c)
  <2>1. pending'[j] = e
    BY <1>4, <1>7, <1>15, Zenon
  <2> QED  BY <1>2, <1>4, <2>1, Zenon DEF EntryOK
<1>17. Asked(c) => Asked(c)' /\ call'[c].name = call[c].name
  BY <1>4, <1>7, <1>15, Zenon DEF Asked
<1>18. net' \in Seq(MsgType) /\ \A k \in DOMAIN net' : \E j \in DOMAIN net : net'[k] = net[j]
  BY <1>4, HeadFacts, Zenon
<1>19. MpTypeOK' /\ TrigOK'
  <2>1. TrigOK
    BY Zenon DEF MpInv
  <2> QED  BY <1>4, <1>5, <1>6, <1>18, <2>1, Zenon DEF MpTypeOK, TrigOK
<1>20. StepOf(c)
  <2>1. \A d \in Calls : d # c => /\ call'[d] = call[d] /\ (Triggered(d)' <=> Triggered(d))
                                  /\ Keeps(pending, pending', d)
    BY <1>4, <1>11, Zenon DEF Triggered
  <2>2. Distinct(pending') /\ \A p \in Peers : \A x \in inbox'[p] : x \in inbox[p]
    BY <1>4, <1>12, Zenon
  <2> QED  BY <1>14, <1>16, <1>17, <1>18, <2>1, <2>2, Zenon DEF StepOf
<1> QED  BY <1>9, <1>19, <1>20, StepOK, Zenon

LEMMA TriggerOK ==
  ASSUME MpInv, NEW th \in {"mp", "intr"}, Trigger(th)
  PROVE  MpInv'
<1>1. PICK c : c = trig[th]
  OBVIOUS
<1>2. PICK k : k = call[c].callbacks + 1
  OBVIOUS
<1>3. PICK r : r = [NewCall EXCEPT !.kind = "async", !.name = call[c].name, !.state = "done", !.callbacks = k]
  OBVIOUS
<1>4. /\ c # NoCall /\ call' = [call EXCEPT ![c] = r] /\ trig' = [trig EXCEPT ![th] = NoCall]
      /\ role' = role /\ sock' = sock /\ inbox' = inbox /\ net' = net /\ pending' = pending
  BY <1>1, <1>2, <1>3, Zenon DEF Trigger, peervars
<1>5. MpTypeOK /\ TrigOK /\ Distinct(pending)
  BY Zenon DEF MpInv
<1>6. trig \in [{"mp", "intr"} -> MaybeCall] /\ NoCall \in MaybeCall
  BY <1>5, Zenon DEF MpTypeOK, MaybeCall
<1>7. c \in Calls /\ call[c].state = "open" /\ Triggered(c)
  <2>1. c \in Calls
    BY <1>1, <1>4, <1>6, Zenon DEF MaybeCall
  <2>2. call[c].state = "open"
    BY <1>1, <1>4, <1>5, Zenon DEF TrigOK
  <2>3. Triggered(c)
    BY <1>1 DEF Triggered
  <2> QED  BY <2>1, <2>2, <2>3, Zenon
<1>8. call[c].kind = "async" /\ call[c].name \in Names /\ call[c].callbacks = 0
  BY <1>7, Zenon DEF MpInv, CallOK
<1>9. k = 1
  BY <1>2, <1>8
<1>10. r \in CallType /\ r.kind = "async" /\ r.state = "done" /\ r.name = call[c].name /\ r.callbacks = 1
  BY <1>3, <1>8, <1>9, NewCallFields, ZenonT(60) DEF CallType, MaybeName
<1>11. call'[c] = r /\ call' \in [Calls -> CallType] /\ \A d \in Calls : d # c => call'[d] = call[d]
  BY <1>4, <1>7, <1>10, SameTypes, Zenon
<1>12. /\ trig' \in [{"mp", "intr"} -> MaybeCall] /\ trig'[th] = NoCall
       /\ \A x \in {"mp", "intr"} : x # th => trig'[x] = trig[x]
  BY <1>4, <1>6, Zenon
<1>13. \A x \in {"mp", "intr"} : x # th => trig[x] # c
  <2>1. trig["mp"] # NoCall => trig["mp"] # trig["intr"]
    BY <1>5, Zenon DEF TrigOK
  <2>2. c # NoCall
    BY <1>4, Zenon
  <2>3. CASE th = "mp"
    BY <1>1, <2>1, <2>2, <2>3
  <2>4. CASE th = "intr"
    BY <1>1, <2>1, <2>2, <2>4
  <2> QED  BY <2>3, <2>4, Zenon
<1>14. MpTypeOK'
  BY <1>4, <1>5, <1>11, <1>12, Zenon DEF MpTypeOK
<1>15. TrigOK'
  <2>1. \A x \in {"mp", "intr"} : trig'[x] # NoCall => call'[trig'[x]].state = "open"
    <3> TAKE x \in {"mp", "intr"}
    <3> HAVE trig'[x] # NoCall
    <3>1. x # th /\ trig'[x] = trig[x]
      BY <1>12, Zenon
    <3>2. PICK d : d = trig[x]
      OBVIOUS
    <3>3. d \in Calls /\ d # c
      BY <1>6, <1>13, <3>1, <3>2, Zenon DEF MaybeCall
    <3>4. call[d].state = "open"
      BY <1>5, <3>1, <3>2, Zenon DEF TrigOK
    <3> QED  BY <1>11, <3>1, <3>2, <3>3, <3>4, Zenon
  <2>2. trig'["mp"] # NoCall => trig'["mp"] # trig'["intr"]
    <3>1. trig["mp"] # NoCall => trig["mp"] # trig["intr"]
      BY <1>5, Zenon DEF TrigOK
    <3>2. CASE th = "mp"
      BY <1>12, <3>2
    <3>3. CASE th = "intr"
      BY <1>12, <3>1, <3>3
    <3> QED  BY <3>2, <3>3, Zenon
  <2> QED  BY <2>1, <2>2, Zenon DEF TrigOK
<1>16. \A d \in Calls : d # c => (Triggered(d)' <=> Triggered(d))
  <2> TAKE d \in Calls
  <2> HAVE d # c
  <2>1. d # NoCall
    BY MpParameters DEF Calls, NoCall
  <2>2. CASE th = "mp"
    BY <1>1, <1>12, <2>1, <2>2 DEF Triggered
  <2>3. CASE th = "intr"
    BY <1>1, <1>12, <2>1, <2>3 DEF Triggered
  <2> QED  BY <2>2, <2>3, Zenon
<1>17. \A j \in DOMAIN pending : pending[j].call # c
  BY <1>7, NoEntries, Zenon
<1>18. Of(pending', c) = {}
  BY <1>4, <1>17, Zenon DEF Of
<1>19. CallOK(c)'
  <2>1. AsyncOK(c)'
    BY <1>10, <1>11, Zenon DEF AsyncOK
  <2> QED  BY <1>8, <1>10, <1>11, <2>1, Zenon DEF CallOK
<1>20. Asked(c)' /\ call'[c].name = call[c].name
  BY <1>10, <1>11, <1>18, Zenon DEF Asked
<1>21. StepOf(c)
  <2>1. \A d \in Calls : Keeps(pending, pending', d)
    BY <1>4, KeepsSame, Zenon
  <2>2. \A j \in Of(pending', c) : EntryOK(pending[j])'
    BY <1>18, Zenon
  <2>3. /\ Distinct(pending') /\ \A p \in Peers : \A x \in inbox'[p] : x \in inbox[p]
        /\ \A m \in DOMAIN net' : \E j \in DOMAIN net : net'[m] = net[j]
    BY <1>4, <1>5, Zenon
  <2> QED  BY <1>11, <1>16, <1>19, <1>20, <2>1, <2>2, <2>3, Zenon DEF StepOf
<1> QED  BY <1>7, <1>14, <1>15, <1>21, StepOK, Zenon


-----------------------------------------------------------------------------
(* The theorems                                                             *)

LEMMA MpInitOK ==
  MpInit => MpInv
<1> SUFFICES ASSUME MpInit
             PROVE  MpInv
  OBVIOUS
<1>1. /\ role \in {"primary", "secondary"} /\ inbox = [p \in Peers |-> {}] /\ net = <<>> /\ pending = <<>>
      /\ call = [c \in Calls |-> NewCall] /\ trig = [mp |-> NoCall, intr |-> NoCall]
      /\ sock = [p \in Peers |-> IF peer[p] = "dead" THEN "gone" ELSE "bound"]
  BY Zenon DEF MpInit
<1>2. net \in Seq(MsgType) /\ DOMAIN net = {} /\ pending \in Seq(EntryType) /\ DOMAIN pending = {}
  BY <1>1
<1>3. trig["mp"] = NoCall /\ trig["intr"] = NoCall /\ trig \in [{"mp", "intr"} -> MaybeCall]
  BY <1>1 DEF MaybeCall
<1>4. MpTypeOK
  <2>1. sock \in [Peers -> {"bound", "stale", "gone"}] /\ inbox \in [Peers -> SUBSET Calls]
    BY <1>1
  <2>2. call \in [Calls -> CallType]
    BY <1>1, NewCallFields, Zenon
  <2> QED  BY <1>1, <1>2, <1>3, <2>1, <2>2, Zenon DEF MpTypeOK
<1>5. \A c \in Calls : CallOK(c)
  <2> TAKE c \in Calls
  <2>1. call[c] = NewCall
    BY <1>1, ZenonT(60)
  <2>2. call[c].kind = "none" /\ call[c].state = "new" /\ call[c].callbacks = 0
    BY <2>1 DEF NewCall
  <2> QED  BY <2>2, Zenon DEF CallOK, AsyncOK
<1>6. TrigOK
  BY <1>3, Zenon DEF TrigOK
<1>7. \A p \in Peers : inbox[p] = {}
  BY <1>1, Zenon
<1> QED  BY <1>2, <1>4, <1>5, <1>6, <1>7, Zenon DEF MpInv, Distinct

LEMMA MpStepOK ==
  MpInv /\ [MpNext]_mpvars => MpInv'
<1> SUFFICES ASSUME MpInv, [MpNext]_mpvars
             PROVE  MpInv'
  OBVIOUS
<1>1. ASSUME NEW c \in Calls, SyncStep(c) PROVE MpInv'
  BY <1>1, SyncDoneOK, SyncCannotOK, SyncRefusedOK, SyncSendOK, SyncTimeoutOK, SyncReplyOK, Zenon DEF SyncStep
<1>2. ASSUME NEW c \in Calls, Deadline(c) PROVE MpInv'
  BY <1>2, DeadlineOK, Zenon
<1>3. ASSUME NEW c \in Calls, NEW n \in Names, Begin(c, n) PROVE MpInv'
  BY <1>3, BeginOK, Zenon
<1>4. ASSUME NEW p \in Peers, PeerStep(p) PROVE MpInv'
  BY <1>4, PeerStepOK, Zenon
<1>5. CASE MpThread
  BY <1>5, ReceiveDropOK, ReceiveAsync, ReceiveSync, TriggerOK, Zenon DEF MpThread
<1>6. CASE IntrThread
  BY <1>6, AlarmOK, TriggerOK, Zenon DEF IntrThread
<1>7. CASE UNCHANGED mpvars
  <2>1. UNCHANGED <<role, pending, call, trig>> /\ sock' = sock /\ inbox' = inbox /\ net' = net
    BY <1>7, Zenon DEF mpvars
  <2>2. /\ sock' \in [Peers -> {"bound", "stale", "gone"}] /\ inbox' \in [Peers -> SUBSET Calls]
        /\ net' \in Seq(MsgType)
    BY <2>1, SameTypes, Zenon DEF MpTypeOK
  <2>3. \A p \in Peers : \A x \in inbox'[p] : x \in inbox[p]
    BY <2>1, Zenon
  <2>4. \A k \in DOMAIN net' : \E j \in DOMAIN net : net'[k] = net[j]
    BY <2>1, Zenon
  <2> QED  BY <2>1, <2>2, <2>3, <2>4, PeerFrame, Zenon
<1> QED  BY <1>1, <1>2, <1>3, <1>4, <1>5, <1>6, <1>7, Zenon DEF MpNext

\* The invariant that ties the list of pending requests of eal_common_proc.c to
\* the calls its entries belong to, to the callbacks that are due and to the
\* requests and replies on their way.
THEOREM MpInvariant == MpSpec => []MpInv
<1> QED  BY MpInitOK, MpStepOK, PTL DEF MpSpec

LEMMA MpAccounts ==
  MpInv => Accounts
<1> SUFFICES ASSUME MpInv, NEW c \in Calls
             PROVE  /\ call[c].state = "open" /\ c \notin {trig.mp, trig.intr} /\ call[c].sent > 0 =>
                         call[c].sent = call[c].processed + Cardinality(EntriesOf(c)) + call[c].lost
                    /\ call[c].kind = "sync" /\ call[c].state = "ok" =>
                         Cardinality({x.from : x \in call[c].recv}) = call[c].sent
  BY Zenon DEF Accounts
<1>1. CallOK(c)
  BY Zenon DEF MpInv
<1>2. ASSUME call[c].state = "open", c \notin {trig.mp, trig.intr}, call[c].sent > 0
      PROVE  call[c].sent = call[c].processed + Cardinality(EntriesOf(c)) + call[c].lost
  <2>1. call[c].sent # 0
    BY <1>2, SameTypes, CallFields
  <2>2. EntriesOf(c) = Of(pending, c)
    BY Zenon DEF EntriesOf, Of
  <2> QED  BY <1>1, <1>2, <2>1, <2>2, Zenon DEF CallOK, AsyncOK, Triggered
<1>3. ASSUME call[c].kind = "sync", call[c].state = "ok"
      PROVE  Cardinality({x.from : x \in call[c].recv}) = call[c].sent
  BY <1>1, <1>3, Zenon DEF CallOK, SyncOK, Froms
<1> QED  BY <1>2, <1>3, Zenon

LEMMA MpNoDangling ==
  MpInv => NoDangling
<1> SUFFICES ASSUME MpInv
             PROVE  NoDangling
  OBVIOUS
<1>1. \A i \in DOMAIN pending : LET c == pending[i].call IN
        IF pending[i].kind = "sync" THEN call[c].state = "wait"
        ELSE call[c].state = "open" /\ c \notin {trig.mp, trig.intr}
  BY Zenon DEF MpInv, EntryOK, Triggered
<1>2. trig.mp # NoCall => trig.mp # trig.intr
  BY DEF MpInv, TrigOK
<1>3. \A c \in Calls : call[c].callbacks <= 1
  <2> TAKE c \in Calls
  <2>1. call[c].callbacks = IF call[c].state = "done" THEN 1 ELSE 0
    BY Zenon DEF MpInv, CallOK
  <2> QED  BY <2>1
<1> QED  BY <1>1, <1>2, <1>3, Zenon DEF NoDangling

\* For any number of peers, names, calls and faults, whatever the order of
\* replies, advice to ignore a peer, alarms, deadlines and crashes: process_msg,
\* async_reply_handle and process_async_request count a peer that was asked at
\* most once, so that no request ends before the last of them, and fail to count
\* exactly those whose alarm went off before the deadline.
THEOREM MpCounts == MpSpec => []Accounts
<1> QED  BY MpAccounts, MpInvariant, PTL

\* Under the same conditions nothing on the list of pending requests, or about to
\* run a callback, belongs to a request that has returned or whose callback has
\* run: no step of one thread frees what the other still has.
THEOREM MpLists == MpSpec => []NoDangling
<1> QED  BY MpNoDangling, MpInvariant, PTL


\* The entry that a reply answers is one that matches it, and the only one.
LEMMA AnsweredEntry ==
  ASSUME MpInv, net # <<>>, NEW i \in DOMAIN pending,
         pending[i].call = Head(net).of, pending[i].dst = Head(net).from
  PROVE  /\ i \in Matches(Head(net).from, Head(net).name) /\ pending[i].kind # "dummy"
         /\ \A j \in Matches(Head(net).from, Head(net).name) : pending[j].kind # "dummy" => j = i
<1>1. /\ Head(net) = net[1] /\ net[1].of \in Calls /\ net[1].name = call[net[1].of].name /\ Asked(net[1].of)
  BY HeadFacts, Zenon
<1>2. pending[i].kind # "dummy"
  BY <1>1, Zenon DEF Asked, Of
<1>3. EntryOK(pending[i])
  BY Zenon DEF MpInv
<1>4. pending[i].name = net[1].name
  BY <1>1, <1>2, <1>3, Zenon DEF EntryOK
<1>5. i \in Matches(Head(net).from, Head(net).name)
  BY <1>1, <1>4, Zenon DEF Matches
<1>6. Distinct(pending)
  BY Zenon DEF MpInv
<1>7. ASSUME NEW j \in Matches(Head(net).from, Head(net).name), pending[j].kind # "dummy" PROVE j = i
  <2>1. j \in DOMAIN pending /\ pending[j].dst = pending[i].dst /\ pending[j].name = pending[i].name
    BY <1>1, <1>4, Zenon DEF Matches
  <2> QED  BY <1>2, <1>6, <1>7, <2>1, Zenon DEF Distinct
<1> QED  BY <1>2, <1>5, <1>7, Zenon

LEMMA ReceiveToCaller ==
  ASSUME MpInv, NEW k \in DOMAIN pending, Receive(k)
  PROVE  ReplyToCaller
<1> SUFFICES ASSUME NEW i \in DOMAIN pending, pending[i].call = Head(net).of, pending[i].dst = Head(net).from
             PROVE  IF pending[i].kind = "sync"
                    THEN pending'[i].call = pending[i].call /\ pending'[i].of = pending[i].call
                    ELSE [from |-> pending[i].dst, of |-> pending[i].call] \in call'[pending[i].call].recv
                         \/ Head(net).type = "IGN"
  BY Zenon DEF ReplyToCaller
<1>1. PICK e : e = Answer(i)
  OBVIOUS
<1>2. net # <<>> /\ pending[k].kind # "dummy" /\ k \in Matches(Head(net).from, Head(net).name)
  <2>1. net # <<>> /\ pending[k].kind \in {"sync", "async"}
    BY ReceiveFacts
  <2> QED  BY <2>1 DEF Receive
<1>3. k = i
  BY <1>2, AnsweredEntry, Zenon
<1>4. Head(net) = net[1] /\ net[1].type \in {"IGN", "REP"}
  BY <1>2, HeadFacts, Zenon
<1>5. /\ e.kind = pending[i].kind /\ e.dst = pending[i].dst /\ e.call = pending[i].call /\ e.of = net[1].of
      /\ e.got = (IF net[1].type = "REP" THEN 1 ELSE -1)
      /\ pending[i].kind \in {"sync", "async"}
      /\ IF pending[i].kind = "sync" THEN pending' = [pending EXCEPT ![i] = e] ELSE AsyncHandle(e, i, "mp")
  BY <1>1, <1>3, ReceiveFacts
<1>6. CASE pending[i].kind = "sync"
  <2>1. pending'[i] = e
    BY <1>5, <1>6, Zenon
  <2> QED  BY <1>4, <1>5, <1>6, <2>1, Zenon
<1>7. CASE pending[i].kind # "sync" /\ net[1].type = "REP"
  <2>1. PICK c : c = pending[i].call
    OBVIOUS
  <2>2. c \in Calls /\ c = e.call /\ c = e.of /\ e.kind = "async" /\ e.got = 1
    <3>1. c \in Calls
      BY <2>1, SameTypes, EntryFields, Zenon
    <3>2. e.kind = "async" /\ e.got = 1
      BY <1>5, <1>7
    <3> QED  BY <1>4, <1>5, <2>1, <3>1, <3>2, Zenon
  <2>a. PICK pr : pr = ProcessedWith(e)
    OBVIOUS
  <2>b. PICK sn : sn = SentWith(e)
    OBVIOUS
  <2>c. PICK ls : ls = LostWith(e)
    OBVIOUS
  <2>3. PICK rv : rv = IF Answered(e) THEN call[c].recv \union {[from |-> e.dst, of |-> e.of]} ELSE call[c].recv
    BY ZenonT(60)
  <2>4. AsyncHandle(e, i, "mp")
    BY <1>5, <1>7, Zenon
  <2>5. call' = [call EXCEPT ![c] = [call[c] EXCEPT !.processed = pr, !.sent = sn, !.lost = ls, !.recv = rv]]
    <3>1. c = e.call
      BY <2>2, Zenon
    <3> QED  BY <2>3, <2>4, <2>a, <2>b, <2>c, <3>1 DEF AsyncHandle, ProcessedWith, SentWith, LostWith, Answered
  <2>6. PICK r : r = [call[c] EXCEPT !.processed = pr, !.sent = sn, !.lost = ls, !.recv = rv]
    OBVIOUS
  <2>7. call[c] \in CallType
    BY <2>2, SameTypes, Zenon
  <2>8. r.recv = rv
    BY <2>6, <2>7 DEF CallType
  <2>9. call'[c] = r
    BY <2>2, <2>5, <2>6, SameTypes, Zenon
  <2>10. [from |-> e.dst, of |-> e.of] \in call'[c].recv
    BY <2>2, <2>3, <2>8, <2>9, Zenon DEF Answered
  <2> QED  BY <1>5, <1>7, <2>1, <2>2, <2>10, Zenon
<1>8. CASE pending[i].kind # "sync" /\ net[1].type = "IGN"
  BY <1>4, <1>8, Zenon
<1> QED  BY <1>4, <1>6, <1>7, <1>8, Zenon

\* Only the message thread takes messages off the socket.
LEMMA OthersKeepNet ==
  ASSUME MpInv, [MpNext]_mpvars
  PROVE  ReceiveDrop \/ (\E i \in DOMAIN pending : Receive(i)) \/ ~ (Len(net') < Len(net))
<1>1. net \in Seq(MsgType)
  BY SameTypes, Zenon DEF MpTypeOK
<1>2. Len(net) \in Nat /\ ~ (Len(net) < Len(net))
  BY <1>1
<1>3. net' = net => ~ (Len(net') < Len(net))
  BY <1>2, Zenon
<1>4. ASSUME NEW p \in Peers, PeerStep(p) PROVE ~ (Len(net') < Len(net))
  <2>1. ASSUME NEW m, net' = Append(net, m) PROVE ~ (Len(net') < Len(net))
    <3>1. Len(Append(net, m)) = Len(net) + 1
      BY <1>1
    <3> QED  BY <1>2, <2>1, <3>1
  <2>2. net' = net \/ \E m : net' = Append(net, m)
    BY <1>4, Zenon DEF PeerStep, PeerIgnores, PeerReplies, PeerReady, PeerEnds
  <2> QED  BY <1>3, <2>1, <2>2, Zenon
<1>5. ASSUME NEW c \in Calls, SyncStep(c) PROVE net' = net
  BY <1>5, Zenon DEF SyncStep, SyncDone, SyncCannot, SyncRefused, SyncSend, SyncTimeout, SyncReply
<1>6. ASSUME NEW c \in Calls, Deadline(c) PROVE net' = net
  BY <1>6, Zenon DEF Deadline
<1>7. ASSUME NEW c \in Calls, NEW n \in Names, Begin(c, n) PROVE net' = net
  BY <1>7, Zenon DEF Begin, SyncCall, AsyncCall, AsyncNoDummy
<1>8. \A th : Trigger(th) => net' = net
  BY Zenon DEF Trigger
<1>9. \A i : Alarm(i) => net' = net
  BY Zenon DEF Alarm
<1>10. UNCHANGED mpvars => net' = net
  BY Zenon DEF mpvars
<1>11. (\E c \in Calls : SyncStep(c) \/ Deadline(c) \/ \E n \in Names : Begin(c, n)) => net' = net
  BY <1>5, <1>6, <1>7, Zenon
<1> QED  BY <1>3, <1>4, <1>8, <1>9, <1>10, <1>11, Zenon DEF MpNext, MpThread, IntrThread

\* A reply that process_msg takes off the socket while its request is pending
\* goes to that request: find_request_by_name compares names and peers only, and
\* no two requests on the list have the same.
THEOREM MpReplies == MpSpec => RightReply
<1>1. MpInv /\ [MpNext]_mpvars => [ReplyToCaller]_mpvars
  <2> SUFFICES ASSUME MpInv, [MpNext]_mpvars
               PROVE  ReplyToCaller
    OBVIOUS
  <2>1. ASSUME ReceiveDrop PROVE ReplyToCaller
    <3>1. net # <<>> /\ Matches(Head(net).from, Head(net).name) = {}
      BY <2>1, Zenon DEF ReceiveDrop
    <3>2. ASSUME NEW i \in DOMAIN pending, pending[i].call = Head(net).of, pending[i].dst = Head(net).from
          PROVE  FALSE
      BY <3>1, <3>2, AnsweredEntry, Zenon
    <3> QED  BY <3>2, Zenon DEF ReplyToCaller
  <2>2. ASSUME NEW i \in DOMAIN pending, Receive(i) PROVE ReplyToCaller
    BY <2>2, ReceiveToCaller, Zenon
  <2>3. ~ (Len(net') < Len(net)) => ReplyToCaller
    BY Zenon DEF ReplyToCaller
  <2> QED  BY <2>1, <2>2, <2>3, OthersKeepNet, Zenon
<1> QED  BY <1>1, MpInvariant, PTL DEF MpSpec, RightReply
=============================================================================
