----------------------------- MODULE DnsProofs ------------------------------
(***************************************************************************)
(* Proofs about the internal resolver (Dns): every lookup is called back   *)
(* exactly once and never with the address of another name, and the timer  *)
(* overlooks no query, for any number of lookups, names, ids and servers.  *)
(***************************************************************************)
EXTENDS Dns, SequenceTheorems, FiniteSetTheorems, WellFoundedInduction, TLAPS

(***************************************************************************)
(* The states the handlers work on.                                        *)
(***************************************************************************)
Names == UNION {Candidates(n) : n \in Lookups}
QueryRecs ==
    [name : Names, orig : Lookups, id : Ids, nsends : Nat, start : Nat, sent : Nat, queued : Nat,
     attempt : 0..MaxAttempt, domain : 0..Len(SearchPath), search : BOOLEAN,
     tcp : {"none", "connecting", "reading", "unread"}, part : BOOLEAN, stale : BOOLEAN,
     callers : SUBSET Callers]
QueryMaps == UNION {[D -> QueryRecs] : D \in SUBSET Callers}
AskedMaps == UNION {[D -> 1..MaxCopies] : D \in SUBSET (Ids \X Names)}
Gots == [kind : {"none", "error", "address"}, name : Names \cup {NoName}, joined : BOOLEAN,
         calls : {0, 1}]
States == [query : QueryMaps, lru : Seq(Callers), asked : AskedMaps, event : BOOLEAN,
           want : [Callers -> Lookups \cup {NoName}], got : [Callers -> Gots]]

(***************************************************************************)
(* The list.  A handler may have taken a query off it for a while: off.    *)
(***************************************************************************)
Distinct(sq) == \A i, j \in 1..Len(sq) : sq[i] = sq[j] => i = j
Holds(sq, c) == \E i \in 1..Len(sq) : sq[i] = c

Listed(qs, sq, off) ==
    /\ Distinct(sq)
    /\ \A c : c \in DOMAIN qs <=> Holds(sq, c) \/ c \in off
    /\ \A c \in off : ~Holds(sq, c)

Sorted(qs, sq) ==
    \A i, j \in 1..Len(sq) : i < j => qs[sq[i]].queued <= qs[sq[j]].queued

Started(qs, off) == \A c \in DOMAIN qs \ off : qs[c].nsends > 0

(***************************************************************************)
(* The callers.                                                            *)
(***************************************************************************)
\* A query and those who wait for it: the one it was made for, and the ones
\* that joined when it asked for their name, or whose name it has left since.
QueryOK(c, q, wants) ==
    /\ c \in q.callers /\ q.orig = wants[c]
    /\ q.name \in Candidates(q.orig) /\ (q.search => q.orig \in Searched)
    /\ q.stale => q.part
    /\ \A d \in q.callers : d # c => q.name \in Candidates(wants[d]) \/ q.orig \in Searched

Named(qs, wants) == \A c \in DOMAIN qs : QueryOK(c, qs[c], wants)

\* A lookup that was made waits for one query until it has been called.
Waits(qs, c, d) == d \in DOMAIN qs /\ c \in qs[d].callers
Once(qs, wants, gots) ==
    \A c \in Callers :
        /\ wants[c] = NoName \/ gots[c].calls = 1 => \A d : ~Waits(qs, c, d)
        /\ wants[c] = NoName => gots[c].calls = 0 /\ gots[c].kind = "none"
        /\ wants[c] # NoName /\ gots[c].calls = 0 => \E d : Waits(qs, c, d)
        /\ \A d, e : Waits(qs, c, d) /\ Waits(qs, c, e) => d = e

Right(wants, gots) ==
    \A c \in Callers : gots[c].kind = "address" =>
        \/ gots[c].name \in Candidates(wants[c])
        \/ gots[c].joined /\ \E n \in Searched : gots[c].name \in Candidates(n)

Good(s, off) ==
    /\ s \in States
    /\ Listed(s.query, s.lru, off) /\ Sorted(s.query, s.lru) /\ Started(s.query, off)
    /\ Named(s.query, s.want) /\ Once(s.query, s.want, s.got) /\ Right(s.want, s.got)

\* A state between two callbacks: no query is off the list, and the timer is
\* set while there is one.
Ready(s) == Good(s, {}) /\ (s.lru # <<>> => s.event = TRUE)

\* The inductive invariant.
IInv == Ready(S)
-----------------------------------------------------------------------------
(***************************************************************************)
(* Maps, sequences and numbers.                                            *)
(***************************************************************************)
\* What it takes to be a map of queries.
LEMMA QueryMap ==
    \A f : f \in QueryMaps <=>
        /\ DOMAIN f \subseteq Callers /\ f = [x \in DOMAIN f |-> f[x]]
        /\ \A x \in DOMAIN f : f[x] \in QueryRecs
<1>1. ASSUME NEW f, f \in QueryMaps
      PROVE  /\ DOMAIN f \subseteq Callers /\ f = [x \in DOMAIN f |-> f[x]]
             /\ \A x \in DOMAIN f : f[x] \in QueryRecs
  <2>1. PICK D \in SUBSET Callers : f \in [D -> QueryRecs]
    BY <1>1 DEF QueryMaps
  <2> QED BY <2>1
<1>2. ASSUME NEW f, DOMAIN f \subseteq Callers, f = [x \in DOMAIN f |-> f[x]],
             \A x \in DOMAIN f : f[x] \in QueryRecs
      PROVE  f \in QueryMaps
  <2>1. f \in [DOMAIN f -> QueryRecs] /\ DOMAIN f \in SUBSET Callers
    BY <1>2
  <2> QED BY <2>1 DEF QueryMaps
<1> QED BY <1>1, <1>2

\* A query is changed.
Changed(f, c, q) == [f EXCEPT ![c] = q]

LEMMA ChangedMap ==
    ASSUME NEW f \in QueryMaps, NEW c \in DOMAIN f, NEW q \in QueryRecs, NEW g, g = Changed(f, c, q)
    PROVE  /\ g \in QueryMaps /\ DOMAIN g = DOMAIN f /\ g[c] = q
           /\ \A x \in DOMAIN f : x # c => g[x] = f[x]
<1>1. /\ DOMAIN f \subseteq Callers /\ \A x \in DOMAIN f : f[x] \in QueryRecs
  BY QueryMap
<1>2. /\ DOMAIN g = DOMAIN f /\ g[c] = q /\ g = [x \in DOMAIN g |-> g[x]]
      /\ \A x \in DOMAIN f : x # c => g[x] = f[x]
  BY DEF Changed
<1>3. DOMAIN g \subseteq Callers /\ \A x \in DOMAIN g : g[x] \in QueryRecs
  BY <1>1, <1>2
<1>4. g \in QueryMaps
  BY <1>2, <1>3, QueryMap
<1> QED BY <1>2, <1>4

\* A query is made.
Wider(f, c, q, g) ==
    /\ g \in QueryMaps /\ DOMAIN g = DOMAIN f \cup {c} /\ g[c] = q
    /\ \A x \in DOMAIN f : x # c => g[x] = f[x]

LEMMA WithMap ==
    ASSUME NEW f \in QueryMaps, NEW c \in Callers, NEW q \in QueryRecs, NEW g, g = With(f, c, q)
    PROVE  Wider(f, c, q, g)
<1>1. /\ DOMAIN f \subseteq Callers /\ \A x \in DOMAIN f : f[x] \in QueryRecs
  BY QueryMap
<1>2. /\ DOMAIN g = DOMAIN f \cup {c} /\ g[c] = q /\ g = [x \in DOMAIN g |-> g[x]]
      /\ \A x \in DOMAIN f : x # c => g[x] = f[x]
  BY DEF With
<1>3. DOMAIN g \subseteq Callers /\ \A x \in DOMAIN g : g[x] \in QueryRecs
  BY <1>1, <1>2
<1>4. g \in QueryMaps
  BY <1>2, <1>3, QueryMap
<1> QED BY <1>2, <1>4 DEF Wider

\* A query is freed.
Freed(f, c) == Restrict(f, DOMAIN f \ {c})

Fewer(f, c, g) ==
    /\ g \in QueryMaps /\ DOMAIN g = DOMAIN f \ {c}
    /\ \A x \in DOMAIN g : g[x] = f[x]

LEMMA FreedMap ==
    ASSUME NEW f \in QueryMaps, NEW c, NEW g, g = Freed(f, c)
    PROVE  Fewer(f, c, g)
<1>1. /\ DOMAIN f \subseteq Callers /\ \A x \in DOMAIN f : f[x] \in QueryRecs
  BY QueryMap
<1>2. /\ DOMAIN g = DOMAIN f \ {c} /\ g = [x \in DOMAIN g |-> g[x]]
      /\ \A x \in DOMAIN g : g[x] = f[x]
  BY DEF Restrict, Freed
<1>3. DOMAIN g \subseteq Callers /\ \A x \in DOMAIN g : g[x] \in QueryRecs
  BY <1>1, <1>2
<1>4. g \in QueryMaps
  BY <1>2, <1>3, QueryMap
<1> QED BY <1>2, <1>4 DEF Fewer

\* What it takes to be a map of datagrams.
LEMMA AskedMap ==
    \A f : f \in AskedMaps <=>
        /\ DOMAIN f \subseteq Ids \X Names /\ f = [x \in DOMAIN f |-> f[x]]
        /\ \A x \in DOMAIN f : f[x] \in 1..MaxCopies
<1>1. ASSUME NEW f, f \in AskedMaps
      PROVE  /\ DOMAIN f \subseteq Ids \X Names /\ f = [x \in DOMAIN f |-> f[x]]
             /\ \A x \in DOMAIN f : f[x] \in 1..MaxCopies
  <2>1. PICK D \in SUBSET (Ids \X Names) : f \in [D -> 1..MaxCopies]
    BY <1>1 DEF AskedMaps
  <2> QED BY <2>1
<1>2. ASSUME NEW f, DOMAIN f \subseteq Ids \X Names, f = [x \in DOMAIN f |-> f[x]],
             \A x \in DOMAIN f : f[x] \in 1..MaxCopies
      PROVE  f \in AskedMaps
  <2>1. f \in [DOMAIN f -> 1..MaxCopies] /\ DOMAIN f \in SUBSET (Ids \X Names)
    BY <1>2
  <2> QED BY <2>1 DEF AskedMaps
<1> QED BY <1>1, <1>2

\* A set of positions that is not empty has a greatest one.
LEMMA MaxIn ==
    ASSUME NEW n \in Nat, NEW T, T \subseteq 1..n, T # {}
    PROVE  Max(T) \in T
<1> DEFINE R == OpToRel(<, Nat)
           U == {n - x : x \in T}
<1>1. IsWellFoundedOn(R, Nat)
  BY NatLessThanWellFounded
<1>2. \A x, y \in Nat : <<y, x>> \in R <=> y < x
  BY DEF OpToRel
<1>3. U \subseteq Nat /\ U # {}
  <2>1. ASSUME NEW u \in U PROVE u \in Nat
    <3>1. PICK x \in T : u = n - x
      OBVIOUS
    <3>2. x \in 1..n
      OBVIOUS
    <3> QED BY <3>1, <3>2
  <2>2. PICK x : x \in T
    OBVIOUS
  <2>3. n - x \in U
    BY <2>2
  <2> HIDE DEF U
  <2> QED BY <2>1, <2>3
<1> HIDE DEF R
<1>4. PICK u \in U : \A y \in U : ~(<<y, u>> \in R)
  <2> HIDE DEF U
  <2> QED BY <1>1, <1>3, WFMin
<1>5. \A y \in U : u <= y
  <2>1. \A y \in U : y \in Nat /\ u \in Nat /\ ~(y < u)
    BY <1>2, <1>3, <1>4
  <2> HIDE DEF U
  <2> QED BY <2>1
<1>6. PICK x \in T : u = n - x
  OBVIOUS
<1>7. \A y \in T : x >= y
  <2> SUFFICES ASSUME NEW y \in T PROVE x >= y
    OBVIOUS
  <2>1. n - y \in U
    OBVIOUS
  <2>2. n - x <= n - y /\ x \in Nat /\ y \in Nat
    BY <1>5, <1>6, <2>1
  <2> QED BY <2>2
<1> QED
  BY <1>7 DEF Max
\* A position is taken out of a sequence.
LEMMA RemovedSlot ==
    ASSUME NEW sq \in Seq(Callers), NEW k \in 1..Len(sq), NEW t, t = RemoveAt(sq, k)
    PROVE  /\ t \in Seq(Callers) /\ Len(t) = Len(sq) - 1
           /\ \A i \in 1..Len(t) : t[i] = IF i < k THEN sq[i] ELSE sq[i + 1]
<1> DEFINE n == Len(sq)
           a == SubSeq(sq, 1, k - 1)
           b == SubSeq(sq, k + 1, n)
<1>0. n \in Nat /\ k \in 1..n /\ \A i \in 1..n : sq[i] \in Callers
  BY LenProperties
<1>3. t = a \o b
  BY DEF RemoveAt
<1> HIDE DEF n
<1>4. a \in Seq(Callers) /\ Len(a) = k - 1 /\ \A i \in 1..k - 1 : a[i] = sq[i]
  <2>1. 1 \in Int /\ k - 1 \in Int /\ \A i \in 1..k - 1 : sq[i] \in Callers
    BY <1>0
  <2>2. /\ a \in Seq(Callers) /\ Len(a) = IF 1 <= k - 1 THEN k - 1 - 1 + 1 ELSE 0
        /\ \A i \in 1..k - 1 - 1 + 1 : a[i] = sq[1 + i - 1]
    BY <2>1, SubSeqProperties
  <2> HIDE DEF a
  <2> QED BY <1>0, <2>2
<1>5. b \in Seq(Callers) /\ Len(b) = n - k /\ \A i \in 1..n - k : b[i] = sq[k + i]
  <2>1. k + 1 \in Int /\ n \in Int /\ \A i \in k + 1..n : sq[i] \in Callers
    BY <1>0
  <2>2. /\ b \in Seq(Callers) /\ Len(b) = IF k + 1 <= n THEN n - (k + 1) + 1 ELSE 0
        /\ \A i \in 1..n - (k + 1) + 1 : b[i] = sq[k + 1 + i - 1]
    BY <2>1, SubSeqProperties
  <2> HIDE DEF b
  <2>3. n - (k + 1) + 1 = n - k /\ \A i \in 1..n - k : k + 1 + i - 1 = k + i
    BY <1>0
  <2>4. Len(b) = n - k
    BY <1>0, <2>2
  <2>5. \A i \in 1..n - k : b[i] = sq[k + i]
    BY <2>2, <2>3
  <2> QED BY <2>2, <2>4, <2>5
<1> HIDE DEF a, b
<1>6. /\ t \in Seq(Callers) /\ Len(t) = Len(a) + Len(b)
      /\ \A i \in 1..Len(a) + Len(b) : t[i] = IF i <= Len(a) THEN a[i] ELSE b[i - Len(a)]
  <2>0. a \in Seq(Callers) /\ b \in Seq(Callers)
    BY <1>4, <1>5
  <2>9. /\ a \o b \in Seq(Callers) /\ Len(a \o b) = Len(a) + Len(b)
        /\ \A i \in 1..Len(a) + Len(b) : (a \o b)[i] = IF i <= Len(a) THEN a[i] ELSE b[i - Len(a)]
    BY <2>0, ConcatProperties
  <2> QED BY <1>3, <2>9
<1>7. Len(t) = n - 1
  BY <1>0, <1>4, <1>5, <1>6
<1>8. ASSUME NEW i \in 1..Len(t) PROVE t[i] = IF i < k THEN sq[i] ELSE sq[i + 1]
  <2>1. CASE i < k
    BY <1>0, <1>4, <1>5, <1>6, <1>7, <2>1
  <2>2. CASE ~(i < k)
    <3>1. t[i] = b[i - (k - 1)] /\ i - (k - 1) \in 1..n - k
      BY <1>0, <1>4, <1>5, <1>6, <1>7, <2>2
    <3>2. b[i - (k - 1)] = sq[k + (i - (k - 1))]
      BY <1>5, <3>1
    <3>3. k + (i - (k - 1)) = i + 1
      BY <1>0, <1>7
    <3> QED BY <2>2, <3>1, <3>2, <3>3
  <2> QED BY <2>1, <2>2
<1> QED BY <1>6, <1>7, <1>8 DEF n

\* dlinkDelete of a query that is on the list.
Less(sq, c) == RemoveAt(sq, Max({i \in DOMAIN sq : sq[i] = c}))

\* t is sq without its position k.
Gap(sq, t, k) ==
    /\ t \in Seq(Callers) /\ Len(t) = Len(sq) - 1
    /\ \A i \in 1..Len(t) : t[i] = IF i < k THEN sq[i] ELSE sq[i + 1]

LEMMA LessSlots ==
    ASSUME NEW sq \in Seq(Callers), Distinct(sq), NEW c, Holds(sq, c), NEW t, t = Less(sq, c)
    PROVE  \E k \in 1..Len(sq) : sq[k] = c /\ Gap(sq, t, k)
<1> DEFINE T == {i \in DOMAIN sq : sq[i] = c}
           k == Max(T)
<1>1. Len(sq) \in Nat /\ DOMAIN sq = 1..Len(sq)
  BY LenProperties
<1>2. T \subseteq 1..Len(sq) /\ T # {}
  BY <1>1 DEF Holds
<1>3. k \in T
  <2> HIDE DEF T
  <2> QED BY <1>1, <1>2, MaxIn
<1>4. k \in 1..Len(sq) /\ sq[k] = c
  BY <1>2, <1>3
<1>5. t = RemoveAt(sq, k)
  BY DEF Less
<1> HIDE DEF k, T
<1>6. /\ t \in Seq(Callers) /\ Len(t) = Len(sq) - 1
      /\ \A i \in 1..Len(t) : t[i] = IF i < k THEN sq[i] ELSE sq[i + 1]
  BY <1>4, <1>5, RemovedSlot
<1> QED BY <1>4, <1>6 DEF Gap

LEMMA LessParts ==
    ASSUME NEW sq \in Seq(Callers), Distinct(sq), NEW c, Holds(sq, c), NEW t, t = Less(sq, c)
    PROVE  /\ t \in Seq(Callers) /\ Distinct(t)
           /\ \A x : Holds(t, x) <=> Holds(sq, x) /\ x # c
           /\ \A i, j \in 1..Len(t) : i < j =>
                 \E a, b \in 1..Len(sq) : a < b /\ t[i] = sq[a] /\ t[j] = sq[b]
<1>1. PICK k \in 1..Len(sq) : sq[k] = c /\ Gap(sq, t, k)
  BY LessSlots
<1>2. Len(sq) \in Nat /\ \A i, j \in 1..Len(sq) : sq[i] = sq[j] => i = j
  BY LenProperties DEF Distinct
<1> USE DEF Gap
<1> DEFINE n == Len(sq)
           At(i) == IF i < k THEN i ELSE i + 1
<1>3. \A i \in 1..Len(t) : At(i) \in 1..n /\ t[i] = sq[At(i)] /\ At(i) # k
  BY <1>1, <1>2
<1>4. \A i, j \in 1..Len(t) : (i < j => At(i) < At(j)) /\ (At(i) = At(j) => i = j)
  BY <1>1, <1>2
<1>5. \A a \in 1..n : a # k => \E i \in 1..Len(t) : At(i) = a
  <2> SUFFICES ASSUME NEW a \in 1..n, a # k PROVE \E i \in 1..Len(t) : At(i) = a
    OBVIOUS
  <2>1. CASE a < k
    BY <1>1, <1>2, <2>1
  <2>2. CASE a > k
    <3>1. a - 1 \in 1..Len(t) /\ At(a - 1) = a
      BY <1>1, <1>2, <2>2
    <3> QED BY <3>1
  <2> QED BY <1>2, <2>1, <2>2
<1> HIDE DEF At
<1>6. Distinct(t)
  <2> SUFFICES ASSUME NEW i \in 1..Len(t), NEW j \in 1..Len(t), t[i] = t[j] PROVE i = j
    BY DEF Distinct
  <2>1. At(i) = At(j)
    BY <1>2, <1>3
  <2> QED BY <1>4, <2>1
<1>7. ASSUME NEW x PROVE Holds(t, x) <=> Holds(sq, x) /\ x # c
  <2>1. ASSUME Holds(t, x) PROVE Holds(sq, x) /\ x # c
    <3>1. PICK i \in 1..Len(t) : t[i] = x
      BY <2>1 DEF Holds
    <3>2. At(i) \in 1..n /\ sq[At(i)] = x /\ At(i) # k
      BY <1>3, <3>1
    <3> QED BY <1>1, <1>2, <3>2 DEF Holds
  <2>2. ASSUME Holds(sq, x), x # c PROVE Holds(t, x)
    <3>1. PICK a \in 1..n : sq[a] = x
      BY <2>2 DEF Holds
    <3>2. a # k
      BY <1>1, <2>2, <3>1
    <3>3. PICK i \in 1..Len(t) : At(i) = a
      BY <1>5, <3>2
    <3>4. t[i] = x
      BY <1>3, <3>1, <3>3
    <3> QED BY <3>4 DEF Holds
  <2> QED BY <2>1, <2>2
<1>8. ASSUME NEW i \in 1..Len(t), NEW j \in 1..Len(t), i < j
      PROVE  \E a, b \in 1..Len(sq) : a < b /\ t[i] = sq[a] /\ t[j] = sq[b]
  <2>1. At(i) \in 1..n /\ At(j) \in 1..n /\ At(i) < At(j) /\ t[i] = sq[At(i)] /\ t[j] = sq[At(j)]
    BY <1>3, <1>4, <1>8
  <2> QED BY <2>1
<1> QED BY <1>1, <1>6, <1>7, <1>8

\* dlinkAdd at the head.
AtHead(sq, c) == <<c>> \o sq

Headed(sq, c, t) ==
    /\ t \in Seq(Callers) /\ Len(t) = Len(sq) + 1 /\ Len(sq) \in Nat /\ t[1] = c
    /\ \A i \in 2..Len(t) : t[i] = sq[i - 1]
    /\ \A x : Holds(t, x) <=> Holds(sq, x) \/ x = c

LEMMA HeadParts ==
    ASSUME NEW sq \in Seq(Callers), NEW c \in Callers, NEW t, t = AtHead(sq, c)
    PROVE  Headed(sq, c, t)
<1>1. <<c>> \in Seq(Callers) /\ Len(<<c>>) = 1 /\ <<c>>[1] = c /\ Len(sq) \in Nat
  OBVIOUS
<1> DEFINE h == <<c>>
<1> HIDE DEF h
<1>2. /\ h \o sq \in Seq(Callers) /\ Len(h \o sq) = Len(h) + Len(sq)
      /\ \A i \in 1..Len(h) + Len(sq) : (h \o sq)[i] = IF i <= Len(h) THEN h[i] ELSE sq[i - Len(h)]
  BY <1>1, ConcatProperties DEF h
<1>3. t = h \o sq
  BY DEF h, AtHead
<1>4. /\ t \in Seq(Callers) /\ Len(t) = Len(sq) + 1 /\ t[1] = c
      /\ \A i \in 2..Len(t) : t[i] = sq[i - 1]
  BY <1>1, <1>2, <1>3 DEF h
<1>5. ASSUME NEW x PROVE Holds(t, x) <=> Holds(sq, x) \/ x = c
  <2>1. ASSUME Holds(t, x) PROVE Holds(sq, x) \/ x = c
    <3>1. PICK i \in 1..Len(t) : t[i] = x
      BY <2>1 DEF Holds
    <3>2. CASE i = 1
      BY <1>4, <3>1, <3>2
    <3>3. CASE i # 1
      <4>1. i - 1 \in 1..Len(sq) /\ i \in 2..Len(t)
        BY <1>1, <1>4, <3>3
      <4>2. sq[i - 1] = x
        BY <1>4, <3>1, <4>1
      <4> QED BY <4>1, <4>2 DEF Holds
    <3> QED BY <3>2, <3>3
  <2>2. ASSUME Holds(sq, x) PROVE Holds(t, x)
    <3>1. PICK i \in 1..Len(sq) : sq[i] = x
      BY <2>2 DEF Holds
    <3>2. i + 1 \in 2..Len(t) /\ i + 1 \in 1..Len(t) /\ i + 1 - 1 = i
      BY <1>1, <1>4
    <3>3. t[i + 1] = x
      BY <1>4, <3>1, <3>2
    <3> QED BY <3>2, <3>3 DEF Holds
  <2>3. 1 \in 1..Len(t) /\ t[1] = c
    BY <1>1, <1>4
  <2>4. ASSUME x = c PROVE Holds(t, x)
    BY <2>3, <2>4 DEF Holds
  <2> QED BY <2>1, <2>2, <2>4
<1> QED BY <1>1, <1>4, <1>5 DEF Headed
-----------------------------------------------------------------------------
(***************************************************************************)
(* Steps of the handlers.                                                  *)
(***************************************************************************)
LEMMA Parts ==
    ASSUME NEW s \in States
    PROVE  /\ s.query \in QueryMaps /\ s.lru \in Seq(Callers) /\ s.asked \in AskedMaps
           /\ s.event \in BOOLEAN /\ s.want \in [Callers -> Lookups \cup {NoName}]
           /\ s.got \in [Callers -> Gots]
BY DEF States

LEMMA PutLru ==
    ASSUME NEW s \in States, NEW x \in Seq(Callers), NEW t, t = [s EXCEPT !.lru = x]
    PROVE  /\ t \in States /\ t.lru = x /\ t.query = s.query /\ t.asked = s.asked
           /\ t.event = s.event /\ t.want = s.want /\ t.got = s.got
BY DEF States

LEMMA PutQuery ==
    ASSUME NEW s \in States, NEW x \in QueryMaps, NEW t, t = [s EXCEPT !.query = x]
    PROVE  /\ t \in States /\ t.query = x /\ t.lru = s.lru /\ t.asked = s.asked
           /\ t.event = s.event /\ t.want = s.want /\ t.got = s.got
BY DEF States

LEMMA PutAsked ==
    ASSUME NEW s \in States, NEW x \in AskedMaps, NEW t, t = [s EXCEPT !.asked = x]
    PROVE  /\ t \in States /\ t.asked = x /\ t.lru = s.lru /\ t.query = s.query
           /\ t.event = s.event /\ t.want = s.want /\ t.got = s.got
BY DEF States

LEMMA PutEvent ==
    ASSUME NEW s \in States, NEW x \in BOOLEAN, NEW t, t = [s EXCEPT !.event = x]
    PROVE  /\ t \in States /\ t.event = x /\ t.lru = s.lru /\ t.query = s.query
           /\ t.asked = s.asked /\ t.want = s.want /\ t.got = s.got
BY DEF States

\* What is neither the list nor a query stays.
SameRest(s, t) == t.asked = s.asked /\ t.event = s.event /\ t.want = s.want /\ t.got = s.got

\* A query is taken off the list.
LEMMA GoodUnqueued ==
    ASSUME NEW s, Good(s, {}), NEW c, Holds(s.lru, c), NEW t, t = Unqueued(s, c)
    PROVE  /\ Good(t, {c}) /\ SameRest(s, t) /\ t.query = s.query /\ t.lru = Less(s.lru, c)
           /\ c \in DOMAIN s.query /\ s.query[c].nsends > 0
           /\ \A x : Holds(t.lru, x) <=> Holds(s.lru, x) /\ x # c
<1> DEFINE u == Less(s.lru, c)
<1>1. /\ s \in States /\ s.lru \in Seq(Callers) /\ Distinct(s.lru)
      /\ Listed(s.query, s.lru, {}) /\ Sorted(s.query, s.lru) /\ Started(s.query, {})
  BY DEF Good, States, Listed
<1>2. t = [s EXCEPT !.lru = u]
  BY DEF Unqueued, Less
<1> HIDE DEF u
<1>3. /\ u \in Seq(Callers) /\ Distinct(u)
      /\ \A x : Holds(u, x) <=> Holds(s.lru, x) /\ x # c
      /\ \A i, j \in 1..Len(u) : i < j =>
            \E a, b \in 1..Len(s.lru) : a < b /\ u[i] = s.lru[a] /\ u[j] = s.lru[b]
  BY <1>1, LessParts DEF u
<1>4. /\ t \in States /\ t.lru = u /\ t.query = s.query /\ SameRest(s, t)
  <2>1. /\ t \in States /\ t.lru = u /\ t.query = s.query /\ t.asked = s.asked
        /\ t.event = s.event /\ t.want = s.want /\ t.got = s.got
    BY <1>1, <1>2, <1>3, PutLru
  <2> QED BY <2>1 DEF SameRest
<1>5. Listed(t.query, t.lru, {c})
  BY <1>1, <1>3, <1>4 DEF Listed
<1>6. Sorted(t.query, t.lru)
  <2> SUFFICES ASSUME NEW i \in 1..Len(u), NEW j \in 1..Len(u), i < j
               PROVE  s.query[u[i]].queued <= s.query[u[j]].queued
    BY <1>4 DEF Sorted
  <2>1. PICK a \in 1..Len(s.lru), b \in 1..Len(s.lru) : a < b /\ u[i] = s.lru[a] /\ u[j] = s.lru[b]
    BY <1>3
  <2> QED BY <1>1, <2>1 DEF Sorted
<1>7. Started(t.query, {c})
  BY <1>1, <1>4 DEF Started
<1>8. c \in DOMAIN s.query
  BY <1>1 DEF Listed
<1>9. s.query[c].nsends > 0
  BY <1>1, <1>8 DEF Started
<1>10. Named(t.query, t.want) /\ Once(t.query, t.want, t.got) /\ Right(t.want, t.got)
  BY <1>4 DEF Good, SameRest
<1> QED BY <1>3, <1>4, <1>5, <1>6, <1>7, <1>8, <1>9, <1>10 DEF Good, u

\* A query is put at the head of the list.
Linked(s, c) == [s EXCEPT !.lru = <<c>> \o @]

LEMMA GoodLinked ==
    ASSUME NEW s, NEW c, Good(s, {c}), s.query[c].queued = 0, s.query[c].nsends > 0,
           NEW t, t = Linked(s, c)
    PROVE  /\ Good(t, {}) /\ SameRest(s, t) /\ t.query = s.query
           /\ \A x : Holds(t.lru, x) <=> Holds(s.lru, x) \/ x = c
<1> DEFINE u == <<c>> \o s.lru
<1>1. /\ s \in States /\ s.lru \in Seq(Callers) /\ s.query \in QueryMaps
      /\ Listed(s.query, s.lru, {c}) /\ Sorted(s.query, s.lru) /\ Started(s.query, {c})
  BY DEF Good, States
<1>2. t = [s EXCEPT !.lru = u]
  BY DEF Linked
<1>3. c \in DOMAIN s.query /\ c \in Callers
  BY <1>1, QueryMap DEF Listed
<1> HIDE DEF u
<1>4. /\ u \in Seq(Callers) /\ Len(u) = Len(s.lru) + 1 /\ Len(s.lru) \in Nat /\ u[1] = c
      /\ \A i \in 2..Len(u) : u[i] = s.lru[i - 1]
      /\ \A x : Holds(u, x) <=> Holds(s.lru, x) \/ x = c
  <2>1. u = AtHead(s.lru, c)
    BY DEF u, AtHead
  <2>2. s.lru \in Seq(Callers) /\ c \in Callers
    BY <1>1, <1>3
  <2>3. Headed(s.lru, c, u)
    BY <2>1, <2>2, HeadParts
  <2> QED BY <2>3 DEF Headed
<1>5. /\ t \in States /\ t.lru = u /\ t.query = s.query /\ SameRest(s, t)
  <2>1. /\ t \in States /\ t.lru = u /\ t.query = s.query /\ t.asked = s.asked
        /\ t.event = s.event /\ t.want = s.want /\ t.got = s.got
    BY <1>1, <1>2, <1>4, PutLru
  <2> QED BY <2>1 DEF SameRest
<1>6. ~Holds(s.lru, c)
  BY <1>1 DEF Listed
<1>7. Distinct(u)
  <2> SUFFICES ASSUME NEW i \in 1..Len(u), NEW j \in 1..Len(u), u[i] = u[j] PROVE i = j
    BY DEF Distinct
  <2>1. \A k \in 2..Len(u) : u[k] # c /\ k - 1 \in 1..Len(s.lru)
    <3> SUFFICES ASSUME NEW k \in 2..Len(u) PROVE u[k] # c /\ k - 1 \in 1..Len(s.lru)
      OBVIOUS
    <3>1. k - 1 \in 1..Len(s.lru)
      BY <1>4
    <3> QED BY <1>4, <1>6, <3>1 DEF Holds
  <2>2. CASE i = 1 \/ j = 1
    <3>1. (i = 1 \/ i \in 2..Len(u)) /\ (j = 1 \/ j \in 2..Len(u))
      BY <1>4
    <3> QED BY <1>4, <2>1, <2>2, <3>1
  <2>3. CASE i # 1 /\ j # 1
    <3>1. i \in 2..Len(u) /\ j \in 2..Len(u)
      BY <1>4, <2>3
    <3>2. s.lru[i - 1] = s.lru[j - 1]
      BY <1>4, <3>1
    <3>3. i - 1 = j - 1
      BY <1>1, <2>1, <3>1, <3>2 DEF Listed, Distinct
    <3> QED BY <3>1, <3>3
  <2> QED BY <2>2, <2>3
<1>8. Listed(t.query, t.lru, {})
  BY <1>1, <1>4, <1>5, <1>7 DEF Listed
<1>9. Sorted(t.query, t.lru)
  <2> SUFFICES ASSUME NEW i \in 1..Len(u), NEW j \in 1..Len(u), i < j
               PROVE  s.query[u[i]].queued <= s.query[u[j]].queued
    BY <1>5 DEF Sorted
  <2>1. j \in 2..Len(u) /\ j - 1 \in 1..Len(s.lru) /\ u[j] = s.lru[j - 1]
    BY <1>4
  <2>2. CASE i = 1
    <3>1. u[j] \in DOMAIN s.query
      BY <1>1, <2>1 DEF Listed, Holds
    <3>2. s.query[u[j]].queued \in Nat
      BY <1>1, <3>1, QueryMap DEF QueryRecs
    <3>3. s.query[u[i]].queued = 0
      BY <1>4, <2>2
    <3> QED BY <3>2, <3>3
  <2>3. CASE i # 1
    <3>1. i - 1 \in 1..Len(s.lru) /\ u[i] = s.lru[i - 1] /\ i - 1 < j - 1
      BY <1>4, <2>1, <2>3
    <3> QED BY <1>1, <2>1, <3>1 DEF Sorted
  <2> QED BY <2>2, <2>3
<1>10. Started(t.query, {})
  BY <1>1, <1>5 DEF Started
<1>11. Named(t.query, t.want) /\ Once(t.query, t.want, t.got) /\ Right(t.want, t.got)
  BY <1>5 DEF Good, SameRest
<1> QED BY <1>4, <1>5, <1>8, <1>9, <1>10, <1>11 DEF Good

\* A query is changed, its callers stay.
Altered(s, c, q) == [s EXCEPT !.query = Changed(@, c, q)]

LEMMA GoodAltered ==
    ASSUME NEW s, NEW off, Good(s, off), NEW c \in DOMAIN s.query, NEW q \in QueryRecs,
           q.callers = s.query[c].callers, QueryOK(c, q, s.want),
           c \in off \/ (q.queued = s.query[c].queued /\ q.nsends > 0),
           NEW t, t = Altered(s, c, q)
    PROVE  /\ Good(t, off) /\ SameRest(s, t) /\ t.lru = s.lru
           /\ DOMAIN t.query = DOMAIN s.query /\ t.query[c] = q
           /\ \A x \in DOMAIN s.query : x # c => t.query[x] = s.query[x]
<1> DEFINE f == Changed(s.query, c, q)
<1>1. /\ s \in States /\ s.query \in QueryMaps
      /\ Listed(s.query, s.lru, off) /\ Sorted(s.query, s.lru) /\ Started(s.query, off)
      /\ Named(s.query, s.want) /\ Once(s.query, s.want, s.got) /\ Right(s.want, s.got)
  BY DEF Good, States
<1>2. t = [s EXCEPT !.query = f]
  BY DEF Altered
<1> HIDE DEF f
<1>3. /\ f \in QueryMaps /\ DOMAIN f = DOMAIN s.query /\ f[c] = q
      /\ \A x \in DOMAIN s.query : x # c => f[x] = s.query[x]
  BY <1>1, ChangedMap DEF f
<1>4. /\ t \in States /\ t.query = f /\ t.lru = s.lru /\ SameRest(s, t)
  <2>1. /\ t \in States /\ t.query = f /\ t.lru = s.lru /\ t.asked = s.asked
        /\ t.event = s.event /\ t.want = s.want /\ t.got = s.got
    BY <1>1, <1>2, <1>3, PutQuery
  <2> QED BY <2>1 DEF SameRest
<1>5. Listed(f, s.lru, off)
  BY <1>1, <1>3 DEF Listed
<1>6. Sorted(f, s.lru)
  <2>1. ASSUME NEW i \in 1..Len(s.lru) PROVE f[s.lru[i]].queued = s.query[s.lru[i]].queued
    <3>1. s.lru[i] \in DOMAIN s.query /\ s.lru[i] \notin off
      BY <1>1 DEF Listed, Holds
    <3>2. CASE s.lru[i] = c
      BY <1>3, <3>1, <3>2
    <3> QED BY <1>3, <3>1, <3>2
  <2> QED BY <1>1, <2>1 DEF Sorted
<1>7. Started(f, off)
  BY <1>1, <1>3 DEF Started
<1>8. Named(f, s.want)
  BY <1>1, <1>3 DEF Named
<1>9. \A x, d : Waits(f, x, d) <=> Waits(s.query, x, d)
  BY <1>3 DEF Waits
<1>10. Once(f, s.want, s.got)
  BY <1>1, <1>9 DEF Once
<1> QED
  BY <1>1, <1>3, <1>4, <1>5, <1>6, <1>7, <1>8, <1>10 DEF Good, SameRest
\* What is asked, and for whom, stays.
Kin(p, q) ==
    /\ q.name = p.name /\ q.orig = p.orig /\ q.search = p.search /\ q.callers = p.callers
    /\ q.stale => q.part

LEMMA KinOK ==
    ASSUME NEW c, NEW p, NEW q, NEW wants, QueryOK(c, p, wants), Kin(p, q)
    PROVE  QueryOK(c, q, wants)
BY DEF QueryOK, Kin

\* idnsTcpCleanup
LEMMA CleanedQuery ==
    ASSUME NEW p \in QueryRecs, NEW q, q = TcpCleanup(p)
    PROVE  /\ q \in QueryRecs /\ Kin(p, q) /\ q.tcp = "none" /\ q.nsends = p.nsends
           /\ q.queued = p.queued /\ q.id = p.id
<1>1. q = [p EXCEPT !.tcp = "none", !.stale = p.part]
  BY DEF TcpCleanup
<1>2. /\ q.tcp = "none" /\ q.stale = p.part /\ q.part = p.part /\ q.name = p.name
      /\ q.orig = p.orig /\ q.search = p.search /\ q.callers = p.callers
      /\ q.nsends = p.nsends /\ q.queued = p.queued /\ q.id = p.id
  BY <1>1 DEF QueryRecs
<1>3. q \in QueryRecs
  BY <1>1, Zenon DEF QueryRecs
<1> QED BY <1>2, <1>3 DEF Kin

\* The number of sendings stays positive.
LEMMA SendsCounted ==
    ASSUME NEW q \in QueryRecs, NEW send \in Sends(q)
    PROVE  Counted(q.nsends + send.tries) \in Nat \ {0}
<1> DEFINE left == Servers - (q.nsends % Servers)
<1>1. q.nsends \in Nat /\ Servers \in Nat \ {0} /\ MaxSends \in Nat /\ MaxSends >= Servers
  BY DnsAssumption DEF QueryRecs
<1>2. q.nsends % Servers \in 0..(Servers - 1)
  BY <1>1
<1>3. left \in 1..Servers
  BY <1>1, <1>2
<1>4. send.tries \in 1..left
  <2>1. CASE \E t \in 1..left : send = [tries |-> t, ok |-> TRUE]
    BY <2>1
  <2>2. CASE send = [tries |-> left, ok |-> FALSE]
    <3>1. send.tries = left
      BY <2>2
    <3> HIDE DEF left
    <3> QED BY <3>1, <1>3
  <2> QED BY <2>1, <2>2 DEF Sends
<1> HIDE DEF left
<1>5. send.tries \in Nat /\ send.tries >= 1
  BY <1>3, <1>4
<1> DEFINE n == q.nsends + send.tries
<1>6. n \in Nat /\ n >= 1
  BY <1>1, <1>5
<1> HIDE DEF n
<1>7. Counted(n) \in Nat \ {0}
  BY <1>1, <1>6 DEF Counted
<1> QED BY <1>7 DEF n

\* idnsSendQuery adds a datagram to those on the way.
LEMMA SentMap ==
    ASSUME NEW before \in AskedMaps, NEW q \in QueryRecs, NEW send
    PROVE  Sent(before, q, send) \in AskedMaps
<1> DEFINE m == <<q.id, q.name>>
           n == IF m \in DOMAIN before THEN before[m] ELSE 0
           g == With(before, m, n + 1)
<1>1. /\ DOMAIN before \subseteq Ids \X Names /\ \A x \in DOMAIN before : before[x] \in 1..MaxCopies
  BY AskedMap
<1>2. m \in Ids \X Names
  BY DEF QueryRecs
<1>3. MaxCopies \in Nat
  BY DnsAssumption
<1> HIDE DEF m
<1>4. ASSUME n < MaxCopies PROVE g \in AskedMaps
  <2>1. n + 1 \in 1..MaxCopies
    BY <1>1, <1>3, <1>4
  <2> HIDE DEF n
  <2>2. /\ DOMAIN g = DOMAIN before \cup {m} /\ g = [x \in DOMAIN g |-> g[x]]
        /\ \A x \in DOMAIN g : g[x] = n + 1 \/ (x \in DOMAIN before /\ g[x] = before[x])
    BY DEF With
  <2>3. DOMAIN g \subseteq Ids \X Names /\ \A x \in DOMAIN g : g[x] \in 1..MaxCopies
    BY <1>1, <1>2, <2>1, <2>2
  <2> HIDE DEF g
  <2> QED BY <2>2, <2>3, AskedMap
<1>5. (Sent(before, q, send) = g /\ n < MaxCopies) \/ Sent(before, q, send) = before
  BY DEF Sent, m
<1> QED BY <1>4, <1>5

LEMMA GoodAsked ==
    ASSUME NEW s, NEW off, Good(s, off), NEW x \in AskedMaps, NEW t, t = [s EXCEPT !.asked = x]
    PROVE  /\ Good(t, off) /\ t.lru = s.lru /\ t.query = s.query /\ t.event = s.event
           /\ t.want = s.want /\ t.got = s.got
<1>1. /\ t \in States /\ t.asked = x /\ t.lru = s.lru /\ t.query = s.query
      /\ t.event = s.event /\ t.want = s.want /\ t.got = s.got
  <2>1. s \in States
    BY DEF Good
  <2> QED BY <2>1, PutAsked
<1> QED BY <1>1 DEF Good

LEMMA GoodEvent ==
    ASSUME NEW s, NEW off, Good(s, off), NEW x \in BOOLEAN, NEW t, t = [s EXCEPT !.event = x]
    PROVE  /\ Good(t, off) /\ t.lru = s.lru /\ t.query = s.query /\ t.event = x
           /\ t.want = s.want /\ t.got = s.got
<1>1. /\ t \in States /\ t.event = x /\ t.lru = s.lru /\ t.query = s.query
      /\ t.asked = s.asked /\ t.want = s.want /\ t.got = s.got
  <2>1. s \in States
    BY DEF Good
  <2> QED BY <2>1, PutEvent
<1> QED BY <1>1 DEF Good

\* idnsTickleQueue
LEMMA GoodTickled ==
    ASSUME NEW s, NEW off, Good(s, off), NEW t, t = TickleQueue(s)
    PROVE  /\ Good(t, off) /\ t.lru = s.lru /\ t.query = s.query /\ (t.lru # <<>> => t.event = TRUE)
           /\ t.want = s.want /\ t.got = s.got
<1>1. CASE s.lru = <<>>
  BY <1>1 DEF TickleQueue
<1>2. CASE s.lru # <<>>
  <2>1. t = [s EXCEPT !.event = TRUE] /\ TRUE \in BOOLEAN
    BY <1>2 DEF TickleQueue
  <2>2. /\ Good(t, off) /\ t.lru = s.lru /\ t.query = s.query /\ t.event = TRUE
        /\ t.want = s.want /\ t.got = s.got
    BY <2>1, GoodEvent
  <2> QED BY <2>2
<1> QED BY <1>1, <1>2

\* A query off the list is changed and put back at the head.
LEMMA GoodQueued ==
    ASSUME NEW s, NEW c, Good(s, {c}), NEW q \in QueryRecs, Kin(s.query[c], q), q.nsends > 0,
           NEW t, t = Queued(s, c, q)
    PROVE  /\ Good(t, {}) /\ SameRest(s, t)
           /\ \A x : Holds(t.lru, x) <=> Holds(s.lru, x) \/ x = c
<1> DEFINE p == [q EXCEPT !.sent = 0, !.queued = 0]
           u == Altered(s, c, p)
<1>1. s \in States /\ c \in DOMAIN s.query /\ QueryOK(c, s.query[c], s.want)
  BY DEF Good, Listed, Named
<1>2. p \in QueryRecs /\ p.queued = 0 /\ p.nsends = q.nsends /\ Kin(q, p)
  <2>1. p \in QueryRecs
    BY DEF QueryRecs
  <2>2. /\ p.queued = 0 /\ p.nsends = q.nsends /\ p.name = q.name /\ p.orig = q.orig
        /\ p.search = q.search /\ p.callers = q.callers /\ p.part = q.part /\ p.stale = q.stale
    BY DEF QueryRecs
  <2> QED BY <2>1, <2>2 DEF Kin
<1>3. t = Linked(u, c)
  <2>1. t = [s EXCEPT !.query[c] = p, !.lru = <<c>> \o @]
    BY DEF Queued
  <2> HIDE DEF p
  <2> QED BY <2>1, <1>1 DEF Linked, Altered, Changed, States
<1> HIDE DEF p
<1>4. QueryOK(c, p, s.want) /\ p.callers = s.query[c].callers
  <2>1. Kin(s.query[c], p)
    BY <1>2 DEF Kin
  <2> QED BY <1>1, <2>1, KinOK DEF Kin
<1> HIDE DEF u
<1>5. /\ Good(u, {c}) /\ SameRest(s, u) /\ u.lru = s.lru /\ u.query[c] = p
  <2>1. u = Altered(s, c, p) /\ c \in {c}
    BY DEF u
  <2> QED BY <1>1, <1>2, <1>4, <2>1, GoodAltered
<1>6. u.query[c].queued = 0 /\ u.query[c].nsends > 0
  BY <1>2, <1>5
<1>7. /\ Good(t, {}) /\ SameRest(u, t)
      /\ \A x : Holds(t.lru, x) <=> Holds(u.lru, x) \/ x = c
  BY <1>3, <1>5, <1>6, GoodLinked
<1> QED BY <1>5, <1>7 DEF SameRest

\* idnsSendQuery
LEMMA GoodSendQuery ==
    ASSUME NEW s, NEW c, Good(s, {c}), NEW t \in SendQuery(s, c)
    PROVE  /\ Good(t, {}) /\ t.event = TRUE
           /\ \A x : Holds(t.lru, x) <=> Holds(s.lru, x) \/ x = c
<1>1. s \in States /\ c \in DOMAIN s.query /\ s.query[c] \in QueryRecs /\ s.asked \in AskedMaps
  <2>1. s \in States /\ c \in DOMAIN s.query
    BY DEF Good, Listed
  <2> QED BY <2>1, Parts, QueryMap
<1> DEFINE k == s.query[c]
           Tried(send) == [TcpCleanup(k) EXCEPT !.nsends = Counted(@ + send.tries)]
           Out(send) == [s EXCEPT !.asked = Sent(@, Tried(send), send)]
<1>2. PICK send \in Sends(k) : t = TickleQueue(Queued(Out(send), c, Tried(send)))
  BY Zenon DEF SendQuery
<1> DEFINE q == Tried(send)
           v == Out(send)
           w == Queued(v, c, q)
<1>3. q \in QueryRecs /\ Kin(k, q) /\ q.nsends > 0
  <2> DEFINE y == TcpCleanup(k)
             n == Counted(y.nsends + send.tries)
  <2>1. /\ y \in QueryRecs /\ Kin(k, y) /\ y.nsends = k.nsends
    BY <1>1, CleanedQuery
  <2>2. n \in Nat \ {0}
    BY <1>1, <2>1, SendsCounted
  <2>3. q = [y EXCEPT !.nsends = n]
    OBVIOUS
  <2> HIDE DEF y, n, q, k
  <2>4. q \in QueryRecs /\ q.nsends = n
    BY <2>1, <2>2, <2>3 DEF QueryRecs
  <2>5. /\ q.name = y.name /\ q.orig = y.orig /\ q.search = y.search
        /\ q.callers = y.callers /\ q.part = y.part /\ q.stale = y.stale
    BY <2>1, <2>3 DEF QueryRecs
  <2> QED BY <2>1, <2>2, <2>4, <2>5 DEF Kin
<1>4. v = [s EXCEPT !.asked = Sent(s.asked, q, send)]
  OBVIOUS
<1>5. t = TickleQueue(w)
  BY <1>2
<1> HIDE DEF q, v
<1>6. Sent(s.asked, q, send) \in AskedMaps
  BY <1>1, <1>3, SentMap
<1>7. /\ Good(v, {c}) /\ v.lru = s.lru /\ v.query = s.query
  BY <1>4, <1>6, GoodAsked
<1>8. Kin(v.query[c], q)
  BY <1>3, <1>7
<1>9. w = Queued(v, c, q)
  OBVIOUS
<1> HIDE DEF w, k
<1>10. /\ Good(w, {}) /\ \A x : Holds(w.lru, x) <=> Holds(v.lru, x) \/ x = c
  BY <1>3, <1>7, <1>8, <1>9, GoodQueued
<1>11. /\ Good(t, {}) /\ t.lru = w.lru /\ (t.lru # <<>> => t.event = TRUE)
  BY <1>5, <1>10, GoodTickled
<1>12. Holds(t.lru, c)
  BY <1>10, <1>11
<1>13. t.lru # <<>>
  BY <1>12 DEF Holds
<1> QED BY <1>7, <1>10, <1>11, <1>13
\* idnsCallback, for a query that is off the list.
Outcomes == {"error", "address"}
NameOf(s, c) == s.query[c].name

LEMMA GoodCallback ==
    ASSUME NEW s, NEW c, Good(s, {c}), NEW kind \in Outcomes,
           NEW t, t = Callback(s, c, kind, NameOf(s, c))
    PROVE  Good(t, {}) /\ t.lru = s.lru /\ t.event = s.event
<1> DEFINE q == s.query[c]
           Told(d) == [kind |-> kind, name |-> q.name, joined |-> d # c, calls |-> s.got[d].calls + 1]
           g == [d \in Callers |-> IF d \in q.callers THEN Told(d) ELSE s.got[d]]
           f == Freed(s.query, c)
<1>1. /\ s \in States /\ s.query \in QueryMaps /\ c \in DOMAIN s.query
      /\ Listed(s.query, s.lru, {c}) /\ Sorted(s.query, s.lru) /\ Started(s.query, {c})
      /\ Named(s.query, s.want) /\ Once(s.query, s.want, s.got) /\ Right(s.want, s.got)
      /\ s.got \in [Callers -> Gots]
  BY DEF Good, States, Listed
<1>2. q \in QueryRecs /\ QueryOK(c, q, s.want)
  BY <1>1, QueryMap DEF Named
<1>3. q.callers \subseteq Callers /\ q.name \in Names
  BY <1>2 DEF QueryRecs
<1>4. t = [s EXCEPT !.got = g, !.query = f]
  BY DEF Callback, Freed, NameOf
<1>5. ASSUME NEW d \in q.callers
      PROVE  d \in Callers /\ s.got[d].calls = 0 /\ s.want[d] # NoName
  <2>1. d \in Callers /\ Waits(s.query, d, c)
    BY <1>1, <1>3 DEF Waits
  <2>2. s.got[d].calls \in {0, 1}
    BY <1>1, <2>1 DEF Gots
  <2> QED BY <1>1, <2>1, <2>2 DEF Once
<1>6. ASSUME NEW d \in q.callers
      PROVE  /\ g[d] \in Gots /\ g[d].calls = 1 /\ g[d].kind = kind /\ g[d].name = q.name
             /\ g[d].joined <=> d # c
  <2> DEFINE j == d # c
  <2>1. g[d] = Told(d)
    BY <1>5
  <2>2. s.got[d].calls + 1 = 1
    BY <1>5
  <2>3. j \in BOOLEAN
    OBVIOUS
  <2>4. Told(d) = [kind |-> kind, name |-> q.name, joined |-> j, calls |-> 1]
    BY <2>2
  <2>5. kind \in {"none", "error", "address"} /\ q.name \in Names \cup {NoName} /\ 1 \in {0, 1}
    BY <1>3 DEF Outcomes
  <2>6. j <=> d # c
    OBVIOUS
  <2> HIDE DEF Told, q, j, g
  <2>7. Told(d) \in Gots
    BY <2>3, <2>4, <2>5 DEF Gots
  <2>8. Told(d).calls = 1 /\ Told(d).kind = kind /\ Told(d).name = q.name /\ Told(d).joined = j
    BY <2>4
  <2> QED BY <2>1, <2>6, <2>7, <2>8
<1>7. \A d \in Callers : d \notin q.callers => g[d] = s.got[d]
  OBVIOUS
<1>9. g \in [Callers -> Gots]
  <2>1. g = [d \in Callers |-> g[d]]
    OBVIOUS
  <2> HIDE DEF g, q, Told
  <2>2. \A d \in Callers : g[d] \in Gots
    BY <1>1, <1>6, <1>7
  <2> QED BY <2>1, <2>2
<1> HIDE DEF f, g, Told
<1>10. /\ f \in QueryMaps /\ DOMAIN f = DOMAIN s.query \ {c}
       /\ \A x \in DOMAIN f : f[x] = s.query[x]
  <2>1. f = Freed(s.query, c)
    BY DEF f
  <2>2. s.query \in QueryMaps
    BY <1>1
  <2>3. Fewer(s.query, c, f)
    BY <2>1, <2>2, FreedMap
  <2> QED BY <2>3 DEF Fewer
<1>11. /\ t \in States /\ t.query = f /\ t.got = g /\ t.lru = s.lru /\ t.event = s.event
       /\ t.want = s.want /\ t.asked = s.asked
  BY <1>1, <1>4, <1>9, <1>10 DEF States
<1> HIDE DEF q
<1>12. Listed(f, s.lru, {})
  BY <1>1, <1>10 DEF Listed
<1>13. Sorted(f, s.lru)
  <2>1. \A i \in 1..Len(s.lru) : s.lru[i] \in DOMAIN f
    BY <1>12 DEF Listed, Holds
  <2> QED BY <1>1, <1>10, <2>1 DEF Sorted
<1>14. Started(f, {})
  BY <1>1, <1>10 DEF Started
<1>15. Named(f, s.want)
  BY <1>1, <1>10 DEF Named
<1>16. \A x, d : Waits(f, x, d) <=> Waits(s.query, x, d) /\ d # c
  BY <1>10 DEF Waits
<1>17. \A x : x \in q.callers <=> Waits(s.query, x, c)
  BY <1>1 DEF Waits, q
<1>18. Once(f, s.want, g)
  <2> SUFFICES ASSUME NEW x \in Callers
               PROVE  /\ s.want[x] = NoName \/ g[x].calls = 1 => \A d : ~Waits(f, x, d)
                      /\ s.want[x] = NoName => g[x].calls = 0 /\ g[x].kind = "none"
                      /\ s.want[x] # NoName /\ g[x].calls = 0 => \E d : Waits(f, x, d)
                      /\ \A d, e : Waits(f, x, d) /\ Waits(f, x, e) => d = e
    BY DEF Once
  <2>0. /\ s.want[x] = NoName \/ s.got[x].calls = 1 => \A d : ~Waits(s.query, x, d)
        /\ s.want[x] = NoName => s.got[x].calls = 0 /\ s.got[x].kind = "none"
        /\ s.want[x] # NoName /\ s.got[x].calls = 0 => \E d : Waits(s.query, x, d)
        /\ \A d, e : Waits(s.query, x, d) /\ Waits(s.query, x, e) => d = e
    BY <1>1 DEF Once
  <2>1. CASE x \in q.callers
    <3>1. g[x].calls = 1 /\ s.want[x] # NoName /\ Waits(s.query, x, c)
      BY <1>5, <1>6, <1>17, <2>1
    <3>2. \A d : ~Waits(f, x, d)
      BY <1>16, <2>0, <3>1
    <3> QED BY <3>1, <3>2
  <2>2. CASE x \notin q.callers
    <3>1. g[x] = s.got[x] /\ ~Waits(s.query, x, c)
      BY <1>7, <1>17, <2>2
    <3>2. \A d : Waits(f, x, d) <=> Waits(s.query, x, d)
      BY <1>16, <3>1
    <3> QED BY <2>0, <3>1, <3>2
  <2> QED BY <2>1, <2>2
<1>19. Right(s.want, g)
  <2> SUFFICES ASSUME NEW x \in Callers, g[x].kind = "address"
               PROVE  \/ g[x].name \in Candidates(s.want[x])
                      \/ g[x].joined /\ \E n \in Searched : g[x].name \in Candidates(n)
    BY DEF Right
  <2>1. CASE x \in q.callers
    <3>1. g[x].name = q.name /\ (g[x].joined <=> x # c)
      BY <1>6, <2>1
    <3>2. CASE x = c
      BY <1>2, <3>1, <3>2 DEF QueryOK
    <3>3. CASE x # c
      BY <1>2, <2>1, <3>1, <3>3 DEF QueryOK
    <3> QED BY <3>2, <3>3
  <2>2. CASE x \notin q.callers
    BY <1>1, <1>7, <2>2 DEF Right
  <2> QED BY <2>1, <2>2
<1> QED
  BY <1>11, <1>12, <1>13, <1>14, <1>15, <1>18, <1>19 DEF Good

\* idnsRetryTcp
LEMMA GoodRetryTcp ==
    ASSUME NEW s, NEW c, Good(s, {c}), s.query[c].nsends > 0, NEW t, t = RetryTcp(s, c)
    PROVE  Good(t, {}) /\ t.event = s.event /\ Holds(t.lru, c)
<1>1. c \in DOMAIN s.query /\ s.query[c] \in QueryRecs
  <2>1. s \in States /\ c \in DOMAIN s.query
    BY DEF Good, Listed
  <2> QED BY <2>1, Parts, QueryMap
<1> DEFINE k == s.query[c]
           y == TcpCleanup(k)
           q == [y EXCEPT !.tcp = "connecting"]
<1>2. y \in QueryRecs /\ Kin(k, y) /\ y.nsends = k.nsends
  BY <1>1, CleanedQuery
<1>3. t = Queued(s, c, q)
  BY DEF RetryTcp
<1>4. q \in QueryRecs /\ Kin(k, q) /\ q.nsends = k.nsends
  <2> HIDE DEF y, k
  <2>1. q \in QueryRecs
    BY <1>2 DEF QueryRecs
  <2>2. /\ q.name = y.name /\ q.orig = y.orig /\ q.search = y.search /\ q.nsends = y.nsends
        /\ q.callers = y.callers /\ q.part = y.part /\ q.stale = y.stale
    BY <1>2 DEF QueryRecs
  <2> QED BY <1>2, <2>1, <2>2 DEF Kin
<1> HIDE DEF q
<1>5. /\ Good(t, {}) /\ SameRest(s, t)
      /\ \A x : Holds(t.lru, x) <=> Holds(s.lru, x) \/ x = c
  BY <1>3, <1>4, GoodQueued
<1> QED BY <1>5 DEF SameRest

\* A free id is an id.
LEMMA SomeID == ASSUME NEW s, NEW id \in QueryID(s) PROVE id \in Ids
BY DEF QueryID

\* A query that asks for q next.
Asks(p, q, wants, c) ==
    q \in QueryRecs /\ q.callers = p.callers /\ QueryOK(c, q, wants)

\* A new id, and the query is sent again.
LEMMA GoodAskAgain ==
    ASSUME NEW s, NEW c, Good(s, {c}), NEW q, Asks(s.query[c], q, s.want, c),
           NEW t \in AskAgain(s, c, q)
    PROVE  Good(t, {}) /\ t.event = TRUE
<1>1. s \in States /\ c \in DOMAIN s.query /\ q \in QueryRecs
  BY DEF Good, Listed, Asks
<1> DEFINE Renewed(id) == [q EXCEPT !.id = id, !.start = 0]
           From(id) == [s EXCEPT !.query[c] = Renewed(id)]
<1>2. PICK id \in QueryID(s) : t \in SendQuery(From(id), c)
  BY Zenon DEF AskAgain
<1> DEFINE p == Renewed(id)
           u == From(id)
<1>3. p \in QueryRecs /\ Kin(q, p)
  <2>1. p \in QueryRecs
    BY <1>1, SomeID DEF QueryRecs
  <2>2. /\ p.name = q.name /\ p.orig = q.orig /\ p.search = q.search
        /\ p.callers = q.callers /\ p.part = q.part /\ p.stale = q.stale
    BY <1>1 DEF QueryRecs
  <2> QED BY <2>1, <2>2 DEF Kin, Asks, QueryOK
<1>4. u = Altered(s, c, p)
  <2>1. u = [s EXCEPT !.query[c] = p]
    OBVIOUS
  <2> HIDE DEF p, u
  <2> QED BY <1>1, <2>1 DEF Altered, Changed, States
<1>5. t \in SendQuery(u, c)
  BY <1>2
<1> HIDE DEF p, u
<1>6. QueryOK(c, p, s.want) /\ p.callers = s.query[c].callers
  BY <1>3, KinOK DEF Asks, Kin
<1>7. Good(u, {c})
  <2>1. c \in {c}
    OBVIOUS
  <2> QED BY <1>1, <1>3, <1>4, <1>6, <2>1, GoodAltered
<1> QED BY <1>5, <1>7, GoodSendQuery
\* The search path makes a candidate of a name that is searched.
LEMMA NextCandidate ==
    ASSUME NEW n \in Searched, NEW k \in 1..Len(SearchPath)
    PROVE  Append(n, SearchPath[k]) \in Candidates(n)
<1>1. SearchPath \in Seq(Range(SearchPath))
  BY DnsAssumption
<1>2. SearchPath[k] \in Range(SearchPath)
  BY <1>1
<1> QED BY <1>2 DEF Candidates

LEMMA OwnCandidate == \A n : n \in Candidates(n)
BY DEF Candidates

LEMMA CandidateNamed == ASSUME NEW n \in Lookups, NEW x \in Candidates(n) PROVE x \in Names
BY DEF Names

\* The next name is one the query may ask for.
LEMMA AsksNext ==
    ASSUME NEW c, NEW q \in QueryRecs, NEW wants, QueryOK(c, q, wants), q.search,
           q.attempt < MaxAttempt, NEW p, p = NextName(q)
    PROVE  Asks(q, p, wants, c)
<1>1. /\ q.orig \in Searched /\ q.orig \in Lookups /\ q.attempt \in 0..MaxAttempt
      /\ q.domain \in 0..Len(SearchPath) /\ MaxAttempt \in Nat
  BY DnsAssumption DEF QueryOK, QueryRecs
<1>2. Len(SearchPath) \in Nat
  BY DnsAssumption, LenProperties
<1>3. CASE q.domain < Len(SearchPath)
  <2> DEFINE x == Append(q.orig, SearchPath[q.domain + 1])
             k == q.domain + 1
  <2>1. p = [q EXCEPT !.name = x, !.domain = k]
    BY <1>3 DEF NextName
  <2>2. k \in 1..Len(SearchPath) /\ k \in 0..Len(SearchPath)
    BY <1>1, <1>2, <1>3
  <2>3. x \in Candidates(q.orig)
    BY <1>1, <2>2, NextCandidate
  <2>4. x \in Names
    BY <1>1, <2>3, CandidateNamed
  <2> HIDE DEF x, k
  <2>5. p \in QueryRecs
    BY <2>1, <2>2, <2>4 DEF QueryRecs
  <2>6. /\ p.name = x /\ p.orig = q.orig /\ p.search = q.search /\ p.callers = q.callers
        /\ p.stale = q.stale /\ p.part = q.part
    BY <2>1 DEF QueryRecs
  <2>7. QueryOK(c, p, wants)
    BY <1>1, <2>3, <2>6 DEF QueryOK
  <2> QED BY <2>5, <2>6, <2>7 DEF Asks
<1>4. CASE ~(q.domain < Len(SearchPath))
  <2> DEFINE x == q.orig
             k == q.attempt + 1
  <2>1. p = [q EXCEPT !.name = x, !.attempt = k]
    BY <1>4 DEF NextName
  <2>2. k \in 0..MaxAttempt
    BY <1>1
  <2>3. x \in Candidates(q.orig)
    BY OwnCandidate
  <2>4. x \in Names
    BY <1>1, <2>3, CandidateNamed
  <2> HIDE DEF x, k
  <2>5. p \in QueryRecs
    BY <2>1, <2>2, <2>4 DEF QueryRecs
  <2>6. /\ p.name = x /\ p.orig = q.orig /\ p.search = q.search /\ p.callers = q.callers
        /\ p.stale = q.stale /\ p.part = q.part
    BY <2>1 DEF QueryRecs
  <2>7. QueryOK(c, p, wants)
    BY <1>1, <2>3, <2>6 DEF QueryOK
  <2> QED BY <2>5, <2>6, <2>7 DEF Asks
<1> QED BY <1>3, <1>4

\* The end of idnsGrokReply, for a query that is off the list.
LEMMA GoodAnswer ==
    ASSUME NEW s, NEW c, Good(s, {c}), s.query[c].nsends > 0, s.event = TRUE,
           NEW m, m.name = s.query[c].name, NEW t \in Answer(s, c, m)
    PROVE  Good(t, {}) /\ t.event = TRUE
<1> DEFINE q == s.query[c]
           more == [q EXCEPT !.attempt = @ + 1]
<1>1. q \in QueryRecs /\ QueryOK(c, q, s.want)
  <2>1. s \in States /\ c \in DOMAIN s.query
    BY DEF Good, Listed
  <2> QED BY <2>1, Parts, QueryMap DEF Good, Named
<1>2. \/ t = RetryTcp(s, c)
      \/ t \in AskAgain(s, c, more) /\ more.attempt < MaxAttempt
      \/ t \in AskAgain(s, c, NextName(q)) /\ q.search /\ q.attempt < MaxAttempt
      \/ \E kind \in Outcomes : t = Callback(s, c, kind, m.name)
  BY DEF Answer, Outcomes
<1>3. CASE t = RetryTcp(s, c)
  BY <1>3, GoodRetryTcp
<1>4. CASE t \in AskAgain(s, c, more) /\ more.attempt < MaxAttempt
  <2>1. q.attempt \in 0..MaxAttempt /\ MaxAttempt \in Nat
    BY <1>1, DnsAssumption DEF QueryRecs
  <2> DEFINE k == q.attempt + 1
  <2>2. more = [q EXCEPT !.attempt = k]
    OBVIOUS
  <2>3. more.attempt = k
    BY <1>1 DEF QueryRecs
  <2>4. k \in 0..MaxAttempt
    BY <1>4, <2>1, <2>3
  <2> HIDE DEF k, more, q
  <2>5. more \in QueryRecs
    BY <1>1, <2>2, <2>4 DEF QueryRecs
  <2>6. /\ more.name = q.name /\ more.orig = q.orig /\ more.search = q.search
        /\ more.callers = q.callers /\ more.stale = q.stale /\ more.part = q.part
    BY <1>1, <2>2 DEF QueryRecs
  <2>7. Asks(q, more, s.want, c)
    BY <1>1, <2>5, <2>6 DEF Asks, QueryOK
  <2>8. Asks(s.query[c], more, s.want, c)
    BY <2>7 DEF q
  <2>9. t \in AskAgain(s, c, more)
    BY <1>4
  <2> QED BY <2>8, <2>9, GoodAskAgain
<1>5. CASE t \in AskAgain(s, c, NextName(q)) /\ q.search /\ q.attempt < MaxAttempt
  <2> DEFINE p == NextName(q)
  <2>1. p = NextName(q) /\ t \in AskAgain(s, c, p)
    BY <1>5
  <2> HIDE DEF p
  <2>2. Asks(s.query[c], p, s.want, c)
    BY <1>1, <1>5, <2>1, AsksNext
  <2> QED BY <2>1, <2>2, GoodAskAgain
<1>6. CASE \E kind \in Outcomes : t = Callback(s, c, kind, m.name)
  <2>1. PICK kind \in Outcomes : t = Callback(s, c, kind, m.name)
    BY <1>6
  <2>3. m.name = NameOf(s, c)
    BY DEF NameOf
  <2>4. t = Callback(s, c, kind, NameOf(s, c))
    BY <2>1, <2>3
  <2>2. Good(t, {}) /\ t.lru = s.lru /\ t.event = s.event
    BY <2>4, GoodCallback
  <2> QED BY <2>2
<1> QED BY <1>2, <1>3, <1>4, <1>5, <1>6

LEMMA FoundQuery ==
    ASSUME NEW s, Good(s, {}), NEW id, FindQuery(s, id) # NoQuery
    PROVE  Holds(s.lru, FindQuery(s, id))
<1> DEFINE at == {i \in DOMAIN s.lru : s.query[s.lru[i]].id = id}
<1>1. s.lru \in Seq(Callers)
  BY Parts DEF Good
<1>2. Len(s.lru) \in Nat /\ DOMAIN s.lru = 1..Len(s.lru)
  BY <1>1, LenProperties
<1>3. at # {} /\ FindQuery(s, id) = s.lru[Max(at)]
  BY DEF FindQuery
<1>4. at \subseteq 1..Len(s.lru)
  BY <1>2
<1> HIDE DEF at
<1>5. Max(at) \in at
  BY <1>2, <1>3, <1>4, MaxIn
<1> QED BY <1>3, <1>4, <1>5 DEF Holds

\* idnsGrokReply
LEMMA ReadyGrokReply ==
    ASSUME NEW s, Ready(s), NEW m, NEW t \in GrokReply(s, m)
    PROVE  Ready(t)
<1> DEFINE c == FindQuery(s, m.id)
           u == Unqueued(s, c)
<1>1. CASE c = NoQuery \/ s.query[c].name # m.name
  BY <1>1 DEF GrokReply
<1>2. CASE ~(c = NoQuery \/ s.query[c].name # m.name)
  <2>1. t \in Answer(u, c, m)
    BY <1>2 DEF GrokReply
  <2>2. Holds(s.lru, c) /\ Good(s, {})
    BY <1>2, FoundQuery DEF Ready
  <2>3. s.event = TRUE
    BY <2>2 DEF Ready, Holds
  <2>4. u = Unqueued(s, c)
    OBVIOUS
  <2> HIDE DEF u, c
  <2>5. /\ Good(u, {c}) /\ SameRest(s, u) /\ u.query = s.query /\ s.query[c].nsends > 0
    BY <2>2, <2>4, GoodUnqueued
  <2>6. u.event = TRUE /\ m.name = u.query[c].name /\ u.query[c].nsends > 0
    BY <1>2, <2>3, <2>5 DEF SameRest
  <2>7. Good(t, {}) /\ t.event = TRUE
    BY <2>1, <2>5, <2>6, GoodAnswer
  <2> QED BY <2>7 DEF Ready
<1> QED BY <1>1, <1>2
\* One round of the timer's loop.
LEMMA GoodCheckQuery ==
    ASSUME NEW s, Good(s, {}), NEW c, Holds(s.lru, c), NEW t \in CheckQuery(s, c)
    PROVE  Good(t, {}) /\ \A x : Holds(s.lru, x) /\ x # c => Holds(t.lru, x)
<1> DEFINE u == Unqueued(s, c)
           k == s.query[c]
<1>1. u = Unqueued(s, c)
  OBVIOUS
<1>2. \/ t = Requeue(s, c)
      \/ t \in SendQuery(u, c)
      \/ t = Callback(u, c, "error", k.name)
  BY DEF CheckQuery
<1>3. s \in States /\ s.query \in QueryMaps
  BY Parts DEF Good
<1> HIDE DEF u
<1>4. /\ Good(u, {c}) /\ SameRest(s, u) /\ u.query = s.query /\ u.lru = Less(s.lru, c)
      /\ c \in DOMAIN s.query /\ s.query[c].nsends > 0
      /\ \A x : Holds(u.lru, x) <=> Holds(s.lru, x) /\ x # c
  BY <1>1, GoodUnqueued
<1>5. k \in QueryRecs /\ QueryOK(c, k, s.want)
  BY <1>3, <1>4, QueryMap DEF Good, Named
<1>6. CASE t = Requeue(s, c)
  <2> DEFINE p == [k EXCEPT !.queued = 0]
             v == Altered(u, c, p)
  <2>1. p \in QueryRecs /\ p.queued = 0 /\ p.nsends = k.nsends /\ Kin(k, p)
    <3>1. p \in QueryRecs /\ p.queued = 0 /\ p.nsends = k.nsends
      BY <1>5 DEF QueryRecs
    <3>2. /\ p.name = k.name /\ p.orig = k.orig /\ p.search = k.search
          /\ p.callers = k.callers /\ p.part = k.part /\ p.stale = k.stale
      BY <1>5 DEF QueryRecs
    <3> QED BY <1>5, <3>1, <3>2 DEF Kin, QueryOK
  <2>2. t = Linked(v, c)
    <3> DEFINE l == AtHead(u.lru, c)
    <3>0. u \in States
      BY <1>4 DEF Good
    <3>1. t = [s EXCEPT !.query[c] = p, !.lru = l]
      BY <1>3, <1>4, <1>6 DEF Requeue, u, AtHead, States
    <3>2. u = [s EXCEPT !.lru = u.lru]
      BY <1>3, <1>1 DEF Unqueued, States
    <3>3. Linked(v, c) = [v EXCEPT !.lru = l]
      BY <3>0 DEF Linked, Altered, States, AtHead
    <3>4. v = [u EXCEPT !.query[c] = p]
      BY <3>0 DEF Altered, Changed, States
    <3> HIDE DEF p, l, v
    <3> QED BY <1>3, <1>4, <3>0, <3>1, <3>2, <3>3, <3>4 DEF States
  <2> HIDE DEF p
  <2>3. QueryOK(c, p, u.want) /\ p.callers = u.query[c].callers /\ c \in DOMAIN u.query
    BY <1>4, <1>5, <2>1, KinOK DEF Kin, SameRest
  <2>4. v = Altered(u, c, p) /\ c \in {c}
    OBVIOUS
  <2> HIDE DEF v
  <2>5. Good(v, {c}) /\ v.lru = u.lru /\ v.query[c] = p
    BY <1>4, <2>1, <2>3, <2>4, GoodAltered
  <2>6. v.query[c].queued = 0 /\ v.query[c].nsends > 0
    BY <1>4, <2>1, <2>5
  <2>7. Good(t, {}) /\ \A x : Holds(t.lru, x) <=> Holds(v.lru, x) \/ x = c
    BY <2>2, <2>5, <2>6, GoodLinked
  <2> QED BY <1>4, <2>5, <2>7
<1>7. CASE t \in SendQuery(u, c)
  <2>1. /\ Good(t, {}) /\ \A x : Holds(t.lru, x) <=> Holds(u.lru, x) \/ x = c
    BY <1>4, <1>7, GoodSendQuery
  <2> QED BY <1>4, <2>1
<1>8. CASE t = Callback(u, c, "error", k.name)
  <2>1. k.name = NameOf(u, c) /\ "error" \in Outcomes
    BY <1>4 DEF NameOf, Outcomes
  <2>2. t = Callback(u, c, "error", NameOf(u, c))
    BY <1>8, <2>1
  <2>3. Good(t, {}) /\ t.lru = u.lru
    BY <1>4, <2>1, <2>2, GoodCallback
  <2> QED BY <1>4, <2>3
<1> QED BY <1>2, <1>6, <1>7, <1>8

(***************************************************************************)
(* The loop.  CheckEach is a recursive function; that there is one, and    *)
(* what its values have in common, is shown by the least round for which   *)
(* it fails.                                                               *)
(***************************************************************************)
\* What holds at 0 and goes on holding, holds for every number.
LEMMA NoLeast ==
    ASSUME NEW T, T \subseteq Nat, T # {}
    PROVE  \E n \in T : n = 0 \/ (n - 1 \in Nat /\ n - 1 \notin T)
<1> DEFINE R == OpToRel(<, Nat)
<1>1. IsWellFoundedOn(R, Nat)
  BY NatLessThanWellFounded
<1>2. \A x, y \in Nat : <<y, x>> \in R <=> y < x
  BY DEF OpToRel
<1> HIDE DEF R
<1>3. PICK n \in T : \A y \in T : ~(<<y, n>> \in R)
  BY <1>1, WFMin
<1>4. n \in Nat /\ \A y \in T : y \in Nat /\ ~(y < n)
  BY <1>2, <1>3
<1>5. CASE n # 0
  <2>1. n - 1 \in Nat /\ n - 1 < n
    BY <1>4, <1>5
  <2> QED BY <1>4, <2>1
<1> QED BY <1>5

Round(T, c) == UNION {CheckQuery(t, c) : t \in T}
Rounds(f, s, due, n) == f = [i \in 0..n |-> IF i = 0 THEN {s} ELSE Round(f[i - 1], due[i])]

LEMMA RoundsParts ==
    ASSUME NEW f, NEW s, NEW due, NEW n \in Nat, Rounds(f, s, due, n)
    PROVE  DOMAIN f = 0..n /\ f[0] = {s} /\ \A i \in 1..n : f[i] = Round(f[i - 1], due[i])
<1> DEFINE h == [i \in 0..n |-> IF i = 0 THEN {s} ELSE Round(f[i - 1], due[i])]
<1>1. f = h
  BY DEF Rounds
<1>2. DOMAIN h = 0..n /\ h[0] = {s} /\ \A i \in 1..n : h[i] = Round(f[i - 1], due[i])
  OBVIOUS
<1> HIDE DEF h
<1> QED BY <1>1, <1>2

LEMMA OneMoreRound ==
    ASSUME NEW s, NEW due, NEW n \in Nat, NEW f, Rounds(f, s, due, n)
    PROVE  \E g : Rounds(g, s, due, n + 1)
<1> DEFINE g == [i \in 0..(n + 1) |-> IF i = n + 1 THEN Round(f[n], due[n + 1]) ELSE f[i]]
<1>1. DOMAIN f = 0..n /\ f[0] = {s} /\ \A i \in 1..n : f[i] = Round(f[i - 1], due[i])
  BY RoundsParts
<1>2. /\ DOMAIN g = 0..(n + 1) /\ g[0] = {s}
      /\ \A i \in 1..n : g[i] = Round(g[i - 1], due[i])
      /\ g[n + 1] = Round(g[n], due[n + 1])
  BY <1>1
<1>3. g = [i \in 0..(n + 1) |-> g[i]]
  OBVIOUS
<1> HIDE DEF g
<1>4. ASSUME NEW i \in 0..(n + 1)
      PROVE  g[i] = IF i = 0 THEN {s} ELSE Round(g[i - 1], due[i])
  <2>1. i = 0 \/ i \in 1..n \/ i = n + 1
    OBVIOUS
  <2>2. n + 1 - 1 = n
    OBVIOUS
  <2> QED BY <1>2, <2>1, <2>2
<1>5. Rounds(g, s, due, n + 1)
  BY <1>3, <1>4 DEF Rounds
<1> QED BY <1>5

LEMMA RoundsExist ==
    ASSUME NEW s, NEW due
    PROVE  \A n \in Nat : \E f : Rounds(f, s, due, n)
<1> DEFINE T == {n \in Nat : ~\E f : Rounds(f, s, due, n)}
<1> SUFFICES ASSUME T # {} PROVE FALSE
  OBVIOUS
<1>1. T \subseteq Nat
  OBVIOUS
<1>2. PICK n \in T : n = 0 \/ (n - 1 \in Nat /\ n - 1 \notin T)
  <2> HIDE DEF T
  <2> QED BY <1>1, NoLeast
<1>3. CASE n = 0
  <2> DEFINE f == [i \in 0..0 |-> {s}]
  <2>1. f = [i \in 0..0 |-> IF i = 0 THEN {s} ELSE Round(f[i - 1], due[i])]
    OBVIOUS
  <2>2. Rounds(f, s, due, 0)
    BY <2>1 DEF Rounds
  <2> HIDE DEF f
  <2> QED BY <1>3, <2>2
<1>4. CASE n # 0
  <2>1. n - 1 \in Nat /\ \E f : Rounds(f, s, due, n - 1)
    BY <1>2, <1>4
  <2>2. PICK f : Rounds(f, s, due, n - 1)
    BY <2>1
  <2>3. \E g : Rounds(g, s, due, n - 1 + 1)
    BY <2>1, <2>2, OneMoreRound
  <2>4. n - 1 + 1 = n
    BY <1>1
  <2> QED BY <2>3, <2>4
<1> QED BY <1>3, <1>4

LEMMA CheckEachRounds ==
    ASSUME NEW s, NEW due, Len(due) \in Nat
    PROVE  \E f : Rounds(f, s, due, Len(due)) /\ CheckEach(s, due) = f[Len(due)]
<1>1. \E f : Rounds(f, s, due, Len(due))
  BY RoundsExist
<1> QED BY <1>1, Zenon DEF CheckEach, Rounds, Round
\* The queries due are on the list, each once.
LEMMA DueParts ==
    ASSUME NEW s, Good(s, {}), NEW due, due = Due(s)
    PROVE  /\ Len(due) \in Nat /\ \A i \in 1..Len(due) : Holds(s.lru, due[i])
           /\ Distinct(due)
<1> DEFINE l == s.lru
           n == Len(l)
           fresh == {i \in DOMAIN s.lru : s.query[s.lru[i]].queued < 1}
           from == IF fresh = {} THEN 1 ELSE Max(fresh) + 1
           tail == SubSeq(l, from, n)
<1>1. l \in Seq(Callers) /\ Distinct(l)
  BY Parts DEF Good, Listed
<1>2. n \in Nat /\ DOMAIN l = 1..n /\ \A i \in 1..n : l[i] \in Callers
  BY <1>1, LenProperties
<1>3. fresh \subseteq 1..n
  BY <1>2
<1>4. from \in 1..n + 1
  <2>1. CASE fresh = {}
    BY <1>2, <2>1
  <2>2. CASE fresh # {}
    <3>0. from = Max(fresh) + 1
      BY <2>2
    <3> HIDE DEF fresh, from, l, n
    <3>1. Max(fresh) \in fresh
      BY <1>2, <1>3, <2>2, MaxIn
    <3> DEFINE k == Max(fresh)
    <3>2. k \in 1..n /\ from = k + 1 /\ n \in Nat
      BY <1>2, <1>3, <3>0, <3>1
    <3> HIDE DEF k
    <3> QED BY <3>2
  <2> QED BY <2>1, <2>2
<1>5. due = Reverse(tail)
  BY DEF Due
<1> HIDE DEF from, fresh
<1>6. /\ Len(tail) = n + 1 - from /\ \A i \in 1..n + 1 - from : tail[i] = l[from + i - 1]
  <2> HIDE DEF n
  <2>1. from \in Int /\ n \in Int /\ \A i \in from..n : l[i] \in Callers
    BY <1>2, <1>4
  <2>2. /\ tail \in Seq(Callers) /\ Len(tail) = IF from <= n THEN n - from + 1 ELSE 0
        /\ \A i \in 1..n - from + 1 : tail[i] = l[from + i - 1]
    BY <2>1, SubSeqProperties
  <2>3. n - from + 1 = n + 1 - from
    BY <1>2, <1>4
  <2> HIDE DEF tail
  <2>4. Len(tail) = n + 1 - from
    BY <1>2, <1>4, <2>2
  <2> QED BY <2>2, <2>3, <2>4
<1> HIDE DEF tail, n, l
<1> DEFINE m == n + 1 - from
<1>7. m \in Nat
  BY <1>2, <1>4
<1>8. Len(due) = m /\ \A i \in 1..m : due[i] = l[from + (m - i)]
  <2>1. due = [i \in 1..m |-> tail[m - i + 1]]
    BY <1>5, <1>6 DEF Reverse
  <2> HIDE DEF m
  <2>2. DOMAIN due = 1..m
    BY <2>1
  <2>3. Len(due) = m
    BY <1>7, <2>1
  <2>4. ASSUME NEW i \in 1..m PROVE due[i] = l[from + (m - i)]
    <3>1. due[i] = tail[m - i + 1]
      BY <2>1
    <3>2. m - i + 1 \in 1..m
      BY <1>7
    <3>3. tail[m - i + 1] = l[from + (m - i + 1) - 1]
      BY <1>6, <3>2 DEF m
    <3>4. from + (m - i + 1) - 1 = from + (m - i)
      BY <1>4, <1>7
    <3> QED BY <3>1, <3>3, <3>4
  <2> QED BY <2>3, <2>4
<1>9. \A i \in 1..m : from + (m - i) \in 1..n
  BY <1>2, <1>4
<1>10. \A i, j \in 1..m : from + (m - i) = from + (m - j) => i = j
  BY <1>2, <1>4
<1> HIDE DEF m
<1>11. \A i \in 1..Len(due) : Holds(l, due[i])
  BY <1>8, <1>9 DEF Holds, n
<1>12. Distinct(due)
  <2> SUFFICES ASSUME NEW i \in 1..m, NEW j \in 1..m, due[i] = due[j] PROVE i = j
    BY <1>8 DEF Distinct
  <2>1. l[from + (m - i)] = l[from + (m - j)]
    BY <1>8
  <2>2. from + (m - i) = from + (m - j)
    BY <1>1, <1>9, <2>1 DEF Distinct, n
  <2> QED BY <1>10, <2>2
<1> QED BY <1>7, <1>8, <1>11, <1>12 DEF l

\* The loop of idnsCheckQueue: the queries not reached yet stay on the list.
Reached(t, due, n) == Good(t, {}) /\ \A j \in n + 1..Len(due) : Holds(t.lru, due[j])

LEMMA GoodCheckEach ==
    ASSUME NEW s, Good(s, {}), NEW due, Len(due) \in Nat, Distinct(due),
           \A i \in 1..Len(due) : Holds(s.lru, due[i]), NEW t \in CheckEach(s, due)
    PROVE  Good(t, {})
<1>1. PICK f : Rounds(f, s, due, Len(due)) /\ CheckEach(s, due) = f[Len(due)]
  BY CheckEachRounds
<1> DEFINE m == Len(due)
<1>2. DOMAIN f = 0..m /\ f[0] = {s} /\ \A i \in 1..m : f[i] = Round(f[i - 1], due[i])
  BY <1>1, RoundsParts
<1> DEFINE T == {n \in Nat : n <= m /\ ~\A u \in f[n] : Reached(u, due, n)}
<1>3. T = {}
  <2> SUFFICES ASSUME T # {} PROVE FALSE
    OBVIOUS
  <2>1. T \subseteq Nat
    OBVIOUS
  <2>2. PICK n \in T : n = 0 \/ (n - 1 \in Nat /\ n - 1 \notin T)
    <3> HIDE DEF T
    <3> QED BY <2>1, NoLeast
  <2>3. n \in Nat /\ n <= m
    OBVIOUS
  <2>4. PICK u \in f[n] : ~Reached(u, due, n)
    OBVIOUS
  <2>5. CASE n = 0
    <3>1. u = s
      BY <1>2, <2>4, <2>5
    <3> QED BY <2>4, <2>5, <3>1 DEF Reached
  <2>6. CASE n # 0
    <3>1. n - 1 \in Nat /\ n - 1 <= m /\ n \in 1..m
      BY <2>2, <2>3, <2>6
    <3>2. \A v \in f[n - 1] : Reached(v, due, n - 1)
      BY <2>2, <2>6, <3>1
    <3>3. u \in Round(f[n - 1], due[n])
      BY <1>2, <2>4, <3>1
    <3>4. PICK v \in f[n - 1] : u \in CheckQuery(v, due[n])
      BY <3>3 DEF Round
    <3>5. Good(v, {}) /\ \A j \in n..m : Holds(v.lru, due[j])
      <4>1. Reached(v, due, n - 1) /\ n - 1 + 1 = n
        BY <2>3, <3>2
      <4> QED BY <4>1 DEF Reached
    <3>6. Holds(v.lru, due[n])
      BY <3>1, <3>5
    <3>7. Good(u, {}) /\ \A x : Holds(v.lru, x) /\ x # due[n] => Holds(u.lru, x)
      BY <3>4, <3>5, <3>6, GoodCheckQuery
    <3>8. ASSUME NEW j \in n + 1..m PROVE Holds(u.lru, due[j])
      <4>1. j \in n..m /\ j \in 1..m /\ j # n
        BY <2>3, <3>1
      <4>2. due[j] # due[n]
        BY <3>1, <4>1 DEF Distinct
      <4> QED BY <3>5, <3>7, <4>1, <4>2
    <3> QED BY <2>4, <3>7, <3>8 DEF Reached
  <2> QED BY <2>5, <2>6
<1>4. m \in Nat /\ m <= m
  OBVIOUS
<1>5. \A u \in f[m] : Reached(u, due, m)
  BY <1>3, <1>4
<1> QED BY <1>1, <1>5 DEF Reached
-----------------------------------------------------------------------------
(***************************************************************************)
(* The actions.                                                            *)
(***************************************************************************)
LEMMA StateParts ==
    /\ S.query = query /\ S.lru = lru /\ S.asked = asked /\ S.event = event
    /\ S.want = want /\ S.got = got
BY DEF S

\* A state is the record of its parts.
LEMMA Whole ==
    ASSUME NEW t \in States
    PROVE  t = [query |-> t.query, lru |-> t.lru, asked |-> t.asked, event |-> t.event,
                want |-> t.want, got |-> t.got]
BY DEF States

LEMMA BecomesState ==
    ASSUME NEW t, Ready(t), Becomes(t)
    PROVE  Ready(S')
<1>1. t \in States
  BY DEF Ready, Good
<1>2. /\ query' = t.query /\ lru' = t.lru /\ asked' = t.asked /\ event' = t.event
      /\ want' = t.want /\ got' = t.got
  BY DEF Becomes
<1>3. S' = [query |-> t.query, lru |-> t.lru, asked |-> t.asked, event |-> t.event,
            want |-> t.want, got |-> t.got]
  BY <1>2 DEF S
<1>4. S' = t
  BY <1>1, <1>3, Whole
<1> QED BY <1>4

\* idnsCheckQueue
LEMMA CheckQueueReady == ASSUME Ready(S), CheckQueue PROVE Ready(S')
<1> DEFINE s == [S EXCEPT !.event = FALSE]
           due == Due(S)
<1>1. PICK t \in CheckEach(s, due) : Becomes(TickleQueue(t))
  BY DEF CheckQueue
<1>2. s = [S EXCEPT !.event = FALSE] /\ FALSE \in BOOLEAN /\ Good(S, {}) /\ due = Due(S)
  BY DEF Ready
<1> HIDE DEF s, due
<1>3. Good(s, {}) /\ s.lru = S.lru
  BY <1>2, GoodEvent
<1>4. /\ Len(due) \in Nat /\ \A i \in 1..Len(due) : Holds(S.lru, due[i])
      /\ Distinct(due)
  BY <1>2, DueParts
<1>5. Good(t, {})
  <2>1. \A i \in 1..Len(due) : Holds(s.lru, due[i])
    BY <1>3, <1>4
  <2> QED BY <1>1, <1>3, <1>4, <2>1, GoodCheckEach
<1> DEFINE u == TickleQueue(t)
<1>6. u = TickleQueue(t)
  OBVIOUS
<1> HIDE DEF u
<1>7. Good(u, {}) /\ (u.lru # <<>> => u.event = TRUE)
  BY <1>5, <1>6, GoodTickled
<1>8. Ready(u) /\ Becomes(u)
  BY <1>1, <1>6, <1>7 DEF Ready
<1> QED BY <1>8, BecomesState

\* A query of the list is changed; its callers and its place in time stay.
LEMMA ReadyAltered ==
    ASSUME NEW s, Ready(s), NEW c \in DOMAIN s.query, NEW q \in QueryRecs, Kin(s.query[c], q),
           q.queued = s.query[c].queued, q.nsends = s.query[c].nsends, NEW t, t = Altered(s, c, q)
    PROVE  Ready(t) /\ t.query[c] = q
<1>1. Good(s, {}) /\ QueryOK(c, s.query[c], s.want) /\ s.query[c].nsends > 0
  BY DEF Ready, Good, Named, Started
<1>2. QueryOK(c, q, s.want) /\ q.callers = s.query[c].callers
  BY <1>1, KinOK DEF Kin
<1>3. q.nsends > 0
  BY <1>1
<1>4. Good(t, {}) /\ SameRest(s, t) /\ t.lru = s.lru /\ t.query[c] = q
  BY <1>1, <1>2, <1>3, GoodAltered
<1> QED BY <1>4 DEF Ready, SameRest

LEMMA LiveQuery ==
    ASSUME Ready(S), NEW c \in Live(S)
    PROVE  /\ c \in DOMAIN query /\ query[c] \in QueryRecs /\ QueryOK(c, query[c], want)
           /\ S \in States
<1>1. S \in States /\ Listed(query, lru, {}) /\ Named(query, want)
  BY StateParts DEF Ready, Good
<1>2. query \in QueryMaps /\ lru \in Seq(Callers)
  BY <1>1, Parts, StateParts
<1>3. c \in Range(lru)
  BY StateParts DEF Live
<1>4. Holds(lru, c)
  <2>1. DOMAIN lru = 1..Len(lru)
    BY <1>2, LenProperties
  <2>2. PICK i \in DOMAIN lru : c = lru[i]
    BY <1>3 DEF Range
  <2> QED BY <2>1, <2>2 DEF Holds
<1>5. c \in DOMAIN query
  BY <1>1, <1>4 DEF Listed
<1> QED BY <1>1, <1>2, <1>5, QueryMap DEF Named

\* A step that changes one query and leaves all else alone.
LEMMA OneQueryReady ==
    ASSUME Ready(S), NEW c \in Live(S), NEW q \in QueryRecs, Kin(query[c], q),
           q.queued = query[c].queued, q.nsends = query[c].nsends,
           query' = Changed(query, c, q), UNCHANGED <<lru, asked, event, want, got>>
    PROVE  Ready(S')
<1> DEFINE t == Altered(S, c, q)
<1>1. c \in DOMAIN S.query /\ S \in States /\ S.query = query
  BY LiveQuery, StateParts
<1>2. Kin(S.query[c], q) /\ q.queued = S.query[c].queued /\ q.nsends = S.query[c].nsends
  BY <1>1
<1>3. t = Altered(S, c, q)
  OBVIOUS
<1>4. /\ t.query = Changed(query, c, q) /\ t.lru = lru /\ t.asked = asked /\ t.event = event
      /\ t.want = want /\ t.got = got
  BY DEF Altered, S
<1> HIDE DEF t
<1>5. Ready(t)
  BY <1>1, <1>2, <1>3, ReadyAltered
<1>6. Becomes(t)
  BY <1>4 DEF Becomes
<1> QED BY <1>5, <1>6, BecomesState

\* idnsSendTcpQuery
LEMMA SendTcpQueryReady == ASSUME Ready(S), NEW c \in Live(S), SendTcpQuery(c) PROVE Ready(S')
<1> DEFINE k == query[c]
           q == [k EXCEPT !.tcp = "reading"]
<1>1. c \in DOMAIN query /\ k \in QueryRecs /\ QueryOK(c, k, want) /\ S \in States
  BY LiveQuery
<1>2. query' = Changed(query, c, q) /\ UNCHANGED <<lru, asked, event, want, got>>
  <2>1. query' = [query EXCEPT ![c].tcp = "reading"] /\ UNCHANGED <<lru, asked, event, want, got>>
    BY DEF SendTcpQuery
  <2> QED BY <2>1, <1>1 DEF Changed
<1>3. q \in QueryRecs
  BY <1>1 DEF QueryRecs
<1>4. /\ q.name = k.name /\ q.orig = k.orig /\ q.search = k.search /\ q.callers = k.callers
      /\ q.part = k.part /\ q.stale = k.stale /\ q.queued = k.queued /\ q.nsends = k.nsends
  BY <1>1 DEF QueryRecs
<1> HIDE DEF q
<1>5. Kin(query[c], q)
  BY <1>1, <1>4 DEF Kin, QueryOK
<1> QED BY <1>2, <1>3, <1>4, <1>5, OneQueryReady

\* The connection fails.
LEMMA TcpFailsReady == ASSUME Ready(S), NEW c \in Live(S), TcpFails(c) PROVE Ready(S')
<1> DEFINE q == TcpCleanup(query[c])
<1>1. c \in DOMAIN query /\ query[c] \in QueryRecs
  BY LiveQuery
<1>2. query' = Changed(query, c, q) /\ UNCHANGED <<lru, asked, event, want, got>>
  BY DEF TcpFails, Changed
<1>3. q = TcpCleanup(query[c])
  OBVIOUS
<1> HIDE DEF q
<1>4. /\ q \in QueryRecs /\ Kin(query[c], q) /\ q.nsends = query[c].nsends
      /\ q.queued = query[c].queued
  BY <1>1, <1>3, CleanedQuery
<1> QED BY <1>2, <1>4, OneQueryReady

\* A query with a part of the answer.
LEMMA PartQuery ==
    ASSUME NEW k \in QueryRecs, NEW q, q = [k EXCEPT !.part = TRUE]
    PROVE  /\ q \in QueryRecs /\ Kin(k, q) /\ q.queued = k.queued /\ q.nsends = k.nsends
<1>1. /\ q.name = k.name /\ q.orig = k.orig /\ q.search = k.search /\ q.callers = k.callers
      /\ q.part = TRUE /\ q.stale = k.stale /\ q.queued = k.queued /\ q.nsends = k.nsends
  BY DEF QueryRecs
<1>2. q \in QueryRecs
  BY DEF QueryRecs
<1> QED BY <1>1, <1>2 DEF Kin

LEMMA ReadTcpPartReady == ASSUME Ready(S), NEW c \in Live(S), ReadTcpPart(c) PROVE Ready(S')
<1> DEFINE k == query[c]
           q == [k EXCEPT !.part = TRUE]
<1>1. c \in DOMAIN query /\ k \in QueryRecs
  BY LiveQuery
<1>2. query' = Changed(query, c, q) /\ UNCHANGED <<lru, asked, event, want, got>>
  <2>1. query' = [query EXCEPT ![c].part = TRUE] /\ UNCHANGED <<lru, asked, event, want, got>>
    BY DEF ReadTcpPart
  <2> QED BY <2>1, <1>1 DEF Changed
<1>3. q = [k EXCEPT !.part = TRUE]
  OBVIOUS
<1> HIDE DEF q
<1>4. q \in QueryRecs /\ Kin(query[c], q) /\ q.queued = query[c].queued /\ q.nsends = query[c].nsends
  BY <1>1, <1>3, PartQuery
<1> QED BY <1>2, <1>4, OneQueryReady

\* A query whose answer has been read from its connection.
LEMMA UnreadQuery ==
    ASSUME NEW k \in QueryRecs, NEW q, q = [k EXCEPT !.tcp = "unread", !.part = TRUE]
    PROVE  /\ q \in QueryRecs /\ Kin(k, q) /\ q.queued = k.queued /\ q.nsends = k.nsends
<1>1. /\ q.name = k.name /\ q.orig = k.orig /\ q.search = k.search /\ q.callers = k.callers
      /\ q.part = TRUE /\ q.stale = k.stale /\ q.queued = k.queued /\ q.nsends = k.nsends
  BY DEF QueryRecs
<1>2. q \in QueryRecs
  BY DEF QueryRecs
<1> QED BY <1>1, <1>2 DEF Kin

\* idnsReadTcp
LEMMA ReadTcpReady ==
    ASSUME Ready(S), NEW c \in Live(S), NEW kind, ReadTcp(c, kind)
    PROVE  Ready(S')
<1> DEFINE k == query[c]
           q == [k EXCEPT !.tcp = "unread", !.part = TRUE]
           s == [S EXCEPT !.query[c] = [@ EXCEPT !.tcp = "unread", !.part = TRUE]]
           M(d) == [id |-> query[d].id, name |-> query[d].name, kind |-> kind]
<1>1. c \in DOMAIN query /\ k \in QueryRecs /\ QueryOK(c, k, want) /\ S \in States
  BY LiveQuery
<1>2. Becomes(s) \/ \E d : \E t \in GrokReply(s, M(d)) : Becomes(t)
  BY DEF ReadTcp
<1>3. s = Altered(S, c, q)
  <2>1. S.query = query
    BY StateParts
  <2> QED BY <1>1, <2>1 DEF Altered, Changed, States
<1>4. q = [k EXCEPT !.tcp = "unread", !.part = TRUE]
  OBVIOUS
<1> HIDE DEF q, s, M
<1>5. q \in QueryRecs /\ Kin(k, q) /\ q.queued = k.queued /\ q.nsends = k.nsends
  BY <1>1, <1>4, UnreadQuery
<1>6. /\ c \in DOMAIN S.query /\ Kin(S.query[c], q) /\ q.queued = S.query[c].queued
      /\ q.nsends = S.query[c].nsends
  BY <1>1, <1>5, StateParts
<1>7. Ready(s)
  BY <1>3, <1>5, <1>6, ReadyAltered
<1>8. CASE Becomes(s)
  BY <1>7, <1>8, BecomesState
<1>9. CASE \E d : \E t \in GrokReply(s, M(d)) : Becomes(t)
  <2>1. PICK d : \E t \in GrokReply(s, M(d)) : Becomes(t)
    BY <1>9
  <2>2. PICK t \in GrokReply(s, M(d)) : Becomes(t)
    BY <2>1
  <2>3. Ready(t)
    <3>1. \A m : t \in GrokReply(s, m) => Ready(t)
      BY <1>7, ReadyGrokReply
    <3> QED BY <2>2, <3>1
  <2> QED BY <2>2, <2>3, BecomesState
<1> QED BY <1>2, <1>8, <1>9

\* idnsRead
LEMMA ReadReady ==
    ASSUME Ready(S), NEW m \in DOMAIN asked, NEW kind, Read(m, kind)
    PROVE  Ready(S')
<1> DEFINE x == IF asked[m] = 1 THEN Restrict(asked, DOMAIN asked \ {m})
                ELSE [asked EXCEPT ![m] = @ - 1]
           s == [S EXCEPT !.asked = x]
           a == [id |-> m[1], name |-> m[2], kind |-> kind]
<1>1. PICK t \in GrokReply(s, a) : Becomes(t)
  BY DEF Read
<1>2. asked \in AskedMaps /\ Good(S, {})
  BY Parts, StateParts DEF Ready, Good
<1>3. /\ DOMAIN asked \subseteq Ids \X Names /\ \A y \in DOMAIN asked : asked[y] \in 1..MaxCopies
  BY <1>2, AskedMap
<1>4. x \in AskedMaps
  <2>1. CASE asked[m] = 1
    <3>1. x = Restrict(asked, DOMAIN asked \ {m})
      BY <2>1
    <3>2. /\ DOMAIN x \subseteq DOMAIN asked /\ x = [y \in DOMAIN x |-> x[y]]
          /\ \A y \in DOMAIN x : x[y] = asked[y]
      BY <3>1 DEF Restrict
    <3> HIDE DEF x
    <3>3. DOMAIN x \subseteq Ids \X Names /\ \A y \in DOMAIN x : x[y] \in 1..MaxCopies
      BY <1>3, <3>2
    <3> QED BY <3>2, <3>3, AskedMap
  <2>2. CASE asked[m] # 1
    <3>1. x = [asked EXCEPT ![m] = @ - 1]
      BY <2>2
    <3>2. /\ DOMAIN x = DOMAIN asked /\ x = [y \in DOMAIN x |-> x[y]] /\ x[m] = asked[m] - 1
          /\ \A y \in DOMAIN x : y # m => x[y] = asked[y]
      BY <3>1
    <3>3. asked[m] - 1 \in 1..MaxCopies
      BY <1>3, <2>2, DnsAssumption
    <3> HIDE DEF x
    <3>4. DOMAIN x \subseteq Ids \X Names /\ \A y \in DOMAIN x : x[y] \in 1..MaxCopies
      BY <1>3, <3>2, <3>3
    <3> QED BY <3>2, <3>4, AskedMap
  <2> QED BY <2>1, <2>2
<1>5. s = [S EXCEPT !.asked = x]
  OBVIOUS
<1> HIDE DEF s, x, a
<1>6. Good(s, {}) /\ s.lru = S.lru /\ s.event = S.event
  BY <1>2, <1>4, <1>5, GoodAsked
<1>7. Ready(s)
  BY <1>6 DEF Ready
<1>8. Ready(t)
  BY <1>1, <1>7, ReadyGrokReply
<1> QED BY <1>1, <1>8, BecomesState
\* A lookup is made.
Wished(wants, c, name) == [wants EXCEPT ![c] = name]

\* A lookup joins the query d, or makes it.
Gains(qs, f, d, c) ==
    /\ DOMAIN f = DOMAIN qs \cup {d} /\ \A x \in DOMAIN qs : x # d => f[x] = qs[x]
    /\ \A x : x \in f[d].callers <=> Waits(qs, x, d) \/ x = c

LEMMA OneMoreCaller ==
    ASSUME NEW qs \in QueryMaps, NEW w \in [Callers -> Lookups \cup {NoName}], NEW gots,
           Named(qs, w), Once(qs, w, gots), Right(w, gots),
           NEW c \in Callers, w[c] = NoName, NEW name \in Lookups, NEW v, v = Wished(w, c, name),
           NEW d, NEW f, Gains(qs, f, d, c), QueryOK(d, f[d], v)
    PROVE  Named(f, v) /\ Once(f, v, gots) /\ Right(v, gots)
<1> USE DEF Gains
<1>1. v[c] = name /\ \A x \in Callers : x # c => v[x] = w[x]
  BY DEF Wished
<1>2. name # NoName
  BY DnsAssumption DEF NoName
<1>3. \A x : ~Waits(qs, c, x)
  BY DEF Once
<1>4. ASSUME NEW x, NEW y PROVE Waits(f, x, y) <=> Waits(qs, x, y) \/ (x = c /\ y = d)
  BY <1>4 DEF Waits
<1>5. Named(f, v)
  <2> SUFFICES ASSUME NEW x \in DOMAIN f, x # d PROVE QueryOK(x, f[x], v)
    BY DEF Named
  <2>1. x \in DOMAIN qs /\ f[x] = qs[x] /\ QueryOK(x, qs[x], w)
    BY DEF Named
  <2>2. c \notin qs[x].callers
    BY <1>3, <2>1 DEF Waits
  <2>3. qs[x].callers \subseteq Callers
    BY <2>1, QueryMap DEF QueryRecs
  <2>4. \A y \in qs[x].callers : v[y] = w[y]
    BY <1>1, <2>2, <2>3
  <2> DEFINE q == qs[x]
  <2>5. QueryOK(x, q, w) /\ \A y \in q.callers : v[y] = w[y]
    BY <2>1, <2>4
  <2> HIDE DEF q
  <2>6. QueryOK(x, q, v)
    BY <2>5 DEF QueryOK
  <2> QED BY <2>1, <2>6 DEF q
<1>6. Once(f, v, gots)
  <2> SUFFICES ASSUME NEW x \in Callers
               PROVE  /\ v[x] = NoName \/ gots[x].calls = 1 => \A y : ~Waits(f, x, y)
                      /\ v[x] = NoName => gots[x].calls = 0 /\ gots[x].kind = "none"
                      /\ v[x] # NoName /\ gots[x].calls = 0 => \E y : Waits(f, x, y)
                      /\ \A y, e : Waits(f, x, y) /\ Waits(f, x, e) => y = e
    BY DEF Once
  <2>1. CASE x = c
    <3>1. gots[x].calls = 0
      BY <2>1 DEF Once
    <3>2. \A y : Waits(f, x, y) <=> y = d
      BY <1>3, <1>4, <2>1
    <3> QED BY <1>1, <1>2, <2>1, <3>1, <3>2
  <2>2. CASE x # c
    <3>1. \A y : Waits(f, x, y) <=> Waits(qs, x, y)
      BY <1>4, <2>2
    <3> QED BY <1>1, <2>2, <3>1 DEF Once
  <2> QED BY <2>1, <2>2
<1>7. Right(v, gots)
  <2> SUFFICES ASSUME NEW x \in Callers, gots[x].kind = "address"
               PROVE  \/ gots[x].name \in Candidates(v[x])
                      \/ gots[x].joined /\ \E n \in Searched : gots[x].name \in Candidates(n)
    BY DEF Right
  <2>1. x # c
    BY DEF Once
  <2>2. v[x] = w[x]
    BY <1>1, <2>1
  <2> QED BY <2>2 DEF Right
<1> QED BY <1>5, <1>6, <1>7

\* The lookups of a state change, and its queries.
Turned(s, w, x) == [s EXCEPT !.want = w, !.query = x]

LEMMA PutWant ==
    ASSUME NEW s \in States, NEW x \in QueryMaps, NEW w \in [Callers -> Lookups \cup {NoName}],
           NEW t, t = Turned(s, w, x)
    PROVE  /\ t \in States /\ t.query = x /\ t.lru = s.lru /\ t.asked = s.asked
           /\ t.event = s.event /\ t.want = w /\ t.got = s.got
BY DEF States, Turned

\* A new query is one the lookup may make.
LEMMA FirstQuery ==
    ASSUME NEW c \in Callers, NEW name \in Lookups, NEW id \in Ids, NEW v, v[c] = name,
           NEW q, q = NewQuery(c, name, id)
    PROVE  q \in QueryRecs /\ QueryOK(c, q, v) /\ q.callers = {c}
<1> DEFINE x == IF name \in Searched /\ Len(name) = 1 THEN Append(name, SearchPath[1]) ELSE name
           b == name \in Searched
<1>1. q = [name |-> x, orig |-> name, id |-> id, nsends |-> 0, start |-> 0, sent |-> 0,
           queued |-> 0, attempt |-> 0, domain |-> 0, search |-> b,
           tcp |-> "none", part |-> FALSE, stale |-> FALSE, callers |-> {c}]
  BY Zenon DEF NewQuery
<1>2. Len(SearchPath) \in Nat /\ MaxAttempt \in Nat
  BY DnsAssumption, LenProperties
<1>3. x \in Candidates(name)
  <2>1. CASE name \in Searched /\ Len(name) = 1
    <3>1. SearchPath # <<>> /\ SearchPath \in Seq(Range(SearchPath))
      BY <2>1, DnsAssumption
    <3>2. 1 \in 1..Len(SearchPath)
      BY <3>1, EmptySeq, LenProperties
    <3>3. Append(name, SearchPath[1]) \in Candidates(name)
      BY <2>1, <3>2, NextCandidate
    <3> QED BY <2>1, <3>3
  <2>2. CASE ~(name \in Searched /\ Len(name) = 1)
    BY <2>2, OwnCandidate
  <2> QED BY <2>1, <2>2
<1>4. x \in Names
  BY <1>3, CandidateNamed
<1>5. b \in BOOLEAN /\ (b => name \in Searched)
  OBVIOUS
<1>6. 0 \in 0..MaxAttempt /\ 0 \in 0..Len(SearchPath) /\ 0 \in Nat /\ FALSE \in BOOLEAN
  BY <1>2
<1>7. {c} \in SUBSET Callers /\ "none" \in {"none", "connecting", "reading", "unread"}
  OBVIOUS
<1> HIDE DEF x, b
<1>8. q \in QueryRecs
  BY <1>1, <1>4, <1>5, <1>6, <1>7 DEF QueryRecs
<1>9. /\ q.name = x /\ q.orig = name /\ q.search = b /\ q.stale = FALSE /\ q.callers = {c}
  BY <1>1
<1>10. q.search => q.orig \in Searched
  BY <1>5, <1>9, Zenon
<1> QED BY <1>3, <1>8, <1>9, <1>10 DEF QueryOK
\* A lookup joins a query of the list.
JoinedBy(q, c) == [q EXCEPT !.callers = @ \cup {c}]

LEMMA JoinReady ==
    ASSUME NEW s, Ready(s), NEW c \in Callers, s.want[c] = NoName, NEW name \in Lookups,
           NEW d \in DOMAIN s.query, s.query[d].name = name,
           NEW q, q = JoinedBy(s.query[d], c),
           NEW t, t = Turned(s, Wished(s.want, c, name), Changed(s.query, d, q))
    PROVE  Ready(t)
<1> DEFINE k == s.query[d]
           f == Changed(s.query, d, q)
           v == Wished(s.want, c, name)
<1>1. /\ s \in States /\ Listed(s.query, s.lru, {}) /\ Sorted(s.query, s.lru)
      /\ Started(s.query, {}) /\ Named(s.query, s.want) /\ Once(s.query, s.want, s.got)
      /\ Right(s.want, s.got) /\ (s.lru # <<>> => s.event = TRUE)
  BY DEF Ready, Good
<1>2. s.query \in QueryMaps /\ s.want \in [Callers -> Lookups \cup {NoName}] /\ k \in QueryRecs
  BY <1>1, Parts, QueryMap
<1>3. q \in QueryRecs
  BY <1>2 DEF QueryRecs, JoinedBy
<1>4. /\ q.name = k.name /\ q.orig = k.orig /\ q.search = k.search /\ q.part = k.part
      /\ q.stale = k.stale /\ q.callers = k.callers \cup {c} /\ q.queued = k.queued
      /\ q.nsends = k.nsends
  BY <1>2 DEF QueryRecs, JoinedBy
<1>5. v \in [Callers -> Lookups \cup {NoName}] /\ v[c] = name /\ \A x \in Callers : x # c => v[x] = s.want[x]
  BY <1>2 DEF Wished
<1> HIDE DEF f, v
<1>6. /\ f \in QueryMaps /\ DOMAIN f = DOMAIN s.query /\ f[d] = q
      /\ \A x \in DOMAIN s.query : x # d => f[x] = s.query[x]
  <2>1. f = Changed(s.query, d, q)
    BY DEF f
  <2> QED BY <1>2, <1>3, <2>1, ChangedMap
<1>7. QueryOK(d, q, v)
  <2>1. QueryOK(d, k, s.want)
    BY <1>1 DEF Named
  <2>2. c \notin k.callers
    BY <1>1 DEF Once, Waits
  <2>3. k.callers \subseteq Callers
    BY <1>2 DEF QueryRecs
  <2>4. \A y \in k.callers : v[y] = s.want[y]
    BY <1>5, <2>2, <2>3
  <2>5. q.name \in Candidates(v[c])
    BY <1>4, <1>5, OwnCandidate
  <2>6. k.name = name
    OBVIOUS
  <2> HIDE DEF k
  <2> QED BY <1>4, <2>1, <2>2, <2>4, <2>5 DEF QueryOK
<1>8. Named(f, v) /\ Once(f, v, s.got) /\ Right(v, s.got)
  <2>1. \A x : x \in f[d].callers <=> Waits(s.query, x, d) \/ x = c
    BY <1>4, <1>6 DEF Waits
  <2>2. QueryOK(d, f[d], v) /\ v = Wished(s.want, c, name)
    BY <1>6, <1>7 DEF v
  <2>3. Gains(s.query, f, d, c)
    BY <1>6, <2>1 DEF Gains
  <2> DEFINE qs == s.query
             w == s.want
             g == s.got
  <2>4. /\ qs \in QueryMaps /\ w \in [Callers -> Lookups \cup {NoName}] /\ Named(qs, w)
        /\ Once(qs, w, g) /\ Right(w, g) /\ w[c] = NoName /\ v = Wished(w, c, name)
        /\ Gains(qs, f, d, c)
    BY <1>1, <1>2, <2>2, <2>3
  <2>5. Named(f, v) /\ Once(f, v, g) /\ Right(v, g)
    <3> HIDE DEF qs, w, g
    <3> QED BY <2>2, <2>4, OneMoreCaller
  <2> QED BY <2>5
<1>9. /\ t \in States /\ t.query = f /\ t.lru = s.lru /\ t.event = s.event /\ t.want = v
      /\ t.got = s.got
  <2>1. t = Turned(s, v, f)
    BY DEF v, f
  <2> QED BY <1>1, <1>5, <1>6, <2>1, PutWant
<1>10. Listed(f, s.lru, {})
  BY <1>1, <1>6 DEF Listed
<1>11. Sorted(f, s.lru)
  <2>1. ASSUME NEW i \in 1..Len(s.lru) PROVE f[s.lru[i]].queued = s.query[s.lru[i]].queued
    <3>1. s.lru[i] \in DOMAIN s.query
      BY <1>1 DEF Listed, Holds
    <3>2. CASE s.lru[i] = d
      BY <1>4, <1>6, <3>1, <3>2
    <3> QED BY <1>6, <3>1, <3>2
  <2> QED BY <1>1, <2>1 DEF Sorted
<1>12. Started(f, {})
  BY <1>1, <1>4, <1>6 DEF Started
<1> QED BY <1>1, <1>8, <1>9, <1>10, <1>11, <1>12 DEF Ready, Good

\* A lookup makes a query, off the list until it is sent.
LEMMA MadeGood ==
    ASSUME NEW s, Ready(s), NEW c \in Callers, s.want[c] = NoName, NEW name \in Lookups,
           NEW id \in Ids, NEW q, q = NewQuery(c, name, id),
           NEW t, t = Turned(s, Wished(s.want, c, name), With(s.query, c, q))
    PROVE  Good(t, {c})
<1> DEFINE f == With(s.query, c, q)
           v == Wished(s.want, c, name)
<1>1. /\ s \in States /\ Listed(s.query, s.lru, {}) /\ Sorted(s.query, s.lru)
      /\ Started(s.query, {}) /\ Named(s.query, s.want) /\ Once(s.query, s.want, s.got)
      /\ Right(s.want, s.got)
  BY DEF Ready, Good
<1>2. s.query \in QueryMaps /\ s.want \in [Callers -> Lookups \cup {NoName}]
  BY <1>1, Parts
<1>3. v \in [Callers -> Lookups \cup {NoName}] /\ v[c] = name
  BY <1>2 DEF Wished
<1> HIDE DEF f, v
<1>4. q \in QueryRecs /\ QueryOK(c, q, v) /\ q.callers = {c}
  BY <1>3, FirstQuery
<1>5. c \notin DOMAIN s.query
  <2>1. ~Waits(s.query, c, c)
    BY <1>1 DEF Once
  <2> QED BY <1>1, <2>1 DEF Named, QueryOK, Waits
<1>6. /\ f \in QueryMaps /\ DOMAIN f = DOMAIN s.query \cup {c} /\ f[c] = q
      /\ \A x \in DOMAIN s.query : x # c => f[x] = s.query[x]
  <2> DEFINE qs == s.query
  <2>1. f = With(qs, c, q) /\ qs \in QueryMaps
    BY <1>2 DEF f
  <2>2. Wider(qs, c, q, f)
    <3> HIDE DEF qs
    <3> QED BY <1>4, <2>1, WithMap
  <2> QED BY <2>2 DEF Wider
<1>7. Named(f, v) /\ Once(f, v, s.got) /\ Right(v, s.got)
  <2>1. \A x : x \in f[c].callers <=> Waits(s.query, x, c) \/ x = c
    BY <1>4, <1>5, <1>6 DEF Waits
  <2>2. QueryOK(c, f[c], v) /\ v = Wished(s.want, c, name)
    BY <1>4, <1>6 DEF v
  <2>3. Gains(s.query, f, c, c)
    BY <1>6, <2>1 DEF Gains
  <2> DEFINE qs == s.query
             w == s.want
             g == s.got
  <2>4. /\ qs \in QueryMaps /\ w \in [Callers -> Lookups \cup {NoName}] /\ Named(qs, w)
        /\ Once(qs, w, g) /\ Right(w, g) /\ w[c] = NoName /\ v = Wished(w, c, name)
        /\ Gains(qs, f, c, c)
    BY <1>1, <1>2, <2>2, <2>3
  <2>5. Named(f, v) /\ Once(f, v, g) /\ Right(v, g)
    <3> HIDE DEF qs, w, g
    <3> QED BY <2>2, <2>4, OneMoreCaller
  <2> QED BY <2>5
<1>8. t \in States /\ t.query = f /\ t.lru = s.lru /\ t.want = v /\ t.got = s.got
  <2>1. t = Turned(s, v, f)
    BY DEF v, f
  <2> QED BY <1>1, <1>3, <1>6, <2>1, PutWant
<1>9. Listed(f, s.lru, {c})
  BY <1>1, <1>5, <1>6 DEF Listed
<1>10. Sorted(f, s.lru)
  <2>1. ASSUME NEW i \in 1..Len(s.lru) PROVE f[s.lru[i]] = s.query[s.lru[i]]
    <3>1. s.lru[i] \in DOMAIN s.query
      BY <1>1 DEF Listed, Holds
    <3> QED BY <1>5, <1>6, <3>1
  <2> QED BY <1>1, <2>1 DEF Sorted
<1>11. Started(f, {c})
  BY <1>1, <1>6 DEF Started
<1> QED BY <1>7, <1>8, <1>9, <1>10, <1>11 DEF Good

\* idnsALookup, idnsPTRLookup
LEMMA ALookupReady == ASSUME Ready(S), NEW c \in Callers, ALookup(c) PROVE Ready(S')
<1> DEFINE Of(name) == [S EXCEPT !.want[c] = name]
<1>1. PICK name \in Lookups :
        \/ \E d \in ToJoin(Of(name), name) : Becomes([Of(name) EXCEPT !.query[d].callers = @ \cup {c}])
        \/ /\ ToJoin(Of(name), name) = {}
           /\ \E id \in QueryID(Of(name)) :
                \E t \in SendQuery([Of(name) EXCEPT !.query = With(@, c, NewQuery(c, name, id))], c) :
                    Becomes(t)
  BY Zenon DEF ALookup
<1> DEFINE s == Of(name)
           v == Wished(want, c, name)
<1>2. want[c] = NoName /\ S.want = want /\ S.query = query /\ S.lru = lru /\ S \in States
  BY StateParts DEF ALookup, Ready, Good
<1>3. s = [S EXCEPT !.want = v]
  BY <1>2 DEF Wished, States
<1>4. s.query = query /\ s.lru = lru
  BY <1>2, <1>3 DEF States
<1> HIDE DEF s, v
<1>5. CASE \E d \in ToJoin(s, name) : Becomes([s EXCEPT !.query[d].callers = @ \cup {c}])
  <2>1. PICK d \in ToJoin(s, name) : Becomes([s EXCEPT !.query[d].callers = @ \cup {c}])
    BY <1>5
  <2>2. d \in Live(S) /\ query[d].name = name
    BY <1>2, <1>4 DEF ToJoin, Live
  <2>3. d \in DOMAIN query /\ query[d] \in QueryRecs
    BY <2>2, LiveQuery
  <2> DEFINE q == JoinedBy(query[d], c)
             t == [s EXCEPT !.query[d].callers = @ \cup {c}]
             u == Turned(S, v, Changed(query, d, q))
  <2>4. t = u
    BY <1>2, <1>3, <1>4, <2>3 DEF Changed, States, Turned, JoinedBy
  <2>5. Becomes(u)
    BY <2>1, <2>4
  <2>6. Ready(u)
    <3>1. /\ u = Turned(S, Wished(S.want, c, name), Changed(S.query, d, q))
          /\ q = JoinedBy(S.query[d], c)
      BY <1>2 DEF v
    <3>2. S.want[c] = NoName /\ d \in DOMAIN S.query /\ S.query[d].name = name
      BY <1>2, <2>2, <2>3
    <3> HIDE DEF u, q
    <3> QED BY <3>1, <3>2, JoinReady
  <2> QED BY <2>5, <2>6, BecomesState
<1>6. CASE \E id \in QueryID(s) :
              \E t \in SendQuery([s EXCEPT !.query = With(@, c, NewQuery(c, name, id))], c) : Becomes(t)
  <2>1. PICK id \in QueryID(s) :
              \E t \in SendQuery([s EXCEPT !.query = With(@, c, NewQuery(c, name, id))], c) : Becomes(t)
    BY <1>6
  <2> DEFINE q == NewQuery(c, name, id)
             r == [s EXCEPT !.query = With(@, c, q)]
             u == Turned(S, v, With(query, c, q))
  <2>2. PICK t \in SendQuery(r, c) : Becomes(t)
    BY <2>1
  <2>3. id \in Ids
    BY SomeID
  <2>4. r = u
    <3> HIDE DEF q
    <3> QED BY <1>2, <1>3, <1>4 DEF States, Turned
  <2>5. Good(u, {c})
    <3>1. u = Turned(S, Wished(S.want, c, name), With(S.query, c, q))
      BY <1>2 DEF v
    <3>2. S.want[c] = NoName /\ q = NewQuery(c, name, id)
      BY <1>2
    <3> HIDE DEF u, q
    <3> QED BY <2>3, <3>1, <3>2, MadeGood
  <2>6. t \in SendQuery(u, c)
    BY <2>2, <2>4
  <2> HIDE DEF u
  <2>7. Good(t, {}) /\ t.event = TRUE
    BY <2>5, <2>6, GoodSendQuery
  <2>8. Ready(t)
    BY <2>7 DEF Ready
  <2> QED BY <2>2, <2>8, BecomesState
<1> QED BY <1>1, <1>5, <1>6 DEF s
\* A query as time passes.
Aged(q) ==
    [q EXCEPT !.start = Older(@, QueryTimeout), !.sent = Older(@, Backoff(q)), !.queued = Older(@, 1)]

LEMMA AgedQuery ==
    ASSUME NEW k \in QueryRecs, NEW q, q = Aged(k)
    PROVE  /\ q \in QueryRecs /\ q.queued = Older(k.queued, 1) /\ q.nsends = k.nsends
           /\ q.name = k.name /\ q.orig = k.orig /\ q.search = k.search /\ q.callers = k.callers
           /\ q.part = k.part /\ q.stale = k.stale
<1> DEFINE a == Older(k.start, QueryTimeout)
           b == Older(k.sent, Backoff(k))
           e == Older(k.queued, 1)
<1>1. k.start \in Nat /\ k.sent \in Nat /\ k.queued \in Nat
  BY DEF QueryRecs
<1>2. a \in Nat /\ b \in Nat /\ e \in Nat
  <2>1. \A n \in Nat : \A x : Older(n, x) \in Nat
    BY DEF Older
  <2> QED BY <1>1, <2>1
<1>3. q = [k EXCEPT !.start = a, !.sent = b, !.queued = e]
  BY DEF Aged
<1> HIDE DEF a, b
<1> SUFFICES /\ q \in QueryRecs /\ q.queued = e /\ q.nsends = k.nsends
             /\ q.name = k.name /\ q.orig = k.orig /\ q.search = k.search /\ q.callers = k.callers
             /\ q.part = k.part /\ q.stale = k.stale
  OBVIOUS
<1> HIDE DEF e
<1>4. q \in QueryRecs
  BY <1>2, <1>3 DEF QueryRecs
<1>5. q.queued = e /\ q.nsends = k.nsends /\ q.name = k.name /\ q.orig = k.orig
  BY <1>3 DEF QueryRecs
<1>6. q.search = k.search /\ q.callers = k.callers /\ q.part = k.part /\ q.stale = k.stale
  BY <1>3 DEF QueryRecs
<1> QED BY <1>4, <1>5, <1>6

\* Time passes: the queries keep their order.
LEMMA TickReady == ASSUME Ready(S), Tick PROVE Ready(S')
<1> DEFINE f == [c \in DOMAIN query |-> Aged(query[c])]
           t == [S EXCEPT !.query = f]
<1>1. /\ S \in States /\ Listed(query, lru, {}) /\ Sorted(query, lru)
      /\ Started(query, {}) /\ Named(query, want) /\ Once(query, want, got)
      /\ Right(want, got) /\ (lru # <<>> => event = TRUE)
  BY StateParts DEF Ready, Good
<1>2. query \in QueryMaps
  BY <1>1, Parts, StateParts
<1>3. DOMAIN query \subseteq Callers /\ \A x \in DOMAIN query : query[x] \in QueryRecs
  BY <1>2, QueryMap
<1>4. query' = f /\ UNCHANGED <<lru, asked, event, want, got>>
  BY DEF Tick, Aged
<1>5. DOMAIN f = DOMAIN query /\ f = [x \in DOMAIN f |-> f[x]]
  OBVIOUS
<1>6. \A x \in DOMAIN query : f[x] = Aged(query[x])
  OBVIOUS
<1> HIDE DEF f
<1>7. ASSUME NEW x \in DOMAIN query
      PROVE  /\ f[x] \in QueryRecs /\ f[x].queued = Older(query[x].queued, 1)
             /\ f[x].nsends = query[x].nsends /\ f[x].callers = query[x].callers
             /\ Kin(query[x], f[x])
  <2> DEFINE k == query[x]
             q == f[x]
  <2>1. k \in QueryRecs /\ q = Aged(k) /\ QueryOK(x, k, want)
    BY <1>1, <1>3, <1>6 DEF Named
  <2> SUFFICES /\ q \in QueryRecs /\ q.queued = Older(k.queued, 1) /\ q.nsends = k.nsends
               /\ q.callers = k.callers /\ Kin(k, q)
    OBVIOUS
  <2> HIDE DEF k, q
  <2>2. /\ q \in QueryRecs /\ q.queued = Older(k.queued, 1) /\ q.nsends = k.nsends
        /\ q.name = k.name /\ q.orig = k.orig /\ q.search = k.search /\ q.callers = k.callers
        /\ q.part = k.part /\ q.stale = k.stale
    BY <2>1, AgedQuery
  <2> QED BY <2>1, <2>2 DEF Kin, QueryOK
<1>8. f \in QueryMaps
  BY <1>3, <1>5, <1>7, QueryMap
<1>9. /\ t \in States /\ t.query = f /\ t.lru = lru /\ t.asked = asked
      /\ t.event = event /\ t.want = want /\ t.got = got
  BY <1>1, <1>8, PutQuery, StateParts
<1> HIDE DEF t
<1>10. Listed(f, lru, {})
  BY <1>1, <1>5 DEF Listed
<1>11. Sorted(f, lru)
  <2> SUFFICES ASSUME NEW i \in 1..Len(lru), NEW j \in 1..Len(lru), i < j
               PROVE  f[lru[i]].queued <= f[lru[j]].queued
    BY DEF Sorted
  <2>1. lru[i] \in DOMAIN query /\ lru[j] \in DOMAIN query
    BY <1>1 DEF Listed, Holds
  <2> DEFINE a == query[lru[i]].queued
             b == query[lru[j]].queued
  <2>2. a \in Nat /\ b \in Nat /\ a <= b
    BY <1>1, <1>3, <2>1 DEF QueryRecs, Sorted
  <2>3. f[lru[i]].queued = Older(a, 1) /\ f[lru[j]].queued = Older(b, 1)
    BY <1>7, <2>1
  <2> HIDE DEF a, b
  <2> QED BY <2>2, <2>3 DEF Older
<1>12. Started(f, {})
  BY <1>1, <1>5, <1>7 DEF Started
<1>13. Named(f, want)
  <2> SUFFICES ASSUME NEW x \in DOMAIN query PROVE QueryOK(x, f[x], want)
    BY <1>5 DEF Named
  <2>1. QueryOK(x, query[x], want) /\ Kin(query[x], f[x])
    BY <1>1, <1>7 DEF Named
  <2> QED BY <2>1, KinOK
<1>14. Once(f, want, got)
  <2>1. \A x, d : Waits(f, x, d) <=> Waits(query, x, d)
    BY <1>5, <1>7 DEF Waits
  <2> QED BY <1>1, <2>1 DEF Once
<1>15. Ready(t)
  BY <1>1, <1>9, <1>10, <1>11, <1>12, <1>13, <1>14 DEF Ready, Good
<1>16. Becomes(t)
  BY <1>4, <1>9 DEF Becomes
<1> QED BY <1>15, <1>16, BecomesState

LEMMA InitReady == ASSUME Init PROVE Ready(S)
<1>1. /\ query = <<>> /\ lru = <<>> /\ asked = <<>> /\ event = FALSE
      /\ want = [c \in Callers |-> NoName] /\ got = [c \in Callers |-> NotCalled]
  BY DEF Init
<1>2. DOMAIN <<>> = {} /\ Len(<<>>) = 0 /\ <<>> \in Seq(Callers) /\ <<>> = [x \in DOMAIN <<>> |-> <<>>[x]]
  OBVIOUS
<1>3. query \in QueryMaps /\ DOMAIN query = {}
  BY <1>1, <1>2, QueryMap
<1>4. asked \in AskedMaps
  BY <1>1, <1>2, AskedMap
<1>5. /\ NotCalled \in Gots /\ NotCalled.calls = 0 /\ NotCalled.kind = "none"
  <2>1. NotCalled.calls = 0 /\ NotCalled.kind = "none"
    BY DEF NotCalled
  <2>2. NotCalled \in Gots
    BY Zenon DEF NotCalled, Gots
  <2> QED BY <2>1, <2>2
<1>6. want \in [Callers -> Lookups \cup {NoName}] /\ got \in [Callers -> Gots] /\ event \in BOOLEAN
  <2>1. want \in [Callers -> Lookups \cup {NoName}]
    BY <1>1
  <2>2. got \in [Callers -> Gots]
    BY <1>1, <1>5
  <2> QED BY <1>1, <2>1, <2>2, Zenon
<1>7. S \in States
  <2>1. lru \in Seq(Callers)
    BY <1>1, <1>2
  <2> QED BY <1>3, <1>4, <1>6, <2>1 DEF S, States
<1>8. Listed(query, lru, {}) /\ Sorted(query, lru) /\ Started(query, {}) /\ Named(query, want)
  BY <1>1, <1>2, <1>3 DEF Listed, Sorted, Started, Named, Distinct, Holds
<1>9. Once(query, want, got)
  <2>1. \A x, d : ~Waits(query, x, d)
    BY <1>3 DEF Waits
  <2>2. \A c \in Callers : want[c] = NoName /\ got[c] = NotCalled
    BY <1>1
  <2> QED BY <1>5, <2>1, <2>2 DEF Once
<1>10. Right(want, got)
  <2>1. \A c \in Callers : got[c] = NotCalled
    BY <1>1
  <2> QED BY <1>5, <2>1 DEF Right
<1> QED BY <1>1, <1>7, <1>8, <1>9, <1>10, StateParts DEF Ready, Good

LEMMA NextReady == ASSUME IInv, Next PROVE IInv'
<1> SUFFICES ASSUME Ready(S) PROVE Ready(S')
  BY DEF IInv
<1>1. CASE \E c \in Callers : ALookup(c)
  BY <1>1, ALookupReady
<1>2. CASE \E m \in DOMAIN asked, kind \in Kinds : Read(m, kind)
  BY <1>2, ReadReady
<1>3. CASE \E c \in Live(S) : SendTcpQuery(c) \/ TcpFails(c) \/ ReadTcpPart(c)
  BY <1>3, SendTcpQueryReady, TcpFailsReady, ReadTcpPartReady
<1>4. CASE \E c \in Live(S), kind \in Kinds \ {"truncated"} : ReadTcp(c, kind)
  BY <1>4, ReadTcpReady
<1>5. CASE CheckQueue
  BY <1>5, CheckQueueReady
<1>6. CASE Tick
  BY <1>6, TickReady
<1> QED BY <1>1, <1>2, <1>3, <1>4, <1>5, <1>6 DEF Next

LEMMA StutterReady == ASSUME IInv, UNCHANGED vars PROVE IInv'
<1>1. S' = S
  BY DEF vars, S
<1> QED BY <1>1 DEF IInv
-----------------------------------------------------------------------------
(***************************************************************************)
(* The theorems.                                                           *)
(***************************************************************************)
\* Between two callbacks of the resolver every live query is on lru_list once,
\* in the order of queue_t, with a timer set, every lookup made waits for
\* exactly one query or has been called, and what a query asks for is a name
\* of the one it was made for (idnsALookup, idnsRead, idnsReadTcp,
\* idnsCheckQueue and the helpers they call keep it so).
THEOREM DnsInvariant == Spec => []IInv
<1>1. Init => IInv
  BY InitReady DEF IInv
<1>2. IInv /\ [Next]_vars => IInv'
  BY NextReady, StutterReady
<1> QED BY <1>1, <1>2, PTL DEF Spec
\* What the list holds is the range of lru.
LEMMA LiveRange ==
    ASSUME IInv
    PROVE  /\ lru \in Seq(Callers) /\ DOMAIN lru = 1..Len(lru) /\ Len(lru) \in Nat
           /\ DOMAIN query = Range(lru) /\ Distinct(lru)
<1>1. S \in States /\ Listed(query, lru, {})
  BY StateParts DEF IInv, Ready, Good
<1>2. lru \in Seq(Callers)
  BY <1>1, Parts, StateParts
<1>3. DOMAIN lru = 1..Len(lru) /\ Len(lru) \in Nat
  BY <1>2, LenProperties
<1>4. \A x : x \in Range(lru) <=> Holds(lru, x)
  BY <1>3 DEF Range, Holds
<1>5. \A x : x \in DOMAIN query <=> x \in Range(lru)
  BY <1>1, <1>4 DEF Listed
<1> QED BY <1>1, <1>2, <1>3, <1>5 DEF Listed

\* The list is as long as there are queries.
LEMMA LiveCount == ASSUME IInv PROVE Len(lru) = Cardinality(DOMAIN query)
<1>1. /\ lru \in Seq(Callers) /\ DOMAIN lru = 1..Len(lru) /\ Len(lru) \in Nat
      /\ DOMAIN query = Range(lru) /\ Distinct(lru)
  BY LiveRange
<1> DEFINE D == DOMAIN query
           n == Len(lru)
<1>2. lru \in [1..n -> D]
  BY <1>1 DEF Range
<1>3. \A a, b \in 1..n : lru[a] = lru[b] => a = b
  BY <1>1 DEF Distinct
<1>4. \A y \in D : \E a \in 1..n : lru[a] = y
  BY <1>1 DEF Range
<1>5. lru \in Bijection(1..n, D)
  BY <1>2, <1>3, <1>4 DEF Bijection, Injection, Surjection, IsInjective
<1>6. ExistsBijection(1..n, D)
  BY <1>5 DEF ExistsBijection
<1> HIDE DEF D, n
<1>7. n \in Nat
  BY <1>1 DEF n
<1>8. Cardinality(D) = n
  BY <1>6, <1>7, FS_CountingElements
<1> QED BY <1>8 DEF D, n

\* lru_list holds each live query once, a query's fields stay in their ranges
\* (attempt below MAX_ATTEMPT, domain within searchpath[], nsends counted from
\* the first sending), and each question has at most its copies under way.
THEOREM DnsTypes == Spec => []TypeOK
<1>1. IInv => TypeOK
  <2> SUFFICES ASSUME IInv PROVE TypeOK
    OBVIOUS
  <2>1. DOMAIN query = Range(lru) /\ Len(lru) = Cardinality(DOMAIN query)
    BY LiveRange, LiveCount
  <2>2. S \in States /\ Started(query, {}) /\ Named(query, want)
    BY StateParts DEF IInv, Ready, Good
  <2>3. query \in QueryMaps /\ asked \in AskedMaps /\ event \in BOOLEAN
    BY <2>2, Parts, StateParts
  <2>4. ASSUME NEW c \in DOMAIN query
        PROVE  /\ c \in query[c].callers /\ query[c].id \in Ids /\ query[c].nsends > 0
               /\ query[c].attempt \in 0..MaxAttempt /\ query[c].domain \in 0..Len(SearchPath)
               /\ query[c].tcp \in {"none", "connecting", "reading", "unread"}
               /\ query[c].stale => query[c].part
    <3>1. query[c] \in QueryRecs /\ QueryOK(c, query[c], want) /\ query[c].nsends > 0
      BY <2>2, <2>3, QueryMap DEF Named, Started
    <3>2. /\ query[c].id \in Ids /\ query[c].attempt \in 0..MaxAttempt
          /\ query[c].domain \in 0..Len(SearchPath)
          /\ query[c].tcp \in {"none", "connecting", "reading", "unread"}
      BY <3>1 DEF QueryRecs
    <3>3. c \in query[c].callers /\ (query[c].stale => query[c].part)
      BY <3>1 DEF QueryOK
    <3> QED BY <3>1, <3>2, <3>3
  <2>5. \A m \in DOMAIN asked : asked[m] \in 1..MaxCopies
    BY <2>3, AskedMap
  <2> QED BY <2>1, <2>3, <2>4, <2>5 DEF TypeOK
<1> QED BY <1>1, DnsInvariant, PTL

\* idnsGrokReply never gives a caller the address of another name: only of its
\* own or of one the search path makes of it, or, to who joined a query that
\* goes on through the search path, what that query finds.
THEOREM AnswersRight == Spec => []AnswerRight
<1>1. IInv => AnswerRight
  BY StateParts DEF IInv, Ready, Good, Right, AnswerRight
<1> QED BY <1>1, DnsInvariant, PTL

\* idnsCallback calls every lookup exactly once: until then it is with exactly
\* one query on lru_list, afterwards with none.
THEOREM LookupsCalledOnce == Spec => []CalledOnce
<1>1. IInv => CalledOnce
  <2> SUFFICES ASSUME IInv, NEW c \in Callers
               PROVE  Cardinality({d \in Range(lru) : c \in query[d].callers}) + got[c].calls
                        = IF want[c] = NoName THEN 0 ELSE 1
    BY DEF CalledOnce
  <2> DEFINE W == {d \in Range(lru) : c \in query[d].callers}
  <2>1. S \in States /\ Once(query, want, got)
    BY StateParts DEF IInv, Ready, Good
  <2>2. got[c].calls \in {0, 1}
    <3>1. got \in [Callers -> Gots]
      BY <2>1, Parts, StateParts
    <3> QED BY <3>1 DEF Gots
  <2>3. DOMAIN query = Range(lru)
    BY LiveRange
  <2>4. \A d : d \in W <=> Waits(query, c, d)
    BY <2>3 DEF Waits
  <2> HIDE DEF W
  <2>5. CASE want[c] = NoName
    <3>1. W = {} /\ got[c].calls = 0
      BY <2>1, <2>4, <2>5 DEF Once
    <3>2. Cardinality(W) = 0
      BY <3>1, FS_EmptySet
    <3> QED BY <2>5, <3>1, <3>2 DEF W
  <2>6. CASE want[c] # NoName /\ got[c].calls = 1
    <3>1. W = {}
      BY <2>1, <2>4, <2>6 DEF Once
    <3>2. Cardinality(W) = 0
      BY <3>1, FS_EmptySet
    <3> QED BY <2>6, <3>2 DEF W
  <2>7. CASE want[c] # NoName /\ got[c].calls = 0
    <3>1. PICK d : Waits(query, c, d)
      BY <2>1, <2>7 DEF Once
    <3>2. \A e : Waits(query, c, e) => e = d
      BY <2>1, <3>1 DEF Once
    <3>3. W = {d}
      BY <2>4, <3>1, <3>2
    <3>4. Cardinality(W) = 1
      BY <3>3, FS_Singleton
    <3> QED BY <2>7, <3>4 DEF W
  <2> QED BY <2>2, <2>5, <2>6, <2>7
<1> QED BY <1>1, DnsInvariant, PTL

\* No query is overlooked: the timer of idnsCheckQueue is set while a query is
\* out, also for one idnsRetryTcp put back, and lru_list is in the order of
\* queue_t, so that the loop may stop at the first query that is not due.
THEOREM NoneStaysOverlooked == Spec => []NoneOverlooked
<1>1. IInv => NoneOverlooked
  <2> SUFFICES ASSUME IInv PROVE NoneOverlooked
    OBVIOUS
  <2>1. Sorted(query, lru) /\ (lru # <<>> => event = TRUE)
    BY StateParts DEF IInv, Ready, Good
  <2>2. DOMAIN lru = 1..Len(lru)
    BY LiveRange
  <2>3. \A i, j \in DOMAIN lru : i < j => query[lru[i]].queued <= query[lru[j]].queued
    BY <2>1, <2>2 DEF Sorted
  <2>4. lru # <<>> => event
    BY <2>1, Zenon
  <2> QED BY <2>3, <2>4 DEF NoneOverlooked
<1> QED BY <1>1, DnsInvariant, PTL
=============================================================================
