--------------------------- MODULE ForwardProofs ----------------------------
(***************************************************************************)
(* Proofs about the forwarding of misses (Forward): connections are owned  *)
(* and counted, every request ends answered, no reply that a client could  *)
(* have seen is asked for again, and every step brings a request nearer to *)
(* its end, for any number of requests, peers and descriptors.             *)
(***************************************************************************)
EXTENDS Forward, SequenceTheorems, FiniteSetTheorems, WellFoundedInduction, TLAPS

(***************************************************************************)
(* The states the handlers work on.                                        *)
(***************************************************************************)
FwdRecs == [st : {"new", "select", "restart", "connect", "sent", "done"}, srv : Seq(Hosts),
            tries : Nat, origin : Nat, fd : Fds \cup {None}, err : BOOLEAN, dont : BOOLEAN]
EntRecs == [pend : BOOLEAN, hi : BOOLEAN, wait : BOOLEAN, bad : BOOLEAN, post : BOOLEAN,
            body : BOOLEAN, seen : BOOLEAN, abort : BOOLEAN,
            ans : {"none", "reply", "cut", "error", "abort", "assert"}]
ConnRecs == [use : {"closed", "serving", "pooled", "opening"}, host : Hosts]
States == [fwd : [Requests -> FwdRecs], ent : [Requests -> EntRecs], conn : [Fds -> ConnRecs],
           pool : [Hosts -> Seq(Fds)], open : [Peers -> Int], opening : [Peers -> Int],
           stopping : BOOLEAN]

(***************************************************************************)
(* Connections.  A handler may have taken some out of the hands of their   *)
(* owners for a while: the loose ones.                                     *)
(***************************************************************************)
Held(s) == [q \in Requests |-> s.fwd[q].fd]

Distinct(sq) == \A i, j \in 1..Len(sq) : sq[i] = sq[j] => i = j
Holds(sq, d) == \E i \in 1..Len(sq) : sq[i] = d

Owned(held, conns, pools, loose) ==
    /\ \A d \in loose : d \in Fds /\ conns[d].use = "serving"
    /\ \A q \in Requests : held[q] # None =>
          held[q] \in Fds \ loose /\ conns[held[q]].use = "serving"
    /\ \A q, r \in Requests : held[q] # None /\ held[q] = held[r] => q = r
    /\ \A d \in Fds \ loose : conns[d].use = "serving" => \E q \in Requests : held[q] = d
    /\ \A h \in Hosts : \A i \in 1..Len(pools[h]) :
          conns[pools[h][i]].use = "pooled" /\ conns[pools[h][i]].host = h
    /\ \A h \in Hosts : Distinct(pools[h])
    /\ \A d \in Fds : conns[d].use = "pooled" => Holds(pools[conns[d].host], d)

OpenTo(conns, p) == {d \in Fds : conns[d].use # "closed" /\ conns[d].host = p}
OpeningTo(conns, p) == {d \in Fds : conns[d].use = "opening" /\ conns[d].host = p}

Counted(conns, opens, openings) ==
    \A p \in Peers : /\ opens[p] = Cardinality(OpenTo(conns, p))
                     /\ openings[p] = Cardinality(OpeningTo(conns, p))

\* A state of the handlers in which the connections are in order.
Sound(s, loose) ==
    /\ s \in States
    /\ Owned(Held(s), s.conn, s.pool, loose)
    /\ Counted(s.conn, s.open, s.opening)
    /\ \A p \in Peers : s.opening[p] <= IdleWanted
-----------------------------------------------------------------------------
\* A set of numbers that is not empty has a least element.
LEMMA MinIn ==
    ASSUME NEW T, T \subseteq Nat, T # {}
    PROVE  Min(T) \in T
<1> DEFINE R == OpToRel(<, Nat)
<1>1. \E x \in T : \A y \in T : ~(<<y, x>> \in R)
  <2>1. IsWellFoundedOn(R, Nat)
    BY NatLessThanWellFounded
  <2> HIDE DEF R
  <2> QED BY <2>1, WFMin
<1>2. \A x, y \in Nat : <<y, x>> \in R <=> y < x
  BY DEF OpToRel
<1> HIDE DEF R
<1>3. \E x \in T : \A y \in T : x =< y
  <2>1. PICK x \in T : \A y \in T : ~(<<y, x>> \in R)
    BY <1>1
  <2>2. \A y \in T : ~(y < x) /\ x \in Nat /\ y \in Nat
    BY <1>2, <2>1
  <2>3. \A y \in T : x =< y
    BY <2>2
  <2> QED BY <2>3
<1> QED
  BY <1>3 DEF Min

\* A connection leaves the hands of its request.
LEMMA OwnedDetach ==
    ASSUME NEW held, NEW conns, NEW pools, NEW loose, Owned(held, conns, pools, loose),
           NEW r \in Requests, held[r] # None,
           NEW held2, held2[r] = None, \A q \in Requests \ {r} : held2[q] = held[q]
    PROVE  Owned(held2, conns, pools, loose \cup {held[r]}) /\ held[r] \notin loose
BY DEF Owned

\* A loose connection is given to a request that has none.
LEMMA OwnedAttach ==
    ASSUME NEW held, NEW conns, NEW pools, NEW loose, Owned(held, conns, pools, loose),
           NEW r \in Requests, held[r] = None, NEW d \in loose, d # None,
           NEW held2, held2[r] = d, \A q \in Requests \ {r} : held2[q] = held[q]
    PROVE  Owned(held2, conns, pools, loose \ {d})
<1>1. d \in Fds /\ conns[d].use = "serving"
  BY DEF Owned
<1>2. \A q \in Requests \ {r} : held2[q] # d
  BY DEF Owned
<1>3. \A q \in Requests : held2[q] # None =>
          held2[q] \in Fds \ (loose \ {d}) /\ conns[held2[q]].use = "serving"
  BY <1>1 DEF Owned
<1>4. \A q, x \in Requests : held2[q] # None /\ held2[q] = held2[x] => q = x
  BY <1>2 DEF Owned
<1>5. \A x \in Fds \ (loose \ {d}) : conns[x].use = "serving" => \E q \in Requests : held2[q] = x
  <2> SUFFICES ASSUME NEW x \in Fds \ (loose \ {d}), conns[x].use = "serving", x # d
               PROVE  \E q \in Requests : held2[q] = x
    OBVIOUS
  <2>1. PICK q \in Requests : held[q] = x
    BY DEF Owned
  <2>2. x # None => q # r
    BY <2>1
  <2> QED
    BY <2>1, <2>2, ForwardAssumption
<1> QED
  BY <1>1, <1>3, <1>4, <1>5 DEF Owned

\* A loose connection is closed.
LEMMA OwnedClose ==
    ASSUME NEW held, NEW conns \in [Fds -> ConnRecs], NEW pools \in [Hosts -> Seq(Fds)],
           NEW loose, Owned(held, conns, pools, loose), NEW d \in loose
    PROVE  Owned(held, [conns EXCEPT ![d] = Closed], pools, loose \ {d})
<1>1. d \in Fds /\ Closed.use = "closed"
  BY DEF Owned, Closed
<1>2. \A h \in Hosts : \A i \in 1..Len(pools[h]) : pools[h][i] \in Fds
  OBVIOUS
<1>3. conns[d].use = "serving" /\ \A x \in Fds \ {d} : [conns EXCEPT ![d] = Closed][x] = conns[x]
  BY <1>1 DEF Owned
<1>4. [conns EXCEPT ![d] = Closed][d] = Closed
  BY <1>1
<1> DEFINE c2 == [conns EXCEPT ![d] = Closed]
<1> HIDE DEF c2, Closed
<1> QED
  BY <1>1, <1>2, <1>3, <1>4 DEF Owned, c2

\* A descriptor that was closed serves, and is loose.
LEMMA OwnedOpen ==
    ASSUME NEW held, NEW conns \in [Fds -> ConnRecs], NEW pools \in [Hosts -> Seq(Fds)],
           NEW loose, Owned(held, conns, pools, loose), NEW d \in Fds,
           conns[d].use = "closed", NEW c \in ConnRecs, c.use = "serving"
    PROVE  Owned(held, [conns EXCEPT ![d] = c], pools, loose \cup {d}) /\ d \notin loose
<1> DEFINE c2 == [conns EXCEPT ![d] = c]
<1>1. c2[d] = c /\ \A x \in Fds \ {d} : c2[x] = conns[x]
  OBVIOUS
<1>2. \A h \in Hosts : \A i \in 1..Len(pools[h]) : pools[h][i] \in Fds
  OBVIOUS
<1>3. d \notin loose
  BY DEF Owned
<1>4. c2 = [conns EXCEPT ![d] = c]
  OBVIOUS
<1> HIDE DEF c2
<1>5. \A x \in loose \cup {d} : x \in Fds /\ c2[x].use = "serving"
  BY <1>1 DEF Owned
<1>6. \A q \in Requests : held[q] # None =>
          held[q] \in Fds \ (loose \cup {d}) /\ c2[held[q]].use = "serving"
  BY <1>1 DEF Owned
<1>7. \A x \in Fds \ (loose \cup {d}) : c2[x].use = "serving" => \E q \in Requests : held[q] = x
  BY <1>1 DEF Owned
<1>8. \A h \in Hosts : \A i \in 1..Len(pools[h]) :
          c2[pools[h][i]].use = "pooled" /\ c2[pools[h][i]].host = h
  BY <1>1, <1>2 DEF Owned
<1>9. \A x \in Fds : c2[x].use = "pooled" => Holds(pools[c2[x].host], x)
  BY <1>1 DEF Owned
<1>10. Owned(held, c2, pools, loose \cup {d})
  BY <1>5, <1>6, <1>7, <1>8, <1>9 DEF Owned
<1> QED
  BY <1>3, <1>4, <1>10

\* A descriptor that was closed is being opened for the pool.
LEMMA OwnedOpening ==
    ASSUME NEW held, NEW conns \in [Fds -> ConnRecs], NEW pools \in [Hosts -> Seq(Fds)],
           NEW loose, Owned(held, conns, pools, loose), NEW d \in Fds,
           conns[d].use = "closed", NEW c \in ConnRecs, c.use = "opening"
    PROVE  Owned(held, [conns EXCEPT ![d] = c], pools, loose)
<1> DEFINE c2 == [conns EXCEPT ![d] = c]
<1>1. c2[d] = c /\ \A x \in Fds \ {d} : c2[x] = conns[x]
  OBVIOUS
<1>2. \A h \in Hosts : \A i \in 1..Len(pools[h]) : pools[h][i] \in Fds
  OBVIOUS
<1> HIDE DEF c2
<1> QED
  BY <1>1, <1>2 DEF Owned, c2

\* A connection that was being opened for the pool is taken out, to serve.
LEMMA OwnedUnopen ==
    ASSUME NEW held, NEW conns \in [Fds -> ConnRecs], NEW pools \in [Hosts -> Seq(Fds)],
           NEW loose, Owned(held, conns, pools, loose), NEW d \in Fds,
           conns[d].use = "opening", NEW c \in ConnRecs, c.use = "serving"
    PROVE  Owned(held, [conns EXCEPT ![d] = c], pools, loose \cup {d}) /\ d \notin loose
<1> DEFINE c2 == [conns EXCEPT ![d] = c]
<1>1. c2[d] = c /\ \A x \in Fds \ {d} : c2[x] = conns[x]
  OBVIOUS
<1>2. \A h \in Hosts : \A i \in 1..Len(pools[h]) : pools[h][i] \in Fds
  OBVIOUS
<1> HIDE DEF c2
<1> QED
  BY <1>1, <1>2 DEF Owned, c2

\* The connections when one of them is idle, and the pools with it.
Idle(conns, d) == [conns EXCEPT ![d] = [use |-> "pooled", host |-> conns[d].host]]
Grown(pools, h, d) == [pools EXCEPT ![h] = Append(pools[h], d)]

\* A loose connection goes to the pool of its host.
LEMMA OwnedPush ==
    ASSUME NEW held, NEW conns \in [Fds -> ConnRecs], NEW pools \in [Hosts -> Seq(Fds)],
           NEW loose, Owned(held, conns, pools, loose), NEW d \in loose
    PROVE  /\ Owned(held, Idle(conns, d), Grown(pools, conns[d].host, d), loose \ {d})
           /\ Grown(pools, conns[d].host, d) \in [Hosts -> Seq(Fds)]
<1> DEFINE c == [use |-> "pooled", host |-> conns[d].host]
           c2 == [conns EXCEPT ![d] = c]
           h == c.host
           p2 == [pools EXCEPT ![h] = Append(@, d)]
<1>0. d \in Fds /\ conns[d].use = "serving" /\ h \in Hosts /\ c.use = "pooled" /\ c.host = h
  BY DEF Owned, ConnRecs
<1>10. Idle(conns, d) = c2 /\ Grown(pools, conns[d].host, d) = p2
  BY DEF Idle, Grown
<1>11. p2 \in [Hosts -> Seq(Fds)]
  BY <1>0, AppendProperties
<1> HIDE DEF c
<1>1. c2[d] = c /\ \A x \in Fds \ {d} : c2[x] = conns[x]
  BY <1>0
<1>2. \A g \in Hosts : pools[g] \in Seq(Fds) /\ \A i \in 1..Len(pools[g]) : pools[g][i] \in Fds \ {d}
  BY <1>0 DEF Owned
<1>3. /\ \A g \in Hosts \ {h} : p2[g] = pools[g]
      /\ Len(p2[h]) = Len(pools[h]) + 1 /\ p2[h][Len(pools[h]) + 1] = d
      /\ \A i \in 1..Len(pools[h]) : p2[h][i] = pools[h][i]
  <2>1. pools[h] \in Seq(Fds) /\ p2[h] = Append(pools[h], d)
    BY <1>0, <1>2
  <2>2. \A g \in Hosts \ {h} : p2[g] = pools[g]
    BY <1>0
  <2> HIDE DEF h, p2
  <2> QED BY <1>0, <2>1, <2>2, AppendProperties
<1>4. \A g \in Hosts : Len(pools[g]) \in Nat
  BY <1>2
<1> HIDE DEF c2, p2, h
<1>5. \A g \in Hosts : \A i \in 1..Len(p2[g]) :
         \/ g = h /\ i = Len(pools[h]) + 1 /\ p2[g][i] = d
         \/ i \in 1..Len(pools[g]) /\ p2[g][i] = pools[g][i]
  BY <1>0, <1>3, <1>4
<1>6. \A g \in Hosts : \A i \in 1..Len(p2[g]) : c2[p2[g][i]].use = "pooled" /\ c2[p2[g][i]].host = g
  <2> SUFFICES ASSUME NEW g \in Hosts, NEW i \in 1..Len(p2[g])
               PROVE  c2[p2[g][i]].use = "pooled" /\ c2[p2[g][i]].host = g
    OBVIOUS
  <2>1. CASE g = h /\ i = Len(pools[h]) + 1 /\ p2[g][i] = d
    BY <2>1, <1>0, <1>1 DEF h
  <2>2. CASE i \in 1..Len(pools[g]) /\ p2[g][i] = pools[g][i]
    <3>1. c2[pools[g][i]] = conns[pools[g][i]]
      BY <2>2, <1>1, <1>2
    <3> QED BY <2>2, <3>1 DEF Owned
  <2> QED BY <2>1, <2>2, <1>5
<1>7. \A g \in Hosts : Distinct(p2[g])
  <2> SUFFICES ASSUME NEW g \in Hosts, NEW i \in 1..Len(p2[g]), NEW j \in 1..Len(p2[g]),
                      p2[g][i] = p2[g][j]
               PROVE  i = j
    BY DEF Distinct
  <2>1. /\ \A x, y \in 1..Len(pools[g]) : pools[g][x] = pools[g][y] => x = y
        /\ \A x \in 1..Len(pools[g]) : pools[g][x] # d
    BY <1>2 DEF Owned, Distinct
  <2>2. CASE i \in 1..Len(pools[g]) /\ p2[g][i] = pools[g][i]
    BY <2>1, <2>2, <1>5
  <2>3. CASE g = h /\ i = Len(pools[h]) + 1 /\ p2[g][i] = d
    BY <2>1, <2>3, <1>5
  <2> QED
    BY <2>2, <2>3, <1>5
<1>8. \A x \in Fds : c2[x].use = "pooled" => Holds(p2[c2[x].host], x)
  <2> SUFFICES ASSUME NEW x \in Fds, c2[x].use = "pooled" PROVE Holds(p2[c2[x].host], x)
    OBVIOUS
  <2>1. CASE x = d
    BY <2>1, <1>0, <1>1, <1>3, <1>4 DEF h, Holds
  <2>2. CASE x # d
    <3>1. PICK i \in 1..Len(pools[conns[x].host]) : pools[conns[x].host][i] = x
      BY <2>2, <1>1 DEF Owned, Holds
    <3>2. conns[x].host \in Hosts /\ c2[x].host = conns[x].host
      BY <2>2, <1>1 DEF ConnRecs
    <3>3. i \in 1..Len(p2[conns[x].host]) /\ p2[conns[x].host][i] = x
      BY <3>1, <3>2, <1>3, <1>4
    <3> QED BY <3>2, <3>3 DEF Holds
  <2> QED BY <2>1, <2>2
<1>9. /\ \A x \in loose \ {d} : x \in Fds /\ c2[x].use = "serving"
      /\ \A q \in Requests : held[q] # None =>
            held[q] \in Fds \ (loose \ {d}) /\ c2[held[q]].use = "serving"
      /\ \A q, r \in Requests : held[q] # None /\ held[q] = held[r] => q = r
      /\ \A x \in Fds \ (loose \ {d}) : c2[x].use = "serving" => \E q \in Requests : held[q] = x
  BY <1>0, <1>1 DEF Owned
<1> QED
  BY <1>6, <1>7, <1>8, <1>9, <1>10, <1>11 DEF Owned

\* pconnRemoveFD takes out the one slot that holds the descriptor.
LEMMA RemovedSlot ==
    ASSUME NEW sq \in Seq(Fds), Distinct(sq), NEW k \in 1..Len(sq), NEW t, t = RemoveAt(sq, k)
    PROVE  /\ t \in Seq(Fds) /\ Distinct(t)
           /\ \A x : Holds(t, x) <=> Holds(sq, x) /\ x # sq[k]
<1> DEFINE n == Len(sq)
           a == SubSeq(sq, 1, k - 1)
           b == SubSeq(sq, k + 1, n)
<1>0. /\ n \in Nat /\ DOMAIN sq = 1..n /\ k \in 1..n /\ \A i \in 1..n : sq[i] \in Fds
      /\ \A i, j \in 1..n : sq[i] = sq[j] => i = j
  BY LenProperties DEF Distinct
<1>3. t = a \o b
  BY DEF RemoveAt
<1> HIDE DEF n
<1>4. a \in Seq(Fds) /\ Len(a) = k - 1 /\ \A i \in 1..k - 1 : a[i] = sq[i]
  <2>1. 1 \in Int /\ k - 1 \in Int /\ \A i \in 1..k - 1 : sq[i] \in Fds
    BY <1>0
  <2>2. /\ a \in Seq(Fds) /\ Len(a) = IF 1 <= k - 1 THEN k - 1 - 1 + 1 ELSE 0
        /\ \A i \in 1..k - 1 - 1 + 1 : a[i] = sq[1 + i - 1]
    BY <2>1, SubSeqProperties
  <2> HIDE DEF a
  <2> QED BY <1>0, <2>2
<1>5. b \in Seq(Fds) /\ Len(b) = n - k /\ \A i \in 1..n - k : b[i] = sq[k + i]
  <2>1. k + 1 \in Int /\ n \in Int /\ \A i \in k + 1..n : sq[i] \in Fds
    BY <1>0
  <2>2. /\ b \in Seq(Fds) /\ Len(b) = IF k + 1 <= n THEN n - (k + 1) + 1 ELSE 0
        /\ \A i \in 1..n - (k + 1) + 1 : b[i] = sq[k + 1 + i - 1]
    BY <2>1, SubSeqProperties
  <2> HIDE DEF b
  <2> QED BY <1>0, <2>2
<1> HIDE DEF a, b
<1>6. /\ t \in Seq(Fds) /\ Len(t) = n - 1
      /\ \A i \in 1..n - 1 : t[i] = IF i < k THEN sq[i] ELSE sq[i + 1]
  <2>0. a \in Seq(Fds) /\ b \in Seq(Fds)
    BY <1>4, <1>5
  <2>9. /\ a \o b \in Seq(Fds) /\ Len(a \o b) = Len(a) + Len(b)
        /\ \A i \in 1..Len(a) + Len(b) : (a \o b)[i] = IF i <= Len(a) THEN a[i] ELSE b[i - Len(a)]
    BY <2>0, ConcatProperties
  <2>1. /\ t \in Seq(Fds) /\ Len(t) = Len(a) + Len(b)
        /\ \A i \in 1..Len(a) + Len(b) : t[i] = IF i <= Len(a) THEN a[i] ELSE b[i - Len(a)]
    BY <1>3, <2>9
  <2>2. Len(t) = n - 1
    BY <1>0, <1>4, <1>5, <2>1
  <2>3. ASSUME NEW i \in 1..n - 1 PROVE t[i] = IF i < k THEN sq[i] ELSE sq[i + 1]
    <3>1. t[i] = IF i <= k - 1 THEN a[i] ELSE b[i - (k - 1)]
      BY <1>0, <1>4, <1>5, <2>1
    <3>2. CASE i < k
      BY <3>1, <3>2, <1>0, <1>4
    <3>3. CASE i >= k
      <4>1. i - (k - 1) \in 1..n - k /\ k + (i - (k - 1)) = i + 1
        BY <3>3, <1>0
      <4> QED BY <3>1, <3>3, <4>1, <1>0, <1>5
    <3> QED BY <3>2, <3>3, <1>0
  <2> QED BY <2>1, <2>2, <2>3
<1> DEFINE idx(i) == IF i < k THEN i ELSE i + 1
<1>7. \A i \in 1..n - 1 : idx(i) \in 1..n /\ idx(i) # k /\ t[i] = sq[idx(i)]
  BY <1>0, <1>6
<1>8. \A i, j \in 1..n - 1 : idx(i) = idx(j) => i = j
  BY <1>0
<1>9. \A j \in 1..n : j # k => \E i \in 1..n - 1 : idx(i) = j
  <2> SUFFICES ASSUME NEW j \in 1..n, j # k PROVE \E i \in 1..n - 1 : idx(i) = j
    OBVIOUS
  <2>1. CASE j < k
    <3>1. j \in 1..n - 1 /\ idx(j) = j
      BY <2>1, <1>0
    <3> QED BY <3>1
  <2>2. CASE j > k
    <3>1. j - 1 \in 1..n - 1 /\ idx(j - 1) = j
      BY <2>2, <1>0
    <3> HIDE DEF idx
    <3> QED BY <3>1
  <2> QED BY <2>1, <2>2, <1>0
<1> HIDE DEF idx
<1>10. \A i, j \in 1..n - 1 : t[i] = t[j] => i = j
  BY <1>0, <1>7, <1>8
<1>11. \A i \in 1..n - 1 : t[i] # sq[k] /\ \E j \in 1..n : sq[j] = t[i]
  BY <1>0, <1>7
<1>12. \A j \in 1..n : sq[j] # sq[k] => \E i \in 1..n - 1 : t[i] = sq[j]
  BY <1>0, <1>7, <1>9
<1>13. Distinct(t)
  BY <1>6, <1>10 DEF Distinct
<1>14. ASSUME NEW x PROVE Holds(t, x) <=> Holds(sq, x) /\ x # sq[k]
  <2>1. ASSUME Holds(t, x) PROVE Holds(sq, x) /\ x # sq[k]
    <3>1. PICK i \in 1..n - 1 : t[i] = x
      BY <2>1, <1>6 DEF Holds
    <3>2. x # sq[k] /\ \E j \in 1..n : sq[j] = x
      BY <3>1, <1>11
    <3> QED BY <3>2 DEF Holds, n
  <2>2. ASSUME Holds(sq, x), x # sq[k] PROVE Holds(t, x)
    <3>1. PICK j \in 1..n : sq[j] = x
      BY <2>2 DEF Holds, n
    <3>2. PICK i \in 1..n - 1 : t[i] = x
      BY <3>1, <2>2, <1>12
    <3> QED BY <3>2, <1>6 DEF Holds
  <2> QED BY <2>1, <2>2
<1> QED
  BY <1>6, <1>13, <1>14

\* A pool without a descriptor it held, the pools without it, and the
\* connections when it serves.
Without(sq, d) == RemoveAt(sq, Max({i \in DOMAIN sq : sq[i] = d}))
Shrunk(pools, h, d) == [pools EXCEPT ![h] = Without(pools[h], d)]
Lent(conns, d) == [conns EXCEPT ![d] = [use |-> "serving", host |-> conns[d].host]]

\* A pooled connection is taken out of the pool, to serve.
LEMMA OwnedPop ==
    ASSUME NEW held, NEW conns \in [Fds -> ConnRecs], NEW pools \in [Hosts -> Seq(Fds)],
           NEW loose, Owned(held, conns, pools, loose), NEW d \in Fds, conns[d].use = "pooled"
    PROVE  /\ Shrunk(pools, conns[d].host, d) \in [Hosts -> Seq(Fds)] /\ d \notin loose
           /\ Owned(held, Lent(conns, d), Shrunk(pools, conns[d].host, d), loose \cup {d})
<1> DEFINE h == conns[d].host
           c == [use |-> "serving", host |-> h]
           t == Without(pools[h], d)
           c2 == [conns EXCEPT ![d] = c]
           p2 == [pools EXCEPT ![h] = t]
<1>0. /\ h \in Hosts /\ h = conns[d].host /\ c \in ConnRecs /\ c.use = "serving"
      /\ t = Without(pools[h], d)
      /\ Lent(conns, d) = c2 /\ Shrunk(pools, conns[d].host, d) = p2
  BY DEF ConnRecs, Lent, Shrunk
<1> HIDE DEF h, c, t
<1> USE <1>0
<1>1. c2[d] = c /\ \A x \in Fds \ {d} : c2[x] = conns[x]
  OBVIOUS
<1>2. \A g \in Hosts : pools[g] \in Seq(Fds) /\ \A i \in 1..Len(pools[g]) : pools[g][i] \in Fds
  OBVIOUS
<1>3. p2[h] = t /\ \A g \in Hosts \ {h} : p2[g] = pools[g]
  OBVIOUS
<1>4. PICK k \in 1..Len(pools[h]) : pools[h][k] = d
  BY DEF Owned, Holds
<1>6. t \in Seq(Fds) /\ Distinct(t) /\ \A x : Holds(t, x) <=> Holds(pools[h], x) /\ x # d
  <2>0. /\ pools[h] \in Seq(Fds) /\ DOMAIN pools[h] = 1..Len(pools[h]) /\ Len(pools[h]) \in Nat
        /\ Distinct(pools[h])
    BY <1>2, LenProperties DEF Owned
  <2>a. {i \in DOMAIN pools[h] : pools[h][i] = d} = {k}
    BY <1>4, <2>0 DEF Distinct
  <2>b. Max({k}) = k
    BY <2>0 DEF Max
  <2>1. t = RemoveAt(pools[h], k)
    BY <2>a, <2>b DEF Without
  <2> DEFINE sq == pools[h]
  <2>2. sq \in Seq(Fds) /\ Distinct(sq) /\ k \in 1..Len(sq) /\ t = RemoveAt(sq, k) /\ sq[k] = d
    BY <1>4, <2>0, <2>1
  <2> HIDE DEF sq
  <2>3. /\ t \in Seq(Fds) /\ Distinct(t)
        /\ \A x : Holds(t, x) <=> Holds(sq, x) /\ x # sq[k]
    BY <2>2, RemovedSlot
  <2> QED
    BY <2>2, <2>3 DEF sq
<1> HIDE DEF c2, p2
<1>7. /\ \A x \in loose \cup {d} : x \in Fds /\ c2[x].use = "serving"
      /\ \A q \in Requests : held[q] # None =>
            held[q] \in Fds \ (loose \cup {d}) /\ c2[held[q]].use = "serving"
      /\ \A q, r \in Requests : held[q] # None /\ held[q] = held[r] => q = r
      /\ \A x \in Fds \ (loose \cup {d}) : c2[x].use = "serving" => \E q \in Requests : held[q] = x
      /\ d \notin loose
  BY <1>1 DEF Owned
<1>8. \A g \in Hosts : \A i \in 1..Len(p2[g]) : c2[p2[g][i]].use = "pooled" /\ c2[p2[g][i]].host = g
  <2> SUFFICES ASSUME NEW g \in Hosts, NEW i \in 1..Len(p2[g])
               PROVE  c2[p2[g][i]].use = "pooled" /\ c2[p2[g][i]].host = g
    OBVIOUS
  <2>0. Holds(p2[g], p2[g][i])
    BY DEF Holds
  <2>1. Holds(pools[g], p2[g][i]) /\ p2[g][i] # d
    <3>1. CASE g = h
      BY <3>1, <2>0, <1>3, <1>6
    <3>2. CASE g # h
      <4>1. p2[g] = pools[g]
        BY <3>2, <1>3
      <4>2. pools[g][i] # d
        BY <3>2, <4>1 DEF Owned
      <4> QED BY <2>0, <4>1, <4>2
    <3> QED BY <3>1, <3>2
  <2>2. PICK j \in 1..Len(pools[g]) : pools[g][j] = p2[g][i]
    BY <2>1 DEF Holds
  <2>3. c2[pools[g][j]] = conns[pools[g][j]]
    BY <2>1, <2>2, <1>1, <1>2
  <2> QED BY <2>2, <2>3 DEF Owned
<1>9. \A g \in Hosts : Distinct(p2[g])
  BY <1>3, <1>6 DEF Owned
<1>10. \A x \in Fds : c2[x].use = "pooled" => Holds(p2[c2[x].host], x)
  <2> SUFFICES ASSUME NEW x \in Fds, c2[x].use = "pooled" PROVE Holds(p2[c2[x].host], x)
    OBVIOUS
  <2>1. x # d /\ c2[x] = conns[x] /\ conns[x].host \in Hosts
    BY <1>1 DEF ConnRecs
  <2>2. Holds(pools[conns[x].host], x)
    BY <2>1 DEF Owned
  <2> QED BY <2>1, <2>2, <1>3, <1>6
<1>11. p2 \in [Hosts -> Seq(Fds)]
  BY <1>6 DEF p2
<1> QED
  BY <1>7, <1>8, <1>9, <1>10, <1>11 DEF Owned
-----------------------------------------------------------------------------
(***************************************************************************)
(* Counts of connections.                                                  *)
(***************************************************************************)

\* The connections of a peer are finitely many.
LEMMA CountTypes ==
    ASSUME NEW conns, NEW p
    PROVE  /\ IsFiniteSet(OpenTo(conns, p)) /\ Cardinality(OpenTo(conns, p)) \in Nat
           /\ IsFiniteSet(OpeningTo(conns, p)) /\ Cardinality(OpeningTo(conns, p)) \in Nat
<1>1. OpenTo(conns, p) \in SUBSET Fds /\ OpeningTo(conns, p) \in SUBSET Fds
  BY DEF OpenTo, OpeningTo
<1>2. IsFiniteSet(Fds)
  BY ForwardAssumption
<1>3. IsFiniteSet(OpenTo(conns, p)) /\ IsFiniteSet(OpeningTo(conns, p))
  BY <1>1, <1>2, FS_Subset
<1> QED
  BY <1>3, FS_CardinalityType

\* A connection that is neither closed nor being opened changes its use, not its host.
LEMMA CountUse ==
    ASSUME NEW conns \in [Fds -> ConnRecs], NEW opens, NEW openings, Counted(conns, opens, openings),
           NEW d \in Fds, conns[d].use \in {"serving", "pooled"},
           NEW c \in ConnRecs, c.use \in {"serving", "pooled"}, c.host = conns[d].host
    PROVE  Counted([conns EXCEPT ![d] = c], opens, openings)
<1> DEFINE c2 == [conns EXCEPT ![d] = c]
<1>1. \A p \in Peers : OpenTo(c2, p) = OpenTo(conns, p) /\ OpeningTo(c2, p) = OpeningTo(conns, p)
  BY DEF OpenTo, OpeningTo
<1> HIDE DEF c2
<1> QED
  BY <1>1 DEF Counted, c2

\* A connection is closed.
LEMMA CountClose ==
    ASSUME NEW conns \in [Fds -> ConnRecs], NEW opens \in [Peers -> Int], NEW openings,
           Counted(conns, opens, openings), NEW d \in Fds, conns[d].use \in {"serving", "pooled"},
           NEW opens2 \in [Peers -> Int],
           \A p \in Peers : opens2[p] = IF p = conns[d].host THEN opens[p] - 1 ELSE opens[p]
    PROVE  Counted([conns EXCEPT ![d] = Closed], opens2, openings)
<1> DEFINE c2 == [conns EXCEPT ![d] = Closed]
<1>1. c2[d].use = "closed" /\ \A x \in Fds \ {d} : c2[x] = conns[x]
  BY DEF Closed
<1> HIDE DEF c2
<1>2. ASSUME NEW p \in Peers PROVE opens2[p] = Cardinality(OpenTo(c2, p))
  <2>1. CASE p = conns[d].host
    <3>1. OpenTo(c2, p) = OpenTo(conns, p) \ {d} /\ d \in OpenTo(conns, p)
      BY <2>1, <1>1 DEF OpenTo
    <3>2. Cardinality(OpenTo(conns, p) \ {d}) = Cardinality(OpenTo(conns, p)) - 1
      BY <3>1, CountTypes, FS_RemoveElement
    <3> QED BY <2>1, <3>1, <3>2 DEF Counted
  <2>2. CASE p # conns[d].host
    <3>1. OpenTo(c2, p) = OpenTo(conns, p)
      BY <2>2, <1>1 DEF OpenTo
    <3> QED BY <2>2, <3>1 DEF Counted
  <2> QED BY <2>1, <2>2
<1>3. \A p \in Peers : OpeningTo(c2, p) = OpeningTo(conns, p)
  BY <1>1 DEF OpeningTo
<1> QED
  BY <1>2, <1>3 DEF Counted, c2

\* A connection is opened, to serve or to be kept idle.
LEMMA CountOpen ==
    ASSUME NEW conns \in [Fds -> ConnRecs], NEW opens \in [Peers -> Int],
           NEW openings \in [Peers -> Int], Counted(conns, opens, openings),
           NEW d \in Fds, conns[d].use = "closed",
           NEW c \in ConnRecs, c.use \in {"serving", "opening"},
           NEW opens2, \A p \in Peers : opens2[p] = IF p = c.host THEN opens[p] + 1 ELSE opens[p],
           NEW openings2,
           \A p \in Peers : openings2[p] =
               IF p = c.host /\ c.use = "opening" THEN openings[p] + 1 ELSE openings[p]
    PROVE  Counted([conns EXCEPT ![d] = c], opens2, openings2)
<1> DEFINE c2 == [conns EXCEPT ![d] = c]
<1>1. c2[d] = c /\ \A x \in Fds \ {d} : c2[x] = conns[x]
  OBVIOUS
<1> HIDE DEF c2
<1>2. ASSUME NEW p \in Peers PROVE opens2[p] = Cardinality(OpenTo(c2, p))
  <2>1. CASE p = c.host
    <3>1. OpenTo(c2, p) = OpenTo(conns, p) \cup {d} /\ d \notin OpenTo(conns, p)
      BY <2>1, <1>1 DEF OpenTo
    <3>2. Cardinality(OpenTo(conns, p) \cup {d}) = Cardinality(OpenTo(conns, p)) + 1
      BY <3>1, CountTypes, FS_AddElement
    <3> QED BY <2>1, <3>1, <3>2 DEF Counted
  <2>2. CASE p # c.host
    <3>1. OpenTo(c2, p) = OpenTo(conns, p)
      BY <2>2, <1>1 DEF OpenTo
    <3> QED BY <2>2, <3>1 DEF Counted
  <2> QED BY <2>1, <2>2
<1>3. ASSUME NEW p \in Peers PROVE openings2[p] = Cardinality(OpeningTo(c2, p))
  <2>1. CASE p = c.host /\ c.use = "opening"
    <3>1. OpeningTo(c2, p) = OpeningTo(conns, p) \cup {d} /\ d \notin OpeningTo(conns, p)
      BY <2>1, <1>1 DEF OpeningTo
    <3>2. Cardinality(OpeningTo(conns, p) \cup {d}) = Cardinality(OpeningTo(conns, p)) + 1
      BY <3>1, CountTypes, FS_AddElement
    <3> QED BY <2>1, <3>1, <3>2 DEF Counted
  <2>2. CASE ~(p = c.host /\ c.use = "opening")
    <3>1. OpeningTo(c2, p) = OpeningTo(conns, p)
      BY <2>2, <1>1 DEF OpeningTo
    <3> QED BY <2>2, <3>1 DEF Counted
  <2> QED BY <2>1, <2>2
<1> QED
  BY <1>2, <1>3 DEF Counted, c2

\* A connection that was being opened serves.
LEMMA CountUnopen ==
    ASSUME NEW conns \in [Fds -> ConnRecs], NEW opens, NEW openings \in [Peers -> Int],
           Counted(conns, opens, openings), NEW d \in Fds, conns[d].use = "opening",
           NEW c \in ConnRecs, c.use = "serving", c.host = conns[d].host,
           NEW openings2,
           \A p \in Peers : openings2[p] = IF p = c.host THEN openings[p] - 1 ELSE openings[p]
    PROVE  Counted([conns EXCEPT ![d] = c], opens, openings2)
<1> DEFINE c2 == [conns EXCEPT ![d] = c]
<1>1. c2[d] = c /\ \A x \in Fds \ {d} : c2[x] = conns[x]
  OBVIOUS
<1> HIDE DEF c2
<1>2. \A p \in Peers : OpenTo(c2, p) = OpenTo(conns, p)
  BY <1>1 DEF OpenTo
<1>3. ASSUME NEW p \in Peers PROVE openings2[p] = Cardinality(OpeningTo(c2, p))
  <2>1. CASE p = c.host
    <3>1. OpeningTo(c2, p) = OpeningTo(conns, p) \ {d} /\ d \in OpeningTo(conns, p)
      BY <2>1, <1>1 DEF OpeningTo
    <3>2. Cardinality(OpeningTo(conns, p) \ {d}) = Cardinality(OpeningTo(conns, p)) - 1
      BY <3>1, CountTypes, FS_RemoveElement
    <3> QED BY <2>1, <3>1, <3>2 DEF Counted
  <2>2. CASE p # c.host
    <3>1. OpeningTo(c2, p) = OpeningTo(conns, p)
      BY <2>2, <1>1 DEF OpeningTo
    <3> QED BY <2>2, <3>1 DEF Counted
  <2> QED BY <2>1, <2>2
<1> QED
  BY <1>2, <1>3 DEF Counted, c2
-----------------------------------------------------------------------------
(***************************************************************************)
(* What the helpers do to a state.                                         *)
(***************************************************************************)
SameConns(s, t) == t.conn = s.conn /\ t.pool = s.pool /\ t.open = s.open /\ t.opening = s.opening
SameRequests(s, t) == t.fwd = s.fwd /\ t.ent = s.ent /\ t.stopping = s.stopping

\* Other FwdStates.
LEMMA PutFwd ==
    ASSUME NEW s \in States, NEW x \in [Requests -> FwdRecs], NEW t, t = [s EXCEPT !.fwd = x]
    PROVE  /\ t \in States /\ t.fwd = x
           /\ t.ent = s.ent /\ t.conn = s.conn /\ t.pool = s.pool
           /\ t.open = s.open /\ t.opening = s.opening /\ t.stopping = s.stopping
<1>1. t.fwd = x
  BY DEF States
<1>2. t.ent = s.ent /\ t.conn = s.conn /\ t.pool = s.pool
  BY DEF States
<1>3. t.open = s.open /\ t.opening = s.opening /\ t.stopping = s.stopping
  BY DEF States
<1>4. t \in States
  BY DEF States
<1> QED
  BY <1>1, <1>2, <1>3, <1>4

\* Other entries.
LEMMA PutEnt ==
    ASSUME NEW s \in States, NEW x \in [Requests -> EntRecs], NEW t, t = [s EXCEPT !.ent = x]
    PROVE  /\ t \in States /\ t.ent = x
           /\ t.fwd = s.fwd /\ t.conn = s.conn /\ t.pool = s.pool
           /\ t.open = s.open /\ t.opening = s.opening /\ t.stopping = s.stopping
<1>1. t.ent = x
  BY DEF States
<1>2. t.fwd = s.fwd /\ t.conn = s.conn /\ t.pool = s.pool
  BY DEF States
<1>3. t.open = s.open /\ t.opening = s.opening /\ t.stopping = s.stopping
  BY DEF States
<1>4. t \in States
  BY DEF States
<1> QED
  BY <1>1, <1>2, <1>3, <1>4

\* Other connections.
LEMMA PutConn ==
    ASSUME NEW s \in States, NEW x \in [Fds -> ConnRecs], NEW t, t = [s EXCEPT !.conn = x]
    PROVE  /\ t \in States /\ t.conn = x
           /\ t.fwd = s.fwd /\ t.ent = s.ent /\ t.pool = s.pool
           /\ t.open = s.open /\ t.opening = s.opening /\ t.stopping = s.stopping
<1>1. t.conn = x
  BY DEF States
<1>2. t.fwd = s.fwd /\ t.ent = s.ent /\ t.pool = s.pool
  BY DEF States
<1>3. t.open = s.open /\ t.opening = s.opening /\ t.stopping = s.stopping
  BY DEF States
<1>4. t \in States
  BY DEF States
<1> QED
  BY <1>1, <1>2, <1>3, <1>4

\* Other pools.
LEMMA PutPool ==
    ASSUME NEW s \in States, NEW x \in [Hosts -> Seq(Fds)], NEW t, t = [s EXCEPT !.pool = x]
    PROVE  /\ t \in States /\ t.pool = x
           /\ t.fwd = s.fwd /\ t.ent = s.ent /\ t.conn = s.conn
           /\ t.open = s.open /\ t.opening = s.opening /\ t.stopping = s.stopping
<1>1. t.pool = x
  BY DEF States
<1>2. t.fwd = s.fwd /\ t.ent = s.ent /\ t.conn = s.conn
  BY DEF States
<1>3. t.open = s.open /\ t.opening = s.opening /\ t.stopping = s.stopping
  BY DEF States
<1>4. t \in States
  BY DEF States
<1> QED
  BY <1>1, <1>2, <1>3, <1>4

\* Other counts of open connections.
LEMMA PutOpen ==
    ASSUME NEW s \in States, NEW x \in [Peers -> Int], NEW t, t = [s EXCEPT !.open = x]
    PROVE  /\ t \in States /\ t.open = x
           /\ t.fwd = s.fwd /\ t.ent = s.ent /\ t.conn = s.conn
           /\ t.pool = s.pool /\ t.opening = s.opening /\ t.stopping = s.stopping
<1>1. t.open = x
  BY DEF States
<1>2. t.fwd = s.fwd /\ t.ent = s.ent /\ t.conn = s.conn
  BY DEF States
<1>3. t.pool = s.pool /\ t.opening = s.opening /\ t.stopping = s.stopping
  BY DEF States
<1>4. t \in States
  BY DEF States
<1> QED
  BY <1>1, <1>2, <1>3, <1>4

\* Other counts of connections being opened.
LEMMA PutOpening ==
    ASSUME NEW s \in States, NEW x \in [Peers -> Int], NEW t, t = [s EXCEPT !.opening = x]
    PROVE  /\ t \in States /\ t.opening = x
           /\ t.fwd = s.fwd /\ t.ent = s.ent /\ t.conn = s.conn
           /\ t.pool = s.pool /\ t.open = s.open /\ t.stopping = s.stopping
<1>1. t.opening = x
  BY DEF States
<1>2. t.fwd = s.fwd /\ t.ent = s.ent /\ t.conn = s.conn
  BY DEF States
<1>3. t.pool = s.pool /\ t.open = s.open /\ t.stopping = s.stopping
  BY DEF States
<1>4. t \in States
  BY DEF States
<1> QED
  BY <1>1, <1>2, <1>3, <1>4

\* A step that leaves the connections and who holds them alone.
LEMMA SoundSame ==
    ASSUME NEW s, NEW loose, Sound(s, loose), NEW t \in States, SameConns(s, t),
           \A q \in Requests : t.fwd[q].fd = s.fwd[q].fd
    PROVE  Sound(t, loose)
<1>1. Held(t) = Held(s)
  BY DEF Held
<1> QED
  BY <1>1 DEF Sound, SameConns

\* PeerClosed and CloseFd, part by part.
LEMMA CloseFdParts ==
    ASSUME NEW s \in States, NEW d \in Fds
    PROVE  LET t == CloseFd(s, d)
           IN  /\ t \in States /\ SameRequests(s, t) /\ t.pool = s.pool /\ t.opening = s.opening
               /\ t.conn = [s.conn EXCEPT ![d] = Closed]
               /\ \A p \in Peers :
                     t.open[p] = IF p = s.conn[d].host THEN s.open[p] - 1 ELSE s.open[p]
<1> DEFINE h == s.conn[d].host
           u == PeerClosed(s, h)
           t == CloseFd(s, d)
<1>1. h \in Hosts /\ Closed \in ConnRecs
  BY DEF States, ConnRecs, Closed, Hosts
<1>2. /\ u \in States /\ SameRequests(s, u) /\ u.pool = s.pool /\ u.opening = s.opening
      /\ u.conn = s.conn
      /\ \A p \in Peers : u.open[p] = IF p = h THEN s.open[p] - 1 ELSE s.open[p]
  <2>1. CASE h \notin Peers
    <3>1. u = s
      BY <2>1 DEF PeerClosed
    <3> QED BY <2>1, <3>1 DEF SameRequests
  <2>2. CASE h \in Peers
    <3> DEFINE x == [s.open EXCEPT ![h] = @ - 1]
    <3>1. s.open \in [Peers -> Int]
      BY DEF States
    <3>2. x \in [Peers -> Int] /\ \A p \in Peers : x[p] = IF p = h THEN s.open[p] - 1 ELSE s.open[p]
      BY <2>2, <3>1
    <3>3. u = [s EXCEPT !.open = x]
      BY <2>2 DEF PeerClosed
    <3> HIDE DEF x, u, h
    <3> QED BY <3>2, <3>3, PutOpen DEF SameRequests
  <2> QED BY <2>1, <2>2
<1> HIDE DEF u
<1>3. t = [u EXCEPT !.conn[d] = Closed]
  BY DEF CloseFd, u
<1>4. /\ t \in States /\ SameRequests(u, t) /\ t.pool = u.pool /\ t.opening = u.opening
      /\ t.conn = [u.conn EXCEPT ![d] = Closed] /\ t.open = u.open
  <2> DEFINE x == [u.conn EXCEPT ![d] = Closed]
  <2>1. x \in [Fds -> ConnRecs]
    BY <1>1, <1>2 DEF States
  <2>2. t = [u EXCEPT !.conn = x]
    BY <1>3
  <2> HIDE DEF x, t
  <2>3. /\ t \in States /\ t.conn = x /\ t.fwd = u.fwd /\ t.ent = u.ent /\ t.pool = u.pool
        /\ t.open = u.open /\ t.opening = u.opening /\ t.stopping = u.stopping
    BY <1>2, <2>1, <2>2, PutConn
  <2> QED BY <2>3 DEF SameRequests, x
<1> HIDE DEF t, h
<1> QED
  BY <1>2, <1>4 DEF SameRequests, t, h

\* A loose connection is closed.
LEMMA SoundCloseFd ==
    ASSUME NEW s, NEW loose, Sound(s, loose), NEW d \in loose
    PROVE  Sound(CloseFd(s, d), loose \ {d}) /\ SameRequests(s, CloseFd(s, d))
<1> DEFINE t == CloseFd(s, d)
<1>1. s \in States /\ d \in Fds /\ s.conn[d].use = "serving"
  BY DEF Sound, Owned
<1>2. s.conn \in [Fds -> ConnRecs] /\ s.pool \in [Hosts -> Seq(Fds)] /\ s.open \in [Peers -> Int]
  BY <1>1 DEF States
<1>3. /\ t \in States /\ SameRequests(s, t) /\ t.pool = s.pool /\ t.opening = s.opening
      /\ t.conn = [s.conn EXCEPT ![d] = Closed]
      /\ \A p \in Peers :
            t.open[p] = IF p = s.conn[d].host THEN s.open[p] - 1 ELSE s.open[p]
  BY <1>1, CloseFdParts
<1>4. t.open \in [Peers -> Int]
  BY <1>3 DEF States
<1> HIDE DEF t
<1>5. Owned(Held(s), t.conn, t.pool, loose \ {d})
  <2>1. Owned(Held(s), s.conn, s.pool, loose)
    BY DEF Sound
  <2>2. Owned(Held(s), [s.conn EXCEPT ![d] = Closed], s.pool, loose \ {d})
    BY <1>2, <2>1, OwnedClose
  <2> QED BY <1>3, <2>2
<1>6. Counted(t.conn, t.open, t.opening)
  <2>1. Counted(s.conn, s.open, s.opening) /\ s.conn[d].use \in {"serving", "pooled"}
    BY <1>1 DEF Sound
  <2>2. \A p \in Peers : t.open[p] = IF p = s.conn[d].host THEN s.open[p] - 1 ELSE s.open[p]
    BY <1>3
  <2>3. Counted([s.conn EXCEPT ![d] = Closed], t.open, s.opening)
    BY <1>1, <1>2, <1>4, <2>1, <2>2, CountClose
  <2> QED BY <1>3, <2>3
<1>7. Held(t) = Held(s)
  BY <1>3 DEF Held, SameRequests
<1>8. Sound(t, loose \ {d})
  BY <1>3, <1>5, <1>6, <1>7 DEF Sound
<1> QED
  BY <1>3, <1>8 DEF t

\* comm_openex gives a descriptor that was closed.
LEMMA OpenFdParts ==
    ASSUME NEW s \in States, NEW h \in Hosts, NEW use \in {"serving", "opening"}, FreeFds(s) # {}
    PROVE  LET t == OpenFd(s, h, use)
               d == Min(FreeFds(s))
           IN  /\ d \in Fds /\ s.conn[d].use = "closed"
               /\ t \in States /\ SameRequests(s, t) /\ t.pool = s.pool /\ t.opening = s.opening
               /\ t.conn = [s.conn EXCEPT ![d] = [use |-> use, host |-> h]]
               /\ \A p \in Peers : t.open[p] = IF p = h THEN s.open[p] + 1 ELSE s.open[p]
<1> DEFINE d == Min(FreeFds(s))
           u == [s EXCEPT !.conn[d] = [use |-> use, host |-> h]]
           t == OpenFd(s, h, use)
<1>1. d \in FreeFds(s)
  <2>1. FreeFds(s) \subseteq Nat
    BY ForwardAssumption DEF FreeFds
  <2> QED BY <2>1, MinIn
<1>2. d \in Fds /\ s.conn[d].use = "closed"
  BY <1>1 DEF FreeFds
<1> HIDE DEF d
<1>3. [use |-> use, host |-> h] \in ConnRecs
  BY DEF ConnRecs
<1>4. /\ u \in States /\ SameRequests(s, u) /\ u.pool = s.pool /\ u.opening = s.opening
      /\ u.conn = [s.conn EXCEPT ![d] = [use |-> use, host |-> h]] /\ u.open = s.open
  <2> DEFINE x == [s.conn EXCEPT ![d] = [use |-> use, host |-> h]]
  <2>1. x \in [Fds -> ConnRecs]
    BY <1>2, <1>3 DEF States
  <2>2. u = [s EXCEPT !.conn = x]
    OBVIOUS
  <2> HIDE DEF x, u
  <2>3. /\ u \in States /\ u.conn = x /\ u.fwd = s.fwd /\ u.ent = s.ent /\ u.pool = s.pool
        /\ u.open = s.open /\ u.opening = s.opening /\ u.stopping = s.stopping
    BY <2>1, <2>2, PutConn
  <2> QED BY <2>3 DEF SameRequests, x
<1>5. t = IF h \in Peers THEN [u EXCEPT !.open[h] = @ + 1] ELSE u
  BY DEF OpenFd, d
<1> HIDE DEF u, t
<1>6. /\ t \in States /\ SameRequests(u, t) /\ t.pool = u.pool /\ t.opening = u.opening
      /\ t.conn = u.conn
      /\ \A p \in Peers : t.open[p] = IF p = h THEN u.open[p] + 1 ELSE u.open[p]
  <2>1. CASE h \notin Peers
    <3>1. t = u
      BY <2>1, <1>5
    <3> QED BY <2>1, <3>1, <1>4 DEF SameRequests
  <2>2. CASE h \in Peers
    <3> DEFINE x == [u.open EXCEPT ![h] = @ + 1]
    <3>1. u.open \in [Peers -> Int]
      BY <1>4 DEF States
    <3>2. x \in [Peers -> Int] /\ \A p \in Peers : x[p] = IF p = h THEN u.open[p] + 1 ELSE u.open[p]
      BY <2>2, <3>1
    <3>3. t = [u EXCEPT !.open = x]
      BY <2>2, <1>5
    <3> HIDE DEF x
    <3> QED BY <3>2, <3>3, <1>4, PutOpen DEF SameRequests
  <2> QED BY <2>1, <2>2
<1>7. /\ t \in States /\ SameRequests(s, t) /\ t.pool = s.pool /\ t.opening = s.opening
      /\ t.conn = [s.conn EXCEPT ![d] = [use |-> use, host |-> h]]
      /\ \A p \in Peers : t.open[p] = IF p = h THEN s.open[p] + 1 ELSE s.open[p]
  BY <1>4, <1>6 DEF SameRequests
<1> QED
  BY <1>2, <1>7 DEF d, t

\* A connection opened for a request is loose at first.
LEMMA SoundOpenFd ==
    ASSUME NEW s, NEW loose, Sound(s, loose), NEW h \in Hosts, FreeFds(s) # {}
    PROVE  LET t == OpenFd(s, h, "serving")
               d == Min(FreeFds(s))
           IN  Sound(t, loose \cup {d}) /\ SameRequests(s, t) /\ d \in Fds \ loose
<1> DEFINE t == OpenFd(s, h, "serving")
           d == Min(FreeFds(s))
           c == [use |-> "serving", host |-> h]
<1>1. s \in States
  BY DEF Sound
<1>2. /\ d \in Fds /\ s.conn[d].use = "closed"
      /\ t \in States /\ SameRequests(s, t) /\ t.pool = s.pool /\ t.opening = s.opening
      /\ t.conn = [s.conn EXCEPT ![d] = c]
      /\ \A p \in Peers : t.open[p] = IF p = h THEN s.open[p] + 1 ELSE s.open[p]
  BY <1>1, OpenFdParts
<1>3. /\ s.conn \in [Fds -> ConnRecs] /\ s.pool \in [Hosts -> Seq(Fds)]
      /\ s.open \in [Peers -> Int] /\ s.opening \in [Peers -> Int]
      /\ c \in ConnRecs /\ c.use = "serving" /\ c.host = h
  BY <1>1 DEF States, ConnRecs
<1> HIDE DEF t, d, c
<1>4. Owned(Held(s), t.conn, t.pool, loose \cup {d}) /\ d \notin loose
  <2>1. Owned(Held(s), s.conn, s.pool, loose)
    BY DEF Sound
  <2> DEFINE k == s.conn
             p == s.pool
             e == Held(s)
  <2>3. /\ k \in [Fds -> ConnRecs] /\ p \in [Hosts -> Seq(Fds)] /\ Owned(e, k, p, loose)
        /\ d \in Fds /\ k[d].use = "closed" /\ c \in ConnRecs /\ c.use = "serving"
    BY <1>2, <1>3, <2>1
  <2> HIDE DEF k, p, e
  <2>4. Owned(e, [k EXCEPT ![d] = c], p, loose \cup {d}) /\ d \notin loose
    BY <2>3, OwnedOpen
  <2>2. Owned(Held(s), [s.conn EXCEPT ![d] = c], s.pool, loose \cup {d}) /\ d \notin loose
    BY <2>4 DEF k, p, e
  <2> QED BY <1>2, <2>2
<1>5. Counted(t.conn, t.open, t.opening)
  <2>1. \A p \in Peers : t.open[p] = IF p = c.host THEN s.open[p] + 1 ELSE s.open[p]
    BY <1>2, <1>3
  <2>2. \A p \in Peers : t.opening[p] =
           IF p = c.host /\ c.use = "opening" THEN s.opening[p] + 1 ELSE s.opening[p]
    BY <1>2, <1>3
  <2>3. Counted(s.conn, s.open, s.opening)
    BY DEF Sound
  <2>4. Counted([s.conn EXCEPT ![d] = c], t.open, t.opening)
    BY <1>2, <1>3, <2>1, <2>2, <2>3, CountOpen
  <2> QED BY <1>2, <2>4
<1>6. Held(t) = Held(s)
  BY <1>2 DEF Held, SameRequests
<1>7. Sound(t, loose \cup {d})
  BY <1>2, <1>4, <1>5, <1>6 DEF Sound
<1> QED
  BY <1>2, <1>4, <1>7 DEF t, d

\* pconnRemoveFD of a pooled connection.
LEMMA PconnRemoveParts ==
    ASSUME NEW s, NEW loose, Sound(s, loose), NEW d \in Fds, s.conn[d].use = "pooled"
    PROVE  LET t == PconnRemove(s, d)
           IN  /\ t \in States /\ SameRequests(s, t) /\ t.conn = s.conn /\ t.open = s.open
               /\ t.opening = s.opening /\ d \notin loose
               /\ Owned(Held(s), Lent(s.conn, d), t.pool, loose \cup {d})
<1> DEFINE e == Held(s)
           k == s.conn
           p == s.pool
           x == Shrunk(p, k[d].host, d)
           t == PconnRemove(s, d)
<1>1. /\ s \in States /\ k \in [Fds -> ConnRecs] /\ p \in [Hosts -> Seq(Fds)]
      /\ Owned(e, k, p, loose) /\ k[d].use = "pooled"
  BY DEF Sound, States
<1>2. t = [s EXCEPT !.pool = x]
  BY DEF PconnRemove, Shrunk, Without
<1> HIDE DEF e, k, p, t
<1>3. /\ x \in [Hosts -> Seq(Fds)] /\ d \notin loose
      /\ Owned(e, Lent(k, d), x, loose \cup {d})
  BY <1>1, OwnedPop
<1> HIDE DEF x
<1>4. /\ t \in States /\ SameRequests(s, t) /\ t.conn = s.conn /\ t.open = s.open
      /\ t.opening = s.opening /\ t.pool = x
  <2>1. /\ t \in States /\ t.pool = x /\ t.fwd = s.fwd /\ t.ent = s.ent /\ t.conn = s.conn
        /\ t.open = s.open /\ t.opening = s.opening /\ t.stopping = s.stopping
    BY <1>1, <1>2, <1>3, PutPool
  <2> QED BY <2>1 DEF SameRequests
<1> QED
  BY <1>3, <1>4 DEF t, e, k

\* pconnPop for a request: the connection is loose at first.
Popped(s, d) == [PconnRemove(s, d) EXCEPT !.conn[d].use = "serving"]

LEMMA SoundPop ==
    ASSUME NEW s, NEW loose, Sound(s, loose), NEW d \in Fds, s.conn[d].use = "pooled",
           NEW t, t = Popped(s, d)
    PROVE  Sound(t, loose \cup {d}) /\ SameRequests(s, t) /\ d \notin loose /\ t.open = s.open
           /\ t.opening = s.opening
           /\ t.conn = Lent(s.conn, d)
           /\ t.pool = PconnRemove(s, d).pool
<1> DEFINE u == PconnRemove(s, d)
           h == s.conn[d].host
           c == [use |-> "serving", host |-> h]
           x == Lent(s.conn, d)
<1>1. s \in States /\ s.conn \in [Fds -> ConnRecs]
  BY DEF Sound, States
<1>2. /\ u \in States /\ SameRequests(s, u) /\ u.conn = s.conn /\ u.open = s.open
      /\ u.opening = s.opening /\ d \notin loose
      /\ Owned(Held(s), x, u.pool, loose \cup {d})
  BY PconnRemoveParts
<1>3. c \in ConnRecs /\ c.use = "serving" /\ c.host = s.conn[d].host
  BY <1>1 DEF ConnRecs
<1>4. [s.conn[d] EXCEPT !.use = "serving"] = c
  BY <1>1 DEF ConnRecs
<1> HIDE DEF u, c
<1>5. x \in [Fds -> ConnRecs] /\ x = [s.conn EXCEPT ![d] = c]
  BY <1>1, <1>3 DEF Lent, c
<1> HIDE DEF x
<1>6. t = [u EXCEPT !.conn = x]
  <2>1. t = [u EXCEPT !.conn[d].use = "serving"]
    BY DEF u, Popped
  <2>2. t = [u EXCEPT !.conn = [u.conn EXCEPT ![d] = [u.conn[d] EXCEPT !.use = "serving"]]]
    BY <2>1
  <2> QED BY <2>2, <1>2, <1>4, <1>5
<1>7. Counted(x, u.open, u.opening)
  <2>1. Counted(s.conn, s.open, s.opening)
    BY DEF Sound
  <2>2. Counted([s.conn EXCEPT ![d] = c], s.open, s.opening)
    BY <1>1, <1>3, <2>1, CountUse
  <2> QED BY <2>2, <1>2, <1>5
<1>8. /\ t \in States /\ t.conn = x /\ t.fwd = u.fwd /\ t.ent = u.ent /\ t.pool = u.pool
      /\ t.open = u.open /\ t.opening = u.opening /\ t.stopping = u.stopping
  <2>1. u \in States
    BY <1>2
  <2> QED BY <2>1, <1>5, <1>6, PutConn
<1>9. Held(t) = Held(s)
  BY <1>2, <1>8 DEF Held, SameRequests
<1>10. Sound(t, loose \cup {d})
  BY <1>2, <1>7, <1>8, <1>9 DEF Sound
<1> QED
  <2>1. /\ SameRequests(s, t) /\ t.open = s.open /\ t.opening = s.opening /\ d \notin loose
        /\ t.conn = x /\ t.pool = u.pool
    BY <1>2, <1>8 DEF SameRequests
  <2> QED BY <2>1, <1>10 DEF x, c, u

\* A pooled connection is closed.
LEMMA SoundPopClose ==
    ASSUME NEW s, NEW loose, Sound(s, loose), NEW d \in Fds, s.conn[d].use = "pooled",
           NEW t, t = CloseFd(PconnRemove(s, d), d)
    PROVE  Sound(t, loose) /\ SameRequests(s, t)
<1> DEFINE u == PconnRemove(s, d)
           v == Popped(s, d)
           w == CloseFd(v, d)
<1>1. /\ u \in States /\ SameRequests(s, u) /\ u.conn = s.conn /\ u.open = s.open
      /\ u.opening = s.opening
  BY PconnRemoveParts
<1>2. /\ Sound(v, loose \cup {d}) /\ SameRequests(s, v) /\ d \notin loose /\ v.open = s.open
      /\ v.opening = s.opening
      /\ v.conn = Lent(s.conn, d)
      /\ v.pool = u.pool
  <2>1. v = Popped(s, d)
    OBVIOUS
  <2> HIDE DEF v
  <2> QED BY <2>1, SoundPop
<1> HIDE DEF v, u
<1>3. d \in loose \cup {d} /\ (loose \cup {d}) \ {d} = loose /\ v \in States
  BY <1>2 DEF Sound
<1>4. Sound(w, loose) /\ SameRequests(v, w)
  BY <1>2, <1>3, SoundCloseFd
<1>5. /\ w \in States /\ w.pool = v.pool /\ w.opening = v.opening
      /\ w.conn = [v.conn EXCEPT ![d] = Closed]
      /\ \A p \in Peers : w.open[p] = IF p = v.conn[d].host THEN v.open[p] - 1 ELSE v.open[p]
  BY <1>3, CloseFdParts
<1>6. /\ t \in States /\ SameRequests(u, t) /\ t.pool = u.pool /\ t.opening = u.opening
      /\ t.conn = [u.conn EXCEPT ![d] = Closed]
      /\ \A p \in Peers : t.open[p] = IF p = u.conn[d].host THEN u.open[p] - 1 ELSE u.open[p]
  <2>1. t = CloseFd(u, d)
    BY DEF u
  <2> QED BY <1>1, <2>1, CloseFdParts
<1> HIDE DEF w
<1>7. w.conn = t.conn /\ v.conn[d].host = s.conn[d].host
  <2>1. s.conn \in [Fds -> ConnRecs]
    BY DEF Sound, States
  <2> QED BY <1>1, <1>2, <1>5, <1>6, <2>1 DEF Lent
<1>8. w.open = t.open
  <2>1. w.open \in [Peers -> Int] /\ t.open \in [Peers -> Int]
    BY <1>5, <1>6 DEF States
  <2>2. \A p \in Peers : w.open[p] = t.open[p]
    BY <1>1, <1>2, <1>5, <1>6, <1>7
  <2> QED BY <2>1, <2>2
<1>9. w.opening = t.opening
  BY <1>1, <1>2, <1>5, <1>6
<1>10. SameConns(w, t) /\ SameRequests(s, t) /\ SameRequests(w, t)
  BY <1>1, <1>2, <1>4, <1>5, <1>6, <1>7, <1>8, <1>9 DEF SameConns, SameRequests
<1>11. Sound(t, loose)
  BY <1>4, <1>6, <1>10, SoundSame DEF SameRequests
<1> QED
  BY <1>10, <1>11

\* pconnPush of a loose connection: it is pooled or closed.
LEMMA SoundPush ==
    ASSUME NEW s, NEW loose, Sound(s, loose), NEW d \in loose, NEW full,
           NEW t, t = PconnPush(s, d, full)
    PROVE  Sound(t, loose \ {d}) /\ SameRequests(s, t)
<1>1. CASE full \/ s.stopping
  <2>1. t = CloseFd(s, d)
    BY <1>1 DEF PconnPush
  <2> QED BY <2>1, SoundCloseFd
<1>2. CASE ~(full \/ s.stopping)
  <2> DEFINE k == s.conn
             p == s.pool
             e == Held(s)
             c == [use |-> "pooled", host |-> k[d].host]
             x == Idle(k, d)
             y == Grown(p, k[d].host, d)
             u == [s EXCEPT !.conn = x]
  <2>1. /\ s \in States /\ k \in [Fds -> ConnRecs] /\ p \in [Hosts -> Seq(Fds)]
        /\ Owned(e, k, p, loose) /\ d \in Fds /\ k[d].use = "serving"
        /\ Counted(k, s.open, s.opening)
    BY DEF Sound, States, Owned
  <2>2. c \in ConnRecs /\ c.use = "pooled" /\ c.host = k[d].host
    BY <2>1 DEF ConnRecs
  <2>3. [k[d] EXCEPT !.use = "pooled"] = c
    BY <2>1 DEF ConnRecs
  <2>4. t = [s EXCEPT !.conn = [k EXCEPT ![d] = [k[d] EXCEPT !.use = "pooled"]],
                      !.pool = [p EXCEPT ![k[d].host] = Append(p[k[d].host], d)]]
    BY <1>2 DEF PconnPush
  <2>5. t = [u EXCEPT !.pool = y]
    BY <2>3, <2>4 DEF Idle, Grown
  <2> HIDE DEF e, k, p
  <2>6. Owned(e, x, y, loose \ {d}) /\ y \in [Hosts -> Seq(Fds)]
    BY <2>1, OwnedPush
  <2>7. x = [k EXCEPT ![d] = c] /\ x \in [Fds -> ConnRecs]
    BY <2>1, <2>2 DEF Idle
  <2> HIDE DEF c
  <2>8. Counted(x, s.open, s.opening)
    <3>1. Counted([k EXCEPT ![d] = c], s.open, s.opening)
      BY <2>1, <2>2, CountUse
    <3> QED BY <3>1, <2>7
  <2>9. u = [s EXCEPT !.conn = x]
    OBVIOUS
  <2> HIDE DEF x, y, u
  <2>10. /\ u \in States /\ u.conn = x /\ u.fwd = s.fwd /\ u.ent = s.ent /\ u.pool = s.pool
         /\ u.open = s.open /\ u.opening = s.opening /\ u.stopping = s.stopping
    <3>1. s \in States /\ x \in [Fds -> ConnRecs]
      BY <2>1, <2>7
    <3> QED BY <3>1, <2>9, PutConn
  <2>11. /\ t \in States /\ t.pool = y /\ t.fwd = u.fwd /\ t.ent = u.ent /\ t.conn = u.conn
         /\ t.open = u.open /\ t.opening = u.opening /\ t.stopping = u.stopping
    BY <2>5, <2>6, <2>10, PutPool
  <2>12. Held(t) = e
    BY <2>10, <2>11 DEF Held, e
  <2> QED BY <2>6, <2>8, <2>10, <2>11, <2>12 DEF Sound, SameRequests
<1> QED
  BY <1>1, <1>2

\* openIdleConn
LEMMA SoundOpenIdle ==
    ASSUME NEW s, NEW loose, Sound(s, loose), NEW h \in Hosts, NEW t, t = OpenIdle(s, h)
    PROVE  Sound(t, loose) /\ SameRequests(s, t)
<1> DEFINE wanted == h \in Peers /\ Len(s.pool[h]) + s.opening[h] < IdleWanted /\ FreeFds(s) # {}
<1>1. CASE ~wanted
  <2>1. t = s
    BY <1>1 DEF OpenIdle
  <2> QED BY <2>1 DEF SameRequests
<1>2. CASE wanted
  <2> DEFINE u == OpenFd(s, h, "opening")
             d == Min(FreeFds(s))
             c == [use |-> "opening", host |-> h]
             x == [u.opening EXCEPT ![h] = @ + 1]
  <2>1. s \in States /\ FreeFds(s) # {} /\ h \in Peers
    BY <1>2 DEF Sound
  <2>2. /\ d \in Fds /\ s.conn[d].use = "closed"
        /\ u \in States /\ SameRequests(s, u) /\ u.pool = s.pool /\ u.opening = s.opening
        /\ u.conn = [s.conn EXCEPT ![d] = c]
        /\ \A p \in Peers : u.open[p] = IF p = h THEN s.open[p] + 1 ELSE s.open[p]
    BY <2>1, OpenFdParts
  <2>3. /\ s.conn \in [Fds -> ConnRecs] /\ s.pool \in [Hosts -> Seq(Fds)]
        /\ s.open \in [Peers -> Int] /\ s.opening \in [Peers -> Int]
        /\ c \in ConnRecs /\ c.use = "opening" /\ c.host = h
    BY <2>1 DEF States, ConnRecs
  <2>4. t = [u EXCEPT !.opening = x]
    BY <1>2 DEF OpenIdle
  <2> HIDE DEF u, d, c
  <2>5. /\ x \in [Peers -> Int]
        /\ \A p \in Peers : x[p] = IF p = h THEN s.opening[p] + 1 ELSE s.opening[p]
    BY <2>1, <2>2, <2>3
  <2> HIDE DEF x
  <2>6. Owned(Held(s), u.conn, s.pool, loose)
    <3> DEFINE k == s.conn
               p == s.pool
               e == Held(s)
    <3>1. /\ k \in [Fds -> ConnRecs] /\ p \in [Hosts -> Seq(Fds)] /\ Owned(e, k, p, loose)
          /\ d \in Fds /\ k[d].use = "closed" /\ c \in ConnRecs /\ c.use = "opening"
      BY <2>2, <2>3 DEF Sound
    <3> HIDE DEF k, p, e
    <3>2. Owned(e, [k EXCEPT ![d] = c], p, loose)
      BY <3>1, OwnedOpening
    <3> QED BY <3>2, <2>2 DEF k, p, e
  <2>7. Counted(u.conn, u.open, x)
    <3> DEFINE k == s.conn
               o == s.open
               n == s.opening
               o2 == u.open
    <3>1. \A p \in Peers : o2[p] = IF p = c.host THEN o[p] + 1 ELSE o[p]
      BY <2>2, <2>3
    <3>2. \A p \in Peers : x[p] = IF p = c.host /\ c.use = "opening" THEN n[p] + 1 ELSE n[p]
      BY <2>3, <2>5
    <3>3. /\ k \in [Fds -> ConnRecs] /\ o \in [Peers -> Int] /\ n \in [Peers -> Int]
          /\ Counted(k, o, n) /\ d \in Fds /\ k[d].use = "closed"
          /\ c \in ConnRecs /\ c.use = "opening"
      BY <2>2, <2>3 DEF Sound
    <3> HIDE DEF k, o, n, o2
    <3>4. Counted([k EXCEPT ![d] = c], o2, x)
      BY <3>1, <3>2, <3>3, CountOpen
    <3> QED BY <2>2, <3>4 DEF k, o2
  <2>8. \A p \in Peers : x[p] <= IdleWanted
    <3>1. s.opening[h] + 1 <= IdleWanted
      <4>1. Len(s.pool[h]) \in Nat /\ s.opening[h] \in Int
        BY <2>1, <2>3, LenProperties
      <4> QED BY <1>2, <4>1, ForwardAssumption
    <3> QED BY <3>1, <2>5 DEF Sound
  <2>9. /\ t \in States /\ t.opening = x /\ t.fwd = u.fwd /\ t.ent = u.ent /\ t.conn = u.conn
        /\ t.pool = u.pool /\ t.open = u.open /\ t.stopping = u.stopping
    BY <2>2, <2>4, <2>5, PutOpening
  <2>10. Held(t) = Held(s)
    BY <2>2, <2>9 DEF Held, SameRequests
  <2> QED BY <2>2, <2>6, <2>7, <2>8, <2>9, <2>10 DEF Sound, SameRequests
<1> QED
  BY <1>1, <1>2

\* pconnPush, part by part, when it does not close.
LEMMA PushParts ==
    ASSUME NEW s \in States, NEW d \in Fds, NEW full, ~(full \/ s.stopping),
           NEW t, t = PconnPush(s, d, full)
    PROVE  /\ t \in States /\ SameRequests(s, t) /\ t.open = s.open /\ t.opening = s.opening
           /\ t.conn = Idle(s.conn, d) /\ t.pool = Grown(s.pool, s.conn[d].host, d)
<1> DEFINE x == Idle(s.conn, d)
           y == Grown(s.pool, s.conn[d].host, d)
           u == [s EXCEPT !.conn = x]
<1>1. s.conn \in [Fds -> ConnRecs] /\ s.pool \in [Hosts -> Seq(Fds)] /\ s.conn[d].host \in Hosts
  BY DEF States, ConnRecs
<1>2. [s.conn[d] EXCEPT !.use = "pooled"] = [use |-> "pooled", host |-> s.conn[d].host]
  BY <1>1 DEF ConnRecs
<1>3. x \in [Fds -> ConnRecs]
  BY <1>1 DEF Idle, ConnRecs
<1>4. y \in [Hosts -> Seq(Fds)]
  BY <1>1, AppendProperties DEF Grown
<1>5. t = [s EXCEPT !.conn = [s.conn EXCEPT ![d] = [s.conn[d] EXCEPT !.use = "pooled"]],
                    !.pool = [s.pool EXCEPT ![s.conn[d].host] = Append(s.pool[s.conn[d].host], d)]]
  BY DEF PconnPush
<1>6. t = [u EXCEPT !.pool = y]
  BY <1>2, <1>5 DEF Idle, Grown
<1>7. u = [s EXCEPT !.conn = x]
  OBVIOUS
<1> HIDE DEF x, y, u
<1>8. /\ u \in States /\ u.conn = x /\ u.fwd = s.fwd /\ u.ent = s.ent /\ u.pool = s.pool
      /\ u.open = s.open /\ u.opening = s.opening /\ u.stopping = s.stopping
  BY <1>3, <1>7, PutConn
<1>9. /\ t \in States /\ t.pool = y /\ t.fwd = u.fwd /\ t.ent = u.ent /\ t.conn = u.conn
      /\ t.open = u.open /\ t.opening = u.opening /\ t.stopping = u.stopping
  BY <1>4, <1>6, <1>8, PutPool
<1> QED
  BY <1>8, <1>9 DEF SameRequests, x, y

\* One less.
LEMMA Lowered ==
    ASSUME NEW o \in [Peers -> Int], NEW h
    PROVE  /\ [o EXCEPT ![h] = @ - 1] \in [Peers -> Int]
           /\ \A q \in Peers : [o EXCEPT ![h] = @ - 1][q] = IF q = h THEN o[q] - 1 ELSE o[q]
<1>1. CASE h \in Peers
  BY <1>1
<1>2. CASE h \notin Peers
  <2>1. [o EXCEPT ![h] = @ - 1] = o
    BY <1>2
  <2> QED BY <1>2, <2>1
<1> QED
  BY <1>1, <1>2

\* The state in which a connection that was being opened for the pool is
\* connected, as if for a request.
Unopened(s, d) ==
    [s EXCEPT !.opening = [s.opening EXCEPT ![s.conn[d].host] = @ - 1],
              !.conn = Lent(s.conn, d)]

LEMMA SoundUnopen ==
    ASSUME NEW s, NEW loose, Sound(s, loose), NEW d \in Fds, s.conn[d].use = "opening",
           NEW v, v = Unopened(s, d)
    PROVE  /\ Sound(v, loose \cup {d}) /\ SameRequests(s, v) /\ d \notin loose
           /\ v.conn = Lent(s.conn, d) /\ v.pool = s.pool /\ v.open = s.open
           /\ v.opening = [s.opening EXCEPT ![s.conn[d].host] = @ - 1]
<1> DEFINE k == s.conn
           p == s.pool
           e == Held(s)
           o == s.opening
           c == [use |-> "serving", host |-> k[d].host]
           x == Lent(k, d)
           y == [o EXCEPT ![k[d].host] = @ - 1]
           u == [s EXCEPT !.opening = y]
<1>1. /\ s \in States /\ k \in [Fds -> ConnRecs] /\ p \in [Hosts -> Seq(Fds)]
      /\ Owned(e, k, p, loose) /\ k[d].use = "opening" /\ o \in [Peers -> Int]
      /\ Counted(k, s.open, o) /\ \A q \in Peers : o[q] <= IdleWanted
  BY DEF Sound, States
<1>2. c \in ConnRecs /\ c.use = "serving" /\ c.host = k[d].host
  BY <1>1 DEF ConnRecs
<1>3. x = [k EXCEPT ![d] = c]
  BY DEF Lent
<1>4. y \in [Peers -> Int] /\ \A q \in Peers : y[q] = IF q = c.host THEN o[q] - 1 ELSE o[q]
  <2>1. o \in [Peers -> Int] /\ c.host = k[d].host
    BY <1>1
  <2> HIDE DEF o, k, c
  <2> QED BY <2>1, Lowered
<1>5. v = [u EXCEPT !.conn = x] /\ u = [s EXCEPT !.opening = y]
  BY DEF Unopened
<1> HIDE DEF k, p, e, o, c, x, y, u
<1>6. x \in [Fds -> ConnRecs]
  BY <1>1, <1>2, <1>3
<1>7. Owned(e, x, p, loose \cup {d}) /\ d \notin loose
  <2>1. Owned(e, [k EXCEPT ![d] = c], p, loose \cup {d}) /\ d \notin loose
    BY <1>1, <1>2, OwnedUnopen
  <2> QED BY <2>1, <1>3
<1>8. Counted(x, s.open, y)
  <2>1. Counted([k EXCEPT ![d] = c], s.open, y)
    BY <1>1, <1>2, <1>4, CountUnopen
  <2> QED BY <2>1, <1>3
<1>9. /\ u \in States /\ u.opening = y /\ u.fwd = s.fwd /\ u.ent = s.ent /\ u.conn = s.conn
      /\ u.pool = s.pool /\ u.open = s.open /\ u.stopping = s.stopping
  <2>1. s \in States /\ y \in [Peers -> Int]
    BY <1>1, <1>4
  <2> QED BY <2>1, <1>5, PutOpening
<1>10. /\ v \in States /\ v.conn = x /\ v.fwd = u.fwd /\ v.ent = u.ent /\ v.pool = u.pool
       /\ v.open = u.open /\ v.opening = u.opening /\ v.stopping = u.stopping
  <2>1. u \in States
    BY <1>9
  <2>2. v = [u EXCEPT !.conn = x]
    BY <1>5
  <2> QED BY <2>1, <2>2, <1>6, PutConn
<1>11. \A q \in Peers : y[q] <= IdleWanted
  BY SMTT(30), <1>1, <1>4, ForwardAssumption
<1>12. Held(v) = e /\ v.pool = p
  BY <1>9, <1>10 DEF Held, e, p
<1>13. Sound(v, loose \cup {d})
  BY <1>7, <1>8, <1>9, <1>10, <1>11, <1>12 DEF Sound
<1> QED
  BY <1>7, <1>9, <1>10, <1>13 DEF SameRequests, x, y, k, o

\* Two states with the same parts but for the connection that a step replaces
\* agree after it.
LEMMA SoundAlike ==
    ASSUME NEW w, NEW loose, Sound(w, loose), NEW t \in States, SameConns(w, t), SameRequests(w, t)
    PROVE  Sound(t, loose)
BY SoundSame DEF SameRequests

\* idle_opening counts it no more.
NotOpening(s, d) == [s EXCEPT !.opening[s.conn[d].host] = @ - 1]

\* fwdConnectIdleDone and fwdConnectIdleTimeout
LEMMA SoundIdleEnds ==
    ASSUME NEW s, NEW loose, Sound(s, loose), NEW d \in Fds, s.conn[d].use = "opening",
           NEW a, a = NotOpening(s, d), NEW full,
           NEW t, t = PconnPush(a, d, full) \/ t = CloseFd(a, d)
    PROVE  Sound(t, loose) /\ SameRequests(s, t)
<1> DEFINE v == Unopened(s, d)
           y == [s.opening EXCEPT ![s.conn[d].host] = @ - 1]
<1>1. s \in States /\ s.conn \in [Fds -> ConnRecs] /\ s.opening \in [Peers -> Int]
  BY DEF Sound, States
<1>2. a = [s EXCEPT !.opening = y] /\ y \in [Peers -> Int]
  BY <1>1, Lowered DEF NotOpening
<1>3. v = Unopened(s, d)
  OBVIOUS
<1> HIDE DEF v, y
<1>4. /\ Sound(v, loose \cup {d}) /\ SameRequests(s, v) /\ d \notin loose
      /\ v.conn = Lent(s.conn, d) /\ v.pool = s.pool /\ v.open = s.open
      /\ v.opening = y
  BY <1>3, SoundUnopen DEF y
<1>5. /\ a \in States /\ SameRequests(s, a) /\ a.opening = y /\ a.conn = s.conn
      /\ a.pool = s.pool /\ a.open = s.open
  <2>1. s \in States /\ y \in [Peers -> Int]
    BY <1>1, <1>2
  <2>2. a = [s EXCEPT !.opening = y]
    BY <1>2
  <2>3. /\ a \in States /\ a.opening = y /\ a.fwd = s.fwd /\ a.ent = s.ent /\ a.conn = s.conn
        /\ a.pool = s.pool /\ a.open = s.open /\ a.stopping = s.stopping
    BY <2>1, <2>2, PutOpening
  <2> QED BY <2>3 DEF SameRequests
<1>6. d \in loose \cup {d} /\ (loose \cup {d}) \ {d} = loose /\ v \in States
  BY <1>4 DEF Sound
<1>7. v.conn[d].host = s.conn[d].host /\ a.conn[d].host = s.conn[d].host
  BY <1>1, <1>4, <1>5 DEF Lent
<1>8. ASSUME t = CloseFd(a, d) PROVE Sound(t, loose) /\ SameRequests(s, t)
  <2> DEFINE w == CloseFd(v, d)
  <2>1. /\ w \in States /\ SameRequests(v, w) /\ w.pool = v.pool /\ w.opening = v.opening
        /\ w.conn = [v.conn EXCEPT ![d] = Closed]
        /\ \A p \in Peers : w.open[p] = IF p = v.conn[d].host THEN v.open[p] - 1 ELSE v.open[p]
    BY <1>6, CloseFdParts
  <2>2. /\ t \in States /\ SameRequests(a, t) /\ t.pool = a.pool /\ t.opening = a.opening
        /\ t.conn = [a.conn EXCEPT ![d] = Closed]
        /\ \A p \in Peers : t.open[p] = IF p = a.conn[d].host THEN a.open[p] - 1 ELSE a.open[p]
    BY <1>5, <1>8, CloseFdParts
  <2>3. Sound(w, loose)
    BY <1>4, <1>6, SoundCloseFd
  <2> HIDE DEF w
  <2>4. w.conn = t.conn
    BY <1>1, <1>4, <1>5, <2>1, <2>2 DEF Lent
  <2>5. w.open = t.open
    <3>1. w.open \in [Peers -> Int] /\ t.open \in [Peers -> Int]
      BY <2>1, <2>2 DEF States
    <3>2. \A p \in Peers : w.open[p] = t.open[p]
      BY <1>4, <1>5, <1>7, <2>1, <2>2
    <3> QED BY <3>1, <3>2
  <2>6. SameConns(w, t) /\ SameRequests(w, t) /\ SameRequests(s, t)
    BY <1>4, <1>5, <2>1, <2>2, <2>4, <2>5 DEF SameConns, SameRequests
  <2> QED BY <2>2, <2>3, <2>6, SoundAlike
<1>9. ASSUME t = PconnPush(a, d, full), ~(full \/ a.stopping)
      PROVE  Sound(t, loose) /\ SameRequests(s, t)
  <2> DEFINE w == PconnPush(v, d, full)
  <2>0. ~(full \/ v.stopping)
    BY <1>4, <1>5, <1>9 DEF SameRequests
  <2>1. /\ w \in States /\ SameRequests(v, w) /\ w.open = v.open /\ w.opening = v.opening
        /\ w.conn = Idle(v.conn, d) /\ w.pool = Grown(v.pool, v.conn[d].host, d)
    BY <1>6, <2>0, PushParts
  <2>2. /\ t \in States /\ SameRequests(a, t) /\ t.open = a.open /\ t.opening = a.opening
        /\ t.conn = Idle(a.conn, d) /\ t.pool = Grown(a.pool, a.conn[d].host, d)
    <3>1. a \in States /\ ~(full \/ a.stopping)
      BY <1>5, <1>9
    <3>2. t = PconnPush(a, d, full)
      BY <1>9
    <3> QED BY <3>1, <3>2, PushParts
  <2>3. Sound(w, loose)
    BY <1>4, <1>6, SoundPush
  <2> HIDE DEF w
  <2>4. w.conn = t.conn
    BY <1>1, <1>4, <1>5, <1>7, <2>1, <2>2 DEF Lent, Idle
  <2>5. w.pool = t.pool
    BY <1>4, <1>5, <1>7, <2>1, <2>2
  <2>6. SameConns(w, t) /\ SameRequests(w, t) /\ SameRequests(s, t)
    BY <1>4, <1>5, <2>1, <2>2, <2>4, <2>5 DEF SameConns, SameRequests
  <2> QED BY <2>2, <2>3, <2>6, SoundAlike
<1> QED
  BY <1>8, <1>9 DEF PconnPush

-----------------------------------------------------------------------------
(***************************************************************************)
(* A step of one request: it edits the request's own FwdState and entry.   *)
(***************************************************************************)
Only(s, t, r) ==
    /\ t.stopping = s.stopping
    /\ \A q \in Requests \ {r} : t.fwd[q] = s.fwd[q] /\ t.ent[q] = s.ent[q]

Edited(s, r, f, e) == [s EXCEPT !.fwd = [s.fwd EXCEPT ![r] = f], !.ent = [s.ent EXCEPT ![r] = e]]

LEMMA EditParts ==
    ASSUME NEW s \in States, NEW r \in Requests, NEW f \in FwdRecs, NEW e \in EntRecs
    PROVE  LET t == Edited(s, r, f, e)
           IN  /\ t \in States /\ Only(s, t, r) /\ SameConns(s, t)
               /\ t.fwd[r] = f /\ t.ent[r] = e
<1> DEFINE x == [s.fwd EXCEPT ![r] = f]
           y == [s.ent EXCEPT ![r] = e]
           u == [s EXCEPT !.fwd = x]
           t == Edited(s, r, f, e)
<1>1. s.fwd \in [Requests -> FwdRecs] /\ s.ent \in [Requests -> EntRecs]
  BY DEF States
<1>2. /\ x \in [Requests -> FwdRecs] /\ x[r] = f /\ \A q \in Requests \ {r} : x[q] = s.fwd[q]
      /\ y \in [Requests -> EntRecs] /\ y[r] = e /\ \A q \in Requests \ {r} : y[q] = s.ent[q]
  BY <1>1
<1>3. t = [u EXCEPT !.ent = y] /\ u = [s EXCEPT !.fwd = x]
  BY DEF Edited
<1> HIDE DEF x, y, u, t
<1>4. /\ u \in States /\ u.fwd = x /\ u.ent = s.ent /\ u.conn = s.conn /\ u.pool = s.pool
      /\ u.open = s.open /\ u.opening = s.opening /\ u.stopping = s.stopping
  <2>1. u = [s EXCEPT !.fwd = x] /\ x \in [Requests -> FwdRecs]
    BY <1>2, <1>3
  <2> QED BY <2>1, PutFwd
<1>5. /\ t \in States /\ t.ent = y /\ t.fwd = u.fwd /\ t.conn = u.conn /\ t.pool = u.pool
      /\ t.open = u.open /\ t.opening = u.opening /\ t.stopping = u.stopping
  <2>1. u \in States /\ y \in [Requests -> EntRecs]
    BY <1>2, <1>4
  <2>2. t = [u EXCEPT !.ent = y]
    BY <1>3
  <2> QED BY <2>1, <2>2, PutEnt
<1> QED
  BY <1>2, <1>4, <1>5 DEF Only, SameConns, t

\* The connection of the request stays.
LEMMA SoundEdit ==
    ASSUME NEW s, NEW loose, Sound(s, loose), NEW r \in Requests, NEW f \in FwdRecs,
           NEW e \in EntRecs, f.fd = s.fwd[r].fd, NEW t, t = Edited(s, r, f, e)
    PROVE  Sound(t, loose) /\ Only(s, t, r) /\ t.fwd[r] = f /\ t.ent[r] = e
<1>1. s \in States
  BY DEF Sound
<1>2. t \in States /\ Only(s, t, r) /\ SameConns(s, t) /\ t.fwd[r] = f /\ t.ent[r] = e
  BY <1>1, EditParts
<1>3. \A q \in Requests : t.fwd[q].fd = s.fwd[q].fd
  BY <1>2 DEF Only
<1> QED
  BY <1>2, <1>3, SoundSame

\* The connection of the request becomes loose.
LEMMA SoundDetach ==
    ASSUME NEW s, NEW loose, Sound(s, loose), NEW r \in Requests, NEW f \in FwdRecs,
           NEW e \in EntRecs, s.fwd[r].fd # None, f.fd = None, NEW t, t = Edited(s, r, f, e)
    PROVE  /\ Sound(t, loose \cup {s.fwd[r].fd}) /\ Only(s, t, r)
           /\ t.fwd[r] = f /\ t.ent[r] = e /\ s.fwd[r].fd \notin loose
<1>1. s \in States
  BY DEF Sound
<1>2. t \in States /\ Only(s, t, r) /\ SameConns(s, t) /\ t.fwd[r] = f /\ t.ent[r] = e
  BY <1>1, EditParts
<1> DEFINE h == Held(s)
           h2 == Held(t)
<1>3. h[r] = s.fwd[r].fd /\ h2[r] = None /\ \A q \in Requests \ {r} : h2[q] = h[q]
  BY <1>2 DEF Only, Held
<1>4. Owned(h, s.conn, s.pool, loose)
  BY DEF Sound
<1> HIDE DEF h, h2
<1>5. Owned(h2, s.conn, s.pool, loose \cup {h[r]}) /\ h[r] \notin loose
  BY <1>3, <1>4, OwnedDetach
<1> QED
  BY <1>2, <1>3, <1>5 DEF Sound, SameConns, h2

\* A loose connection is given to the request.
LEMMA SoundAttach ==
    ASSUME NEW s, NEW loose, Sound(s, loose), NEW r \in Requests, NEW f \in FwdRecs,
           NEW e \in EntRecs, s.fwd[r].fd = None, f.fd \in loose, NEW t, t = Edited(s, r, f, e)
    PROVE  /\ Sound(t, loose \ {f.fd}) /\ Only(s, t, r)
           /\ t.fwd[r] = f /\ t.ent[r] = e /\ f.fd # None
<1>1. s \in States
  BY DEF Sound
<1>2. t \in States /\ Only(s, t, r) /\ SameConns(s, t) /\ t.fwd[r] = f /\ t.ent[r] = e
  BY <1>1, EditParts
<1> DEFINE h == Held(s)
           h2 == Held(t)
           d == f.fd
<1>3. h[r] = None /\ h2[r] = d /\ \A q \in Requests \ {r} : h2[q] = h[q]
  BY <1>2 DEF Only, Held
<1>4. Owned(h, s.conn, s.pool, loose) /\ d \in loose /\ d # None
  BY ForwardAssumption DEF Sound, Owned
<1> HIDE DEF h, h2, d
<1>5. Owned(h2, s.conn, s.pool, loose \ {d})
  BY <1>3, <1>4, OwnedAttach
<1> QED
  BY <1>2, <1>4, <1>5 DEF Sound, SameConns, h2, d

\* The connection of the request is closed and forgotten.
LEMMA SoundCloseHeld ==
    ASSUME NEW s, NEW loose, Sound(s, loose), NEW r \in Requests, NEW f \in FwdRecs,
           NEW e \in EntRecs, s.fwd[r].fd # None, f.fd = None,
           NEW t, t = Edited(CloseFd(s, s.fwd[r].fd), r, f, e)
    PROVE  Sound(t, loose) /\ Only(s, t, r) /\ t.fwd[r] = f /\ t.ent[r] = e
<1> DEFINE d == s.fwd[r].fd
           v == Edited(s, r, f, e)
           w == CloseFd(v, d)
           u == CloseFd(s, d)
<1>1. s \in States /\ d \in Fds
  BY DEF Sound, Owned, Held
<1>2. /\ Sound(v, loose \cup {d}) /\ Only(s, v, r) /\ v.fwd[r] = f /\ v.ent[r] = e
      /\ d \notin loose
  BY SoundDetach
<1>3. v \in States /\ SameConns(s, v)
  BY <1>1, EditParts
<1>4. /\ u \in States /\ SameRequests(s, u) /\ u.pool = s.pool /\ u.opening = s.opening
      /\ u.conn = [s.conn EXCEPT ![d] = Closed]
      /\ \A p \in Peers : u.open[p] = IF p = s.conn[d].host THEN s.open[p] - 1 ELSE s.open[p]
  BY <1>1, CloseFdParts
<1>5. t = Edited(u, r, f, e)
  OBVIOUS
<1> HIDE DEF d, v, u
<1>6. t \in States /\ Only(u, t, r) /\ SameConns(u, t) /\ t.fwd[r] = f /\ t.ent[r] = e
  BY <1>4, <1>5, EditParts
<1>7. d \in loose \cup {d} /\ (loose \cup {d}) \ {d} = loose
  BY <1>2
<1>8. Sound(w, loose) /\ SameRequests(v, w)
  BY <1>2, <1>7, SoundCloseFd
<1>9. /\ w \in States /\ w.pool = v.pool /\ w.opening = v.opening
      /\ w.conn = [v.conn EXCEPT ![d] = Closed]
      /\ \A p \in Peers : w.open[p] = IF p = v.conn[d].host THEN v.open[p] - 1 ELSE v.open[p]
  BY <1>1, <1>3, CloseFdParts
<1> HIDE DEF w
<1>10. w.open = t.open
  <2>1. w.open \in [Peers -> Int] /\ t.open \in [Peers -> Int]
    BY <1>6, <1>9 DEF States
  <2>2. \A p \in Peers : w.open[p] = t.open[p]
    BY <1>3, <1>4, <1>6, <1>9 DEF SameConns
  <2> QED BY <2>1, <2>2
<1>11. SameConns(w, t)
  BY <1>3, <1>4, <1>6, <1>9, <1>10 DEF SameConns
<1>12. \A q \in Requests : t.fwd[q].fd = w.fwd[q].fd
  BY <1>2, <1>4, <1>6, <1>8 DEF Only, SameRequests
<1>13. Only(s, t, r)
  BY <1>4, <1>6 DEF Only, SameRequests
<1> QED
  BY <1>6, <1>8, <1>11, <1>12, <1>13, SoundSame

-----------------------------------------------------------------------------
(***************************************************************************)
(* What holds of a request between two steps.                              *)
(***************************************************************************)

\* Attempts are counted, an entry is pending until it is answered, and the
\* clients see no byte before the header is there and accepted.
Core(f, e) ==
    /\ f.origin <= f.tries /\ f.tries <= MaxTries + 1
    /\ e.ans # "assert" /\ (e.pend <=> e.ans = "none")
    /\ e.seen => e.hi /\ ~e.wait
    /\ e.abort => ~e.pend
    /\ ~e.pend /\ e.wait => e.ans = "abort"
    /\ e.ans = "error" => ~e.hi /\ ~e.seen

\* What its FwdState is at.
Phase(f, e) ==
    /\ f.st \in {"connect", "sent"} <=> f.fd # None
    /\ f.st \in {"connect", "sent"} => f.srv # <<>>
    /\ f.st \in {"new", "select", "restart", "connect"} => ~e.seen /\ ~e.body /\ ~e.hi
    /\ f.st \in {"new", "select"} => f.tries = 0
    /\ f.st = "restart" => f.tries <= MaxTries
    /\ f.st = "done" => ~e.pend
    /\ f.st # "done" => e.ans \in {"none", "abort"}
    /\ f.st = "new" => e.pend /\ ~e.wait

Fit(f, e) == Core(f, e) /\ Phase(f, e)

Done == [NewFwd EXCEPT !.st = "done"]

\* storeRequestFailed, if the entry is pending
Answered(f, e) ==
    IF e.pend
    THEN [e EXCEPT !.pend = FALSE, !.wait = FALSE,
                   !.ans = IF e.hi THEN "cut" ELSE IF f.err THEN "error" ELSE "assert"]
    ELSE e

\* The flags of the request_t go.
Freed(e) == [e EXCEPT !.post = FALSE, !.body = FALSE, !.bad = FALSE]

LEMMA Records ==
    /\ NewFwd \in FwdRecs /\ Done \in FwdRecs
    /\ \A f \in FwdRecs, e \in EntRecs :
          /\ Answered(f, e) \in EntRecs
          /\ Freed(e) \in EntRecs
          /\ [f EXCEPT !.err = TRUE] \in FwdRecs
          /\ [f EXCEPT !.fd = None] \in FwdRecs
<1>1. NewFwd \in FwdRecs
  BY DEF NewFwd, FwdRecs
<1>2. Done \in FwdRecs
  BY <1>1 DEF Done, FwdRecs
<1>3. ASSUME NEW f \in FwdRecs, NEW e \in EntRecs PROVE Answered(f, e) \in EntRecs
  BY ZenonT(60) DEF Answered, EntRecs
<1>4. ASSUME NEW e \in EntRecs PROVE Freed(e) \in EntRecs
  BY DEF Freed, EntRecs
<1>5. ASSUME NEW f \in FwdRecs PROVE [f EXCEPT !.err = TRUE] \in FwdRecs
  BY DEF FwdRecs
<1>6. ASSUME NEW f \in FwdRecs PROVE [f EXCEPT !.fd = None] \in FwdRecs
  BY DEF FwdRecs
<1> QED
  BY <1>1, <1>2, <1>3, <1>4, <1>5, <1>6

\* A pending entry that is answered with an error or as cut short.
LEMMA AnsweredParts ==
    ASSUME NEW f \in FwdRecs, NEW e \in EntRecs, Core(f, e), e.pend => f.err \/ e.hi
    PROVE  LET x == Freed(Answered(f, e))
           IN  /\ Fit(Done, x) /\ x.hi = e.hi
<1> DEFINE y == Answered(f, e)
           x == Freed(y)
<1>1. y \in EntRecs /\ x \in EntRecs
  BY Records
<1>2. /\ ~y.pend /\ y.hi = e.hi /\ y.seen = e.seen /\ y.abort = e.abort
      /\ y.wait => y.ans = "abort"
      /\ y.ans \in {"reply", "cut", "error", "abort"}
      /\ y.ans = "error" => ~e.hi /\ ~e.seen
      /\ y.seen => y.hi /\ ~y.wait
  <2>1. CASE e.pend
    BY <2>1 DEF Answered, EntRecs, Core
  <2>2. CASE ~e.pend
    <3>1. y = e
      BY <2>2 DEF Answered
    <3> QED BY <2>2, <3>1 DEF EntRecs, Core
  <2> QED BY <2>1, <2>2
<1>3. /\ x.pend = y.pend /\ x.hi = y.hi /\ x.seen = y.seen /\ x.abort = y.abort
      /\ x.wait = y.wait /\ x.ans = y.ans
  <2> HIDE DEF y
  <2> QED BY <1>1 DEF Freed, EntRecs
<1>4. Done.st = "done" /\ Done.fd = None /\ Done.tries = 0 /\ Done.origin = 0
  BY DEF Done, NewFwd
<1> HIDE DEF x, y
<1>5. Core(Done, x)
  BY <1>2, <1>3, <1>4, ForwardAssumption DEF Core
<1>6. Phase(Done, x)
  BY <1>2, <1>3, <1>4 DEF Phase
<1> QED
  BY <1>2, <1>3, <1>5, <1>6 DEF Fit, x, y

LEMMA Failed ==
    ASSUME NEW s \in States, NEW r \in Requests
    PROVE  /\ Fail(s, r) = Edited(s, r, [s.fwd[r] EXCEPT !.err = TRUE], s.ent[r])
           /\ s.ent[r].pend =>
                 RequestFailed(s, r) = Edited(s, r, s.fwd[r], Answered(s.fwd[r], s.ent[r]))
           /\ s = Edited(s, r, s.fwd[r], s.ent[r])
           /\ s.fwd[r] \in FwdRecs /\ s.ent[r] \in EntRecs
<1>0. s.fwd \in [Requests -> FwdRecs] /\ s.ent \in [Requests -> EntRecs]
  BY DEF States
<1>1. [s.fwd EXCEPT ![r] = s.fwd[r]] = s.fwd /\ [s.ent EXCEPT ![r] = s.ent[r]] = s.ent
  BY <1>0
<1>2. [s EXCEPT !.fwd = s.fwd] = s /\ [s EXCEPT !.ent = s.ent] = s
  BY DEF States
<1>3. s = Edited(s, r, s.fwd[r], s.ent[r])
  BY <1>1, <1>2 DEF Edited
<1>4. Fail(s, r) = Edited(s, r, [s.fwd[r] EXCEPT !.err = TRUE], s.ent[r])
  BY <1>1, <1>2 DEF Edited, Fail, States
<1>5. ASSUME s.ent[r].pend
      PROVE  RequestFailed(s, r) = Edited(s, r, s.fwd[r], Answered(s.fwd[r], s.ent[r]))
  <2> DEFINE a == IF s.ent[r].hi THEN "cut" ELSE IF s.fwd[r].err THEN "error" ELSE "assert"
             x == [s.ent[r] EXCEPT !.pend = FALSE, !.wait = FALSE, !.ans = a]
  <2>1. x = Answered(s.fwd[r], s.ent[r])
    BY <1>5 DEF Answered
  <2>2. RequestFailed(s, r) = [s EXCEPT !.ent = [s.ent EXCEPT ![r] = x]]
    BY <1>0 DEF RequestFailed, States
  <2> QED BY <1>1, <1>2, <2>1, <2>2 DEF Edited
<1> QED
  BY <1>0, <1>3, <1>4, <1>5

LEMMA StateFreeForm ==
    ASSUME NEW s \in States, NEW r \in Requests
    PROVE  LET a == Edited(s, r, s.fwd[r], Answered(s.fwd[r], s.ent[r]))
               e == Freed(Answered(s.fwd[r], s.ent[r]))
               d == s.fwd[r].fd
           IN  StateFree(s, r) =
                 IF d = None THEN Edited(a, r, Done, e) ELSE Edited(CloseFd(a, d), r, Done, e)
<1> DEFINE x == Answered(s.fwd[r], s.ent[r])
           a == Edited(s, r, s.fwd[r], x)
           d == s.fwd[r].fd
           u == IF d = None THEN a ELSE CloseFd(a, d)
<1>1. (IF s.ent[r].pend THEN RequestFailed(s, r) ELSE s) = a
  BY Failed DEF Answered
<1>2. StateFree(s, r) = [u EXCEPT !.fwd[r] = Done, !.ent[r].post = FALSE,
                                  !.ent[r].body = FALSE, !.ent[r].bad = FALSE]
  BY <1>1 DEF StateFree, Done
<1>3. x \in EntRecs /\ s.fwd[r] \in FwdRecs
  BY Failed, Records
<1>4. a \in States /\ a.fwd = a.fwd /\ a.ent[r] = x /\ a.fwd[r].fd = d
  BY <1>3, EditParts
<1> HIDE DEF a, x
<1>5. u \in States /\ u.ent[r] = x
  <2>1. CASE d = None
    BY <2>1, <1>4
  <2>2. CASE d # None
    <3>1. d \in Fds
      BY <1>3, <2>2 DEF FwdRecs
    <3> QED BY <2>2, <3>1, <1>4, CloseFdParts DEF SameRequests
  <2> QED BY <2>1, <2>2
<1> HIDE DEF u
<1>6. [u EXCEPT !.fwd[r] = Done, !.ent[r].post = FALSE,
                !.ent[r].body = FALSE, !.ent[r].bad = FALSE]
      = Edited(u, r, Done, Freed(x))
  <2>1. u.ent \in [Requests -> EntRecs]
    BY <1>5 DEF States
  <2>2. [u EXCEPT !.fwd[r] = Done, !.ent[r].post = FALSE,
                  !.ent[r].body = FALSE, !.ent[r].bad = FALSE]
        = [u EXCEPT !.fwd = [u.fwd EXCEPT ![r] = Done],
                    !.ent = [u.ent EXCEPT ![r].post = FALSE, ![r].body = FALSE, ![r].bad = FALSE]]
    BY <1>5 DEF States
  <2>3. [u.ent EXCEPT ![r].post = FALSE, ![r].body = FALSE, ![r].bad = FALSE]
        = [u.ent EXCEPT ![r] = Freed(u.ent[r])]
    BY <2>1 DEF Freed, EntRecs
  <2> QED BY <2>2, <2>3, <1>5 DEF Edited
<1> QED
  BY <1>2, <1>6 DEF u, a, x

\* fwdStateFree: the request is done, its entry answered, its connection closed.
LEMMA SoundStateFree ==
    ASSUME NEW s, NEW loose, Sound(s, loose), NEW r \in Requests,
           Core(s.fwd[r], s.ent[r]), s.ent[r].pend => s.fwd[r].err \/ s.ent[r].hi,
           NEW t, t = StateFree(s, r)
    PROVE  /\ Sound(t, loose) /\ Only(s, t, r) /\ t.fwd[r] = Done
           /\ Fit(t.fwd[r], t.ent[r]) /\ t.ent[r].hi = s.ent[r].hi
<1> DEFINE f == s.fwd[r]
           x == Answered(s.fwd[r], s.ent[r])
           e == Freed(x)
           a == Edited(s, r, f, x)
           d == f.fd
<1>1. s \in States
  BY DEF Sound
<1>2. f \in FwdRecs /\ x \in EntRecs /\ e \in EntRecs /\ Done \in FwdRecs /\ Done.fd = None
  BY <1>1, Failed, Records DEF Done, NewFwd
<1>3. Fit(Done, e) /\ e.hi = s.ent[r].hi
  BY <1>1, Failed, AnsweredParts
<1>4. t = IF d = None THEN Edited(a, r, Done, e) ELSE Edited(CloseFd(a, d), r, Done, e)
  BY <1>1, StateFreeForm
<1>5. Sound(a, loose) /\ Only(s, a, r) /\ a.fwd[r] = f /\ a.ent[r] = x
  <2> HIDE DEF x
  <2> QED BY <1>2, SoundEdit
<1> HIDE DEF a, e, x, f
<1>6. CASE d = None
  <2>1. t = Edited(a, r, Done, e) /\ Done.fd = a.fwd[r].fd
    BY <1>2, <1>4, <1>5, <1>6
  <2>2. Sound(t, loose) /\ Only(a, t, r) /\ t.fwd[r] = Done /\ t.ent[r] = e
    BY <1>2, <1>5, <2>1, SoundEdit
  <2> QED BY <1>3, <1>5, <2>2 DEF Only
<1>7. CASE d # None
  <2>1. t = Edited(CloseFd(a, a.fwd[r].fd), r, Done, e) /\ a.fwd[r].fd # None
    BY <1>4, <1>5, <1>7
  <2>2. Sound(t, loose) /\ Only(a, t, r) /\ t.fwd[r] = Done /\ t.ent[r] = e
    BY <1>2, <1>5, <2>1, SoundCloseHeld
  <2> QED BY <1>3, <1>5, <2>2 DEF Only
<1> QED
  BY <1>6, <1>7

\* fwdFail followed by fwdStateFree
LEMMA SoundFailFree ==
    ASSUME NEW s, NEW loose, Sound(s, loose), NEW r \in Requests,
           Core(s.fwd[r], s.ent[r]), NEW t, t = StateFree(Fail(s, r), r)
    PROVE  /\ Sound(t, loose) /\ Only(s, t, r) /\ t.fwd[r] = Done
           /\ Fit(t.fwd[r], t.ent[r]) /\ t.ent[r].hi = s.ent[r].hi
<1> DEFINE f == [s.fwd[r] EXCEPT !.err = TRUE]
           u == Fail(s, r)
<1>1. s \in States
  BY DEF Sound
<1>2. u = Edited(s, r, f, s.ent[r]) /\ s.fwd[r] \in FwdRecs /\ s.ent[r] \in EntRecs
  BY <1>1, Failed
<1>3. /\ f \in FwdRecs /\ f.fd = s.fwd[r].fd /\ f.err /\ f.tries = s.fwd[r].tries
      /\ f.origin = s.fwd[r].origin
  BY <1>2 DEF FwdRecs
<1> HIDE DEF f, u
<1>4. Sound(u, loose) /\ Only(s, u, r) /\ u.fwd[r] = f /\ u.ent[r] = s.ent[r]
  BY <1>2, <1>3, SoundEdit
<1>5. Core(u.fwd[r], u.ent[r]) /\ u.fwd[r].err
  BY <1>3, <1>4 DEF Core
<1>6. t = StateFree(u, r)
  BY DEF u
<1>7. /\ Sound(t, loose) /\ Only(u, t, r) /\ t.fwd[r] = Done
      /\ Fit(t.fwd[r], t.ent[r]) /\ t.ent[r].hi = u.ent[r].hi
  BY <1>4, <1>5, <1>6, SoundStateFree
<1> QED
  BY <1>4, <1>7 DEF Only

LEMMA NextServersType ==
    ASSUME NEW srv \in Seq(Hosts), srv # <<>>
    PROVE  NextServers(srv) \in Seq(Hosts)
<1>1. Head(srv) \in Hosts /\ Tail(srv) \in Seq(Hosts)
  BY HeadTailProperties
<1>2. Append(Tail(srv), Head(srv)) \in Seq(Hosts)
  BY <1>1, AppendProperties
<1> QED
  BY <1>1, <1>2 DEF NextServers

\* fwdServerClosed after comm_close: the request is tried again or is done.
LEMMA SoundCloseServer ==
    ASSUME NEW s, NEW loose, Sound(s, loose), NEW r \in Requests,
           Core(s.fwd[r], s.ent[r]), s.fwd[r].fd # None,
           s.ent[r].pend => (s.fwd[r].err \/ s.ent[r].hi) /\ s.fwd[r].srv # <<>>,
           NEW t, t = CloseServer(s, r)
    PROVE  /\ Sound(t, loose) /\ Only(s, t, r) /\ t.ent[r].hi = s.ent[r].hi
           /\ Fit(t.fwd[r], t.ent[r])
           /\ \/ t.fwd[r] = Done
              \/ /\ t.fwd[r].st = "restart" /\ t.fwd[r].tries = s.fwd[r].tries
                 /\ t.fwd[r].fd = None /\ ~s.ent[r].hi /\ s.ent[r].pend
<1> DEFINE f == s.fwd[r]
           e == s.ent[r]
           g == [f EXCEPT !.fd = None]
           u == CloseFd(s, f.fd)
           v == [u EXCEPT !.fwd[r].fd = None]
           h == [g EXCEPT !.st = "restart", !.srv = NextServers(@)]
<1>1. s \in States /\ f \in FwdRecs /\ e \in EntRecs /\ f.fd \in Fds
  <2>1. s \in States
    BY DEF Sound
  <2>2. f \in FwdRecs /\ e \in EntRecs
    BY <2>1, Failed
  <2> QED BY <2>1, <2>2 DEF FwdRecs
<1>2. /\ g \in FwdRecs /\ g.fd = None /\ g.st = f.st /\ g.tries = f.tries /\ g.origin = f.origin
      /\ g.err = f.err /\ g.srv = f.srv
  BY <1>1 DEF FwdRecs
<1>3. u \in States /\ SameRequests(s, u)
  BY <1>1, CloseFdParts
<1>4. t = ServerClosed(u, r)
  BY DEF CloseServer
<1>5. u = CloseFd(s, s.fwd[r].fd)
  OBVIOUS
<1> HIDE DEF u
<1>6. v = Edited(u, r, g, e)
  <2>1. u.fwd[r] = f /\ u.ent[r] = e /\ u.ent \in [Requests -> EntRecs]
    BY <1>3 DEF SameRequests, States
  <2>2. [u.ent EXCEPT ![r] = e] = u.ent /\ [u EXCEPT !.ent = u.ent] = u
    BY <1>3, <2>1 DEF States
  <2>3. v = [u EXCEPT !.fwd = [u.fwd EXCEPT ![r] = g]]
    BY <1>3, <2>1 DEF States
  <2> QED BY <1>3, <2>2, <2>3 DEF Edited, States
<1>7. Sound(v, loose) /\ Only(s, v, r) /\ v.fwd[r] = g /\ v.ent[r] = e
  <2>1. v = Edited(CloseFd(s, s.fwd[r].fd), r, g, e)
    BY <1>5, <1>6
  <2> HIDE DEF v, g, e, f
  <2> QED BY <1>1, <1>2, <2>1, SoundCloseHeld DEF f
<1>8. t = IF CheckRetry(v, r)
          THEN [v EXCEPT !.fwd[r].st = "restart", !.fwd[r].srv = NextServers(@)]
          ELSE StateFree(IF v.stopping THEN Fail(v, r) ELSE v, r)
  BY <1>4 DEF ServerClosed
<1> HIDE DEF v
<1>9. Core(g, e)
  <2> HIDE DEF g
  <2> QED BY <1>2 DEF Core
<1>10. CASE CheckRetry(v, r)
  <2>1. /\ e.pend /\ ~e.hi /\ ~e.body /\ g.tries <= MaxTries
    BY <1>7, <1>10 DEF CheckRetry
  <2>2. NextServers(g.srv) \in Seq(Hosts)
    <3>1. f.srv \in Seq(Hosts) /\ f.srv # <<>>
      BY <1>1, <2>1 DEF FwdRecs
    <3> QED BY <1>2, <3>1, NextServersType
  <2>3. t = Edited(v, r, h, e)
    <3>1. v \in States
      BY <1>7 DEF Sound
    <3>2. [v EXCEPT !.fwd[r].st = "restart", !.fwd[r].srv = NextServers(@)]
          = [v EXCEPT !.fwd = [v.fwd EXCEPT ![r] = h]]
      <4> HIDE DEF g
      <4> QED BY <1>2, <1>7, <3>1 DEF States, FwdRecs
    <3>3. [v.ent EXCEPT ![r] = e] = v.ent
      BY <1>7, <3>1 DEF States
    <3> HIDE DEF h
    <3>4. [v EXCEPT !.fwd = [v.fwd EXCEPT ![r] = h]] = Edited(v, r, h, e)
      BY <3>1, <3>3 DEF Edited, States
    <3> QED BY <1>8, <1>10, <3>2, <3>4
  <2> HIDE DEF g
  <2>4. /\ h \in FwdRecs /\ h.fd = None /\ h.st = "restart" /\ h.tries = f.tries
        /\ h.origin = f.origin
    BY <1>2, <2>2 DEF FwdRecs
  <2> HIDE DEF h
  <2>5. Sound(t, loose) /\ Only(v, t, r) /\ t.fwd[r] = h /\ t.ent[r] = e
    <3>1. h.fd = v.fwd[r].fd
      BY <1>2, <1>7, <2>4
    <3> QED BY <1>1, <1>7, <2>3, <2>4, <3>1, SoundEdit
  <2>6. Fit(h, e)
    <3>1. Core(h, e)
      BY <1>2, <1>9, <2>4 DEF Core
    <3>2. Phase(h, e)
      BY <1>2, <1>9, <2>1, <2>4 DEF Core, Phase
    <3> QED BY <3>1, <3>2 DEF Fit
  <2> QED BY <1>7, <2>1, <2>4, <2>5, <2>6 DEF Only
<1>11. CASE ~CheckRetry(v, r) /\ v.stopping
  <2>1. t = StateFree(Fail(v, r), r) /\ Core(v.fwd[r], v.ent[r])
    BY <1>7, <1>8, <1>9, <1>11
  <2>2. /\ Sound(t, loose) /\ Only(v, t, r) /\ t.fwd[r] = Done
        /\ Fit(t.fwd[r], t.ent[r]) /\ t.ent[r].hi = v.ent[r].hi
    BY <1>7, <2>1, SoundFailFree
  <2> QED BY <1>7, <2>2 DEF Only
<1>12. CASE ~CheckRetry(v, r) /\ ~v.stopping
  <2>1. /\ t = StateFree(v, r) /\ Core(v.fwd[r], v.ent[r])
        /\ v.ent[r].pend => v.fwd[r].err \/ v.ent[r].hi
    BY <1>2, <1>7, <1>8, <1>9, <1>12
  <2>2. /\ Sound(t, loose) /\ Only(v, t, r) /\ t.fwd[r] = Done
        /\ Fit(t.fwd[r], t.ent[r]) /\ t.ent[r].hi = v.ent[r].hi
    BY ZenonT(60), <1>7, <2>1, SoundStateFree
  <2> QED BY <1>7, <2>2 DEF Only
<1> QED
  BY <1>10, <1>11, <1>12

-----------------------------------------------------------------------------
(***************************************************************************)
(* Attempts.                                                               *)
(***************************************************************************)

\* A request that has no connection and may be attempted.
Fresh(f, e) ==
    /\ Core(f, e) /\ f.fd = None /\ f.tries <= MaxTries
    /\ ~e.seen /\ ~e.body /\ ~e.hi /\ e.ans \in {"none", "abort"}

\* It has been attempted, or is done.
Began(f, f2, e2) ==
    /\ Fit(f2, e2) /\ ~e2.hi
    /\ f2 = Done \/ (f2.st \in {"connect", "sent"} /\ f2.tries = f.tries + 1)

LEMMA SoundAttempt ==
    ASSUME NEW s, NEW loose, Sound(s, loose), NEW r \in Requests,
           Fresh(s.fwd[r], s.ent[r]), s.fwd[r].srv # <<>>,
           NEW d \in loose, NEW st \in {"connect", "sent"}, NEW t, t = Attempt(s, r, d, st)
    PROVE  Sound(t, loose \ {d}) /\ Only(s, t, r) /\ Began(s.fwd[r], t.fwd[r], t.ent[r])
<1> DEFINE f == s.fwd[r]
           e == s.ent[r]
           n == IF Head(f.srv) = Direct THEN f.origin + 1 ELSE f.origin
           g == [f EXCEPT !.fd = d, !.st = st, !.tries = @ + 1,
                          !.origin = IF Head(f.srv) = Direct THEN @ + 1 ELSE @]
<1>1. s \in States /\ f \in FwdRecs /\ e \in EntRecs /\ d \in Fds
  <2>1. s \in States /\ d \in Fds
    BY DEF Sound, Owned
  <2>2. f \in FwdRecs /\ e \in EntRecs
    BY <2>1, Failed
  <2> QED BY <2>1, <2>2
<1>2. t = Edited(s, r, g, e)
  <2>1. t = [s EXCEPT !.fwd = [s.fwd EXCEPT ![r] = g]]
    BY ZenonT(60) DEF Attempt
  <2>2. [s.ent EXCEPT ![r] = e] = s.ent
    BY <1>1 DEF States
  <2> HIDE DEF g
  <2> QED BY <2>1, <2>2, <1>1 DEF Edited, States
<1>3. n \in Nat /\ (n = f.origin \/ n = f.origin + 1)
  BY <1>1 DEF FwdRecs
<1>4. /\ g \in FwdRecs /\ g.fd = d /\ g.st = st /\ g.tries = f.tries + 1 /\ g.origin = n
      /\ g.srv = f.srv
  <2>1. f.tries + 1 \in Nat
    BY <1>1 DEF FwdRecs
  <2>2. g = [f EXCEPT !.fd = d, !.st = st, !.tries = f.tries + 1, !.origin = n]
    BY <1>1 DEF FwdRecs
  <2> HIDE DEF n, g
  <2>3. g.fd = d /\ g.st = st /\ g.tries = f.tries + 1 /\ g.origin = n /\ g.srv = f.srv
    BY <1>1, <2>2 DEF FwdRecs
  <2>4. g \in FwdRecs
    BY <1>1, <1>3, <2>1, <2>2 DEF FwdRecs
  <2> QED BY <2>3, <2>4
<1> HIDE DEF g, n
<1>5. g.fd \in loose /\ s.fwd[r].fd = None
  BY <1>4 DEF Fresh
<1>6. /\ Sound(t, loose \ {d}) /\ Only(s, t, r) /\ t.fwd[r] = g /\ t.ent[r] = e /\ g.fd # None
  <2>1. g \in FwdRecs /\ e \in EntRecs
    BY <1>1, <1>4
  <2> HIDE DEF e, f
  <2>2. /\ Sound(t, loose \ {g.fd}) /\ Only(s, t, r) /\ t.fwd[r] = g /\ t.ent[r] = e
        /\ g.fd # None
    BY <1>2, <1>5, <2>1, SoundAttach
  <2> QED BY <2>2, <1>4
<1>7. Fit(g, e)
  <2>1. Core(g, e)
    <3>1. f.tries \in Nat /\ f.origin \in Nat /\ f.origin <= f.tries /\ f.tries <= MaxTries
      BY <1>1 DEF FwdRecs, Fresh, Core
    <3>2. g.origin <= g.tries /\ g.tries <= MaxTries + 1
      BY <1>3, <1>4, <3>1, ForwardAssumption
    <3> QED BY <3>2 DEF Fresh, Core
  <2>2. Phase(g, e)
    BY <1>4, <1>6 DEF Fresh, Phase
  <2> QED BY <2>1, <2>2 DEF Fit
<1> QED
  BY <1>4, <1>6, <1>7 DEF Began, Fresh

\* fwdConnectStart
LEMMA SoundConnectStart ==
    ASSUME NEW s, NEW loose, Sound(s, loose), NEW r \in Requests,
           Fresh(s.fwd[r], s.ent[r]), s.fwd[r].srv # <<>>,
           NEW ok, NEW t, t = ConnectStart(s, r, ok)
    PROVE  Sound(t, loose) /\ Only(s, t, r) /\ Began(s.fwd[r], t.fwd[r], t.ent[r])
<1> DEFINE h == Head(s.fwd[r].srv)
           d == Last(s.pool[h])
           idle == s.pool[h] # <<>>
           v == IF idle THEN CloseFd(PconnRemove(s, d), d) ELSE s
           m == Min(FreeFds(v))
<1>1. s \in States /\ h \in Hosts /\ s.pool \in [Hosts -> Seq(Fds)]
  <2>1. s \in States
    BY DEF Sound
  <2>2. s.fwd[r].srv \in Seq(Hosts)
    BY <2>1, Failed DEF FwdRecs
  <2>3. h \in Hosts
    BY <2>2, HeadTailProperties
  <2> QED BY <2>1, <2>3 DEF States
<1> HIDE DEF h
<1>2. ASSUME idle PROVE d \in Fds /\ s.conn[d].use = "pooled" /\ s.conn[d].host = h
  <2>1. Len(s.pool[h]) \in 1..Len(s.pool[h]) /\ d = s.pool[h][Len(s.pool[h])]
    BY <1>1, <1>2, LenProperties, EmptySeq DEF Last
  <2>2. d \in Fds
    BY <1>1, <2>1
  <2>3. s.conn[d].use = "pooled" /\ s.conn[d].host = h
    BY <1>1, <2>1 DEF Sound, Owned
  <2> QED BY <2>2, <2>3
<1>3. t = IF idle /\ ~s.ent[r].post
          THEN OpenIdle(Attempt(Popped(s, d), r, d, "sent"), h)
          ELSE IF ok /\ FreeFds(v) # {}
          THEN Attempt(OpenFd(v, h, "serving"), r, m, "connect")
          ELSE StateFree(Fail(v, r), r)
  BY DEF ConnectStart, Popped, h
<1> HIDE DEF d
<1>4. CASE idle /\ ~s.ent[r].post
  <2> DEFINE u == Popped(s, d)
             w == Attempt(u, r, d, "sent")
  <2>1. t = OpenIdle(w, h)
    BY <1>3, <1>4
  <2>2. Sound(u, loose \cup {d}) /\ SameRequests(s, u) /\ d \notin loose
    BY <1>2, <1>4, SoundPop
  <2> HIDE DEF u
  <2>3. /\ Fresh(u.fwd[r], u.ent[r]) /\ u.fwd[r].srv # <<>> /\ d \in loose \cup {d}
        /\ (loose \cup {d}) \ {d} = loose
    BY <2>2 DEF SameRequests
  <2>4. Sound(w, loose) /\ Only(u, w, r) /\ Began(u.fwd[r], w.fwd[r], w.ent[r])
    <3> DEFINE lo == loose \cup {d}
    <3>1. /\ Sound(u, lo) /\ d \in lo /\ Fresh(u.fwd[r], u.ent[r]) /\ u.fwd[r].srv # <<>>
          /\ lo \ {d} = loose
      BY <2>2, <2>3
    <3>2. w = Attempt(u, r, d, "sent") /\ "sent" \in {"connect", "sent"}
      OBVIOUS
    <3> HIDE DEF lo, w
    <3>3. Sound(w, lo \ {d}) /\ Only(u, w, r) /\ Began(u.fwd[r], w.fwd[r], w.ent[r])
      BY <3>1, <3>2, SoundAttempt
    <3> QED BY <3>1, <3>3
  <2> HIDE DEF w
  <2>5. Sound(t, loose) /\ SameRequests(w, t)
    BY <1>1, <2>1, <2>4, SoundOpenIdle
  <2> QED BY <2>2, <2>4, <2>5 DEF SameRequests, Only
<1>5. Sound(v, loose) /\ SameRequests(s, v)
  <2>1. CASE idle
    <3> DEFINE w == CloseFd(PconnRemove(s, d), d)
    <3>1. Sound(w, loose) /\ SameRequests(s, w)
      BY <1>2, <2>1, SoundPopClose
    <3> QED BY <3>1, <2>1
  <2>2. CASE ~idle
    BY <2>2 DEF SameRequests
  <2> QED BY <2>1, <2>2
<1> HIDE DEF v
<1>6. Fresh(v.fwd[r], v.ent[r]) /\ v.fwd[r].srv # <<>> /\ v.fwd[r] = s.fwd[r]
  BY <1>5 DEF SameRequests
<1>7. CASE ~(idle /\ ~s.ent[r].post) /\ ok /\ FreeFds(v) # {}
  <2> DEFINE u == OpenFd(v, h, "serving")
  <2>1. t = Attempt(u, r, m, "connect")
    BY <1>3, <1>7
  <2>2. Sound(u, loose \cup {m}) /\ SameRequests(v, u) /\ m \in Fds \ loose
    BY <1>1, <1>5, <1>7, SoundOpenFd
  <2> HIDE DEF u, m
  <2>3. /\ Fresh(u.fwd[r], u.ent[r]) /\ u.fwd[r].srv # <<>> /\ m \in loose \cup {m}
        /\ (loose \cup {m}) \ {m} = loose
    BY <1>6, <2>2 DEF SameRequests
  <2>4. Sound(t, loose) /\ Only(u, t, r) /\ Began(u.fwd[r], t.fwd[r], t.ent[r])
    <3> DEFINE lo == loose \cup {m}
    <3>1. /\ Sound(u, lo) /\ m \in lo /\ Fresh(u.fwd[r], u.ent[r]) /\ u.fwd[r].srv # <<>>
          /\ lo \ {m} = loose
      BY <2>2, <2>3
    <3>2. t = Attempt(u, r, m, "connect") /\ "connect" \in {"connect", "sent"}
      BY <2>1
    <3> HIDE DEF lo
    <3>3. Sound(t, lo \ {m}) /\ Only(u, t, r) /\ Began(u.fwd[r], t.fwd[r], t.ent[r])
      BY <3>1, <3>2, SoundAttempt
    <3> QED BY <3>1, <3>3
  <2> QED BY <1>5, <2>2, <2>4 DEF SameRequests, Only
<1>8. CASE ~(idle /\ ~s.ent[r].post) /\ ~(ok /\ FreeFds(v) # {})
  <2>1. t = StateFree(Fail(v, r), r) /\ Core(v.fwd[r], v.ent[r])
    BY <1>3, <1>6, <1>8 DEF Fresh
  <2>2. /\ Sound(t, loose) /\ Only(v, t, r) /\ t.fwd[r] = Done
        /\ Fit(t.fwd[r], t.ent[r]) /\ t.ent[r].hi = v.ent[r].hi
    BY <1>5, <2>1, SoundFailFree
  <2> QED BY <1>5, <1>6, <2>2 DEF SameRequests, Only, Began, Fresh
<1> QED
  BY <1>4, <1>7, <1>8

\* fwdStartComplete
LEMMA SoundStartComplete ==
    ASSUME NEW s, NEW loose, Sound(s, loose), NEW r \in Requests,
           Fresh(s.fwd[r], s.ent[r]), NEW ok, NEW t, t = StartComplete(s, r, ok)
    PROVE  Sound(t, loose) /\ Only(s, t, r) /\ Began(s.fwd[r], t.fwd[r], t.ent[r])
<1>1. CASE s.fwd[r].srv = <<>>
  <2>1. t = StateFree(Fail(s, r), r) /\ Core(s.fwd[r], s.ent[r])
    BY <1>1 DEF StartComplete, Fresh
  <2>2. /\ Sound(t, loose) /\ Only(s, t, r) /\ t.fwd[r] = Done
        /\ Fit(t.fwd[r], t.ent[r]) /\ t.ent[r].hi = s.ent[r].hi
    BY <2>1, SoundFailFree
  <2> QED BY <2>2 DEF Began, Fresh
<1>2. CASE s.fwd[r].srv # <<>>
  <2>1. t = ConnectStart(s, r, ok)
    BY <1>2 DEF StartComplete
  <2> QED BY <1>2, <2>1, SoundConnectStart
<1> QED
  BY <1>1, <1>2

-----------------------------------------------------------------------------
(***************************************************************************)
(* The end of a reply.                                                     *)
(***************************************************************************)

\* The server list that fwdReforward leaves, what storeEntryReset leaves of the
\* entry, and the entry after storeComplete.
Listed(s, r) == IF AskNext(s, r) THEN [s.fwd[r] EXCEPT !.srv = Tail(@)] ELSE s.fwd[r]
Reset(e) == [e EXCEPT !.hi = FALSE]
Completed(e) == [e EXCEPT !.wait = FALSE, !.pend = FALSE, !.ans = "reply"]

\* The request is done, or another server is asked before a client could see
\* the reply.
Replied(f, e, f2, e2) ==
    /\ Fit(f2, e2)
    /\ \/ f2 = Done
       \/ /\ f2.st \in {"connect", "sent"} /\ f2.tries = f.tries + 1
          /\ ~e2.hi /\ ~e.seen /\ ~e.body

LEMMA CompleteForm ==
    ASSUME NEW s \in States, NEW r \in Requests, s.fwd[r].srv # <<>>, NEW ok
    PROVE  LET f == Listed(s, r)
               over == Edited(s, r, f, Completed(s.ent[r]))
               next == Edited(s, r, [f EXCEPT !.fd = None], Reset(s.ent[r]))
           IN  /\ f \in FwdRecs /\ f.fd = s.fwd[r].fd /\ f.tries = s.fwd[r].tries
               /\ f.origin = s.fwd[r].origin /\ f.st = s.fwd[r].st
               /\ Completed(s.ent[r]) \in EntRecs /\ Reset(s.ent[r]) \in EntRecs
               /\ \/ AskNext(s, r) /\ Complete(s, r, ok) = StartComplete(next, r, ok)
                  \/ Complete(s, r, ok) = IF over.fwd[r].fd = None THEN StateFree(over, r) ELSE over
<1> DEFINE f == Listed(s, r)
           e == s.ent[r]
           over == Edited(s, r, f, Completed(e))
           next == Edited(s, r, [f EXCEPT !.fd = None], Reset(e))
           t == IF AskNext(s, r) THEN [s EXCEPT !.fwd[r].srv = Tail(@)] ELSE s
<1>1. s.fwd[r] \in FwdRecs /\ e \in EntRecs
  BY Failed
<1>2. Tail(s.fwd[r].srv) \in Seq(Hosts)
  BY <1>1, HeadTailProperties DEF FwdRecs
<1>3. /\ f \in FwdRecs /\ f.fd = s.fwd[r].fd /\ f.tries = s.fwd[r].tries
      /\ f.origin = s.fwd[r].origin /\ f.st = s.fwd[r].st
  BY <1>1, <1>2 DEF Listed, FwdRecs
<1>4. Completed(e) \in EntRecs /\ Reset(e) \in EntRecs
  BY <1>1 DEF Completed, Reset, EntRecs
<1>5. t = Edited(s, r, f, e)
  <2>1. CASE AskNext(s, r)
    <3>1. t = [s EXCEPT !.fwd = [s.fwd EXCEPT ![r] = f]]
      BY <2>1 DEF Listed
    <3>2. [s.ent EXCEPT ![r] = e] = s.ent
      BY DEF States
    <3> HIDE DEF f
    <3> QED BY <3>1, <3>2 DEF Edited, States
  <2>2. CASE ~AskNext(s, r)
    BY <2>2, Failed DEF Listed
  <2> QED BY <2>1, <2>2
<1> HIDE DEF f, t
<1>6. t \in States /\ t.fwd[r] = f /\ t.ent[r] = e
  <2> HIDE DEF e
  <2> QED BY <1>1, <1>3, <1>5, EditParts DEF e
<1>7. /\ t.fwd = [s.fwd EXCEPT ![r] = f] /\ t.ent = [s.ent EXCEPT ![r] = e]
      /\ \A x, y : [t EXCEPT !.fwd = x, !.ent = y] = [s EXCEPT !.fwd = x, !.ent = y]
  BY <1>5 DEF Edited, States
<1>8. \A g, x : Edited(t, r, g, x) = Edited(s, r, g, x)
  BY <1>7 DEF Edited, States
<1>9. [t EXCEPT !.fwd[r].fd = None, !.ent[r].hi = FALSE] = next
  <2>1. [t EXCEPT !.fwd[r].fd = None, !.ent[r].hi = FALSE]
        = Edited(t, r, [t.fwd[r] EXCEPT !.fd = None], Reset(t.ent[r]))
    BY <1>6 DEF Edited, Reset, States
  <2> QED BY <2>1, <1>6, <1>8
<1>10. [t EXCEPT !.ent[r].wait = FALSE, !.ent[r].pend = FALSE, !.ent[r].ans = "reply"] = over
  <2>1. [t EXCEPT !.ent[r].wait = FALSE, !.ent[r].pend = FALSE, !.ent[r].ans = "reply"]
        = [t EXCEPT !.ent = [t.ent EXCEPT ![r] = Completed(t.ent[r])]]
    BY <1>6 DEF Completed, States, EntRecs
  <2>2. [t.fwd EXCEPT ![r] = t.fwd[r]] = t.fwd
    BY <1>6 DEF States
  <2>3. [t EXCEPT !.ent = [t.ent EXCEPT ![r] = Completed(t.ent[r])]]
        = Edited(t, r, t.fwd[r], Completed(t.ent[r]))
    BY <1>6, <2>2 DEF Edited, States
  <2> QED BY <2>1, <2>3, <1>6, <1>8
<1>11. \/ AskNext(s, r) /\ Complete(s, r, ok) = StartComplete(next, r, ok)
       \/ Complete(s, r, ok) = IF over.fwd[r].fd = None THEN StateFree(over, r) ELSE over
  <2> DEFINE last == [t EXCEPT !.ent[r].wait = FALSE, !.ent[r].pend = FALSE, !.ent[r].ans = "reply"]
             other == [t EXCEPT !.fwd[r].fd = None, !.ent[r].hi = FALSE]
             again == AskNext(s, r) /\ t.fwd[r].srv # <<>> /\ t.ent[r].bad
  <2>1. Complete(s, r, ok) =
           IF again THEN StartComplete(other, r, ok)
           ELSE IF last.fwd[r].fd = None THEN StateFree(last, r) ELSE last
    BY DEF Complete, t
  <2>2. last = over /\ other = next
    BY <1>9, <1>10
  <2> HIDE DEF last, other, over, next
  <2>3. again => AskNext(s, r)
    OBVIOUS
  <2> HIDE DEF again
  <2> QED BY <2>1, <2>2, <2>3
<1> QED
  BY <1>3, <1>4, <1>11 DEF f

\* Another server is asked; the connection to the last one is loose.
LEMMA SoundAgain ==
    ASSUME NEW s, NEW loose, Sound(s, loose), NEW r \in Requests,
           Core(s.fwd[r], s.ent[r]), s.ent[r].pend, s.fwd[r].srv # <<>>, AskNext(s, r), NEW ok,
           NEW x, x = Edited(s, r, [Listed(s, r) EXCEPT !.fd = None], Reset(s.ent[r])),
           NEW t, t = StartComplete(x, r, ok),
           NEW lo, lo = IF s.fwd[r].fd = None THEN loose ELSE loose \cup {s.fwd[r].fd}
    PROVE  Sound(t, lo) /\ Only(s, t, r) /\ Replied(s.fwd[r], s.ent[r], t.fwd[r], t.ent[r])
<1> DEFINE f == s.fwd[r]
           e == s.ent[r]
           g == [Listed(s, r) EXCEPT !.fd = None]
           y == Reset(e)
<1>1. s \in States
  BY DEF Sound
<1>2. /\ Listed(s, r) \in FwdRecs /\ Listed(s, r).tries = f.tries
      /\ Listed(s, r).origin = f.origin /\ y \in EntRecs
  BY <1>1, CompleteForm
<1>3. f \in FwdRecs /\ e \in EntRecs
  BY <1>1, Failed
<1>4. g \in FwdRecs /\ g.fd = None /\ g.tries = f.tries /\ g.origin = f.origin
  BY <1>2 DEF FwdRecs
<1>5. ~y.hi /\ y.seen = e.seen /\ y.body = e.body /\ y.pend = e.pend /\ y.wait = e.wait
      /\ y.ans = e.ans /\ y.abort = e.abort
  BY <1>3 DEF Reset, EntRecs
<1>6. x = Edited(s, r, g, y)
  OBVIOUS
<1> HIDE DEF g, y
<1>7. ~e.seen /\ ~e.body /\ f.tries <= MaxTries - 1 /\ f.tries \in Nat
  BY <1>3 DEF AskNext, Core, FwdRecs
<1>8. Fresh(g, y)
  <2>1. Core(g, y)
    BY <1>4, <1>5, <1>7 DEF Core
  <2>2. g.tries <= MaxTries
    BY <1>4, <1>7, ForwardAssumption
  <2>3. y.ans = "none"
    BY <1>5 DEF Core
  <2> QED BY <1>4, <1>5, <1>7, <2>1, <2>2, <2>3 DEF Fresh
<1>9. Sound(x, lo) /\ Only(s, x, r) /\ x.fwd[r] = g /\ x.ent[r] = y
  <2>1. CASE f.fd = None
    <3>1. g.fd = s.fwd[r].fd /\ lo = loose
      BY <1>4, <2>1
    <3> QED BY <1>2, <1>4, <1>6, <3>1, SoundEdit
  <2>2. CASE f.fd # None
    <3>1. s.fwd[r].fd # None /\ g.fd = None /\ lo = loose \cup {s.fwd[r].fd}
      BY <1>4, <2>2
    <3>2. /\ Sound(x, loose \cup {s.fwd[r].fd}) /\ Only(s, x, r)
          /\ x.fwd[r] = g /\ x.ent[r] = y
      BY <1>2, <1>4, <1>6, <3>1, SoundDetach
    <3> QED BY <3>1, <3>2
  <2> QED BY <2>1, <2>2
<1>10. Sound(t, lo) /\ Only(x, t, r) /\ Began(x.fwd[r], t.fwd[r], t.ent[r])
  BY <1>8, <1>9, SoundStartComplete
<1>11. Only(s, t, r)
  BY <1>9, <1>10 DEF Only
<1>12. Replied(f, e, t.fwd[r], t.ent[r])
  <2>1. Began(g, t.fwd[r], t.ent[r])
    BY <1>9, <1>10
  <2> HIDE DEF f, e
  <2> QED BY <1>4, <1>7, <2>1 DEF Began, Replied
<1> QED
  BY <1>10, <1>11, <1>12

\* storeComplete
LEMMA SoundOver ==
    ASSUME NEW s, NEW loose, Sound(s, loose), NEW r \in Requests,
           Core(s.fwd[r], s.ent[r]), s.ent[r].pend, s.fwd[r].srv # <<>>,
           NEW t, t = Edited(s, r, Listed(s, r), Completed(s.ent[r]))
    PROVE  /\ Sound(t, loose) /\ Only(s, t, r) /\ Core(t.fwd[r], t.ent[r]) /\ ~t.ent[r].pend
           /\ t.fwd[r].fd = s.fwd[r].fd
<1> DEFINE f == s.fwd[r]
           e == s.ent[r]
           g == Listed(s, r)
           y == Completed(e)
<1>1. s \in States
  BY DEF Sound
<1>2. /\ g \in FwdRecs /\ g.tries = f.tries /\ g.fd = f.fd
      /\ g.origin = f.origin /\ y \in EntRecs
  BY <1>1, CompleteForm
<1>3. e \in EntRecs
  BY <1>1, Failed
<1>4. /\ ~y.pend /\ ~y.wait /\ y.ans = "reply" /\ y.seen = e.seen /\ y.hi = e.hi
      /\ y.abort = e.abort
  BY <1>3 DEF Completed, EntRecs
<1> HIDE DEF g, y
<1>5. Core(g, y)
  BY <1>2, <1>4 DEF Core
<1>6. Sound(t, loose) /\ Only(s, t, r) /\ t.fwd[r] = g /\ t.ent[r] = y
  <2>1. t = Edited(s, r, g, y) /\ g.fd = s.fwd[r].fd
    BY <1>2 DEF g, y
  <2> QED BY <1>2, <2>1, SoundEdit
<1> QED
  BY <1>2, <1>4, <1>5, <1>6

\* The request forgets its connection.
Unheld(s, r) == Edited(s, r, [s.fwd[r] EXCEPT !.fd = None], s.ent[r])

LEMMA SoundUnheld ==
    ASSUME NEW s, NEW loose, Sound(s, loose), NEW r \in Requests, s.fwd[r].fd # None
    PROVE  LET x == Unheld(s, r)
           IN  /\ Sound(x, loose \cup {s.fwd[r].fd}) /\ Only(s, x, r)
               /\ x.fwd[r] = [s.fwd[r] EXCEPT !.fd = None] /\ x.ent[r] = s.ent[r]
               /\ s.fwd[r].fd \notin loose
<1> DEFINE f == s.fwd[r]
           e == s.ent[r]
           g == [f EXCEPT !.fd = None]
           x == Unheld(s, r)
<1>1. f \in FwdRecs /\ e \in EntRecs
  BY Failed DEF Sound
<1>2. g \in FwdRecs /\ g.fd = None
  BY <1>1 DEF FwdRecs
<1>3. x = Edited(s, r, g, e)
  BY DEF Unheld
<1> HIDE DEF g, e, x
<1>4. /\ Sound(x, loose \cup {s.fwd[r].fd}) /\ Only(s, x, r) /\ x.fwd[r] = g /\ x.ent[r] = e
      /\ s.fwd[r].fd \notin loose
  BY <1>1, <1>2, <1>3, SoundDetach
<1> QED
  BY <1>4 DEF g, e, x

\* httpAppendBody at the end of the reply, when the connection is kept.
LEMMA SoundReplyKept ==
    ASSUME NEW s, NEW loose, Sound(s, loose), NEW r \in Requests,
           Core(s.fwd[r], s.ent[r]), s.ent[r].pend, s.fwd[r].srv # <<>>, s.fwd[r].fd # None,
           NEW full, NEW ok,
           NEW x, x = Unheld(s, r),
           NEW t, t = Complete(PconnPush(x, s.fwd[r].fd, full), r, ok)
    PROVE  Sound(t, loose) /\ Only(s, t, r) /\ Replied(s.fwd[r], s.ent[r], t.fwd[r], t.ent[r])
<1> DEFINE f == s.fwd[r]
           e == s.ent[r]
           g == [f EXCEPT !.fd = None]
           d == f.fd
           u == PconnPush(x, d, full)
<1>1. f \in FwdRecs /\ e \in EntRecs
  BY Failed DEF Sound
<1>2. /\ g \in FwdRecs /\ g.fd = None /\ g.tries = f.tries /\ g.origin = f.origin
      /\ g.srv = f.srv /\ g.st = f.st
  BY <1>1 DEF FwdRecs
<1>3. x = Edited(s, r, g, e) /\ s.fwd[r].fd # None /\ d = s.fwd[r].fd /\ t = Complete(u, r, ok)
  BY DEF Unheld
<1> HIDE DEF g, u, d
<1>4. Sound(x, loose \cup {d}) /\ Only(s, x, r) /\ x.fwd[r] = g /\ x.ent[r] = e /\ d \notin loose
  <2>1. /\ Sound(x, loose \cup {s.fwd[r].fd}) /\ Only(s, x, r) /\ x.fwd[r] = g /\ x.ent[r] = e
        /\ s.fwd[r].fd \notin loose
    BY SoundUnheld DEF g
  <2> QED BY <1>3, <2>1
<1>5. Sound(u, loose) /\ SameRequests(x, u)
  <2> DEFINE lo == loose \cup {d}
  <2>1. Sound(x, lo) /\ d \in lo /\ lo \ {d} = loose
    BY <1>4
  <2>2. u = PconnPush(x, d, full)
    BY DEF u
  <2> HIDE DEF lo
  <2>3. Sound(u, lo \ {d}) /\ SameRequests(x, u)
    BY <2>1, <2>2, SoundPush
  <2> QED BY <2>1, <2>3
<1>6. /\ u.fwd[r] = g /\ u.ent[r] = e /\ Only(s, u, r) /\ u \in States
      /\ Core(u.fwd[r], u.ent[r]) /\ u.ent[r].pend /\ u.fwd[r].srv # <<>> /\ u.fwd[r].fd = None
  <2>1. u.fwd[r] = g /\ u.ent[r] = e
    BY <1>4, <1>5 DEF SameRequests
  <2>2. Only(s, u, r)
    BY <1>4, <1>5 DEF SameRequests, Only
  <2>3. Core(g, e)
    BY <1>2 DEF Core
  <2>4. u \in States
    BY <1>5 DEF Sound
  <2> QED BY <1>2, <2>1, <2>2, <2>3, <2>4
<1> DEFINE over == Edited(u, r, Listed(u, r), Completed(u.ent[r]))
           next == Edited(u, r, [Listed(u, r) EXCEPT !.fd = None], Reset(u.ent[r]))
<1>7. \/ AskNext(u, r) /\ t = StartComplete(next, r, ok)
      \/ t = IF over.fwd[r].fd = None THEN StateFree(over, r) ELSE over
  BY <1>3, <1>6, CompleteForm
<1>8. CASE AskNext(u, r) /\ t = StartComplete(next, r, ok)
  <2>1. Sound(t, loose) /\ Only(u, t, r) /\ Replied(u.fwd[r], u.ent[r], t.fwd[r], t.ent[r])
    <3>1. next = Edited(u, r, [Listed(u, r) EXCEPT !.fd = None], Reset(u.ent[r]))
      OBVIOUS
    <3>2. loose = IF u.fwd[r].fd = None THEN loose ELSE loose \cup {u.fwd[r].fd}
      BY <1>6
    <3> HIDE DEF next
    <3> QED BY <1>5, <1>6, <1>8, <3>1, <3>2, SoundAgain
  <2>2. Only(s, t, r)
    BY <1>6, <2>1 DEF Only
  <2>3. Replied(g, e, t.fwd[r], t.ent[r])
    BY <1>6, <2>1
  <2>4. Replied(f, e, t.fwd[r], t.ent[r])
    <3> HIDE DEF f, e
    <3> QED BY <1>2, <2>3 DEF Replied
  <2> QED BY <2>1, <2>2, <2>4
<1>9. CASE t = IF over.fwd[r].fd = None THEN StateFree(over, r) ELSE over
  <2>1. /\ Sound(over, loose) /\ Only(u, over, r) /\ Core(over.fwd[r], over.ent[r])
        /\ ~over.ent[r].pend /\ over.fwd[r].fd = u.fwd[r].fd
    BY <1>5, <1>6, SoundOver
  <2> HIDE DEF over
  <2>2. t = StateFree(over, r)
    BY <1>6, <1>9, <2>1
  <2>3. /\ Sound(t, loose) /\ Only(over, t, r) /\ t.fwd[r] = Done
        /\ Fit(t.fwd[r], t.ent[r])
    BY <2>1, <2>2, SoundStateFree
  <2> QED BY ZenonT(60), <1>6, <2>1, <2>3 DEF Only, Replied
<1> QED
  BY <1>7, <1>8, <1>9

\* httpAppendBody at the end of the reply, when the connection is closed.
LEMMA SoundReplyClosed ==
    ASSUME NEW s, NEW loose, Sound(s, loose), NEW r \in Requests,
           Core(s.fwd[r], s.ent[r]), s.ent[r].pend, s.fwd[r].srv # <<>>, s.fwd[r].fd # None,
           NEW ok, NEW x, x = Complete(s, r, ok),
           NEW t, t = IF x.fwd[r].fd = s.fwd[r].fd
                      THEN CloseServer(x, r) ELSE CloseFd(x, s.fwd[r].fd)
    PROVE  Sound(t, loose) /\ Only(s, t, r) /\ Replied(s.fwd[r], s.ent[r], t.fwd[r], t.ent[r])
<1> DEFINE d == s.fwd[r].fd
           over == Edited(s, r, Listed(s, r), Completed(s.ent[r]))
           next == Edited(s, r, [Listed(s, r) EXCEPT !.fd = None], Reset(s.ent[r]))
<1>1. \/ AskNext(s, r) /\ x = StartComplete(next, r, ok)
      \/ x = IF over.fwd[r].fd = None THEN StateFree(over, r) ELSE over
  BY CompleteForm DEF Sound
<1>2. d \notin loose /\ d \in Fds
  BY DEF Sound, Owned, Held
<1>3. CASE AskNext(s, r) /\ x = StartComplete(next, r, ok)
  <2> DEFINE lo == loose \cup {d}
  <2>1. Sound(x, lo) /\ Only(s, x, r) /\ Replied(s.fwd[r], s.ent[r], x.fwd[r], x.ent[r])
    <3>1. next = Edited(s, r, [Listed(s, r) EXCEPT !.fd = None], Reset(s.ent[r]))
      OBVIOUS
    <3>2. lo = IF s.fwd[r].fd = None THEN loose ELSE loose \cup {s.fwd[r].fd}
      OBVIOUS
    <3> HIDE DEF next, lo
    <3> QED BY <1>3, <3>1, <3>2, SoundAgain
  <2>2. d \in lo /\ lo \ {d} = loose
    BY <1>2
  <2> HIDE DEF lo
  <2>3. x.fwd[r].fd # d
    BY <2>1, <2>2 DEF Sound, Owned, Held
  <2>4. t = CloseFd(x, d)
    BY <2>3
  <2>5. Sound(t, lo \ {d}) /\ SameRequests(x, t)
    <3>1. Sound(x, lo) /\ d \in lo
      BY <2>1, <2>2
    <3> HIDE DEF d
    <3>2. Sound(CloseFd(x, d), lo \ {d}) /\ SameRequests(x, CloseFd(x, d))
      BY <3>1, SoundCloseFd
    <3> QED BY <2>4, <3>2
  <2>6. Sound(t, loose)
    BY <2>2, <2>5
  <2> QED BY <2>1, <2>5, <2>6 DEF SameRequests, Only
<1>4. CASE x = IF over.fwd[r].fd = None THEN StateFree(over, r) ELSE over
  <2>1. /\ Sound(over, loose) /\ Only(s, over, r) /\ Core(over.fwd[r], over.ent[r])
        /\ ~over.ent[r].pend /\ over.fwd[r].fd = s.fwd[r].fd
    BY SoundOver
  <2> HIDE DEF over
  <2>2. x = over
    BY <1>4, <2>1
  <2>3. t = CloseServer(over, r)
    BY <2>1, <2>2
  <2>4. over.fwd[r].fd # None
    BY <2>1
  <2>5. /\ Sound(t, loose) /\ Only(over, t, r) /\ t.ent[r].hi = over.ent[r].hi
        /\ Fit(t.fwd[r], t.ent[r])
        /\ \/ t.fwd[r] = Done
           \/ t.fwd[r].st = "restart" /\ over.ent[r].pend
    BY <2>1, <2>3, <2>4, SoundCloseServer
  <2> QED BY ZenonT(60), <2>1, <2>5 DEF Only, Replied
<1> QED
  BY <1>1, <1>3, <1>4

-----------------------------------------------------------------------------
(***************************************************************************)
(* The steps of a request.                                                 *)
(***************************************************************************)

\* How a step may move a request: it fits after it, another attempt was made
\* only unseen, and it is nearer to its end unless its FwdState only notes
\* something.
Moved(f, e, f2, e2) ==
    /\ Fit(f2, e2)
    /\ f2.tries > f.tries => ~e.seen /\ ~e.body
    /\ f2.st # f.st \/ f2.fd # f.fd \/ e2.hi # e.hi
          => Distance(f2.st, f2.tries, e2.hi) < Distance(f.st, f.tries, e.hi)

LEMMA Distances ==
    ASSUME NEW n, NEW hi
    PROVE  /\ Distance("done", n, hi) = 0
           /\ Distance("connect", n, hi) = 4 * (MaxTries + 3 - n) + 3
           /\ Distance("sent", n, hi) = 4 * (MaxTries + 3 - n) + (IF hi THEN 1 ELSE 2)
           /\ Distance("restart", n, hi) = 4 * (MaxTries + 3 - n) + 0
           /\ Distance("select", n, hi) = 4 * (MaxTries + 3 - n) + 0
           /\ Distance("new", n, hi) = 4 * (MaxTries + 3 - n) + 1
BY DEF Distance

\* A request that is not done has a way to go.
LEMMA Far ==
    ASSUME NEW f \in FwdRecs, NEW e \in EntRecs, Core(f, e), f.st # "done"
    PROVE  /\ Distance(f.st, f.tries, e.hi) >= 4 * (MaxTries + 3 - f.tries)
           /\ Distance(f.st, f.tries, e.hi) > 0
           /\ Distance(f.st, f.tries, e.hi) \in Int
<1>1. f.tries \in Nat /\ f.tries <= MaxTries + 1 /\ MaxTries \in Nat
  BY ForwardAssumption DEF FwdRecs, Core
<1> DEFINE k == 4 * (MaxTries + 3 - f.tries)
<1>2. k \in Int /\ k > 0
  BY <1>1
<1> HIDE DEF k
<1>3. /\ f.st = "connect" => Distance(f.st, f.tries, e.hi) = k + 3
      /\ f.st = "sent" => Distance(f.st, f.tries, e.hi) = k + (IF e.hi THEN 1 ELSE 2)
      /\ f.st = "restart" => Distance(f.st, f.tries, e.hi) = k + 0
      /\ f.st = "select" => Distance(f.st, f.tries, e.hi) = k + 0
      /\ f.st = "new" => Distance(f.st, f.tries, e.hi) = k + 1
  BY Distances DEF k
<1>4. f.st \in {"connect", "sent", "restart", "select", "new"}
  BY DEF FwdRecs
<1> DEFINE d == Distance(f.st, f.tries, e.hi)
<1>5. d >= k /\ d > 0 /\ d \in Int
  <2> HIDE DEF d
  <2> QED BY <1>2, <1>3, <1>4 DEF d
<1> QED
  BY <1>5 DEF k

\* The end of the FwdState.
LEMMA MovedDone ==
    ASSUME NEW f \in FwdRecs, NEW e \in EntRecs, Core(f, e), f.st # "done",
           NEW e2, Fit(Done, e2)
    PROVE  Moved(f, e, Done, e2)
<1>1. Done.st = "done" /\ Done.tries = 0
  BY DEF Done, NewFwd
<1>2. Distance(Done.st, Done.tries, e2.hi) = 0
  BY <1>1, Distances
<1>3. f.tries \in Nat
  BY DEF FwdRecs
<1>4. Distance(f.st, f.tries, e.hi) > 0 /\ ~(Done.tries > f.tries)
  BY <1>1, <1>3, Far
<1> QED
  BY <1>2, <1>4 DEF Moved

\* A new attempt.
LEMMA MovedOn ==
    ASSUME NEW f \in FwdRecs, NEW e \in EntRecs, Core(f, e), f.st # "done",
           NEW f2, NEW e2, Fit(f2, e2), f2.st \in {"connect", "sent"}, f2.tries = f.tries + 1,
           ~e2.hi, ~e.seen, ~e.body
    PROVE  Moved(f, e, f2, e2)
<1>1. f.tries \in Nat /\ MaxTries \in Nat
  BY ForwardAssumption DEF FwdRecs
<1> DEFINE d == Distance(f.st, f.tries, e.hi)
           d2 == Distance(f2.st, f2.tries, e2.hi)
<1>2. d >= 4 * (MaxTries + 3 - f.tries) /\ d \in Int
  BY Far
<1>3. d2 = 4 * (MaxTries + 3 - (f.tries + 1)) + 3 \/ d2 = 4 * (MaxTries + 3 - (f.tries + 1)) + 2
  BY Distances
<1> HIDE DEF d, d2
<1>4. d2 < d
  BY <1>1, <1>2, <1>3
<1> QED
  BY <1>4 DEF Moved, d, d2

\* A retry is due.
LEMMA MovedBack ==
    ASSUME NEW f \in FwdRecs, NEW e \in EntRecs, f.st \in {"connect", "sent"}, ~e.hi,
           NEW f2, NEW e2, Fit(f2, e2), f2.st = "restart", f2.tries = f.tries
    PROVE  Moved(f, e, f2, e2)
<1>1. f.tries \in Nat /\ MaxTries \in Nat
  BY ForwardAssumption DEF FwdRecs
<1> DEFINE d == Distance(f.st, f.tries, e.hi)
           d2 == Distance(f2.st, f2.tries, e2.hi)
<1>2. d = 4 * (MaxTries + 3 - f.tries) + 3 \/ d = 4 * (MaxTries + 3 - f.tries) + 2
  BY Distances
<1>3. d2 = 4 * (MaxTries + 3 - f.tries) + 0
  BY Distances
<1> HIDE DEF d, d2
<1>4. d2 < d
  BY <1>1, <1>2, <1>3
<1> QED
  BY <1>1, <1>4 DEF Moved, d, d2

\* The FwdState and the header stay where they are.
LEMMA MovedNot ==
    ASSUME NEW f \in FwdRecs, NEW e, NEW f2, NEW e2, Fit(f2, e2),
           f2.st = f.st, f2.fd = f.fd, e2.hi = e.hi, f2.tries = f.tries
    PROVE  Moved(f, e, f2, e2)
<1>1. f.tries \in Nat
  BY DEF FwdRecs
<1> QED
  BY <1>1 DEF Moved

\* A state between two steps, and a step of one request or of all of them.
Ready(s) == Sound(s, {}) /\ \A q \in Requests : Fit(s.fwd[q], s.ent[q])

AllMoved(s, t) ==
    Sound(t, {}) /\ \A q \in Requests : Moved(s.fwd[q], s.ent[q], t.fwd[q], t.ent[q])

LEMMA ReadyTypes ==
    ASSUME NEW s, Ready(s), NEW r \in Requests
    PROVE  /\ s \in States /\ Sound(s, {})
           /\ s.fwd[r] \in FwdRecs /\ s.ent[r] \in EntRecs
           /\ Core(s.fwd[r], s.ent[r]) /\ Phase(s.fwd[r], s.ent[r])
<1>1. s \in States
  BY DEF Ready, Sound
<1> QED
  BY <1>1, Failed DEF Ready, Fit

LEMMA OneMoved ==
    ASSUME NEW s, Ready(s), NEW r \in Requests, NEW t, Sound(t, {}), Only(s, t, r),
           Moved(s.fwd[r], s.ent[r], t.fwd[r], t.ent[r])
    PROVE  AllMoved(s, t)
<1>1. ASSUME NEW q \in Requests \ {r} PROVE Moved(s.fwd[q], s.ent[q], t.fwd[q], t.ent[q])
  <2>1. t.fwd[q] = s.fwd[q] /\ t.ent[q] = s.ent[q]
    BY DEF Only
  <2>2. s.fwd[q] \in FwdRecs /\ Fit(s.fwd[q], s.ent[q])
    BY ReadyTypes DEF Ready
  <2> DEFINE f == s.fwd[q]
             e == s.ent[q]
  <2>3. Moved(f, e, f, e)
    <3> HIDE DEF f, e
    <3> QED BY <2>2, MovedNot DEF f, e
  <2> QED BY <2>1, <2>3
<1> QED
  BY <1>1 DEF AllMoved

\* No request is touched.
LEMMA NoneMoved ==
    ASSUME NEW s, Ready(s), NEW t, Sound(t, {}), t.fwd = s.fwd, t.ent = s.ent
    PROVE  AllMoved(s, t)
<1>1. ASSUME NEW q \in Requests PROVE Moved(s.fwd[q], s.ent[q], t.fwd[q], t.ent[q])
  <2>2. s.fwd[q] \in FwdRecs /\ Fit(s.fwd[q], s.ent[q])
    BY ReadyTypes DEF Ready
  <2> DEFINE f == s.fwd[q]
             e == s.ent[q]
  <2>3. Moved(f, e, f, e)
    <3> HIDE DEF f, e
    <3> QED BY <2>2, MovedNot DEF f, e
  <2> QED BY <2>3
<1> QED
  BY <1>1 DEF AllMoved

\* A step that only edits the request.
LEMMA EditMoved ==
    ASSUME NEW s, Ready(s), NEW r \in Requests, NEW f \in FwdRecs, NEW e \in EntRecs,
           f.fd = s.fwd[r].fd, Moved(s.fwd[r], s.ent[r], f, e), NEW t, t = Edited(s, r, f, e)
    PROVE  AllMoved(s, t)
<1>1. Sound(t, {}) /\ Only(s, t, r) /\ t.fwd[r] = f /\ t.ent[r] = e
  BY ReadyTypes, SoundEdit
<1> QED
  BY <1>1, OneMoved

LEMMA EditSides ==
    ASSUME NEW s \in States, NEW r \in Requests
    PROVE  [s.fwd EXCEPT ![r] = s.fwd[r]] = s.fwd /\ [s.ent EXCEPT ![r] = s.ent[r]] = s.ent
BY DEF States
-----------------------------------------------------------------------------
(***************************************************************************)
(* One lemma for each event of a request.                                  *)
(***************************************************************************)
LEMMA StartMoves ==
    ASSUME NEW s, Ready(s), NEW r \in Requests, s.fwd[r].st = "new", NEW post \in BOOLEAN
    PROVE  /\ AllMoved(s, [s EXCEPT !.fwd[r].st = "select", !.ent[r].wait = TRUE,
                                    !.ent[r].post = post])
           /\ AllMoved(s, [s EXCEPT !.fwd[r].st = "done", !.ent[r].pend = FALSE,
                                    !.ent[r].ans = "error"])
<1> DEFINE f == s.fwd[r]
           e == s.ent[r]
<1>0. s \in States /\ f \in FwdRecs /\ e \in EntRecs /\ Core(f, e) /\ Phase(f, e) /\ f.st = "new"
  BY ReadyTypes
<1>1. AllMoved(s, [s EXCEPT !.fwd[r].st = "select", !.ent[r].wait = TRUE, !.ent[r].post = post])
  <2> DEFINE t == [s EXCEPT !.fwd[r].st = "select", !.ent[r].wait = TRUE, !.ent[r].post = post]
             g == [f EXCEPT !.st = "select"]
             y == [e EXCEPT !.wait = TRUE, !.post = post]
  <2>1. t = Edited(s, r, g, y)
    BY <1>0 DEF Edited, States
  <2>2. /\ g \in FwdRecs /\ g.st = "select" /\ g.fd = f.fd /\ g.tries = f.tries
        /\ g.origin = f.origin
    BY <1>0 DEF FwdRecs
  <2>3. /\ y \in EntRecs /\ y.pend = e.pend /\ y.hi = e.hi /\ y.wait = TRUE /\ y.body = e.body
        /\ y.seen = e.seen /\ y.abort = e.abort /\ y.ans = e.ans
    BY <1>0 DEF EntRecs
  <2> HIDE DEF t, g, y
  <2>4. Core(g, y)
    BY <1>0, <2>2, <2>3 DEF Core, Phase
  <2>5. Phase(g, y)
    BY <1>0, <2>2, <2>3 DEF Core, Phase
  <2>6. Distance(g.st, g.tries, y.hi) < Distance(f.st, f.tries, e.hi)
    <3>1. f.tries \in Nat /\ MaxTries \in Nat
      BY <1>0, ForwardAssumption DEF FwdRecs
    <3>2. /\ Distance(g.st, g.tries, y.hi) = 4 * (MaxTries + 3 - f.tries) + 0
          /\ Distance(f.st, f.tries, e.hi) = 4 * (MaxTries + 3 - f.tries) + 1
      BY <1>0, <2>2, Distances
    <3> QED BY <3>1, <3>2
  <2>7. Moved(f, e, g, y)
    <3>1. ~(g.tries > f.tries)
      BY <1>0, <2>2 DEF FwdRecs
    <3> QED BY <2>4, <2>5, <2>6, <3>1 DEF Moved, Fit
  <2>8. AllMoved(s, t)
    <3>1. g.fd = s.fwd[r].fd /\ Moved(s.fwd[r], s.ent[r], g, y)
      BY <2>2, <2>7
    <3> QED BY <2>1, <2>2, <2>3, <3>1, EditMoved
  <2> QED BY <2>8 DEF t
<1>2. AllMoved(s, [s EXCEPT !.fwd[r].st = "done", !.ent[r].pend = FALSE, !.ent[r].ans = "error"])
  <2> DEFINE t == [s EXCEPT !.fwd[r].st = "done", !.ent[r].pend = FALSE, !.ent[r].ans = "error"]
             g == [f EXCEPT !.st = "done"]
             y == [e EXCEPT !.pend = FALSE, !.ans = "error"]
  <2>1. t = Edited(s, r, g, y)
    BY <1>0 DEF Edited, States
  <2>2. /\ g \in FwdRecs /\ g.st = "done" /\ g.fd = f.fd /\ g.tries = f.tries
        /\ g.origin = f.origin
    BY <1>0 DEF FwdRecs
  <2>3. /\ y \in EntRecs /\ y.pend = FALSE /\ y.hi = e.hi /\ y.wait = e.wait /\ y.body = e.body
        /\ y.seen = e.seen /\ y.abort = e.abort /\ y.ans = "error"
    BY <1>0 DEF EntRecs
  <2> HIDE DEF t, g, y
  <2>4. Core(g, y)
    BY <1>0, <2>2, <2>3 DEF Core, Phase
  <2>5. Phase(g, y)
    BY <1>0, <2>2, <2>3 DEF Core, Phase
  <2>6. Distance(g.st, g.tries, y.hi) < Distance(f.st, f.tries, e.hi)
    <3>1. Distance(g.st, g.tries, y.hi) = 0
      BY <2>2, Distances
    <3>2. Distance(f.st, f.tries, e.hi) > 0
      <4> HIDE DEF f, e
      <4> QED BY <1>0, Far
    <3> QED BY <3>1, <3>2
  <2>7. Moved(f, e, g, y)
    <3>1. ~(g.tries > f.tries)
      BY <1>0, <2>2 DEF FwdRecs
    <3> QED BY <2>4, <2>5, <2>6, <3>1 DEF Moved, Fit
  <2>8. AllMoved(s, t)
    <3>1. g.fd = s.fwd[r].fd /\ Moved(s.fwd[r], s.ent[r], g, y)
      BY <2>2, <2>7
    <3> QED BY <2>1, <2>2, <2>3, <3>1, EditMoved
  <2> QED BY <2>8 DEF t
<1> QED
  BY <1>1, <1>2

\* Config.Timeout.forward has passed.
LEMMA TimeoutMoves ==
    ASSUME NEW s, Ready(s), NEW r \in Requests
    PROVE  AllMoved(s, [s EXCEPT !.fwd[r].dont = TRUE])
<1> DEFINE f == s.fwd[r]
           e == s.ent[r]
           t == [s EXCEPT !.fwd[r].dont = TRUE]
           g == [f EXCEPT !.dont = TRUE]
<1>0. s \in States /\ f \in FwdRecs /\ e \in EntRecs /\ Core(f, e) /\ Phase(f, e)
  BY ReadyTypes
<1>1. t = Edited(s, r, g, e)
  <2>1. [s.fwd EXCEPT ![r] = f] = s.fwd /\ [s.ent EXCEPT ![r] = e] = s.ent
    BY <1>0, EditSides
  <2> QED BY <1>0, <2>1 DEF Edited, States
<1>2. /\ g \in FwdRecs /\ g.st = f.st /\ g.fd = f.fd /\ g.tries = f.tries
      /\ g.origin = f.origin /\ g.srv = f.srv
  BY <1>0 DEF FwdRecs
<1> HIDE DEF t, g
<1>3. Fit(g, e)
  BY <1>0, <1>2 DEF Core, Phase, Fit
<1>4. Moved(f, e, g, e)
  BY <1>0, <1>2, <1>3, MovedNot
<1>5. AllMoved(s, t)
  <2>1. g.fd = s.fwd[r].fd /\ Moved(s.fwd[r], s.ent[r], g, e)
    BY <1>2, <1>4
  <2> QED BY <1>0, <1>1, <1>2, <2>1, EditMoved
<1> QED BY <1>5 DEF t

\* fwdConnectDone with COMM_OK
LEMMA ConnectOkMoves ==
    ASSUME NEW s, Ready(s), NEW r \in Requests, s.fwd[r].st = "connect"
    PROVE  AllMoved(s, [s EXCEPT !.fwd[r].st = "sent"])
<1> DEFINE f == s.fwd[r]
           e == s.ent[r]
           t == [s EXCEPT !.fwd[r].st = "sent"]
           g == [f EXCEPT !.st = "sent"]
<1>0. /\ s \in States /\ f \in FwdRecs /\ e \in EntRecs /\ Core(f, e) /\ Phase(f, e)
      /\ f.st = "connect"
  BY ReadyTypes
<1>1. t = Edited(s, r, g, e)
  <2>1. [s.fwd EXCEPT ![r] = f] = s.fwd /\ [s.ent EXCEPT ![r] = e] = s.ent
    BY <1>0, EditSides
  <2> QED BY <1>0, <2>1 DEF Edited, States
<1>2. /\ g \in FwdRecs /\ g.st = "sent" /\ g.fd = f.fd /\ g.tries = f.tries
      /\ g.origin = f.origin /\ g.srv = f.srv
  BY <1>0 DEF FwdRecs
<1> HIDE DEF t, g
<1>3. Fit(g, e)
  BY <1>0, <1>2 DEF Core, Phase, Fit
<1>4. Distance(g.st, g.tries, e.hi) < Distance(f.st, f.tries, e.hi)
  <2>1. f.tries \in Nat /\ MaxTries \in Nat
    BY <1>0, ForwardAssumption DEF FwdRecs
  <2>2. /\ Distance(g.st, g.tries, e.hi) = 4 * (MaxTries + 3 - f.tries) + (IF e.hi THEN 1 ELSE 2)
        /\ Distance(f.st, f.tries, e.hi) = 4 * (MaxTries + 3 - f.tries) + 3
    BY <1>0, <1>2, Distances
  <2>3. (IF e.hi THEN 1 ELSE 2) \in {1, 2}
    OBVIOUS
  <2> QED BY <2>1, <2>2, <2>3
<1>5. Moved(f, e, g, e)
  <2>1. ~(g.tries > f.tries)
    BY <1>0, <1>2 DEF FwdRecs
  <2> QED BY <1>3, <1>4, <2>1 DEF Moved
<1>6. AllMoved(s, t)
  <2>1. g.fd = s.fwd[r].fd /\ Moved(s.fwd[r], s.ent[r], g, e)
    BY <1>2, <1>5
  <2> QED BY <1>0, <1>1, <1>2, <2>1, EditMoved
<1> QED BY <1>6 DEF t

\* clientProcessBody
LEMMA BodyMoves ==
    ASSUME NEW s, Ready(s), NEW r \in Requests, s.fwd[r].st = "sent"
    PROVE  AllMoved(s, [s EXCEPT !.ent[r].body = TRUE])
<1> DEFINE f == s.fwd[r]
           e == s.ent[r]
           t == [s EXCEPT !.ent[r].body = TRUE]
           y == [e EXCEPT !.body = TRUE]
<1>0. /\ s \in States /\ f \in FwdRecs /\ e \in EntRecs /\ Core(f, e) /\ Phase(f, e)
      /\ f.st = "sent"
  BY ReadyTypes
<1>1. t = Edited(s, r, f, y)
  <2>1. [s.fwd EXCEPT ![r] = f] = s.fwd /\ [s.ent EXCEPT ![r] = e] = s.ent
    BY <1>0, EditSides
  <2> QED BY <1>0, <2>1 DEF Edited, States
<1>2. /\ y \in EntRecs /\ y.pend = e.pend /\ y.hi = e.hi /\ y.wait = e.wait
      /\ y.seen = e.seen /\ y.abort = e.abort /\ y.ans = e.ans
  BY <1>0 DEF EntRecs
<1> HIDE DEF t, y
<1>3. Core(f, y) /\ Phase(f, y)
  BY <1>0, <1>2 DEF Core, Phase
<1>4. Moved(f, e, f, y)
  BY <1>0, <1>2, <1>3, MovedNot DEF Fit
<1>5. AllMoved(s, t)
  <2>1. f.fd = s.fwd[r].fd /\ Moved(s.fwd[r], s.ent[r], f, y)
    BY <1>4
  <2> QED BY <1>0, <1>1, <1>2, <2>1, EditMoved
<1> QED BY <1>5 DEF t

\* httpReadReply gets the header.
LEMMA HeaderMoves ==
    ASSUME NEW s, Ready(s), NEW r \in Requests, s.fwd[r].st = "sent", ~s.ent[r].hi,
           s.ent[r].ans # "abort", NEW bad \in BOOLEAN,
           NEW held \in BOOLEAN, held => s.ent[r].wait,
           NEW seen \in BOOLEAN, seen <=> s.ent[r].seen \/ ~held
    PROVE  AllMoved(s, [s EXCEPT !.ent[r].hi = TRUE, !.ent[r].bad = bad,
                                 !.ent[r].wait = held, !.ent[r].seen = seen])
<1> DEFINE f == s.fwd[r]
           e == s.ent[r]
           t == [s EXCEPT !.ent[r].hi = TRUE, !.ent[r].bad = bad, !.ent[r].wait = held,
                          !.ent[r].seen = seen]
           y == [e EXCEPT !.hi = TRUE, !.bad = bad, !.wait = held, !.seen = seen]
<1>0. /\ s \in States /\ f \in FwdRecs /\ e \in EntRecs /\ Core(f, e) /\ Phase(f, e)
      /\ f.st = "sent"
  BY ReadyTypes
<1>1. t = Edited(s, r, f, y)
  <2>1. t = [s EXCEPT !.ent[r] = y]
    <3> DEFINE t1 == [s EXCEPT !.ent[r].hi = TRUE, !.ent[r].bad = bad]
               y1 == [e EXCEPT !.hi = TRUE, !.bad = bad]
    <3>1. t1 = [s EXCEPT !.ent[r] = y1]
      BY <1>0 DEF States
    <3>2. t = [t1 EXCEPT !.ent[r].wait = held, !.ent[r].seen = seen]
      OBVIOUS
    <3>3. y = [y1 EXCEPT !.wait = held, !.seen = seen]
      OBVIOUS
    <3> HIDE DEF t1, y1, t, y
    <3>4. t1.ent[r] = y1 /\ \A x : [t1 EXCEPT !.ent[r] = x] = [s EXCEPT !.ent[r] = x]
      BY <1>0, <3>1 DEF States
    <3>5. t = [t1 EXCEPT !.ent[r] = [t1.ent[r] EXCEPT !.wait = held, !.seen = seen]]
      BY ZenonT(60), <1>0, <3>1, <3>2 DEF States
    <3> QED BY <3>3, <3>4, <3>5
  <2>2. [s.fwd EXCEPT ![r] = f] = s.fwd
    BY <1>0, EditSides
  <2> HIDE DEF t, y
  <2> QED BY <1>0, <2>1, <2>2 DEF Edited, States
<1>2. /\ y \in EntRecs /\ y.pend = e.pend /\ y.hi = TRUE /\ y.wait = held
      /\ y.seen = seen /\ y.abort = e.abort /\ y.ans = e.ans
      /\ y.body = e.body
  BY ZenonT(60), <1>0 DEF EntRecs
<1> HIDE DEF t, y
<1>3. e.pend /\ e.ans = "none" /\ ~e.seen
  BY <1>0 DEF Core, Phase
<1>4. Core(f, y)
  BY <1>0, <1>2, <1>3 DEF Core
<1>5. Phase(f, y)
  BY <1>0, <1>2, <1>3 DEF Phase
<1>6. Distance(f.st, f.tries, y.hi) < Distance(f.st, f.tries, e.hi)
  <2>1. f.tries \in Nat /\ MaxTries \in Nat
    BY <1>0, ForwardAssumption DEF FwdRecs
  <2>2. /\ Distance(f.st, f.tries, y.hi) = 4 * (MaxTries + 3 - f.tries) + 1
        /\ Distance(f.st, f.tries, e.hi) = 4 * (MaxTries + 3 - f.tries) + 2
    BY <1>0, <1>2, Distances
  <2> QED BY <2>1, <2>2
<1>7. Moved(f, e, f, y)
  <2>1. ~(f.tries > f.tries)
    BY <1>0 DEF FwdRecs
  <2> QED BY <1>4, <1>5, <1>6, <2>1 DEF Moved, Fit
<1>8. AllMoved(s, t)
  <2>1. f.fd = s.fwd[r].fd /\ Moved(s.fwd[r], s.ent[r], f, y)
    BY <1>7
  <2> QED BY <1>0, <1>1, <1>2, <2>1, EditMoved
<1> QED BY <1>8 DEF t

\* storeAbort
LEMMA AbortMoves ==
    ASSUME NEW s, Ready(s), NEW r \in Requests,
           s.fwd[r].st \in {"select", "restart", "connect", "sent"}
    PROVE  AllMoved(s, [s EXCEPT !.ent[r].pend = FALSE, !.ent[r].ans = "abort",
                                 !.ent[r].abort = TRUE])
<1> DEFINE f == s.fwd[r]
           e == s.ent[r]
           t == [s EXCEPT !.ent[r].pend = FALSE, !.ent[r].ans = "abort", !.ent[r].abort = TRUE]
           y == [e EXCEPT !.pend = FALSE, !.ans = "abort", !.abort = TRUE]
<1>0. /\ s \in States /\ f \in FwdRecs /\ e \in EntRecs /\ Core(f, e) /\ Phase(f, e)
      /\ f.st \in {"select", "restart", "connect", "sent"}
  BY ReadyTypes
<1>1. t = Edited(s, r, f, y)
  <2>1. t = [s EXCEPT !.ent[r] = y]
    BY <1>0 DEF States, EntRecs
  <2>2. [s.fwd EXCEPT ![r] = f] = s.fwd
    BY <1>0, EditSides
  <2> HIDE DEF t, y
  <2> QED BY <1>0, <2>1, <2>2 DEF Edited, States
<1>2. /\ y \in EntRecs /\ y.pend = FALSE /\ y.hi = e.hi /\ y.wait = e.wait
      /\ y.seen = e.seen /\ y.abort = TRUE /\ y.ans = "abort" /\ y.body = e.body
  BY <1>0 DEF EntRecs
<1> HIDE DEF t, y
<1>3. Core(f, y) /\ Phase(f, y)
  BY <1>0, <1>2 DEF Core, Phase
<1>4. Moved(f, e, f, y)
  BY <1>0, <1>2, <1>3, MovedNot DEF Fit
<1>5. AllMoved(s, t)
  <2>1. f.fd = s.fwd[r].fd /\ Moved(s.fwd[r], s.ent[r], f, y)
    BY <1>4
  <2> QED BY <1>0, <1>1, <1>2, <2>1, EditMoved
<1> QED BY <1>5 DEF t

\* fwdStartComplete for a request that was edited before.
LEMMA StartedMoves ==
    ASSUME NEW s, Ready(s), NEW r \in Requests, s.fwd[r].st \in {"select", "restart"},
           NEW g \in FwdRecs, g.fd = s.fwd[r].fd, g.tries = s.fwd[r].tries,
           g.origin = s.fwd[r].origin,
           NEW u, u = Edited(s, r, g, s.ent[r]), NEW ok
    PROVE  AllMoved(s, StartComplete(u, r, ok))
<1> DEFINE f == s.fwd[r]
           e == s.ent[r]
           t == StartComplete(u, r, ok)
<1>0. /\ s \in States /\ f \in FwdRecs /\ e \in EntRecs /\ Core(f, e) /\ Phase(f, e)
      /\ f.st \in {"select", "restart"} /\ Sound(s, {})
  BY ReadyTypes
<1>1. Sound(u, {}) /\ Only(s, u, r) /\ u.fwd[r] = g /\ u.ent[r] = e
  <2> HIDE DEF e
  <2>1. e \in EntRecs /\ u = Edited(s, r, g, e) /\ Sound(s, {})
    BY <1>0 DEF e
  <2> QED BY <2>1, SoundEdit
<1>2. Fresh(g, e)
  <2>1. f.tries <= MaxTries /\ f.fd = None
    BY <1>0, ForwardAssumption DEF Phase
  <2>2. Core(g, e)
    BY <1>0 DEF Core
  <2> QED BY <1>0, <2>1, <2>2 DEF Fresh, Phase
<1>3. Sound(t, {}) /\ Only(u, t, r) /\ Began(g, t.fwd[r], t.ent[r])
  <2>1. Fresh(u.fwd[r], u.ent[r])
    BY <1>1, <1>2
  <2>2. Sound(t, {}) /\ Only(u, t, r) /\ Began(u.fwd[r], t.fwd[r], t.ent[r])
    BY <1>1, <2>1, SoundStartComplete
  <2> QED BY <1>1, <2>2
<1> HIDE DEF t
<1>4. Only(s, t, r)
  BY <1>1, <1>3 DEF Only
<1>5. Moved(f, e, t.fwd[r], t.ent[r])
  <2> DEFINE f2 == t.fwd[r]
             e2 == t.ent[r]
  <2>1. Fit(f2, e2) /\ ~e2.hi
    BY <1>3 DEF Began
  <2>2. f2 = Done \/ (f2.st \in {"connect", "sent"} /\ f2.tries = f.tries + 1)
    BY <1>3 DEF Began
  <2>3. f.st # "done" /\ ~e.seen /\ ~e.body
    BY <1>0 DEF Phase
  <2> SUFFICES Moved(f, e, f2, e2)
    OBVIOUS
  <2> HIDE DEF f, e, f2, e2
  <2>4. CASE f2 = Done
    BY <1>0, <2>1, <2>3, <2>4, MovedDone
  <2>5. CASE f2.st \in {"connect", "sent"} /\ f2.tries = f.tries + 1
    BY <1>0, <2>1, <2>3, <2>5, MovedOn
  <2> QED BY <2>2, <2>4, <2>5
<1>6. AllMoved(s, t)
  BY <1>3, <1>4, <1>5, OneMoved
<1> QED BY <1>6 DEF t

LEMMA SelectMoves ==
    ASSUME NEW s, Ready(s), NEW r \in Requests, s.fwd[r].st = "select", NEW srv \in Seq(Hosts),
           NEW ok
    PROVE  AllMoved(s, StartComplete([s EXCEPT !.fwd[r].srv = srv], r, ok))
<1> DEFINE f == s.fwd[r]
           e == s.ent[r]
           u == [s EXCEPT !.fwd[r].srv = srv]
           g == [f EXCEPT !.srv = srv]
<1>0. s \in States /\ f \in FwdRecs
  BY ReadyTypes
<1>1. u = Edited(s, r, g, e)
  <2>1. [s.ent EXCEPT ![r] = e] = s.ent
    BY <1>0, EditSides
  <2> QED BY <1>0, <2>1 DEF Edited, States
<1>2. g \in FwdRecs /\ g.fd = f.fd /\ g.tries = f.tries /\ g.origin = f.origin
  BY <1>0 DEF FwdRecs
<1> HIDE DEF u, g
<1>3. f.st \in {"select", "restart"}
  OBVIOUS
<1>4. AllMoved(s, StartComplete(u, r, ok))
  BY <1>1, <1>2, <1>3, StartedMoves
<1> QED BY <1>4 DEF u

LEMMA RestartMoves ==
    ASSUME NEW s, Ready(s), NEW r \in Requests, s.fwd[r].st = "restart", NEW ok
    PROVE  AllMoved(s, StartComplete(s, r, ok))
<1> DEFINE g == s.fwd[r]
<1>1. s \in States /\ g \in FwdRecs
  BY ReadyTypes
<1>2. s = Edited(s, r, g, s.ent[r])
  BY <1>1, Failed
<1>3. /\ g.fd = s.fwd[r].fd /\ g.tries = s.fwd[r].tries /\ g.origin = s.fwd[r].origin
      /\ s.fwd[r].st \in {"select", "restart"}
  OBVIOUS
<1> HIDE DEF g
<1> QED
  BY <1>1, <1>2, <1>3, StartedMoves

\* comm_close of the connection of a request, edited before.
LEMMA ClosedMoves ==
    ASSUME NEW s, Ready(s), NEW r \in Requests, s.fwd[r].st \in {"connect", "sent"},
           NEW g \in FwdRecs, g.fd = s.fwd[r].fd, g.tries = s.fwd[r].tries,
           g.origin = s.fwd[r].origin, g.srv = s.fwd[r].srv,
           s.ent[r].pend => g.err \/ s.ent[r].hi,
           NEW u, u = Edited(s, r, g, s.ent[r])
    PROVE  AllMoved(s, CloseServer(u, r))
<1> DEFINE f == s.fwd[r]
           e == s.ent[r]
           t == CloseServer(u, r)
<1>0. /\ s \in States /\ f \in FwdRecs /\ e \in EntRecs /\ Core(f, e) /\ Phase(f, e)
      /\ f.st \in {"connect", "sent"} /\ Sound(s, {})
  BY ReadyTypes
<1>1. Sound(u, {}) /\ Only(s, u, r) /\ u.fwd[r] = g /\ u.ent[r] = e
  <2> HIDE DEF e
  <2>1. e \in EntRecs /\ u = Edited(s, r, g, e) /\ Sound(s, {})
    BY <1>0 DEF e
  <2> QED BY <2>1, SoundEdit
<1>2. /\ Core(u.fwd[r], u.ent[r]) /\ u.fwd[r].fd # None
      /\ u.ent[r].pend => (u.fwd[r].err \/ u.ent[r].hi) /\ u.fwd[r].srv # <<>>
  <2>1. Core(g, e)
    BY <1>0 DEF Core
  <2>2. g.fd # None /\ g.srv # <<>>
    BY <1>0 DEF Phase
  <2> QED BY <1>1, <2>1, <2>2
<1>3. /\ Sound(t, {}) /\ Only(u, t, r) /\ t.ent[r].hi = u.ent[r].hi
      /\ Fit(t.fwd[r], t.ent[r])
      /\ \/ t.fwd[r] = Done
         \/ /\ t.fwd[r].st = "restart" /\ t.fwd[r].tries = u.fwd[r].tries
            /\ t.fwd[r].fd = None /\ ~u.ent[r].hi /\ u.ent[r].pend
  BY <1>1, <1>2, SoundCloseServer
<1> HIDE DEF t
<1>4. Only(s, t, r)
  BY <1>1, <1>3 DEF Only
<1>5. Moved(f, e, t.fwd[r], t.ent[r])
  <2> DEFINE f2 == t.fwd[r]
             e2 == t.ent[r]
  <2>1. /\ Fit(f2, e2)
        /\ f2 = Done \/ (f2.st = "restart" /\ f2.tries = f.tries /\ ~e.hi)
    BY <1>1, <1>3
  <2>2. f.st # "done"
    BY <1>0
  <2> SUFFICES Moved(f, e, f2, e2)
    OBVIOUS
  <2> HIDE DEF f, e, f2, e2
  <2>3. CASE f2 = Done
    BY <1>0, <2>1, <2>2, <2>3, MovedDone
  <2>4. CASE f2.st = "restart" /\ f2.tries = f.tries /\ ~e.hi
    BY <1>0, <2>1, <2>4, MovedBack
  <2> QED BY <2>1, <2>3, <2>4
<1>6. AllMoved(s, t)
  BY <1>3, <1>4, <1>5, OneMoved
<1> QED BY <1>6 DEF t

LEMMA FailMoves ==
    ASSUME NEW s, Ready(s), NEW r \in Requests, s.fwd[r].st \in {"connect", "sent"},
           NEW b \in BOOLEAN
    PROVE  /\ AllMoved(s, CloseServer(Fail(s, r), r))
           /\ AllMoved(s, CloseServer([Fail(s, r) EXCEPT !.fwd[r].dont = b], r))
<1> DEFINE f == s.fwd[r]
           e == s.ent[r]
           u == Fail(s, r)
           g == [f EXCEPT !.err = TRUE]
           u2 == [Fail(s, r) EXCEPT !.fwd[r].dont = b]
           g2 == [f EXCEPT !.err = TRUE, !.dont = b]
<1>0. s \in States /\ f \in FwdRecs /\ s.fwd[r].st \in {"connect", "sent"}
  BY ReadyTypes
<1>1. u = Edited(s, r, g, s.ent[r])
  BY <1>0, Failed
<1>2. u2 = Edited(s, r, g2, s.ent[r])
  <2>1. [s.ent EXCEPT ![r] = e] = s.ent
    BY <1>0, EditSides
  <2>2. u2 = [s EXCEPT !.fwd = [s.fwd EXCEPT ![r] = g2]]
    BY <1>0 DEF Fail, States, FwdRecs
  <2> HIDE DEF g2, u2
  <2> QED BY <1>0, <2>1, <2>2 DEF Edited, States
<1>3. /\ g \in FwdRecs /\ g.fd = f.fd /\ g.tries = f.tries /\ g.origin = f.origin
      /\ g.srv = f.srv /\ g.err
  BY <1>0 DEF FwdRecs
<1>4. /\ g2 \in FwdRecs /\ g2.fd = f.fd /\ g2.tries = f.tries /\ g2.origin = f.origin
      /\ g2.srv = f.srv /\ g2.err
  BY <1>0 DEF FwdRecs
<1> HIDE DEF u, g, u2, g2
<1>5. AllMoved(s, CloseServer(u, r))
  BY <1>0, <1>1, <1>3, ClosedMoves
<1>6. AllMoved(s, CloseServer(u2, r))
  BY <1>0, <1>2, <1>4, ClosedMoves
<1> QED BY <1>5, <1>6 DEF u, u2

\* The reply ends wrongly, or the entry was aborted.
LEMMA CutMoves ==
    ASSUME NEW s, Ready(s), NEW r \in Requests, s.fwd[r].st = "sent",
           s.ent[r].hi \/ s.ent[r].ans = "abort"
    PROVE  AllMoved(s, CloseServer(s, r))
<1> DEFINE g == s.fwd[r]
<1>1. s \in States /\ g \in FwdRecs
  BY ReadyTypes
<1>2. s = Edited(s, r, g, s.ent[r])
  BY <1>1, Failed
<1>3. s.ent[r].pend => g.err \/ s.ent[r].hi
  BY ReadyTypes DEF Core
<1>4. /\ g.fd = s.fwd[r].fd /\ g.tries = s.fwd[r].tries /\ g.origin = s.fwd[r].origin
      /\ g.srv = s.fwd[r].srv /\ s.fwd[r].st \in {"connect", "sent"}
  OBVIOUS
<1> HIDE DEF g
<1> QED
  BY <1>1, <1>2, <1>3, <1>4, ClosedMoves

\* The end of a reply.
LEMMA RepliedMoves ==
    ASSUME NEW s, Ready(s), NEW r \in Requests, s.fwd[r].st = "sent",
           NEW t, Sound(t, {}), Only(s, t, r), Replied(s.fwd[r], s.ent[r], t.fwd[r], t.ent[r])
    PROVE  AllMoved(s, t)
<1> DEFINE f == s.fwd[r]
           e == s.ent[r]
           f2 == t.fwd[r]
           e2 == t.ent[r]
<1>0. f \in FwdRecs /\ e \in EntRecs /\ Core(f, e) /\ f.st # "done" /\ Replied(f, e, f2, e2)
  BY ReadyTypes
<1>1. Moved(f, e, f2, e2)
  <2> HIDE DEF f, e, f2, e2
  <2>1. CASE f2 = Done
    BY <1>0, <2>1, MovedDone DEF Replied
  <2>2. CASE f2 # Done
    <3>1. /\ Fit(f2, e2) /\ f2.st \in {"connect", "sent"} /\ f2.tries = f.tries + 1
          /\ ~e2.hi /\ ~e.seen /\ ~e.body
      BY <1>0, <2>2 DEF Replied
    <3> QED BY <1>0, <3>1, MovedOn
  <2> QED BY <2>1, <2>2
<1> QED
  BY <1>1, OneMoved

LEMMA KeptMoves ==
    ASSUME NEW s, Ready(s), NEW r \in Requests, s.fwd[r].st = "sent",
           s.ent[r].ans # "abort", NEW full, NEW ok
    PROVE  AllMoved(s, Complete(PconnPush([s EXCEPT !.fwd[r].fd = None], s.fwd[r].fd, full), r, ok))
<1> DEFINE x == [s EXCEPT !.fwd[r].fd = None]
           t == Complete(PconnPush(x, s.fwd[r].fd, full), r, ok)
<1>0. /\ s \in States /\ Sound(s, {}) /\ Core(s.fwd[r], s.ent[r])
      /\ s.ent[r].pend /\ s.fwd[r].srv # <<>> /\ s.fwd[r].fd # None
  BY ReadyTypes DEF Core, Phase
<1>1. x = Unheld(s, r)
  <2>1. [s.ent EXCEPT ![r] = s.ent[r]] = s.ent
    BY <1>0, EditSides
  <2> QED BY <1>0, <2>1 DEF Unheld, Edited, States
<1> HIDE DEF x
<1>2. Sound(t, {}) /\ Only(s, t, r) /\ Replied(s.fwd[r], s.ent[r], t.fwd[r], t.ent[r])
  BY <1>0, <1>1, SoundReplyKept
<1> HIDE DEF t
<1>3. AllMoved(s, t)
  BY <1>2, RepliedMoves
<1> QED BY <1>3 DEF t, x

LEMMA ReplyClosedMoves ==
    ASSUME NEW s, Ready(s), NEW r \in Requests, s.fwd[r].st = "sent",
           s.ent[r].ans # "abort", NEW ok, NEW x, x = Complete(s, r, ok),
           NEW t, t = IF x.fwd[r].fd = s.fwd[r].fd
                      THEN CloseServer(x, r) ELSE CloseFd(x, s.fwd[r].fd)
    PROVE  AllMoved(s, t)
<1>0. /\ Sound(s, {}) /\ Core(s.fwd[r], s.ent[r])
      /\ s.ent[r].pend /\ s.fwd[r].srv # <<>> /\ s.fwd[r].fd # None
  BY ReadyTypes DEF Core, Phase
<1>1. Sound(t, {}) /\ Only(s, t, r) /\ Replied(s.fwd[r], s.ent[r], t.fwd[r], t.ent[r])
  BY <1>0, SoundReplyClosed
<1> QED
  BY <1>1, RepliedMoves

\* The event that storeAbort left.
Unscheduled(s, r) == [s EXCEPT !.ent[r].abort = FALSE]

LEMMA AbortRunsMoves ==
    ASSUME NEW s, Ready(s), NEW r \in Requests, s.ent[r].abort, NEW x, x = Unscheduled(s, r)
    PROVE  AllMoved(s, IF s.fwd[r].st = "done" THEN x ELSE StateFree(x, r))
<1> DEFINE f == s.fwd[r]
           e == s.ent[r]
           y == [e EXCEPT !.abort = FALSE]
<1>0. /\ s \in States /\ f \in FwdRecs /\ e \in EntRecs /\ Core(f, e) /\ Phase(f, e)
      /\ Sound(s, {})
  BY ReadyTypes
<1>1. x = Edited(s, r, f, y)
  <2>1. [s.fwd EXCEPT ![r] = f] = s.fwd
    BY <1>0, EditSides
  <2> QED BY <1>0, <2>1 DEF Unscheduled, Edited, States
<1>2. /\ y \in EntRecs /\ y.pend = e.pend /\ y.hi = e.hi /\ y.wait = e.wait /\ y.body = e.body
      /\ y.seen = e.seen /\ y.abort = FALSE /\ y.ans = e.ans
  BY <1>0 DEF EntRecs
<1> HIDE DEF y
<1>3. Core(f, y) /\ Phase(f, y) /\ ~y.pend
  BY <1>0, <1>2 DEF Core, Phase
<1>4. CASE f.st = "done"
  <2>1. Moved(f, e, f, y)
    BY <1>0, <1>2, <1>3, MovedNot DEF Fit
  <2>2. f.fd = s.fwd[r].fd /\ Moved(s.fwd[r], s.ent[r], f, y)
    BY <2>1
  <2>3. AllMoved(s, x)
    <3> HIDE DEF f
    <3> QED BY <1>0, <1>1, <1>2, <2>2, EditMoved
  <2> QED BY <1>4, <2>3
<1>5. CASE f.st # "done"
  <2> DEFINE t == StateFree(x, r)
  <2>1. Sound(x, {}) /\ Only(s, x, r) /\ x.fwd[r] = f /\ x.ent[r] = y
    <3>1. f.fd = s.fwd[r].fd /\ f \in FwdRecs /\ Sound(s, {})
      BY <1>0
    <3> HIDE DEF f
    <3> QED BY <1>1, <1>2, <3>1, SoundEdit
  <2>2. Core(x.fwd[r], x.ent[r]) /\ ~x.ent[r].pend
    BY <1>3, <2>1
  <2>3. /\ Sound(t, {}) /\ Only(x, t, r) /\ t.fwd[r] = Done /\ Fit(t.fwd[r], t.ent[r])
    BY <2>1, <2>2, SoundStateFree
  <2> HIDE DEF t
  <2>4. Only(s, t, r)
    BY <2>1, <2>3 DEF Only
  <2>5. Moved(f, e, t.fwd[r], t.ent[r])
    <3> HIDE DEF f, e
    <3> QED BY <1>0, <1>5, <2>3, MovedDone
  <2>6. AllMoved(s, t)
    BY <2>3, <2>4, <2>5, OneMoved
  <2> QED BY <1>5, <2>6 DEF t
<1> QED
  BY <1>4, <1>5

\* pconnRead, pconnTimeout, fwdConnectIdleDone and fwdConnectIdleTimeout
LEMMA PoolMoves ==
    ASSUME NEW s, Ready(s), NEW d \in Fds, NEW full
    PROVE  /\ s.conn[d].use = "pooled" => AllMoved(s, CloseFd(PconnRemove(s, d), d))
           /\ s.conn[d].use = "opening" =>
                 /\ AllMoved(s, PconnPush(NotOpening(s, d), d, full))
                 /\ AllMoved(s, CloseFd(NotOpening(s, d), d))
<1>0. Sound(s, {})
  BY DEF Ready
<1>1. ASSUME s.conn[d].use = "pooled" PROVE AllMoved(s, CloseFd(PconnRemove(s, d), d))
  <2> DEFINE t == CloseFd(PconnRemove(s, d), d)
  <2>1. Sound(t, {}) /\ SameRequests(s, t)
    BY <1>0, <1>1, SoundPopClose
  <2> HIDE DEF t
  <2>2. AllMoved(s, t)
    BY <2>1, NoneMoved DEF SameRequests
  <2> QED BY <2>2 DEF t
<1>2. ASSUME s.conn[d].use = "opening" PROVE AllMoved(s, PconnPush(NotOpening(s, d), d, full))
  <2> DEFINE t == PconnPush(NotOpening(s, d), d, full)
  <2>1. Sound(t, {}) /\ SameRequests(s, t)
    BY <1>0, <1>2, SoundIdleEnds
  <2> HIDE DEF t
  <2>2. AllMoved(s, t)
    BY <2>1, NoneMoved DEF SameRequests
  <2> QED BY <2>2 DEF t
<1>3. ASSUME s.conn[d].use = "opening" PROVE AllMoved(s, CloseFd(NotOpening(s, d), d))
  <2> DEFINE t == CloseFd(NotOpening(s, d), d)
  <2>1. Sound(t, {}) /\ SameRequests(s, t)
    BY <1>0, <1>3, SoundIdleEnds
  <2> HIDE DEF t
  <2>2. AllMoved(s, t)
    BY <2>1, NoneMoved DEF SameRequests
  <2> QED BY <2>2 DEF t
<1> QED
  BY <1>1, <1>2, <1>3

LEMMA ShutdownMoves ==
    ASSUME NEW s, Ready(s)
    PROVE  AllMoved(s, [s EXCEPT !.stopping = TRUE])
<1> DEFINE t == [s EXCEPT !.stopping = TRUE]
<1>0. s \in States /\ Sound(s, {})
  BY DEF Ready, Sound
<1>1. t.fwd = s.fwd /\ t.ent = s.ent /\ t.conn = s.conn /\ t.pool = s.pool
  BY <1>0 DEF States
<1>2. t.open = s.open /\ t.opening = s.opening
  BY <1>0 DEF States
<1>3. t \in States
  BY <1>0 DEF States
<1> HIDE DEF t
<1>4. SameConns(s, t) /\ \A q \in Requests : t.fwd[q].fd = s.fwd[q].fd
  BY <1>1, <1>2 DEF SameConns
<1>5. Sound(t, {})
  BY <1>0, <1>3, <1>4, SoundSame
<1>6. AllMoved(s, t)
  BY <1>1, <1>5, NoneMoved
<1> QED BY <1>6 DEF t
-----------------------------------------------------------------------------
(***************************************************************************)
(* The invariant, and the steps of the specification.                      *)
(***************************************************************************)
IInv == Ready(S)

LEMMA StateParts ==
    /\ S.fwd = fwd /\ S.ent = ent /\ S.conn = conn /\ S.pool = pool
    /\ S.open = open /\ S.opening = opening /\ S.stopping = stopping
BY DEF S

\* A state is the record of its parts.
LEMMA Whole ==
    ASSUME NEW t \in States
    PROVE  t = [fwd |-> t.fwd, ent |-> t.ent, conn |-> t.conn, pool |-> t.pool, open |-> t.open,
                opening |-> t.opening, stopping |-> t.stopping]
BY DEF States

LEMMA BecomesMoves ==
    ASSUME NEW t, AllMoved(S, t), Becomes(t)
    PROVE  AllMoved(S, S')
<1>1. t \in States
  BY DEF AllMoved, Sound
<1>2. S' = t
  BY <1>1, Whole DEF Becomes, S
<1> QED
  BY <1>2

LEMMA InitReady == Init => IInv
<1> SUFFICES ASSUME Init PROVE Ready(S)
  BY DEF IInv
<1> DEFINE f == NewFwd
           e == [pend |-> TRUE, hi |-> FALSE, wait |-> FALSE, bad |-> FALSE, post |-> FALSE,
                 body |-> FALSE, seen |-> FALSE, abort |-> FALSE, ans |-> "none"]
<1>1. f \in FwdRecs /\ f.st = "new" /\ f.fd = None /\ f.tries = 0 /\ f.origin = 0
  BY Records DEF NewFwd
<1>2. e \in EntRecs
  BY DEF EntRecs
<1>3. Fit(f, e)
  <2>1. Core(f, e)
    BY <1>1, ForwardAssumption DEF Core
  <2>2. Phase(f, e)
    BY <1>1 DEF Phase
  <2> QED BY <2>1, <2>2 DEF Fit
<1>4. /\ fwd = [q \in Requests |-> f] /\ ent = [q \in Requests |-> e]
      /\ conn = [d \in Fds |-> Closed] /\ pool = [h \in Hosts |-> <<>>]
      /\ open = [p \in Peers |-> 0] /\ opening = [p \in Peers |-> 0] /\ stopping = FALSE
  BY DEF Init
<1> HIDE DEF f, e
<1>5. S \in States
  <2>1. fwd \in [Requests -> FwdRecs] /\ ent \in [Requests -> EntRecs]
    BY <1>1, <1>2, <1>4
  <2>2. conn \in [Fds -> ConnRecs]
    BY <1>4 DEF ConnRecs, Closed, Hosts
  <2>3. pool \in [Hosts -> Seq(Fds)]
    BY <1>4
  <2>4. open \in [Peers -> Int] /\ opening \in [Peers -> Int]
    BY <1>4
  <2>5. stopping \in BOOLEAN
    BY <1>4, Zenon
  <2> QED BY <2>1, <2>2, <2>3, <2>4, <2>5 DEF S, States
<1>6. Owned(Held(S), conn, pool, {})
  <2>1. \A q \in Requests : Held(S)[q] = None
    BY <1>1, <1>4, StateParts DEF Held
  <2>2. \A d \in Fds : conn[d].use = "closed"
    BY <1>4 DEF Closed
  <2>3. \A h \in Hosts : Len(pool[h]) = 0
    BY <1>4
  <2>4. \A h \in Hosts : Distinct(pool[h])
    BY <2>3 DEF Distinct
  <2> QED BY <2>1, <2>2, <2>3, <2>4 DEF Owned
<1>7. Counted(conn, open, opening)
  <2>1. \A p \in Peers : OpenTo(conn, p) = {} /\ OpeningTo(conn, p) = {}
    BY <1>4 DEF OpenTo, OpeningTo, Closed
  <2> QED BY <1>4, <2>1, FS_EmptySet DEF Counted
<1>8. \A p \in Peers : opening[p] <= IdleWanted
  BY <1>4, ForwardAssumption
<1>9. Sound(S, {})
  BY <1>5, <1>6, <1>7, <1>8, StateParts DEF Sound
<1>10. \A q \in Requests : Fit(S.fwd[q], S.ent[q])
  BY <1>3, <1>4, StateParts
<1> QED
  BY <1>9, <1>10 DEF Ready

\* Every step moves every request as it may, and leaves the connections in order.
LEMMA NextMoves ==
    ASSUME IInv, [Next]_vars
    PROVE  AllMoved(S, S')
<1>0. Ready(S)
  BY DEF IInv
<1>p. /\ S.fwd = fwd /\ S.ent = ent /\ S.conn = conn /\ S.pool = pool
      /\ S.open = open /\ S.opening = opening /\ S.stopping = stopping
  BY StateParts
<1>1. ASSUME NEW r \in Requests, NEW post \in BOOLEAN, Start(r, post) PROVE AllMoved(S, S')
  <2> DEFINE t == [S EXCEPT !.fwd[r].st = "select", !.ent[r].wait = TRUE, !.ent[r].post = post]
             u == [S EXCEPT !.fwd[r].st = "done", !.ent[r].pend = FALSE, !.ent[r].ans = "error"]
  <2>1. S.fwd[r].st = "new" /\ (Becomes(t) \/ Becomes(u))
    BY <1>1, <1>p DEF Start
  <2>2. AllMoved(S, t) /\ AllMoved(S, u)
    BY <1>0, <2>1, StartMoves
  <2> HIDE DEF t, u
  <2> QED BY <2>1, <2>2, BecomesMoves
<1>2. ASSUME NEW r \in Requests, NEW srv \in Routes, NEW ok \in BOOLEAN, SelectDone(r, srv, ok)
      PROVE  AllMoved(S, S')
  <2> DEFINE t == StartComplete([S EXCEPT !.fwd[r].srv = srv], r, ok)
  <2>1. S.fwd[r].st = "select" /\ Becomes(t) /\ srv \in Seq(Hosts)
    BY <1>2, <1>p, ForwardAssumption DEF SelectDone
  <2>2. AllMoved(S, t)
    BY <1>0, <2>1, SelectMoves
  <2> HIDE DEF t
  <2> QED BY <2>1, <2>2, BecomesMoves
<1>3. ASSUME NEW r \in Requests, NEW ok \in BOOLEAN, Restart(r, ok) PROVE AllMoved(S, S')
  <2> DEFINE t == StartComplete(S, r, ok)
  <2>1. S.fwd[r].st = "restart" /\ Becomes(t)
    BY <1>3, <1>p DEF Restart
  <2>2. AllMoved(S, t)
    BY <1>0, <2>1, RestartMoves
  <2> HIDE DEF t
  <2> QED BY <2>1, <2>2, BecomesMoves
<1>4. ASSUME NEW r \in Requests, NEW ok \in BOOLEAN, ReplyClosed(r, ok) PROVE AllMoved(S, S')
  <2> DEFINE x == Complete(S, r, ok)
             t == IF x.fwd[r].fd = S.fwd[r].fd
                  THEN CloseServer(x, r) ELSE CloseFd(x, S.fwd[r].fd)
  <2>1. S.fwd[r].st = "sent" /\ S.ent[r].ans # "abort" /\ Becomes(t)
    BY <1>4, <1>p DEF ReplyClosed, Aborted
  <2>2. AllMoved(S, t)
    BY <1>0, <2>1, ReplyClosedMoves
  <2> HIDE DEF t
  <2> QED BY <2>1, <2>2, BecomesMoves
<1>5. ASSUME NEW r \in Requests, ConnectOk(r) PROVE AllMoved(S, S')
  <2> DEFINE t == [S EXCEPT !.fwd[r].st = "sent"]
  <2>1. S.fwd[r].st = "connect" /\ Becomes(t)
    BY <1>5, <1>p DEF ConnectOk
  <2>2. AllMoved(S, t)
    BY <1>0, <2>1, ConnectOkMoves
  <2> HIDE DEF t
  <2> QED BY <2>1, <2>2, BecomesMoves
<1>6. ASSUME NEW r \in Requests, NEW dns \in BOOLEAN, ConnectFails(r, dns) PROVE AllMoved(S, S')
  <2> DEFINE b == Fail(S, r).fwd[r].dont \/ (dns /\ Head(fwd[r].srv) = Direct)
             t == CloseServer([Fail(S, r) EXCEPT !.fwd[r].dont = b], r)
  <2>1. S.fwd[r].st \in {"connect", "sent"} /\ Becomes(t)
    BY <1>6, <1>p DEF ConnectFails
  <2>2. b \in BOOLEAN
    OBVIOUS
  <2>3. AllMoved(S, t)
    <3> HIDE DEF b
    <3> QED BY <1>0, <2>1, <2>2, FailMoves
  <2> HIDE DEF t
  <2> QED BY <2>1, <2>3, BecomesMoves
<1>7. ASSUME NEW r \in Requests, BodyRead(r) PROVE AllMoved(S, S')
  <2> DEFINE t == [S EXCEPT !.ent[r].body = TRUE]
  <2>1. S.fwd[r].st = "sent" /\ Becomes(t)
    BY <1>7, <1>p DEF BodyRead
  <2>2. AllMoved(S, t)
    BY <1>0, <2>1, BodyMoves
  <2> HIDE DEF t
  <2> QED BY <2>1, <2>2, BecomesMoves
<1>8. ASSUME NEW r \in Requests, NoReply(r) PROVE AllMoved(S, S')
  <2> DEFINE t == CloseServer(Fail(S, r), r)
  <2>1. S.fwd[r].st \in {"connect", "sent"} /\ Becomes(t)
    BY <1>8, <1>p DEF NoReply
  <2>2. AllMoved(S, t)
    BY <1>0, <2>1, FailMoves
  <2> HIDE DEF t
  <2> QED BY <2>1, <2>2, BecomesMoves
<1>9. ASSUME NEW r \in Requests, BadHeader(r) PROVE AllMoved(S, S')
  <2> DEFINE t == CloseServer([Fail(S, r) EXCEPT !.fwd[r].dont = TRUE], r)
  <2>1. S.fwd[r].st \in {"connect", "sent"} /\ Becomes(t)
    BY <1>9, <1>p DEF BadHeader
  <2>2. AllMoved(S, t)
    BY <1>0, <2>1, FailMoves
  <2> HIDE DEF t
  <2> QED BY <2>1, <2>2, BecomesMoves
<1>10. ASSUME NEW r \in Requests, WrongLength(r) \/ ReadAborted(r) PROVE AllMoved(S, S')
  <2> DEFINE t == CloseServer(S, r)
  <2>1. S.fwd[r].st = "sent" /\ (S.ent[r].hi \/ S.ent[r].ans = "abort") /\ Becomes(t)
    BY <1>10, <1>p DEF WrongLength, ReadAborted, Aborted
  <2>2. AllMoved(S, t)
    BY <1>0, <2>1, CutMoves
  <2> HIDE DEF t
  <2> QED BY <2>1, <2>2, BecomesMoves
<1>11. ASSUME NEW r \in Requests, NEW bad \in BOOLEAN, Header(r, bad) PROVE AllMoved(S, S')
  <2> DEFINE held == ent[r].wait /\ bad
             seen == ent[r].seen \/ ~held
             t == [S EXCEPT !.ent[r].hi = TRUE, !.ent[r].bad = bad, !.ent[r].wait = held,
                            !.ent[r].seen = seen]
  <2>1. S.fwd[r].st = "sent" /\ ~S.ent[r].hi /\ S.ent[r].ans # "abort" /\ Becomes(t)
    BY <1>11, <1>p DEF Header, Aborted
  <2>2. held \in BOOLEAN /\ seen \in BOOLEAN
    OBVIOUS
  <2>3. (held => S.ent[r].wait) /\ (seen <=> S.ent[r].seen \/ ~held)
    BY <1>p
  <2> HIDE DEF held, seen
  <2>4. AllMoved(S, t)
    BY <1>0, <2>1, <2>2, <2>3, HeaderMoves
  <2> HIDE DEF t
  <2> QED BY <2>1, <2>4, BecomesMoves
<1>12. ASSUME NEW r \in Requests, NEW full \in BOOLEAN, NEW ok \in BOOLEAN, ReplyKept(r, full, ok)
       PROVE  AllMoved(S, S')
  <2> DEFINE t == Complete(PconnPush([S EXCEPT !.fwd[r].fd = None], S.fwd[r].fd, full), r, ok)
  <2>1. S.fwd[r].st = "sent" /\ S.ent[r].ans # "abort" /\ Becomes(t)
    BY <1>12, <1>p DEF ReplyKept, Aborted
  <2>2. AllMoved(S, t)
    BY <1>0, <2>1, KeptMoves
  <2> HIDE DEF t
  <2> QED BY <2>1, <2>2, BecomesMoves
<1>13. ASSUME NEW r \in Requests, ForwardTimeout(r) PROVE AllMoved(S, S')
  <2> DEFINE t == [S EXCEPT !.fwd[r].dont = TRUE]
  <2>1. Becomes(t)
    BY <1>13 DEF ForwardTimeout
  <2>2. AllMoved(S, t)
    BY <1>0, TimeoutMoves
  <2> HIDE DEF t
  <2> QED BY <2>1, <2>2, BecomesMoves
<1>14. ASSUME NEW r \in Requests, ClientAbort(r) PROVE AllMoved(S, S')
  <2> DEFINE t == [S EXCEPT !.ent[r].pend = FALSE, !.ent[r].ans = "abort", !.ent[r].abort = TRUE]
  <2>1. S.fwd[r].st \in {"select", "restart", "connect", "sent"} /\ Becomes(t)
    BY <1>14, <1>p DEF ClientAbort
  <2>2. AllMoved(S, t)
    BY <1>0, <2>1, AbortMoves
  <2> HIDE DEF t
  <2> QED BY <2>1, <2>2, BecomesMoves
<1>15. ASSUME NEW r \in Requests, AbortRuns(r) PROVE AllMoved(S, S')
  <2> DEFINE x == Unscheduled(S, r)
             t == IF S.fwd[r].st = "done" THEN x ELSE StateFree(x, r)
  <2>1. S.ent[r].abort /\ Becomes(t)
    BY <1>15, <1>p DEF AbortRuns, Unscheduled
  <2>2. AllMoved(S, t)
    BY <1>0, <2>1, AbortRunsMoves
  <2> HIDE DEF t
  <2> QED BY <2>1, <2>2, BecomesMoves
<1>16. ASSUME NEW d \in Fds, PoolCloses(d) PROVE AllMoved(S, S')
  <2> DEFINE t == CloseFd(PconnRemove(S, d), d)
  <2>1. S.conn[d].use = "pooled" /\ Becomes(t)
    BY <1>16, <1>p DEF PoolCloses
  <2>2. AllMoved(S, t)
    BY <1>0, <2>1, PoolMoves
  <2> HIDE DEF t
  <2> QED BY <2>1, <2>2, BecomesMoves
<1>17. ASSUME NEW d \in Fds, IdleTimeout(d) PROVE AllMoved(S, S')
  <2> DEFINE t == CloseFd(NotOpening(S, d), d)
  <2>1. S.conn[d].use = "opening" /\ Becomes(t)
    BY <1>17, <1>p DEF IdleTimeout, NotOpening
  <2>2. AllMoved(S, t)
    BY <1>0, <2>1, PoolMoves
  <2> HIDE DEF t
  <2> QED BY <2>1, <2>2, BecomesMoves
<1>18. ASSUME NEW d \in Fds, NEW full \in BOOLEAN, IdleDone(d, full) PROVE AllMoved(S, S')
  <2> DEFINE t == PconnPush(NotOpening(S, d), d, full)
  <2>1. S.conn[d].use = "opening" /\ Becomes(t)
    BY <1>18, <1>p DEF IdleDone, NotOpening
  <2>2. AllMoved(S, t)
    BY <1>0, <2>1, PoolMoves
  <2> HIDE DEF t
  <2> QED BY <2>1, <2>2, BecomesMoves
<1>19. ASSUME Shutdown PROVE AllMoved(S, S')
  <2> DEFINE t == [S EXCEPT !.stopping = TRUE]
  <2>1. Becomes(t)
    BY <1>19 DEF Shutdown
  <2>2. AllMoved(S, t)
    BY <1>0, ShutdownMoves
  <2> HIDE DEF t
  <2> QED BY <2>1, <2>2, BecomesMoves
<1>20. ASSUME UNCHANGED vars PROVE AllMoved(S, S')
  <2>1. S' = S
    BY <1>20 DEF S, vars
  <2>2. AllMoved(S, S)
    BY <1>0, NoneMoved DEF Ready
  <2> QED BY <2>1, <2>2
<1> QED
  BY <1>1, <1>2, <1>3, <1>4, <1>5, <1>6, <1>7, <1>8, <1>9, <1>10, <1>11, <1>12, <1>13, <1>14,
     <1>15, <1>16, <1>17, <1>18, <1>19, <1>20 DEF Next
-----------------------------------------------------------------------------
(***************************************************************************)
(* Theorems                                                                *)
(***************************************************************************)

\* Between two steps the connections are owned and counted, and every request
\* fits the state of its FwdState (fwdStart to fwdStateFree), for any number of
\* requests, peers and descriptors.
THEOREM ForwardInvariant == Spec => []IInv
<1>1. IInv /\ [Next]_vars => IInv'
  <2> SUFFICES ASSUME IInv, [Next]_vars PROVE Ready(S')
    BY DEF IInv
  <2>1. AllMoved(S, S')
    BY NextMoves
  <2> QED BY <2>1 DEF AllMoved, Ready, Moved
<1> QED
  BY InitReady, <1>1, PTL DEF Spec

\* conn_open and idle_opening of every peer are the connections that are open
\* to it and being opened for it (fwdConnectStart, fwdPeerClosed, openIdleConn).
THEOREM ConnsStayCounted == Spec => []ConnsCounted
<1>1. IInv => ConnsCounted
  <2> SUFFICES ASSUME IInv PROVE ConnsCounted
    OBVIOUS
  <2>1. Counted(conn, open, opening)
    BY StateParts DEF IInv, Ready, Sound
  <2> QED BY <2>1 DEF Counted, ConnsCounted, OpenTo, OpeningTo
<1> QED
  BY ForwardInvariant, <1>1, PTL

\* When the FwdState is gone nobody waits for the server side (fwdStateFree,
\* storeRequestFailed, storeComplete, storeAbort).
THEOREM RequestsEndAnswered == Spec => []EndedAnswered
<1>1. IInv => EndedAnswered
  <2> SUFFICES ASSUME IInv, NEW r \in Requests, fwd[r].st = "done"
               PROVE  /\ ~ent[r].pend
                      /\ ent[r].wait => ent[r].ans = "abort"
                      /\ ent[r].ans = "error" => ~ent[r].hi /\ ~ent[r].seen
    BY DEF EndedAnswered
  <2>1. Core(fwd[r], ent[r]) /\ Phase(fwd[r], ent[r])
    BY StateParts DEF IInv, Ready, Fit
  <2> QED BY <2>1 DEF Core, Phase
<1> QED
  BY ForwardInvariant, <1>1, PTL

\* A request is attempted again only while no byte of a reply could have
\* reached a client and no part of its body was passed on (fwdCheckRetry,
\* fwdReforward).
THEOREM RetriesUnseen == Spec => RetriedUnseen
<1>1. IInv /\ [Next]_vars =>
         [\A r \in Requests : fwd'[r].tries > fwd[r].tries => ~ent[r].seen /\ ~ent[r].body]_vars
  <2> SUFFICES ASSUME IInv, [Next]_vars, NEW r \in Requests, fwd'[r].tries > fwd[r].tries
               PROVE  ~ent[r].seen /\ ~ent[r].body
    OBVIOUS
  <2>1. AllMoved(S, S')
    BY NextMoves
  <2>2. S'.fwd = fwd' /\ S'.ent = ent'
    BY DEF S
  <2>3. Moved(fwd[r], ent[r], fwd'[r], ent'[r])
    BY <2>1, <2>2, StateParts DEF AllMoved
  <2> QED BY <2>3 DEF Moved
<1> QED
  BY ForwardInvariant, <1>1, PTL DEF Spec, RetriedUnseen

\* Every step of a request brings it nearer to its end: retries, re-forwarding,
\* idle connections and late aborts do not go on forever (n_tries,
\* origin_tries).
THEOREM RequestsEnd == Spec => Nearer
<1>1. IInv /\ [Next]_vars =>
         [\A r \in Requests :
            LET before == Distance(fwd[r].st, fwd[r].tries, ent[r].hi)
                after == Distance(fwd'[r].st, fwd'[r].tries, ent'[r].hi)
            IN  (fwd'[r].st # fwd[r].st \/ fwd'[r].fd # fwd[r].fd \/ ent'[r].hi # ent[r].hi)
                    => after < before]_vars
  <2> SUFFICES ASSUME IInv, [Next]_vars, NEW r \in Requests,
                      fwd'[r].st # fwd[r].st \/ fwd'[r].fd # fwd[r].fd \/ ent'[r].hi # ent[r].hi
               PROVE  Distance(fwd'[r].st, fwd'[r].tries, ent'[r].hi)
                      < Distance(fwd[r].st, fwd[r].tries, ent[r].hi)
    OBVIOUS
  <2>1. AllMoved(S, S')
    BY NextMoves
  <2>2. S'.fwd = fwd' /\ S'.ent = ent'
    BY DEF S
  <2>3. Moved(fwd[r], ent[r], fwd'[r], ent'[r])
    BY <2>1, <2>2, StateParts DEF AllMoved
  <2> QED BY <2>3 DEF Moved
<1> QED
  BY ForwardInvariant, <1>1, PTL DEF Spec, Nearer

\* The records of requests and entries have their types, a request holds a
\* connection exactly while it is connecting or reading, its entry is pending
\* exactly while it has no answer, and a peer's counters stay in range
\* (FwdState, store_status, conn_open, idle_opening).
THEOREM ForwardTypes == Spec => []TypeOK
<1>1. IInv => TypeOK
  <2> SUFFICES ASSUME IInv PROVE TypeOK
    OBVIOUS
  <2>1. fwd \in [Requests -> FwdRecs] /\ ent \in [Requests -> EntRecs]
    BY StateParts DEF IInv, Ready, Sound, States
  <2>2. ASSUME NEW r \in Requests
        PROVE  /\ fwd[r].st \in {"new", "select", "restart", "connect", "sent", "done"}
               /\ fwd[r].fd \in Fds \cup {None} /\ fwd[r].srv \in Seq(Hosts)
               /\ fwd[r].tries \in Nat /\ fwd[r].origin \in 0..fwd[r].tries
               /\ fwd[r].st \in {"connect", "sent"} <=> fwd[r].fd # None
               /\ ent[r].ans \in {"none", "reply", "cut", "error", "abort"}
               /\ ent[r].pend <=> ent[r].ans = "none"
    <3>1. Core(fwd[r], ent[r]) /\ Phase(fwd[r], ent[r])
      BY StateParts DEF IInv, Ready, Fit
    <3>2. fwd[r] \in FwdRecs /\ ent[r] \in EntRecs
      BY <2>1
    <3>3. /\ fwd[r].st \in {"new", "select", "restart", "connect", "sent", "done"}
          /\ fwd[r].fd \in Fds \cup {None} /\ fwd[r].srv \in Seq(Hosts)
          /\ fwd[r].tries \in Nat /\ fwd[r].origin \in Nat
          /\ ent[r].ans \in {"none", "reply", "cut", "error", "abort", "assert"}
      BY <3>2 DEF FwdRecs, EntRecs
    <3>4. fwd[r].origin \in 0..fwd[r].tries
      BY <3>1, <3>3 DEF Core
    <3> QED
      BY <3>1, <3>3, <3>4 DEF Core, Phase
  <2>3. ASSUME NEW p \in Peers
        PROVE  open[p] \in Nat /\ opening[p] \in 0..IdleWanted
    <3>1. Counted(conn, open, opening) /\ opening[p] <= IdleWanted
      BY StateParts DEF IInv, Ready, Sound
    <3>2. Cardinality(OpenTo(conn, p)) \in Nat /\ Cardinality(OpeningTo(conn, p)) \in Nat
      BY CountTypes
    <3>3. open[p] \in Nat /\ opening[p] \in Nat
      BY <3>1, <3>2 DEF Counted
    <3> QED
      BY <3>1, <3>3, ForwardAssumption
  <2> QED
    BY <2>2, <2>3 DEF TypeOK
<1> QED
  BY ForwardInvariant, <1>1, PTL

\* A pool that holds no connection twice is no longer than there are
\* descriptors.
LEMMA PoolBounded ==
    ASSUME NEW sq \in Seq(Fds), Distinct(sq)
    PROVE  Len(sq) \in Nat /\ Len(sq) <= Cardinality(Fds)
<1>1. Len(sq) \in Nat /\ sq \in [1..Len(sq) -> Fds]
  OBVIOUS
<1>2. sq \in Injection(1..Len(sq), Fds)
  BY <1>1 DEF Distinct, Injection, IsInjective
<1>3. IsFiniteSet(Fds) /\ 0 \in Int /\ 1 \in Int /\ Len(sq) \in Int
  BY <1>1, ForwardAssumption
<1>4. Cardinality(1..Len(sq)) <= Cardinality(Fds)
  BY <1>2, <1>3, FS_Injection
<1>5. Cardinality(1..Len(sq)) = IF 1 > Len(sq) THEN 0 ELSE Len(sq) - 1 + 1
  BY <1>3, FS_Interval
<1>6. Cardinality(Fds) \in Nat
  BY <1>3, FS_CardinalityType
<1> QED
  BY <1>1, <1>4, <1>5, <1>6

Users(d) == {r \in Requests : fwd[r].fd = d}
Slots(d) == {x \in Hosts \X (1..Cardinality(Fds)) :
                 x[2] <= Len(pool[x[1]]) /\ pool[x[1]][x[2]] = d}

\* No connection leaks and none is shared: one that is open serves one
\* request, or is in the pool of its host once, or is being opened for it
\* (fwdConnectStart, pconnPush, pconnPop, comm_close).
THEOREM ConnsStayOwned == Spec => []ConnsOwned
<1>1. IInv => ConnsOwned
  <2> SUFFICES ASSUME IInv, NEW d \in Fds
               PROVE  /\ conn[d].use = "serving" => Cardinality(Users(d)) = 1 /\ Slots(d) = {}
                      /\ conn[d].use = "pooled" =>
                            /\ Users(d) = {} /\ Cardinality(Slots(d)) = 1
                            /\ \A x \in Slots(d) : x[1] = conn[d].host
                      /\ conn[d].use \notin {"serving", "pooled"} => Users(d) = {} /\ Slots(d) = {}
    BY DEF ConnsOwned, Users, Slots
  <2>1. /\ Owned(Held(S), conn, pool, {})
        /\ pool \in [Hosts -> Seq(Fds)] /\ conn \in [Fds -> ConnRecs]
    BY StateParts DEF IInv, Ready, Sound, States
  <2>2. \A q \in Requests : Held(S)[q] = fwd[q].fd
    BY StateParts DEF Held
  <2>3. d # None
    BY ForwardAssumption
  <2>4. \A h \in Hosts : Distinct(pool[h]) /\ Len(pool[h]) \in Nat /\ Len(pool[h]) <= Cardinality(Fds)
    BY <2>1, PoolBounded DEF Owned
  <2>5. conn[d].host \in Hosts
    BY <2>1 DEF ConnRecs
  <2>6. \A x \in Slots(d) : /\ x[1] \in Hosts /\ x[2] \in 1..Len(pool[x[1]])
                            /\ pool[x[1]][x[2]] = d /\ x = <<x[1], x[2]>>
    BY <2>4 DEF Slots
  <2>7. \A x \in Slots(d) : conn[d].use = "pooled" /\ conn[d].host = x[1]
    BY <2>1, <2>6 DEF Owned
  <2>8. \A q \in Users(d) : q \in Requests /\ conn[d].use = "serving"
    BY <2>1, <2>2, <2>3 DEF Users, Owned
  <2>9. ASSUME conn[d].use = "serving" PROVE Cardinality(Users(d)) = 1
    <3>1. PICK q \in Requests : fwd[q].fd = d
      BY <2>1, <2>2, <2>9 DEF Owned
    <3>2. Users(d) = {q}
      BY <3>1, <2>1, <2>2, <2>3 DEF Users, Owned
    <3> QED
      BY <3>2, FS_Singleton
  <2>10. ASSUME conn[d].use = "pooled" PROVE Cardinality(Slots(d)) = 1
    <3>1. PICK i \in 1..Len(pool[conn[d].host]) : pool[conn[d].host][i] = d
      BY <2>1, <2>10 DEF Owned, Holds
    <3>2. i \in 1..Cardinality(Fds) /\ i <= Len(pool[conn[d].host])
      <4>1. IsFiniteSet(Fds)
        BY ForwardAssumption
      <4>2. Cardinality(Fds) \in Nat
        BY <4>1, FS_CardinalityType
      <4> QED BY <4>2, <2>4, <2>5, <3>1
    <3>3. <<conn[d].host, i>> \in Slots(d)
      BY <3>1, <3>2, <2>5 DEF Slots
    <3>4. ASSUME NEW x \in Slots(d) PROVE x = <<conn[d].host, i>>
      <4>1. x[1] = conn[d].host /\ x[2] \in 1..Len(pool[conn[d].host])
            /\ pool[conn[d].host][x[2]] = d /\ x = <<x[1], x[2]>>
        BY <2>6, <2>7
      <4>2. x[2] = i
        BY <4>1, <3>1, <2>4, <2>5 DEF Distinct
      <4> QED BY <4>1, <4>2
    <3>5. Slots(d) = {<<conn[d].host, i>>}
      BY <3>3, <3>4
    <3> QED
      BY <3>5, FS_Singleton
  <2> QED
    BY <2>7, <2>8, <2>9, <2>10
<1> QED
  BY ForwardInvariant, <1>1, PTL
=============================================================================
