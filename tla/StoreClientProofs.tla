-------------------------- MODULE StoreClientProofs --------------------------
(***************************************************************************)
(* Proofs about the readers of a growing object (StoreClient): no          *)
(* assertion of the store fails, every client gets the bytes in order and  *)
(* to the end, and nobody is forgotten, for any number of clients and all  *)
(* sizes.                                                                  *)
(***************************************************************************)
EXTENDS StoreClient, SequenceTheorems, FiniteSetTheorems, WellFoundedInduction, TLAPS

Entries ==
    [st : {"none", "pending", "ok"}, srv : BOOLEAN, aborted : BOOLEAN, release : BOOLEAN,
     neg : BOOLEAN, inmem : BOOLEAN, clen : Nat \cup {-1}, defer : BOOLEAN,
     swap : {"none", "writing", "done"}, sio : BOOLEAN, lo : Nat, hi : Nat, queue : Nat,
     file : Nat, osz : Nat \cup {-1}, fsz : Int, hdr : {0, HdrSz}]
Readers ==
    [on : BOOLEAN, type : {"mem", "disk"}, pos : Nat, got : Nat, cb : BOOLEAN,
     swapin : BOOLEAN, end : {"no", "eof", "error"}]
States == [e : Entries, c : [Clients -> Readers], broken : {{}}]

(***************************************************************************)
(* The entry.                                                              *)
(***************************************************************************)
\* Only the file is left (storePurgeMem); the first reader finds its length.
Purged(x) ==
    /\ x.st = "ok" /\ x.lo = 0 /\ x.hi = 0 /\ x.queue = 0 /\ x.clen = -1
    /\ x.inmem = FALSE /\ x.srv = FALSE /\ x.aborted = FALSE
    /\ x.swap = "done" /\ x.sio = FALSE /\ x.release = FALSE
    /\ 0 < x.file /\ x.file <= MaxLen /\ x.fsz = x.file + HdrSz
    /\ (x.osz = -1 /\ x.hdr = 0) \/ (x.osz = x.file /\ x.hdr = HdrSz)

\* The offsets of the object in memory and on disk.
Bounds(x) ==
    /\ x.lo < x.hi \/ x.lo = 0
    /\ x.file <= x.queue /\ x.queue <= x.hi /\ x.hi <= MaxLen
    /\ x.file > 0 => x.hdr = HdrSz

\* The life of the entry.
Phase(x) ==
    /\ x.st = "pending" => x.osz = -1 /\ x.srv = TRUE
    /\ x.st = "ok" => x.osz = x.hi /\ (x.hi > 0 \/ x.release = TRUE)
    /\ x.aborted = TRUE => x.release = TRUE

\* The swap file: what is written is what was queued, the page to go on from
\* is in memory, and a file that is done has the whole object, unless the
\* entry is to be released.
File(x) ==
    /\ x.sio = TRUE <=> x.swap = "writing"
    /\ x.swap = "writing" =>
         x.hdr = HdrSz /\ x.file = x.queue /\ (x.lo < x.queue \/ x.lo = 0)
    /\ x.swap = "none" => x.release = TRUE \/ (x.queue = 0 /\ x.lo = 0)
    /\ x.swap = "done" =>
         /\ x.hdr = HdrSz
         /\ x.release = TRUE \/ (x.st = "ok" /\ x.file = x.hi /\ x.fsz = x.file + HdrSz)

\* An entry kept in memory has all its pages.
Kept(x) ==
    x.inmem = TRUE =>
        /\ x.lo = 0 /\ x.srv = FALSE
        /\ x.swap = "writing" =>
             x.release = FALSE /\ x.neg = FALSE /\ x.clen <= MaxObject /\ x.hi <= MaxObject
        /\ x.swap = "done" => x.release = FALSE

Alive(x) == Bounds(x) /\ Phase(x) /\ File(x) /\ Kept(x)
GoodEntry(x) == Purged(x) \/ Alive(x)

(***************************************************************************)
(* The clients.                                                            *)
(***************************************************************************)
Size(x) == IF x.hi = 0 THEN x.file ELSE x.hi

\* A client that goes on and whose place is no longer in memory reads the
\* file, and everything that is gone from memory is there.
Source(x, y) ==
    y.end = "no" /\ y.pos < x.lo => y.type = "disk" /\ x.lo <= x.file

\* What a client has read; who waits has used it all, and the end is told
\* only when there is one.
Reads(x, y) ==
    /\ x.st # "none" /\ y.got <= Size(x)
    /\ y.cb = TRUE => y.got = y.pos /\ y.end = "no"
    /\ y.end = "eof" => x.st = "ok" /\ y.got = x.osz
    /\ Purged(x) /\ y.end = "no" => y.type = "disk"
    /\ Purged(x) /\ x.osz = -1 => y.got = 0 /\ y.end # "eof"

GoodClient(x, y) == y.pos <= y.got /\ (y.on = TRUE => Reads(x, y) /\ Source(x, y))

Good(s) ==
    s \in States /\ GoodEntry(s.e) /\ \A k \in Clients : GoodClient(s.e, s.c[k])
-----------------------------------------------------------------------------
\* What the swap-out of an object leaves alone.
Fixed(x, z) ==
    /\ z.st = x.st /\ z.srv = x.srv /\ z.aborted = x.aborted /\ z.neg = x.neg
    /\ z.inmem = x.inmem /\ z.clen = x.clen /\ z.hi = x.hi /\ z.osz = x.osz

OnDisk(x, z) ==
    /\ z.swap = x.swap /\ z.sio = x.sio /\ z.queue = x.queue /\ z.file = x.file
    /\ z.fsz = x.fsz /\ z.hdr = x.hdr

LEMMA EntryTypes ==
    ASSUME NEW x \in Entries
    PROVE  /\ x.st \in {"none", "pending", "ok"} /\ x.swap \in {"none", "writing", "done"}
           /\ x.lo \in Nat /\ x.hi \in Nat /\ x.queue \in Nat /\ x.file \in Nat
           /\ x.osz \in Int /\ x.clen \in Int /\ x.fsz \in Int /\ x.hdr \in Int
BY SizesAssumption DEF Entries

LEMMA EntryFlags ==
    ASSUME NEW x \in Entries
    PROVE  /\ x.srv \in BOOLEAN /\ x.aborted \in BOOLEAN /\ x.release \in BOOLEAN
           /\ x.neg \in BOOLEAN /\ x.inmem \in BOOLEAN /\ x.defer \in BOOLEAN /\ x.sio \in BOOLEAN
BY DEF Entries

LEMMA StateParts ==
    ASSUME NEW s \in States
    PROVE  s.e \in Entries /\ s.c \in [Clients -> Readers] /\ s.broken = {}
BY DEF States

\* The entry of a state is changed.
Put(s, x) == [s EXCEPT !.e = x]

LEMMA PutParts ==
    ASSUME NEW s \in States, NEW x \in Entries, NEW t, t = Put(s, x)
    PROVE  t \in States /\ t.e = x /\ t.c = s.c
BY DEF States, Put

LEMMA ReleaseRequestPut ==
    ASSUME NEW s \in States, NEW t, t = ReleaseRequest(s)
    PROVE  /\ t \in States /\ t.c = s.c /\ t.e.release = TRUE /\ t.e.lo = s.e.lo
           /\ t.e.defer = s.e.defer /\ Fixed(s.e, t.e) /\ OnDisk(s.e, t.e)
<1> DEFINE x == [s.e EXCEPT !.release = TRUE]
<1>1. s.e \in Entries
  BY StateParts
<1>2. x \in Entries
  BY <1>1 DEF Entries
<1>3. t = Put(s, x)
  BY DEF ReleaseRequest, Put, States
<1>4. /\ x.release = TRUE /\ x.lo = s.e.lo /\ x.defer = s.e.defer /\ Fixed(s.e, x) /\ OnDisk(s.e, x)
  BY <1>1 DEF Entries, Fixed, OnDisk
<1> HIDE DEF x
<1>5. t \in States /\ t.e = x /\ t.c = s.c
  BY <1>2, <1>3, PutParts
<1> QED BY <1>4, <1>5
-----------------------------------------------------------------------------
(***************************************************************************)
(* Memory pages.                                                           *)
(***************************************************************************)
LEMMA MinNat ==
    ASSUME NEW T, T \subseteq Nat, T # {}
    PROVE  Min(T) \in T /\ \A y \in T : Min(T) <= y
<1> DEFINE R == OpToRel(<, Nat)
<1>1. IsWellFoundedOn(R, Nat)
  BY NatLessThanWellFounded
<1>2. \A x, y \in Nat : <<y, x>> \in R <=> y < x
  BY DEF OpToRel
<1> HIDE DEF R
<1>3. PICK u \in T : \A y \in T : ~(<<y, u>> \in R)
  BY <1>1, WFMin
<1>4. \A y \in T : y \in Nat /\ u \in Nat /\ ~(y < u)
  BY <1>2, <1>3
<1>5. \A y \in T : u <= y
  BY <1>4
<1> QED BY <1>5 DEF Min

LEMMA MaxBelow ==
    ASSUME NEW n \in Nat, NEW T, T \subseteq 0..n, T # {}
    PROVE  Max(T) \in T
<1> DEFINE U == {n - x : x \in T}
<1>1. U \subseteq Nat /\ U # {}
  <2>1. ASSUME NEW u \in U PROVE u \in Nat
    <3>1. PICK x \in T : u = n - x
      OBVIOUS
    <3>2. x \in 0..n
      OBVIOUS
    <3> QED BY <3>1, <3>2
  <2>2. PICK x : x \in T
    OBVIOUS
  <2>3. n - x \in U
    BY <2>2
  <2> HIDE DEF U
  <2> QED BY <2>1, <2>3
<1>2. Min(U) \in U /\ \A y \in U : Min(U) <= y
  <2> HIDE DEF U
  <2> QED BY <1>1, MinNat
<1>3. PICK x \in T : Min(U) = n - x
  BY <1>2
<1>4. \A y \in T : x >= y
  <2> SUFFICES ASSUME NEW y \in T PROVE x >= y
    OBVIOUS
  <2>1. n - y \in U
    OBVIOUS
  <2>2. n - x <= n - y
    BY <1>2, <1>3, <2>1
  <2> QED BY <2>2
<1> QED BY <1>4 DEF Max

LEMMA ClientPlace ==
    ASSUME NEW s, Good(s), NEW k \in Clients, s.c[k].on = TRUE
    PROVE  /\ s.c[k].pos \in 0..MaxLen /\ s.c[k].got \in 0..MaxLen /\ s.c[k].pos <= s.c[k].got
           /\ s.c[k] \in Readers /\ Size(s.e) \in Nat
<1>1. s.c[k] \in Readers /\ s.e \in Entries
  BY StateParts DEF Good
<1>2. s.c[k].pos \in Nat /\ s.c[k].got \in Nat
  BY <1>1 DEF Readers
<1>3. s.c[k].pos <= s.c[k].got /\ s.c[k].got <= Size(s.e)
  BY DEF Good, GoodClient, Reads
<1>4. s.e.hi \in Nat /\ s.e.file \in Nat /\ s.e.queue \in Nat
  BY <1>1, EntryTypes
<1>5. Size(s.e) \in Nat /\ Size(s.e) <= MaxLen /\ MaxLen \in Nat
  BY <1>4, SizesAssumption DEF Good, GoodEntry, Purged, Alive, Bounds, Size
<1> QED BY <1>1, <1>2, <1>3, <1>5

\* storeLowestMemReaderOffset is not above any client it counts.
LEMMA LowestBelow ==
    ASSUME NEW s, Good(s)
    PROVE  /\ Lowest(s) \in Nat
           /\ \A k \in Clients : s.c[k].on = TRUE /\ (s.e.sio = FALSE \/ s.c[k].type = "mem")
                 => Lowest(s) <= s.c[k].pos
<1> DEFINE all == {s.c[k].pos : k \in On(s)}
           counted == {s.c[k].pos : k \in {j \in On(s) : ~s.e.sio \/ s.c[j].type = "mem"}}
           T == {s.e.hi + 1} \cup counted
           lowest == Min(T)
<1>0. s.e \in Entries /\ s.e.hi \in Nat /\ s.e.sio \in BOOLEAN /\ MaxLen \in Nat
  BY StateParts, EntryTypes, EntryFlags, SizesAssumption DEF Good
<1>1. \A k \in On(s) : k \in Clients /\ s.c[k].on = TRUE
  <2>1. \A k \in On(s) : k \in Clients /\ s.c[k].on
    BY DEF On
  <2>2. \A k \in Clients : s.c[k].on \in BOOLEAN
    BY StateParts DEF Good, Readers
  <2> QED BY <2>1, <2>2, Zenon
<1>2. all \subseteq 0..MaxLen /\ counted \subseteq all
  <2>1. \A k \in On(s) : s.c[k].pos \in 0..MaxLen
    BY <1>1, ClientPlace
  <2> QED BY <2>1
<1>3. Lowest(s) = IF all # {} /\ Max(all) < lowest THEN Max(all) ELSE lowest
  BY DEF Lowest
<1>4. T \subseteq Nat /\ T # {}
  BY <1>0, <1>2
<1>5. ASSUME NEW k \in Clients, s.c[k].on = TRUE, s.e.sio = FALSE \/ s.c[k].type = "mem"
      PROVE  s.c[k].pos \in T
  <2>1. k \in On(s)
    BY <1>5 DEF On
  <2>2. ~s.e.sio \/ s.c[k].type = "mem"
    BY <1>5, Zenon
  <2> QED BY <2>1, <2>2
<1>6. lowest \in T /\ \A y \in T : lowest <= y
  <2> HIDE DEF T
  <2> QED BY <1>4, MinNat
<1>7. all # {} => Max(all) \in all
  <2> HIDE DEF all
  <2> QED BY <1>0, <1>2, MaxBelow
<1>8. lowest \in Nat /\ (all # {} => Max(all) \in Nat)
  BY <1>2, <1>4, <1>6, <1>7
<1> HIDE DEF all, lowest, T
<1>9. Lowest(s) \in Nat /\ Lowest(s) <= lowest
  BY <1>3, <1>8
<1> QED
  <2> SUFFICES ASSUME NEW k \in Clients, s.c[k].on = TRUE, s.e.sio = FALSE \/ s.c[k].type = "mem"
               PROVE  Lowest(s) <= s.c[k].pos
    BY <1>9
  <2>1. s.c[k].pos \in T /\ s.c[k].pos \in Nat
    BY <1>4, <1>5
  <2>2. lowest <= s.c[k].pos
    BY <1>6, <2>1
  <2> QED BY <1>8, <1>9, <2>1, <2>2
\* The start of the page of a byte.
PageOf(a) == (a \div Page) * Page

LEMMA PageBelow ==
    ASSUME NEW a \in Nat
    PROVE  PageOf(a) \in Nat /\ PageOf(a) <= a /\ a < PageOf(a) + Page /\ a \div Page \in Nat
<1>1. Page \in Nat /\ Page > 0
  BY SizesAssumption
<1> DEFINE d == a \div Page
<1>2. d \in Nat /\ Page * d <= a /\ a < Page * d + Page
  BY <1>1
<1>3. d * Page = Page * d /\ d * Page \in Nat
  BY <1>1, <1>2
<1> HIDE DEF d
<1>4. PageOf(a) = d * Page
  BY DEF PageOf, d
<1> QED BY <1>1, <1>2, <1>3, <1>4 DEF d

\* stmemFreeDataUpto keeps the last page, and what is not below the target.
LEMMA FreedUpto ==
    ASSUME NEW lo \in Nat, NEW hi \in Nat, lo < hi \/ lo = 0, NEW target \in Nat,
           NEW z, z = FreeDataUpto(lo, hi, target)
    PROVE  z \in Nat /\ lo <= z /\ (z < hi \/ z = 0) /\ (z = lo \/ z <= target)
<1> DEFINE tail == IF hi = 0 THEN 0 ELSE PageOf(hi - 1)
           page == IF target >= hi THEN tail ELSE PageOf(target)
<1>1. z = Most(lo, Least(page, tail))
  BY DEF FreeDataUpto, PageOf
<1>2. tail \in Nat /\ (tail < hi \/ tail = 0) /\ tail <= hi
  <2>1. CASE hi = 0
    BY <2>1
  <2>2. CASE hi # 0
    <3>1. hi - 1 \in Nat
      BY <2>2
    <3>2. PageOf(hi - 1) \in Nat /\ PageOf(hi - 1) <= hi - 1
      BY <3>1, PageBelow
    <3> QED BY <2>2, <3>2
  <2> QED BY <2>1, <2>2
<1>3. page \in Nat /\ page <= target
  <2>1. PageOf(target) \in Nat /\ PageOf(target) <= target
    BY PageBelow
  <2> HIDE DEF tail
  <2> QED BY <1>2, <2>1
<1> HIDE DEF tail, page
<1> QED BY <1>1, <1>2, <1>3 DEF Most, Least
\* What storeSwapOutMaintainMemObject may change once the file is closed.
Trimmed(s, t) ==
    /\ t \in States /\ t.c = s.c /\ Fixed(s.e, t.e) /\ OnDisk(s.e, t.e)
    /\ t.e.release = s.e.release /\ s.e.lo <= t.e.lo

LEMMA FreedParts ==
    ASSUME NEW s \in States, NEW z \in Nat, s.e.lo <= z, NEW t, t = Freed(s, z)
    PROVE  Trimmed(s, t) /\ t.e.lo = z /\ t.e.defer = (s.e.defer /\ s.e.hi - z > Gap)
<1> DEFINE d == s.e.defer /\ s.e.hi - z > Gap
           x == [s.e EXCEPT !.lo = z, !.defer = d]
<1>1. s.e \in Entries
  BY StateParts
<1>2. d \in BOOLEAN
  OBVIOUS
<1>3. t = Put(s, x)
  <2>1. t = [s EXCEPT !.e.lo = z, !.e.defer = d]
    BY DEF Freed
  <2> HIDE DEF d
  <2> QED BY <2>1 DEF Put, States
<1> HIDE DEF d
<1>4. x \in Entries
  BY <1>1, <1>2 DEF Entries
<1>5. x.lo = z /\ x.defer = d /\ x.release = s.e.release /\ Fixed(s.e, x) /\ OnDisk(s.e, x)
  BY <1>1 DEF Entries, Fixed, OnDisk
<1> HIDE DEF x
<1>6. t \in States /\ t.e = x /\ t.c = s.c
  BY <1>3, <1>4, PutParts
<1> QED BY <1>5, <1>6 DEF Trimmed, d

\* May pages go: the object is written and not to be released, or closed.
Ready(x, able) ==
    \/ able = TRUE /\ x.release = FALSE
    \/ able = FALSE /\ x.release = TRUE /\ x.sio = FALSE

\* The place FreePages aims at.
Aim(s, able) == CappedLo(s, able, WantedLo(s, able))

LEMMA AimIs ==
    ASSUME NEW s, Good(s), NEW able, Ready(s.e, able), Aim(s, able) > s.e.lo
    PROVE  /\ Aim(s, able) \in Nat /\ Aim(s, able) <= Lowest(s)
           /\ able = TRUE => Aim(s, able) < s.e.queue
           /\ ~Purged(s.e)
<1> DEFINE w == WantedLo(s, able)
           q == s.e.queue
           lo == s.e.lo
<1>1. s.e \in Entries /\ lo \in Nat /\ q \in Nat /\ Lowest(s) \in Nat /\ s.e.hi \in Nat /\ s.e.clen \in Int
  BY StateParts, EntryTypes, LowestBelow DEF Good
<1>2. w = Lowest(s) \/ w = lo
  BY DEF WantedLo
<1>3. CASE able = TRUE
  <2>1. Aim(s, able) = IF w # 0 THEN Least(w, q - 1) ELSE w
    BY <1>3, Zenon DEF Aim, CappedLo
  <2>2. w \in Nat /\ Aim(s, able) > lo
    BY <1>1, <1>2
  <2>3. Aim(s, able) \in Nat /\ Aim(s, able) <= w /\ Aim(s, able) < q /\ w # lo
    <3> HIDE DEF w, q, lo
    <3>1. w # 0
      BY <1>1, <2>1, <2>2
    <3>2. Aim(s, able) = Least(w, q - 1)
      BY <2>1, <3>1
    <3> QED BY <1>1, <2>2, <3>2 DEF Least
  <2>4. ~Purged(s.e)
    <3> SUFFICES ASSUME Purged(s.e) PROVE FALSE
      OBVIOUS
    <3>1. ~(s.e.hi > MaxInMem) /\ ~(s.e.clen > MaxInMem)
      BY SizesAssumption DEF Purged
    <3>2. w = lo
      BY <1>3, <3>1, Zenon DEF WantedLo
    <3> QED BY <2>3, <3>2
  <2>5. Aim(s, able) <= Lowest(s)
    <3> HIDE DEF w, q, lo
    <3> QED BY <1>1, <1>2, <2>3
  <2> QED BY <2>3, <2>4, <2>5
<1>4. CASE able = FALSE /\ s.e.release = TRUE
  <2>1. Aim(s, able) = w
    BY <1>4, Zenon DEF Aim, CappedLo
  <2>2. ~Purged(s.e)
    BY <1>4, Zenon DEF Purged
  <2> HIDE DEF w
  <2>3. Aim(s, able) \in Nat /\ Aim(s, able) <= Lowest(s)
    <3>1. w > lo
      BY <2>1
    <3> QED BY <1>1, <1>2, <2>1, <3>1
  <2>4. able = TRUE => Aim(s, able) < s.e.queue
    BY <1>4, Zenon
  <2> QED BY <2>2, <2>3, <2>4
<1> QED BY <1>3, <1>4 DEF Ready
LEMMA AliveNotPurged ==
    ASSUME NEW x \in Entries, Alive(x)
    PROVE  ~Purged(x) /\ Size(x) = x.hi
BY EntryTypes DEF Alive, Bounds, Purged, Size

LEMMA GoodAlive ==
    ASSUME NEW s, Good(s), s.e.hi # 0 \/ s.e.sio = TRUE \/ s.e.swap # "done" \/ s.e.st # "ok"
                           \/ s.e.release = TRUE
    PROVE  Alive(s.e) /\ s \in States /\ s.e \in Entries
<1>1. s \in States /\ s.e \in Entries
  BY StateParts DEF Good
<1>2. ~Purged(s.e)
  <2>1. CASE s.e.hi # 0 \/ s.e.swap # "done" \/ s.e.st # "ok"
    BY <2>1, Zenon DEF Purged
  <2>2. CASE s.e.sio = TRUE \/ s.e.release = TRUE
    BY <2>2, Zenon DEF Purged
  <2> QED BY <2>1, <2>2
<1> QED BY <1>1, <1>2 DEF Good, GoodEntry

LEMMA ReadsKept ==
    ASSUME NEW x \in Entries, NEW z \in Entries, Alive(x), Alive(z), NEW y, Reads(x, y),
           z.st = x.st, z.hi = x.hi, z.osz = x.osz
    PROVE  Reads(z, y)
<1>1. ~Purged(z) /\ Size(z) = z.hi /\ Size(x) = x.hi
  BY AliveNotPurged
<1> QED BY <1>1 DEF Reads

\* A change that frees no page is good if the entry stays so: the file only
\* grows, unless nothing was freed.
LEMMA ClientsKept ==
    ASSUME NEW s, Good(s), NEW t \in States, t.c = s.c, Alive(s.e), Alive(t.e),
           Fixed(s.e, t.e), t.e.lo = s.e.lo, t.e.lo = 0 \/ s.e.file <= t.e.file
    PROVE  Good(t)
<1>1. s \in States /\ s.e \in Entries /\ t.e \in Entries
  BY StateParts DEF Good
<1>2. ASSUME NEW k \in Clients PROVE GoodClient(t.e, t.c[k])
  <2> DEFINE y == s.c[k]
  <2>1. t.c[k] = y /\ GoodClient(s.e, y)
    BY DEF Good
  <2>2. y \in Readers
    BY <1>1, StateParts
  <2>3. y.pos \in Nat
    BY <2>2 DEF Readers
  <2> HIDE DEF y
  <2>4. Reads(s.e, y) => Reads(t.e, y)
    <3>1. t.e.st = s.e.st /\ t.e.hi = s.e.hi /\ t.e.osz = s.e.osz
      BY DEF Fixed
    <3> QED BY <1>1, <3>1, ReadsKept
  <2>5. Source(s.e, y) => Source(t.e, y)
    <3>1. s.e.lo \in Nat /\ s.e.file \in Nat /\ t.e.file \in Nat
      BY <1>1, EntryTypes
    <3> QED BY <2>3, <3>1 DEF Source
  <2> QED BY <2>1, <2>4, <2>5 DEF GoodClient
<1> QED BY <1>2 DEF Good, GoodEntry

LEMMA TrimmedAlive ==
    ASSUME NEW x \in Entries, NEW z \in Entries, Alive(x), Fixed(x, z), OnDisk(x, z),
           z.release = x.release, x.inmem = FALSE, NEW able, Ready(x, able),
           z.lo < z.hi \/ z.lo = 0, z.lo = x.lo \/ (able = TRUE => z.lo < x.queue)
    PROVE  Alive(z)
<1>1. Bounds(z)
  BY DEF Alive, Bounds, Fixed, OnDisk
<1>2. Phase(z)
  BY DEF Alive, Phase, Fixed, OnDisk
<1>3. Kept(z)
  BY Zenon DEF Kept, Fixed
<1>4. File(z)
  <2>0. x.lo \in Nat /\ z.lo \in Nat /\ x.queue \in Nat
    BY EntryTypes
  <2>1. CASE z.lo = x.lo
    BY <2>1 DEF Alive, File, Fixed, OnDisk
  <2>2. CASE able = TRUE /\ x.release = FALSE /\ z.lo < x.queue
    <3>1. x.swap # "none"
      <4> SUFFICES ASSUME x.swap = "none" PROVE FALSE
        OBVIOUS
      <4>1. x.release = TRUE \/ x.queue = 0
        BY DEF Alive, File
      <4>2. x.queue = 0
        BY <2>2, <4>1, Zenon
      <4> QED BY <2>0, <2>2, <4>2
    <3> QED BY <2>2, <3>1 DEF Alive, File, Fixed, OnDisk
  <2>3. CASE able = FALSE /\ x.release = TRUE /\ x.sio = FALSE
    <3>1. x.swap # "writing"
      BY <2>3, Zenon DEF Alive, File
    <3> QED BY <2>3, <3>1 DEF Alive, File, Fixed, OnDisk
  <2>4. able = TRUE \/ able = FALSE
    BY DEF Ready
  <2>5. CASE able = TRUE /\ z.lo # x.lo
    BY <2>2, <2>5, Zenon DEF Ready
  <2>6. CASE able = FALSE /\ z.lo # x.lo
    BY <2>3, <2>6, Zenon DEF Ready
  <2> QED BY <2>1, <2>4, <2>5, <2>6
<1> QED BY <1>1, <1>2, <1>3, <1>4 DEF Alive

LEMMA TrimmedSelf ==
    ASSUME NEW s \in States
    PROVE  Trimmed(s, s)
<1>1. s.e.lo \in Nat
  BY StateParts, EntryTypes
<1> QED BY <1>1 DEF Trimmed, Fixed, OnDisk

\* storeSwapOutMaintainMemObject frees nothing that is needed.
LEMMA FreePagesGood ==
    ASSUME NEW s, Good(s), NEW able, Ready(s.e, able), s.e.inmem = FALSE,
           NEW t, t = FreePages(s, able)
    PROVE  Good(t) /\ Trimmed(s, t)
<1> DEFINE a == Aim(s, able)
           z == FreeDataUpto(s.e.lo, s.e.hi, a)
<1>0. s \in States /\ s.e \in Entries /\ s.e.lo \in Nat /\ s.e.hi \in Nat /\ s.e.queue \in Nat
      /\ s.e.file \in Nat
  BY StateParts, EntryTypes DEF Good
<1>1. t = IF a <= s.e.lo THEN s ELSE Freed(s, z)
  BY DEF FreePages, Aim
<1>2. CASE a <= s.e.lo
  BY <1>0, <1>1, <1>2, TrimmedSelf
<1>3. CASE a > s.e.lo
  <2>1. a \in Nat /\ a <= Lowest(s) /\ (able = TRUE => a < s.e.queue) /\ ~Purged(s.e) /\ Lowest(s) \in Nat
    BY <1>3, AimIs, LowestBelow
  <2>2. Alive(s.e)
    BY <2>1 DEF Good, GoodEntry
  <2>3. ~(a <= s.e.lo)
    BY <1>0, <1>3, <2>1
  <2>4. t = Freed(s, z)
    BY <1>1, <2>3
  <2> HIDE DEF a
  <2>5. z \in Nat /\ s.e.lo <= z /\ (z < s.e.hi \/ z = 0) /\ (z = s.e.lo \/ z <= a)
    <3>1. s.e.lo < s.e.hi \/ s.e.lo = 0
      BY <2>2 DEF Alive, Bounds
    <3> DEFINE l == s.e.lo
               h == s.e.hi
    <3>2. z = FreeDataUpto(l, h, a) /\ l \in Nat /\ h \in Nat /\ (l < h \/ l = 0)
      BY <1>0, <3>1
    <3> HIDE DEF l, h, z
    <3>3. z \in Nat /\ l <= z /\ (z < h \/ z = 0) /\ (z = l \/ z <= a)
      BY <2>1, <3>2, FreedUpto
    <3> QED BY <3>3 DEF l, h
  <2> HIDE DEF z
  <2>6. Trimmed(s, t) /\ t.e.lo = z
    BY <1>0, <2>4, <2>5, FreedParts
  <2>7. t \in States /\ t.e \in Entries /\ t.c = s.c /\ Fixed(s.e, t.e) /\ OnDisk(s.e, t.e)
        /\ t.e.release = s.e.release /\ t.e.hi = s.e.hi /\ t.e.file = s.e.file
        /\ t.e.st = s.e.st /\ t.e.osz = s.e.osz
    BY <2>6, StateParts DEF Trimmed, Fixed, OnDisk
  <2>8. able = TRUE => (z = s.e.lo \/ z < s.e.queue)
    BY <1>0, <2>1, <2>5
  <2>9. Alive(t.e)
    <3>1. t.e.lo = s.e.lo \/ (able = TRUE => t.e.lo < s.e.queue)
      BY <2>6, <2>8
    <3>2. t.e.lo < t.e.hi \/ t.e.lo = 0
      BY <2>5, <2>6, <2>7
    <3> QED BY <1>0, <2>2, <2>7, <3>1, <3>2, TrimmedAlive
  <2>10. ASSUME NEW k \in Clients PROVE GoodClient(t.e, t.c[k])
    <3> DEFINE y == s.c[k]
    <3>1. t.c[k] = y /\ GoodClient(s.e, y)
      BY <2>7 DEF Good
    <3>2. y \in Readers
      BY <1>0, StateParts
    <3>3. y.pos \in Nat /\ y.type \in {"mem", "disk"}
      BY <3>2 DEF Readers
    <3>4. y.on = TRUE /\ (s.e.sio = FALSE \/ y.type = "mem") => Lowest(s) <= y.pos
      BY LowestBelow
    <3> HIDE DEF y
    <3>5. Reads(s.e, y) => Reads(t.e, y)
      BY <1>0, <2>2, <2>7, <2>9, ReadsKept
    <3>6. ASSUME y.on = TRUE, Source(s.e, y) PROVE Source(t.e, y)
      <4> SUFFICES ASSUME y.end = "no", y.pos < z PROVE y.type = "disk" /\ z <= s.e.file
        BY <2>6, <2>7 DEF Source
      <4>1. CASE y.pos < s.e.lo /\ z = s.e.lo
        BY <3>6, <4>1 DEF Source
      <4>2. CASE z # s.e.lo
        <5>1. z <= Lowest(s) /\ ~(Lowest(s) <= y.pos)
          BY <2>1, <2>5, <3>3, <4>2
        <5>2. ~(s.e.sio = FALSE) /\ y.type = "disk"
          BY <3>3, <3>4, <3>6, <5>1
        <5>3. s.e.sio = TRUE
          BY <1>0, <5>2, EntryFlags, Zenon
        <5>4. able = TRUE /\ s.e.swap = "writing"
          <6>1. able = TRUE
            BY <5>3, Zenon DEF Ready
          <6>2. s.e.swap = "writing"
            BY <2>2, <5>3 DEF Alive, File
          <6> QED BY <6>1, <6>2
        <5>5. s.e.file = s.e.queue
          BY <2>2, <5>4 DEF Alive, File
        <5> QED BY <1>0, <2>5, <2>8, <4>2, <5>2, <5>4, <5>5
      <4> QED BY <1>0, <2>5, <4>1, <4>2
    <3> QED BY <3>1, <3>5, <3>6 DEF GoodClient
  <2> QED BY <2>6, <2>7, <2>9, <2>10 DEF Good, GoodEntry
<1>4. a \in Int
  <2>1. Lowest(s) \in Nat
    BY LowestBelow
  <2>2. WantedLo(s, able) \in Nat
    BY <1>0, <2>1 DEF WantedLo
  <2> DEFINE w == WantedLo(s, able)
             q == s.e.queue
  <2>3. a = Least(w, q - 1) \/ a = w
    BY DEF Aim, CappedLo
  <2> HIDE DEF w, a, q
  <2>4. w \in Nat /\ q \in Nat
    BY <1>0, <2>2 DEF w, q
  <2> QED BY <2>3, <2>4 DEF Least
<1> HIDE DEF a
<1> QED BY <1>0, <1>2, <1>3, <1>4
-----------------------------------------------------------------------------
(***************************************************************************)
(* Closing the swap file.                                                  *)
(***************************************************************************)
\* What swapping out leaves alone: the clients, the object, its release.
Quiet(s, t) ==
    t.c = s.c /\ Fixed(s.e, t.e) /\ (s.e.release = TRUE => t.e.release = TRUE)

LEMMA QuietSelf ==
    ASSUME NEW s
    PROVE  Quiet(s, s)
BY DEF Quiet, Fixed

LEMMA QuietTrans ==
    ASSUME NEW s, NEW t, NEW u, Quiet(s, t), Quiet(t, u)
    PROVE  Quiet(s, u)
BY DEF Quiet, Fixed

LEMMA TrimmedQuiet ==
    ASSUME NEW s, NEW t, Trimmed(s, t)
    PROVE  Quiet(s, t)
BY DEF Quiet, Trimmed

LEMMA ReleasedAlive ==
    ASSUME NEW x \in Entries, NEW z \in Entries, Alive(x), x.inmem = FALSE \/ x.swap = "none",
           z.release = TRUE, z.lo = x.lo, Fixed(x, z), OnDisk(x, z)
    PROVE  Alive(z)
<1>1. Bounds(z)
  BY DEF Alive, Bounds, Fixed, OnDisk
<1>2. Phase(z)
  BY DEF Alive, Phase, Fixed, OnDisk
<1>3. Kept(z)
  <2>1. CASE x.inmem = FALSE
    BY <2>1, Zenon DEF Kept, Fixed
  <2>2. CASE x.swap = "none"
    BY <2>2 DEF Alive, Kept, Fixed, OnDisk
  <2> QED BY <2>1, <2>2
<1>4. File(z)
  BY DEF Alive, File, Fixed, OnDisk
<1> QED BY <1>1, <1>2, <1>3, <1>4 DEF Alive

\* storeReleaseRequest
LEMMA ReleaseGood ==
    ASSUME NEW s, Good(s), Alive(s.e), s.e.inmem = FALSE \/ s.e.swap = "none",
           NEW t, t = ReleaseRequest(s)
    PROVE  /\ Good(t) /\ Quiet(s, t) /\ t.e.release = TRUE /\ OnDisk(s.e, t.e)
           /\ t.e.lo = s.e.lo /\ t.e.defer = s.e.defer
<1>1. s \in States /\ s.e \in Entries
  BY StateParts DEF Good
<1>2. /\ t \in States /\ t.c = s.c /\ t.e.release = TRUE /\ t.e.lo = s.e.lo
      /\ t.e.defer = s.e.defer /\ Fixed(s.e, t.e) /\ OnDisk(s.e, t.e)
  BY <1>1, ReleaseRequestPut
<1>3. t.e \in Entries
  BY <1>2, StateParts
<1>4. Alive(t.e)
  BY <1>1, <1>2, <1>3, ReleasedAlive
<1>5. s.e.file <= t.e.file
  <2>1. t.e.file = s.e.file /\ s.e.file \in Nat
    BY <1>1, <1>2, EntryTypes DEF OnDisk
  <2> QED BY <2>1
<1>6. Good(t)
  BY <1>2, <1>4, <1>5, ClientsKept
<1> QED BY <1>2, <1>6 DEF Quiet

LEMMA AbleFacts ==
    ASSUME NEW s, Good(s)
    PROVE  /\ SwapOutAble(s) => s.e.release = FALSE
           /\ ~SwapOutAble(s) => Alive(s.e)
<1>1. s \in States /\ s.e \in Entries
  BY StateParts DEF Good
<1>2. s.e.release \in BOOLEAN /\ s.e.hi \in Nat
  BY <1>1, EntryFlags, EntryTypes
<1>3. SwapOutAble(s) => s.e.release = FALSE
  BY <1>2, Zenon DEF SwapOutAble
<1>4. Purged(s.e) => SwapOutAble(s)
  <2> SUFFICES ASSUME Purged(s.e) PROVE SwapOutAble(s)
    OBVIOUS
  <2>1. s.e.hi <= MaxObject
    BY SizesAssumption DEF Purged
  <2>2. s.e.release = FALSE /\ s.e.lo = 0
    BY DEF Purged
  <2> QED BY <2>1, <2>2, Zenon DEF SwapOutAble
<1> QED BY <1>3, <1>4 DEF Good, GoodEntry

LEMMA MaintainClosedGood ==
    ASSUME NEW s, Good(s), s.e.sio = FALSE, NEW t, t = MaintainClosed(s)
    PROVE  Good(t) /\ Quiet(s, t) /\ OnDisk(s.e, t.e)
<1>1. s \in States /\ s.e \in Entries
  BY StateParts DEF Good
<1>2. s.e.inmem \in BOOLEAN
  BY <1>1, EntryFlags
<1>3. CASE s.e.inmem = TRUE
  <2>1. t = s
    BY <1>3, Zenon DEF MaintainClosed
  <2> QED BY <2>1, QuietSelf DEF OnDisk
<1>4. CASE s.e.inmem = FALSE /\ SwapOutAble(s)
  <2>1. t = FreePages(s, TRUE)
    BY <1>4, Zenon DEF MaintainClosed
  <2>2. Ready(s.e, TRUE)
    BY <1>4, AbleFacts DEF Ready
  <2>3. Good(t) /\ Trimmed(s, t)
    BY <1>4, <2>1, <2>2, FreePagesGood
  <2> QED BY <2>3, TrimmedQuiet DEF Trimmed
<1>5. CASE s.e.inmem = FALSE /\ ~SwapOutAble(s)
  <2> DEFINE u == ReleaseRequest(s)
  <2>1. t = FreePages(u, FALSE)
    BY <1>5, Zenon DEF MaintainClosed
  <2>2. Good(u) /\ Quiet(s, u) /\ u.e.release = TRUE /\ OnDisk(s.e, u.e)
    BY <1>5, AbleFacts, ReleaseGood
  <2> HIDE DEF u
  <2>3. u.e.sio = FALSE /\ u.e.inmem = FALSE
    BY <1>5, <2>2 DEF OnDisk, Quiet, Fixed
  <2>4. Ready(u.e, FALSE)
    BY <2>2, <2>3 DEF Ready
  <2>5. Good(t) /\ Trimmed(u, t)
    BY <2>1, <2>2, <2>3, <2>4, FreePagesGood
  <2>6. Quiet(s, t)
    BY <2>2, <2>5, TrimmedQuiet, QuietTrans
  <2>7. OnDisk(s.e, t.e)
    BY <2>2, <2>5 DEF Trimmed, OnDisk
  <2> QED BY <2>5, <2>6, <2>7
<1> QED BY <1>2, <1>3, <1>4, <1>5

\* Some pages were written, one of them perhaps in vain.
Wrote(s, q, f) == [s EXCEPT !.e.queue = q, !.e.file = f]

LEMMA WroteParts ==
    ASSUME NEW s \in States, NEW q \in Nat, NEW f \in Nat, NEW t, t = Wrote(s, q, f)
    PROVE  /\ t \in States /\ t.c = s.c /\ Fixed(s.e, t.e) /\ t.e.release = s.e.release
           /\ t.e.defer = s.e.defer
           /\ t.e.lo = s.e.lo /\ t.e.queue = q /\ t.e.file = f /\ t.e.swap = s.e.swap
           /\ t.e.sio = s.e.sio /\ t.e.hdr = s.e.hdr /\ t.e.fsz = s.e.fsz
<1> DEFINE x == [s.e EXCEPT !.queue = q, !.file = f]
<1>1. s.e \in Entries
  BY StateParts
<1>2. x \in Entries
  BY <1>1 DEF Entries
<1>3. t = Put(s, x)
  BY DEF Wrote, Put, States
<1>4. /\ Fixed(s.e, x) /\ x.release = s.e.release /\ x.defer = s.e.defer /\ x.lo = s.e.lo /\ x.queue = q /\ x.file = f
      /\ x.swap = s.e.swap /\ x.sio = s.e.sio /\ x.hdr = s.e.hdr /\ x.fsz = s.e.fsz
  BY <1>1 DEF Entries, Fixed
<1> HIDE DEF x
<1>5. t \in States /\ t.e = x /\ t.c = s.c
  BY <1>2, <1>3, PutParts
<1> QED BY <1>4, <1>5

\* The file is given up.
Dropped(s) == ReleaseRequest([[s EXCEPT !.e.sio = FALSE] EXCEPT !.e.swap = "none"])

LEMMA DroppedParts ==
    ASSUME NEW s \in States, NEW t, t = Dropped(s)
    PROVE  /\ t \in States /\ t.c = s.c /\ Fixed(s.e, t.e) /\ t.e.release = TRUE
           /\ t.e.defer = s.e.defer
           /\ t.e.lo = s.e.lo /\ t.e.queue = s.e.queue /\ t.e.file = s.e.file
           /\ t.e.swap = "none" /\ t.e.sio = FALSE /\ t.e.hdr = s.e.hdr
<1> DEFINE x == [s.e EXCEPT !.sio = FALSE, !.swap = "none", !.release = TRUE]
<1>1. s.e \in Entries
  BY StateParts
<1>2. x \in Entries
  BY <1>1 DEF Entries
<1>3. t = Put(s, x)
  BY <1>1 DEF Dropped, ReleaseRequest, Put, States, Entries
<1>4. /\ Fixed(s.e, x) /\ x.release = TRUE /\ x.defer = s.e.defer /\ x.lo = s.e.lo /\ x.queue = s.e.queue
      /\ x.file = s.e.file /\ x.swap = "none" /\ x.sio = FALSE /\ x.hdr = s.e.hdr
  BY <1>1 DEF Entries, Fixed
<1> HIDE DEF x
<1>5. t \in States /\ t.e = x /\ t.c = s.c
  BY <1>2, <1>3, PutParts
<1> QED BY <1>4, <1>5

LEMMA DroppedAlive ==
    ASSUME NEW x \in Entries, NEW z \in Entries, Alive(x), x.sio = TRUE, Fixed(x, z),
           z.release = TRUE, z.lo = x.lo, z.file <= z.queue, z.queue <= z.hi,
           z.hdr = x.hdr, z.swap = "none", z.sio = FALSE
    PROVE  Alive(z)
<1>0. x.hdr = HdrSz
  BY DEF Alive, File
<1>1. Bounds(z)
  BY <1>0 DEF Alive, Bounds, Fixed
<1>2. Phase(z)
  BY DEF Alive, Phase, Fixed
<1>3. Kept(z)
  BY DEF Alive, Kept, Fixed
<1>4. File(z)
  BY Zenon DEF File
<1> QED BY <1>1, <1>2, <1>3, <1>4 DEF Alive

\* storeSwapOutFileClosed after an error.
Stops(s, q, f) ==
    /\ s.e.sio = TRUE /\ q \in Nat /\ f \in Nat
    /\ s.e.file <= f /\ f <= q /\ q <= s.e.hi

Stopped(s, q, d) ==
    /\ Good(d) /\ Quiet(s, d) /\ d.e.sio = FALSE /\ d.e.release = TRUE
    /\ d.e.lo = s.e.lo /\ d.e.queue = q /\ d.e.defer = s.e.defer

LEMMA DroppedGood ==
    ASSUME NEW s, Good(s), NEW q, NEW f, Stops(s, q, f), NEW d, d = Dropped(Wrote(s, q, f))
    PROVE  Stopped(s, q, d)
<1> DEFINE w == Wrote(s, q, f)
<1>0. s.e.sio = TRUE /\ q \in Nat /\ f \in Nat /\ s.e.file <= f /\ f <= q /\ q <= s.e.hi
  BY DEF Stops
<1>1. Alive(s.e) /\ s \in States /\ s.e \in Entries
  BY <1>0, GoodAlive
<1>2. /\ w \in States /\ w.c = s.c /\ Fixed(s.e, w.e) /\ w.e.release = s.e.release
      /\ w.e.defer = s.e.defer
      /\ w.e.lo = s.e.lo /\ w.e.queue = q /\ w.e.file = f /\ w.e.hdr = s.e.hdr
  BY <1>0, <1>1, WroteParts
<1>w. d = Dropped(w)
  OBVIOUS
<1> HIDE DEF w
<1>3. /\ d \in States /\ d.c = w.c /\ Fixed(w.e, d.e) /\ d.e.release = TRUE
      /\ d.e.defer = w.e.defer
      /\ d.e.lo = w.e.lo /\ d.e.queue = w.e.queue /\ d.e.file = w.e.file
      /\ d.e.swap = "none" /\ d.e.sio = FALSE /\ d.e.hdr = w.e.hdr
  BY <1>2, <1>w, DroppedParts
<1>4. /\ d.c = s.c /\ Fixed(s.e, d.e) /\ d.e.lo = s.e.lo /\ d.e.queue = q /\ d.e.file = f
      /\ d.e.hdr = s.e.hdr /\ d.e.hi = s.e.hi /\ d.e \in Entries
  BY <1>2, <1>3, StateParts DEF Fixed
<1>5. Alive(d.e)
  BY <1>0, <1>1, <1>3, <1>4, DroppedAlive
<1>6. Good(d) /\ Quiet(s, d)
  BY <1>0, <1>1, <1>3, <1>4, <1>5, ClientsKept DEF Quiet
<1> QED BY <1>2, <1>3, <1>6 DEF Stopped

LEMMA ClosedError ==
    ASSUME NEW s, Good(s), s.e.sio = TRUE, NEW q \in Nat, NEW f \in Nat,
           s.e.file <= f, f <= q, q <= s.e.hi,
           NEW t, t = SwapOutFileClosed(Wrote(s, q, f), TRUE)
    PROVE  Good(t) /\ Quiet(s, t) /\ t.e.sio = FALSE
<1> DEFINE d == Dropped(Wrote(s, q, f))
<1>1. t = MaintainClosed(d)
  BY Zenon DEF SwapOutFileClosed, Dropped
<1>2. d = Dropped(Wrote(s, q, f))
  OBVIOUS
<1>a. Stops(s, q, f)
  BY DEF Stops
<1> HIDE DEF d
<1>3. Good(d) /\ Quiet(s, d) /\ d.e.sio = FALSE
  <2>1. Stopped(s, q, d)
    BY <1>2, <1>a, DroppedGood
  <2> QED BY <2>1 DEF Stopped
<1>4. Good(t) /\ Quiet(d, t) /\ OnDisk(d.e, t.e)
  BY <1>1, <1>3, MaintainClosedGood
<1>5. t.e.sio = FALSE
  BY <1>3, <1>4 DEF OnDisk
<1> QED BY <1>3, <1>4, <1>5, QuietTrans
\* The file is closed with what it holds.
Finished(s) ==
    [[s EXCEPT !.e.sio = FALSE] EXCEPT !.e.swap = "done", !.e.fsz = s.e.osz + s.e.hdr]

LEMMA FinishedParts ==
    ASSUME NEW s \in States, NEW t, t = Finished(s)
    PROVE  /\ t \in States /\ t.c = s.c /\ Fixed(s.e, t.e) /\ t.e.release = s.e.release
           /\ t.e.defer = s.e.defer
           /\ t.e.lo = s.e.lo /\ t.e.queue = s.e.queue /\ t.e.file = s.e.file
           /\ t.e.swap = "done" /\ t.e.sio = FALSE /\ t.e.hdr = s.e.hdr
           /\ t.e.fsz = s.e.osz + s.e.hdr
<1> DEFINE n == s.e.osz + s.e.hdr
           x == [s.e EXCEPT !.sio = FALSE, !.swap = "done", !.fsz = n]
<1>1. s.e \in Entries
  BY StateParts
<1>2. n \in Int
  BY <1>1, EntryTypes
<1>3. t = Put(s, x)
  <2>1. t = [[s EXCEPT !.e.sio = FALSE] EXCEPT !.e.swap = "done", !.e.fsz = n]
    BY DEF Finished
  <2> HIDE DEF n
  <2> QED BY <1>1, <2>1 DEF Put, States, Entries
<1> HIDE DEF n
<1>4. x \in Entries
  BY <1>1, <1>2 DEF Entries
<1>5. /\ Fixed(s.e, x) /\ x.release = s.e.release /\ x.defer = s.e.defer /\ x.lo = s.e.lo /\ x.queue = s.e.queue
      /\ x.file = s.e.file /\ x.swap = "done" /\ x.sio = FALSE /\ x.hdr = s.e.hdr /\ x.fsz = n
  BY <1>1 DEF Entries, Fixed
<1> HIDE DEF x
<1>6. t \in States /\ t.e = x /\ t.c = s.c
  BY <1>3, <1>4, PutParts
<1> QED BY <1>5, <1>6 DEF n

\* The file may be closed: the object is to be released, or it is all there.
Closable(x) == x.release = TRUE \/ (x.st = "ok" /\ x.queue = x.hi)

LEMMA FinishedAlive ==
    ASSUME NEW x \in Entries, NEW z \in Entries, Alive(x), x.sio = TRUE, Closable(x), Fixed(x, z),
           z.lo = x.lo, z.queue = x.queue, z.file = x.file, z.hdr = x.hdr,
           z.swap = "done", z.sio = FALSE, z.fsz = x.osz + x.hdr, z.release = x.release
    PROVE  Alive(z)
<1>0. x.swap = "writing" /\ x.hdr = HdrSz /\ x.file = x.queue
  BY DEF Alive, File
<1>1. Bounds(z)
  BY <1>0 DEF Alive, Bounds, Fixed
<1>2. Phase(z)
  BY DEF Alive, Phase, Fixed
<1>3. Kept(z)
  BY <1>0 DEF Alive, Kept, Fixed
<1>4. File(z)
  <2>1. x.release = TRUE \/ (x.st = "ok" /\ x.file = x.hi /\ x.osz = x.hi)
    BY <1>0 DEF Closable, Alive, Phase
  <2>2. z.release = TRUE \/ (z.st = "ok" /\ z.file = z.hi /\ z.fsz = z.file + HdrSz)
    BY <1>0, <2>1 DEF Fixed
  <2>3. z.sio = TRUE <=> z.swap = "writing"
    BY Zenon
  <2> QED BY <1>0, <2>2, <2>3 DEF File
<1> QED BY <1>1, <1>2, <1>3, <1>4 DEF Alive

LEMMA CheckCachableGood ==
    ASSUME NEW s, Good(s), Alive(s.e), NEW t, t = CheckCachable(s),
           s.e.inmem = FALSE \/ s.e.swap = "none" \/ Cachable(s)
    PROVE  /\ Good(t) /\ Quiet(s, t) /\ OnDisk(s.e, t.e) /\ t.e.lo = s.e.lo
           /\ t.e.defer = s.e.defer
<1>1. CASE t = s
  BY <1>1, QuietSelf DEF OnDisk
<1>2. CASE t = ReleaseRequest(s) /\ ~Cachable(s)
  BY <1>2, ReleaseGood
<1> QED BY <1>1, <1>2, Zenon DEF CheckCachable

\* storeSwapOutFileClosed without an error.
LEMMA FinishedGood ==
    ASSUME NEW s, Good(s), s.e.sio = TRUE, Closable(s.e), NEW v, v = CheckCachable(Finished(s))
    PROVE  /\ Good(v) /\ Quiet(s, v) /\ v.e.sio = FALSE
           /\ v.e.lo = s.e.lo /\ v.e.queue = s.e.queue /\ v.e.defer = s.e.defer
<1> DEFINE d == Finished(s)
<1>1. Alive(s.e) /\ s \in States /\ s.e \in Entries
  BY GoodAlive
<1>2. v = CheckCachable(d)
  OBVIOUS
<1>3. /\ d \in States /\ d.c = s.c /\ Fixed(s.e, d.e) /\ d.e.release = s.e.release
      /\ d.e.defer = s.e.defer
      /\ d.e.lo = s.e.lo /\ d.e.queue = s.e.queue /\ d.e.file = s.e.file
      /\ d.e.swap = "done" /\ d.e.sio = FALSE /\ d.e.hdr = s.e.hdr
      /\ d.e.fsz = s.e.osz + s.e.hdr
  BY <1>1, FinishedParts
<1> HIDE DEF d
<1>4. d.e \in Entries
  BY <1>3, StateParts
<1>5. Alive(d.e)
  BY <1>1, <1>3, <1>4, FinishedAlive
<1>6. s.e.file <= d.e.file
  BY <1>1, <1>3, EntryTypes
<1>7. Good(d) /\ Quiet(s, d)
  BY <1>1, <1>3, <1>5, <1>6, ClientsKept DEF Quiet
<1>8. s.e.inmem = FALSE \/ Cachable(d)
  <2> SUFFICES ASSUME s.e.inmem = TRUE PROVE Cachable(d)
    BY <1>1, EntryFlags, Zenon
  <2>1. s.e.release = FALSE /\ s.e.neg = FALSE /\ s.e.clen <= MaxObject /\ s.e.hi <= MaxObject
    <3>1. s.e.swap = "writing"
      BY <1>1 DEF Alive, File
    <3> QED BY <1>1, <3>1 DEF Alive, Kept
  <2>2. d.e.release = FALSE /\ d.e.neg = FALSE /\ d.e.clen <= MaxObject /\ d.e.hi <= MaxObject
    BY <1>3, <2>1 DEF Fixed
  <2> QED BY <2>2, Zenon DEF Cachable
<1>9. /\ Good(v) /\ Quiet(d, v) /\ OnDisk(d.e, v.e) /\ v.e.lo = d.e.lo
      /\ v.e.defer = d.e.defer
  <2>1. d.e.inmem = FALSE \/ Cachable(d)
    BY <1>3, <1>8 DEF Fixed
  <2> QED BY <1>2, <1>5, <1>7, <2>1, CheckCachableGood
<1>10. v.e.sio = FALSE /\ v.e.queue = s.e.queue
  BY <1>3, <1>9 DEF OnDisk
<1> QED BY <1>3, <1>7, <1>9, <1>10, QuietTrans

LEMMA ClosedFine ==
    ASSUME NEW s, Good(s), s.e.sio = TRUE, Closable(s.e),
           NEW t, t = SwapOutFileClosed(s, FALSE)
    PROVE  Good(t) /\ Quiet(s, t) /\ t.e.sio = FALSE
<1> DEFINE v == CheckCachable(Finished(s))
<1>1. t = MaintainClosed(v)
  BY Zenon DEF SwapOutFileClosed, Finished
<1>2. v = CheckCachable(Finished(s))
  OBVIOUS
<1> HIDE DEF v
<1>3. Good(v) /\ Quiet(s, v) /\ v.e.sio = FALSE
  BY <1>2, FinishedGood
<1>4. Good(t) /\ Quiet(v, t) /\ OnDisk(v.e, t.e)
  BY <1>1, <1>3, MaintainClosedGood
<1>5. t.e.sio = FALSE
  BY <1>3, <1>4 DEF OnDisk
<1> QED BY <1>3, <1>4, <1>5, QuietTrans

\* storeSwapOutFileClose
LEMMA FileCloseGood ==
    ASSUME NEW s, Good(s), s.e.sio = TRUE => Closable(s.e), NEW t, t = SwapOutFileClose(s)
    PROVE  Good(t) /\ Quiet(s, t) /\ t.e.sio = FALSE
<1>1. s.e.sio \in BOOLEAN
  BY StateParts, EntryFlags DEF Good
<1>2. CASE s.e.sio = TRUE
  <2>1. t = SwapOutFileClosed(s, FALSE)
    BY <1>2, Zenon DEF SwapOutFileClose
  <2> QED BY <1>2, <2>1, ClosedFine
<1>3. CASE s.e.sio = FALSE
  <2>1. t = s
    BY <1>3, Zenon DEF SwapOutFileClose
  <2> QED BY <1>3, <2>1, QuietSelf
<1> QED BY <1>1, <1>2, <1>3

\* storeSwapOutMaintainMemObject
LEMMA MaintainGood ==
    ASSUME NEW s, Good(s), NEW t, t = MaintainMemObject(s)
    PROVE  /\ Good(t) /\ Quiet(s, t)
           /\ s.e.inmem = TRUE => t = s
           /\ SwapOutAble(s) => Trimmed(s, t)
<1>1. s \in States /\ s.e \in Entries
  BY StateParts DEF Good
<1>2. s.e.inmem \in BOOLEAN
  BY <1>1, EntryFlags
<1>3. CASE s.e.inmem = TRUE
  <2>1. t = s
    BY <1>3, Zenon DEF MaintainMemObject
  <2> QED BY <1>1, <2>1, QuietSelf, TrimmedSelf
<1>4. CASE s.e.inmem = FALSE /\ SwapOutAble(s)
  <2>1. t = FreePages(s, TRUE)
    BY <1>4, Zenon DEF MaintainMemObject
  <2>2. Ready(s.e, TRUE)
    BY <1>4, AbleFacts DEF Ready
  <2>3. Good(t) /\ Trimmed(s, t)
    BY <1>4, <2>1, <2>2, FreePagesGood
  <2>4. s.e.inmem = TRUE => t = s
    BY <1>4, Zenon
  <2> QED BY <2>3, <2>4, TrimmedQuiet
<1>5. CASE s.e.inmem = FALSE /\ ~SwapOutAble(s)
  <2> DEFINE u == ReleaseRequest(s)
             v == SwapOutFileClose(u)
  <2>1. t = FreePages(v, FALSE)
    BY <1>5, Zenon DEF MaintainMemObject
  <2>2. Good(u) /\ Quiet(s, u) /\ u.e.release = TRUE
    BY <1>5, AbleFacts, ReleaseGood
  <2> HIDE DEF u
  <2>3. Good(v) /\ Quiet(u, v) /\ v.e.sio = FALSE
    BY <2>2, FileCloseGood DEF Closable
  <2> HIDE DEF v
  <2>4. v.e.inmem = FALSE /\ v.e.release = TRUE
    BY <1>5, <2>2, <2>3 DEF Quiet, Fixed
  <2>5. Ready(v.e, FALSE)
    BY <2>3, <2>4 DEF Ready
  <2>6. Good(t) /\ Trimmed(v, t)
    BY <2>1, <2>3, <2>4, <2>5, FreePagesGood
  <2>7. Quiet(s, t)
    BY <2>2, <2>3, <2>6, TrimmedQuiet, QuietTrans
  <2>8. s.e.inmem = TRUE => t = s
    BY <1>5, Zenon
  <2> QED BY <1>5, <2>6, <2>7, <2>8
<1> QED BY <1>2, <1>3, <1>4, <1>5
-----------------------------------------------------------------------------
(***************************************************************************)
(* Writing the swap file.                                                  *)
(***************************************************************************)
LEMMA CheckTrue ==
    ASSUME NEW s, NEW name, NEW ok, ok
    PROVE  Check(s, name, ok) = s
BY Zenon DEF Check

LEMMA OutcomeTypes ==
    ASSUME NEW io \in Outcomes
    PROVE  io.pages \in Nat
BY SizesAssumption DEF Outcomes, Fine

\* The offset after k pages.
Upto(x, k) == Least(x.hi, x.queue + k * Page)

LEMMA UptoGrows ==
    ASSUME NEW x \in Entries, x.queue <= x.hi, NEW k \in Nat
    PROVE  /\ Upto(x, k) \in Nat /\ x.queue <= Upto(x, k) /\ Upto(x, k) <= x.hi
           /\ Upto(x, k) <= Upto(x, k + 1)
<1> DEFINE a == k * Page
           b == (k + 1) * Page
           hi == x.hi
           q == x.queue
<1>1. Page \in Nat /\ hi \in Nat /\ q \in Nat /\ q <= hi
  BY SizesAssumption, EntryTypes
<1>2. a \in Nat /\ b = a + Page
  BY <1>1
<1>3. Upto(x, k) = Least(hi, q + a) /\ Upto(x, k + 1) = Least(hi, q + b)
  BY DEF Upto
<1>4. Least(hi, q + a) \in Nat /\ q <= Least(hi, q + a) /\ Least(hi, q + a) <= hi
      /\ Least(hi, q + a) <= Least(hi, q + b)
  <2> HIDE DEF a, b, hi, q
  <2> QED BY <1>1, <1>2 DEF Least
<1> HIDE DEF a, b
<1> QED BY <1>3, <1>4

\* The pages a complete object still needs reach to its end.
LEMMA UptoEnd ==
    ASSUME NEW x \in Entries, x.queue <= x.hi,
           NEW n, n = (x.hi - x.queue + Page - 1) \div Page
    PROVE  n \in Nat /\ Upto(x, n) = x.hi
<1> DEFINE hi == x.hi
           q == x.queue
           a == hi - q + Page - 1
<1>1. Page \in Nat /\ Page > 0 /\ hi \in Nat /\ q \in Nat /\ q <= hi
  BY SizesAssumption, EntryTypes
<1>2. a \in Nat /\ n = a \div Page
  <2> HIDE DEF hi, q
  <2>1. a \in Nat
    BY <1>1
  <2> QED BY <2>1 DEF hi, q
<1>3. PageOf(a) \in Nat /\ a < PageOf(a) + Page /\ n \in Nat
  <2> HIDE DEF a
  <2> QED BY <1>2, PageBelow
<1>4. PageOf(a) = n * Page
  BY <1>2 DEF PageOf
<1> DEFINE m == n * Page
<1>5. Upto(x, n) = Least(hi, q + m)
  BY DEF Upto
<1>6. Least(hi, q + m) = hi
  <2> HIDE DEF hi, q, m
  <2>1. a < m + Page /\ m \in Nat
    BY <1>3, <1>4 DEF m
  <2>2. hi <= q + m
    BY <1>1, <2>1
  <2> QED BY <1>1, <2>1, <2>2 DEF Least
<1> QED BY <1>3, <1>5, <1>6

LEMMA WroteAlive ==
    ASSUME NEW x \in Entries, NEW z \in Entries, Alive(x), x.sio = TRUE, Fixed(x, z),
           z.release = x.release, z.lo = x.lo, z.swap = x.swap, z.sio = x.sio, z.hdr = x.hdr,
           z.fsz = x.fsz, z.file = z.queue, x.queue <= z.queue, z.queue <= x.hi
    PROVE  Alive(z)
<1>0. x.swap = "writing" /\ x.hdr = HdrSz /\ x.lo \in Nat /\ x.queue \in Nat /\ z.queue \in Nat
  BY EntryTypes DEF Alive, File
<1>1. Bounds(z)
  BY <1>0 DEF Alive, Bounds, Fixed
<1>2. Phase(z)
  BY DEF Alive, Phase, Fixed
<1>3. Kept(z)
  BY <1>0 DEF Alive, Kept, Fixed
<1>4. File(z)
  <2>1. z.lo < z.queue \/ z.lo = 0
    BY <1>0 DEF Alive, File
  <2>2. z.sio = TRUE <=> z.swap = "writing"
    BY DEF Alive, File
  <2> QED BY <1>0, <2>1, <2>2 DEF File
<1> QED BY <1>1, <1>2, <1>3, <1>4 DEF Alive

\* The loop of storeSwapOut: the page it goes on from is in memory, and for a
\* complete object it ends at the end.
LEMMA WritePagesGood ==
    ASSUME NEW s, Good(s), s.e.sio = TRUE, NEW io \in Outcomes, NEW t, t = WritePages(s, io)
    PROVE  Good(t) /\ Quiet(s, t)
<1> DEFINE n == IF s.e.st = "pending" THEN (s.e.hi - s.e.queue) \div Page
                ELSE (s.e.hi - s.e.queue + Page - 1) \div Page
           p == io.pages
           w == Wrote(s, Upto(s.e, n), Upto(s.e, n))
           f == Wrote(s, Upto(s.e, p + 1), Upto(s.e, p))
<1>1. Alive(s.e) /\ s \in States /\ s.e \in Entries
  BY GoodAlive
<1>2. /\ s.e.queue <= s.e.hi /\ s.e.queue \in Nat /\ s.e.hi \in Nat /\ s.e.file = s.e.queue
      /\ s.e.lo \in Nat /\ (s.e.lo < s.e.queue \/ s.e.lo = 0)
  BY <1>1, EntryTypes DEF Alive, Bounds, File
<1>3. Check(s, "page_gone", s.e.lo < s.e.queue \/ (s.e.queue = 0 /\ s.e.lo = 0)) = s
  <2>1. s.e.lo < s.e.queue \/ (s.e.queue = 0 /\ s.e.lo = 0)
    BY <1>2
  <2> QED BY <2>1, CheckTrue
<1>4. n \in Nat /\ (s.e.st = "ok" => Upto(s.e, n) = s.e.hi)
  <2>1. CASE s.e.st = "pending"
    <3>1. s.e.hi - s.e.queue \in Nat
      BY <1>2
    <3>2. (s.e.hi - s.e.queue) \div Page \in Nat
      BY <3>1, PageBelow
    <3> QED BY <2>1, <3>2
  <2>2. CASE s.e.st # "pending"
    <3>1. n = (s.e.hi - s.e.queue + Page - 1) \div Page
      BY <2>2
    <3> HIDE DEF n
    <3> QED BY <1>1, <1>2, <3>1, UptoEnd
  <2> QED BY <2>1, <2>2
<1>5. t = IF p < n THEN SwapOutFileClosed(f, TRUE)
          ELSE IF s.e.st = "ok" THEN SwapOutFileClose(Check(w, "assert", w.e.queue = w.e.hi))
          ELSE w
  <2> DEFINE s1 == Check(s, "page_gone", s.e.lo < s.e.queue \/ (s.e.queue = 0 /\ s.e.lo = 0))
             w1 == Wrote(s1, Upto(s.e, n), Upto(s.e, n))
  <2>1. t = IF p < n THEN SwapOutFileClosed(Wrote(s1, Upto(s.e, p + 1), Upto(s.e, p)), TRUE)
            ELSE IF s.e.st = "ok" THEN SwapOutFileClose(Check(w1, "assert", w1.e.queue = w1.e.hi))
            ELSE w1
    BY DEF WritePages, Wrote, Upto
  <2>2. s1 = s
    BY <1>3
  <2> HIDE DEF s1
  <2> QED BY <2>1, <2>2
<1>6. p \in Nat
  BY OutcomeTypes
<1> HIDE DEF n, p
<1>7. CASE p < n
  <2> DEFINE a == Upto(s.e, p)
             b == Upto(s.e, p + 1)
  <2>1. a \in Nat /\ s.e.queue <= a /\ a <= b
    BY <1>1, <1>2, <1>6, UptoGrows
  <2>2. b \in Nat /\ b <= s.e.hi
    <3>1. p + 1 \in Nat
      BY <1>6
    <3> QED BY <1>1, <1>2, <3>1, UptoGrows
  <2>3. t = SwapOutFileClosed(Wrote(s, b, a), TRUE)
    BY <1>5, <1>7
  <2> HIDE DEF a, b
  <2> QED BY <1>2, <2>1, <2>2, <2>3, ClosedError
<1>8. CASE ~(p < n)
  <2> DEFINE a == Upto(s.e, n)
  <2>1. a \in Nat /\ s.e.queue <= a /\ a <= s.e.hi
    BY <1>1, <1>2, <1>4, UptoGrows
  <2>2. w = Wrote(s, a, a) /\ (s.e.st = "ok" => a = s.e.hi)
    BY <1>4
  <2> HIDE DEF a, w
  <2>3. /\ w \in States /\ w.c = s.c /\ Fixed(s.e, w.e) /\ w.e.release = s.e.release
        /\ w.e.lo = s.e.lo /\ w.e.queue = a /\ w.e.file = a /\ w.e.swap = s.e.swap
        /\ w.e.sio = s.e.sio /\ w.e.hdr = s.e.hdr /\ w.e.fsz = s.e.fsz
    BY <1>1, <2>1, <2>2, WroteParts
  <2>4. w.e \in Entries /\ w.e.hi = s.e.hi /\ w.e.st = s.e.st
    BY <2>3, StateParts DEF Fixed
  <2>5. Alive(w.e)
    BY <1>1, <2>1, <2>3, <2>4, WroteAlive
  <2>6. Good(w) /\ Quiet(s, w)
    BY <1>1, <1>2, <2>1, <2>3, <2>5, ClientsKept DEF Quiet
  <2>7. CASE s.e.st = "ok"
    <3>1. Check(w, "assert", w.e.queue = w.e.hi) = w
      <4>1. w.e.queue = w.e.hi
        BY <2>2, <2>3, <2>4, <2>7
      <4> QED BY <4>1, CheckTrue, ZenonT(60)
    <3>2. t = SwapOutFileClose(w)
      BY <1>5, <1>8, <2>7, <3>1
    <3>3. Closable(w.e)
      BY <2>2, <2>3, <2>4, <2>7 DEF Closable
    <3>4. Good(t) /\ Quiet(w, t)
      BY <2>6, <3>2, <3>3, FileCloseGood
    <3> QED BY <2>6, <3>4, QuietTrans
  <2>8. CASE s.e.st # "ok"
    BY <1>5, <1>8, <2>6, <2>8
  <2> QED BY <2>7, <2>8
<1> QED BY <1>7, <1>8

LEMMA WriteOnGood ==
    ASSUME NEW s, Good(s), NEW io \in Outcomes, NEW t, t = WriteOn(s, io)
    PROVE  Good(t) /\ Quiet(s, t)
<1>1. s.e.sio \in BOOLEAN
  BY StateParts, EntryFlags DEF Good
<1>2. CASE s.e.sio = TRUE
  <2>1. t = WritePages(s, io)
    BY <1>2, Zenon DEF WriteOn
  <2> QED BY <1>2, <2>1, WritePagesGood
<1>3. CASE s.e.sio = FALSE
  <2>1. t = s
    BY <1>3, Zenon DEF WriteOn
  <2> QED BY <2>1, QuietSelf
<1> QED BY <1>1, <1>2, <1>3
\* The meta data are packed, the file is open.
Packed(s) == [s EXCEPT !.e.hdr = HdrSz]
Opened(s) == [Packed(s) EXCEPT !.e.swap = "writing", !.e.sio = TRUE, !.e.file = 0]

LEMMA PackedParts ==
    ASSUME NEW s \in States, NEW t, t = Packed(s)
    PROVE  /\ t \in States /\ t.c = s.c /\ Fixed(s.e, t.e) /\ t.e.release = s.e.release
           /\ t.e.defer = s.e.defer
           /\ t.e.lo = s.e.lo /\ t.e.queue = s.e.queue /\ t.e.file = s.e.file
           /\ t.e.swap = s.e.swap /\ t.e.sio = s.e.sio /\ t.e.hdr = HdrSz
<1> DEFINE x == [s.e EXCEPT !.hdr = HdrSz]
<1>1. s.e \in Entries
  BY StateParts
<1>2. x \in Entries
  BY <1>1 DEF Entries
<1>3. t = Put(s, x)
  BY DEF Packed, Put, States
<1>4. /\ Fixed(s.e, x) /\ x.release = s.e.release /\ x.defer = s.e.defer /\ x.lo = s.e.lo /\ x.queue = s.e.queue
      /\ x.file = s.e.file /\ x.swap = s.e.swap /\ x.sio = s.e.sio /\ x.hdr = HdrSz
  BY <1>1 DEF Entries, Fixed
<1> HIDE DEF x
<1>5. t \in States /\ t.e = x /\ t.c = s.c
  BY <1>2, <1>3, PutParts
<1> QED BY <1>4, <1>5

LEMMA OpenedParts ==
    ASSUME NEW s \in States, NEW t, t = Opened(s)
    PROVE  /\ t \in States /\ t.c = s.c /\ Fixed(s.e, t.e) /\ t.e.release = s.e.release
           /\ t.e.defer = s.e.defer
           /\ t.e.lo = s.e.lo /\ t.e.queue = s.e.queue /\ t.e.file = 0
           /\ t.e.swap = "writing" /\ t.e.sio = TRUE /\ t.e.hdr = HdrSz
<1> DEFINE u == Packed(s)
           x == [u.e EXCEPT !.swap = "writing", !.sio = TRUE, !.file = 0]
<1>0. /\ u \in States /\ u.c = s.c /\ Fixed(s.e, u.e) /\ u.e.release = s.e.release
      /\ u.e.defer = s.e.defer
      /\ u.e.lo = s.e.lo /\ u.e.queue = s.e.queue /\ u.e.hdr = HdrSz
  BY PackedParts
<1>a. t = [u EXCEPT !.e.swap = "writing", !.e.sio = TRUE, !.e.file = 0]
  BY DEF Opened
<1> HIDE DEF u
<1>1. u.e \in Entries
  BY <1>0, StateParts
<1>2. x \in Entries
  BY <1>1 DEF Entries
<1>3. t = Put(u, x)
  BY <1>0, <1>a DEF Put, States
<1>4. /\ Fixed(u.e, x) /\ x.release = u.e.release /\ x.defer = u.e.defer /\ x.lo = u.e.lo /\ x.queue = u.e.queue
      /\ x.file = 0 /\ x.swap = "writing" /\ x.sio = TRUE /\ x.hdr = u.e.hdr
  BY <1>1 DEF Entries, Fixed
<1> HIDE DEF x
<1>5. t \in States /\ t.e = x /\ t.c = u.c
  BY <1>0, <1>2, <1>3, PutParts
<1>6. Fixed(s.e, x)
  BY <1>0, <1>4 DEF Fixed
<1> QED BY <1>0, <1>4, <1>5, <1>6

\* storeSwapOutStart of an object that may be stored.
LEMMA StartParts ==
    ASSUME NEW s, Good(s), s.e.swap = "none", Cachable(s), NEW p, p = Packed(s), NEW w, w = Opened(s)
    PROVE  /\ Good(p) /\ Quiet(s, p) /\ p.e.sio = FALSE
           /\ p.e.release = FALSE /\ p.e.lo = 0 /\ p.e.queue = 0 /\ p.e.defer = s.e.defer
           /\ Good(w) /\ Quiet(s, w) /\ w.e.sio = TRUE
           /\ w.e.release = FALSE /\ w.e.lo = 0 /\ w.e.queue = 0 /\ w.e.defer = s.e.defer
<1>1. Alive(s.e) /\ s \in States /\ s.e \in Entries
  BY GoodAlive
<1>2. s.e.release = FALSE /\ s.e.neg = FALSE /\ s.e.clen <= MaxObject /\ s.e.hi <= MaxObject
  <2>1. s.e.release \in BOOLEAN /\ s.e.neg \in BOOLEAN
    BY <1>1, EntryFlags
  <2> QED BY <2>1, Zenon DEF Cachable
<1>3. s.e.queue = 0 /\ s.e.lo = 0
  BY <1>1, <1>2, Zenon DEF Alive, File
<1>s. s.e.sio = FALSE
  <2>1. s.e.sio # TRUE
    BY <1>1 DEF Alive, File
  <2> QED BY <1>1, <2>1, EntryFlags, Zenon
<1>4. /\ Good(p) /\ Quiet(s, p) /\ p.e.sio = FALSE
      /\ p.e.release = FALSE /\ p.e.lo = 0 /\ p.e.queue = 0 /\ p.e.defer = s.e.defer
  <2>1. /\ p \in States /\ p.c = s.c /\ Fixed(s.e, p.e) /\ p.e.release = s.e.release
        /\ p.e.defer = s.e.defer
        /\ p.e.lo = s.e.lo /\ p.e.queue = s.e.queue /\ p.e.file = s.e.file
        /\ p.e.swap = s.e.swap /\ p.e.sio = s.e.sio /\ p.e.hdr = HdrSz
    BY <1>1, PackedParts
  <2>2. Bounds(p.e) /\ Phase(p.e)
    BY <1>1, <2>1 DEF Alive, Bounds, Phase, Fixed
  <2>3. File(p.e) /\ Kept(p.e)
    BY <1>1, <2>1 DEF Alive, File, Kept, Fixed
  <2>4. Alive(p.e)
    BY <2>2, <2>3 DEF Alive
  <2>5. Good(p) /\ Quiet(s, p)
    BY <1>1, <1>3, <2>1, <2>4, ClientsKept DEF Quiet
  <2> QED BY <1>2, <1>3, <1>s, <2>1, <2>5
<1>5. /\ Good(w) /\ Quiet(s, w) /\ w.e.sio = TRUE
      /\ w.e.release = FALSE /\ w.e.lo = 0 /\ w.e.queue = 0 /\ w.e.defer = s.e.defer
  <2>1. /\ w \in States /\ w.c = s.c /\ Fixed(s.e, w.e) /\ w.e.release = s.e.release
        /\ w.e.defer = s.e.defer
        /\ w.e.lo = s.e.lo /\ w.e.queue = s.e.queue /\ w.e.file = 0
        /\ w.e.swap = "writing" /\ w.e.sio = TRUE /\ w.e.hdr = HdrSz
    BY <1>1, OpenedParts
  <2>2. Bounds(w.e) /\ Phase(w.e)
    BY <1>1, <1>3, <2>1 DEF Alive, Bounds, Phase, Fixed
  <2>3. File(w.e)
    BY <1>3, <2>1 DEF File
  <2>4. Kept(w.e)
    BY <1>1, <1>2, <2>1 DEF Alive, Kept, Fixed
  <2>5. Alive(w.e)
    BY <2>2, <2>3, <2>4 DEF Alive
  <2>6. Good(w) /\ Quiet(s, w)
    BY <1>1, <1>3, <2>1, <2>5, ClientsKept DEF Quiet
  <2> QED BY <1>2, <1>3, <2>1, <2>6
<1> QED BY <1>4, <1>5

LEMMA StartGood ==
    ASSUME NEW s, Good(s), s.e.swap = "none", Cachable(s), NEW io, NEW t, t = SwapOutStart(s, io)
    PROVE  Good(t) /\ Quiet(s, t)
<1> DEFINE p == Packed(s)
           w == Opened(s)
<1>4. Good(p) /\ Quiet(s, p)
  BY StartParts
<1>5. Good(w) /\ Quiet(s, w) /\ w.e.sio = TRUE
  BY StartParts
<1>6. t = CASE io.create = "fail" -> p
            [] io.create = "error" -> SwapOutFileClosed(w, TRUE)
            [] OTHER -> w
  BY DEF SwapOutStart, Packed, Opened
<1> HIDE DEF p, w
<1>7. CASE io.create = "error"
  <2> DEFINE q == w.e.queue
             f == w.e.file
  <2>1. w \in States /\ w.e \in Entries /\ Alive(w.e)
    BY <1>5, GoodAlive
  <2>2. q \in Nat /\ f \in Nat /\ f <= q /\ q <= w.e.hi
    BY <2>1, EntryTypes DEF Alive, Bounds
  <2>3. Wrote(w, q, f) = w
    BY <2>1 DEF Wrote, States, Entries
  <2>4. t = SwapOutFileClosed(Wrote(w, q, f), TRUE) /\ w.e.file <= f
    BY <1>6, <1>7, <2>2, <2>3
  <2> HIDE DEF q, f
  <2>5. Good(t) /\ Quiet(w, t)
    BY <1>5, <2>2, <2>4, ClosedError
  <2> QED BY <1>5, <2>5, QuietTrans
<1>8. CASE io.create = "fail"
  BY <1>4, <1>6, <1>8
<1>9. CASE io.create # "fail" /\ io.create # "error"
  BY <1>5, <1>6, <1>9
<1> QED BY <1>7, <1>8, <1>9

LEMMA BeginGood ==
    ASSUME NEW s, Good(s), s.e.swap = "none", NEW io \in Outcomes, NEW t, t = SwapOutBegin(s, io)
    PROVE  Good(t) /\ Quiet(s, t)
<1>1. CASE Cachable(s)
  <2> DEFINE u == SwapOutStart(s, io)
  <2>1. t = WriteOn(u, io)
    BY <1>1 DEF SwapOutBegin
  <2>2. Good(u) /\ Quiet(s, u)
    BY <1>1, StartGood
  <2> HIDE DEF u
  <2>3. Good(t) /\ Quiet(u, t)
    BY <2>1, <2>2, WriteOnGood
  <2> QED BY <2>2, <2>3, QuietTrans
<1>2. CASE ~Cachable(s)
  <2> DEFINE u == CheckCachable(s)
  <2>1. t = MaintainMemObject(u)
    BY <1>2 DEF SwapOutBegin
  <2>2. Good(u) /\ Quiet(s, u)
    BY GoodAlive, CheckCachableGood
  <2> HIDE DEF u
  <2>3. Good(t) /\ Quiet(u, t)
    BY <2>1, <2>2, MaintainGood
  <2> QED BY <2>2, <2>3, QuietTrans
<1> QED BY <1>1, <1>2

\* Swapping out starts with all pages in memory.
LEMMA DueGood ==
    ASSUME NEW s, Good(s), NEW able \in BOOLEAN, NEW io \in Outcomes,
           able = TRUE => s.e.inmem = TRUE \/ s.e.release = FALSE,
           NEW t, t = SwapOutDue(s, able, io)
    PROVE  Good(t) /\ Quiet(s, t)
<1> DEFINE due == s.e.hi - s.e.queue
           stop == ~able \/ (s.e.st = "pending" /\ due < Page)
           full == able /\ s.e.st = "ok" /\ due = 0
           u == Check(s, "assert", s.e.lo = 0 /\ ~s.e.sio)
<1>1. t = CASE stop -> s
            [] full -> SwapOutFileClose(s)
            [] OTHER -> IF s.e.swap = "none" THEN SwapOutBegin(u, io) ELSE WriteOn(s, io)
  BY DEF SwapOutDue
<1>2. ~(stop /\ full)
  BY Zenon
<1>3. s \in States /\ s.e \in Entries /\ s.e.hi \in Nat /\ s.e.queue \in Nat
  BY StateParts, EntryTypes DEF Good
<1>4. full => Closable(s.e)
  <2> SUFFICES ASSUME full PROVE Closable(s.e)
    OBVIOUS
  <2>1. s.e.st = "ok" /\ due = 0
    OBVIOUS
  <2> QED BY <1>3, <2>1 DEF Closable
<1>5. ~stop /\ s.e.swap = "none" => u = s
  <2> SUFFICES ASSUME ~stop, s.e.swap = "none" PROVE u = s
    OBVIOUS
  <2>1. able = TRUE
    BY Zenon
  <2>2. Alive(s.e)
    BY GoodAlive
  <2>3. s.e.lo = 0
    <3>1. CASE s.e.inmem = TRUE
      BY <2>2, <3>1 DEF Alive, Kept
    <3>2. CASE s.e.release = FALSE
      BY <2>2, <3>2, Zenon DEF Alive, File
    <3> QED BY <2>1, <3>1, <3>2
  <2>4. ~s.e.sio
    <3>1. s.e.sio # TRUE
      BY <2>2 DEF Alive, File
    <3> QED BY <1>3, <3>1, EntryFlags, Zenon
  <2> QED BY <2>3, <2>4, CheckTrue
<1> HIDE DEF stop, full, u
<1>6. CASE stop
  <2>1. t = s
    BY <1>1, <1>2, <1>6
  <2> QED BY <2>1, QuietSelf
<1>7. CASE full
  <2>1. t = SwapOutFileClose(s)
    BY <1>1, <1>2, <1>7
  <2> QED BY <1>4, <1>7, <2>1, FileCloseGood
<1>8. CASE ~stop /\ ~full /\ s.e.swap = "none"
  <2>1. t = SwapOutBegin(s, io)
    BY <1>1, <1>5, <1>8
  <2> QED BY <1>8, <2>1, BeginGood
<1>9. CASE ~stop /\ ~full /\ s.e.swap # "none"
  <2>1. t = WriteOn(s, io)
    BY <1>1, <1>9
  <2> QED BY <2>1, WriteOnGood
<1> QED BY <1>6, <1>7, <1>8, <1>9

\* storeSwapOut
LEMMA SwapOutGood ==
    ASSUME NEW s, Good(s), NEW io \in Outcomes, NEW t, t = SwapOut(s, io)
    PROVE  Good(t) /\ Quiet(s, t)
<1>1. s \in States /\ s.e \in Entries
  BY StateParts DEF Good
<1>2. s.e.aborted \in BOOLEAN /\ s.e.inmem \in BOOLEAN /\ s.e.release \in BOOLEAN
  BY <1>1, EntryFlags
<1>3. CASE s.e.aborted = TRUE
  <2>1. t = SwapOutFileClose(s)
    BY <1>3, Zenon DEF SwapOut
  <2>2. s.e.release = TRUE
    <3>1. ~Purged(s.e)
      BY <1>3, Zenon DEF Purged
    <3> QED BY <1>3, <3>1 DEF Good, GoodEntry, Alive, Phase
  <2> QED BY <2>1, <2>2, FileCloseGood DEF Closable
<1>4. CASE s.e.aborted = FALSE
  <2> DEFINE u == MaintainMemObject(s)
             able == s.e.inmem \/ SwapOutAble(s)
  <2>1. t = SwapOutDue(u, able, io)
    BY <1>4, Zenon DEF SwapOut
  <2>2. Good(u) /\ Quiet(s, u) /\ (s.e.inmem = TRUE => u = s) /\ (SwapOutAble(s) => Trimmed(s, u))
    BY MaintainGood
  <2> HIDE DEF u
  <2>3. able => u.e.inmem = TRUE \/ u.e.release = FALSE
    <3>1. CASE s.e.inmem = TRUE
      BY <2>2, <3>1
    <3>2. CASE SwapOutAble(s)
      <4>1. s.e.release = FALSE /\ u.e.release = s.e.release
        BY <2>2, <3>2, AbleFacts DEF Trimmed
      <4> QED BY <4>1
    <3> QED BY <1>2, <3>1, <3>2, Zenon
  <2>4. able \in BOOLEAN
    OBVIOUS
  <2>5. able = TRUE => u.e.inmem = TRUE \/ u.e.release = FALSE
    BY <2>3, Zenon
  <2> HIDE DEF able
  <2>6. Good(t) /\ Quiet(u, t)
    BY <2>1, <2>2, <2>4, <2>5, DueGood
  <2> QED BY <2>2, <2>6, QuietTrans
<1> QED BY <1>2, <1>3, <1>4
-----------------------------------------------------------------------------
(***************************************************************************)
(* Reading.                                                                *)
(***************************************************************************)
\* A client is changed.
Turn(s, k, y) == [s EXCEPT !.c[k] = y]

LEMMA TurnParts ==
    ASSUME NEW s \in States, NEW k \in Clients, NEW y \in Readers, NEW t, t = Turn(s, k, y)
    PROVE  t \in States /\ t.e = s.e /\ t.c[k] = y /\ \A j \in Clients : j # k => t.c[j] = s.c[j]
BY DEF States, Turn

LEMMA TurnGood ==
    ASSUME NEW s, Good(s), NEW k \in Clients, NEW y \in Readers, GoodClient(s.e, y),
           NEW t, t = Turn(s, k, y)
    PROVE  Good(t) /\ t.e = s.e /\ t.c[k] = y /\ \A j \in Clients : j # k => t.c[j] = s.c[j]
<1>1. s \in States
  BY DEF Good
<1>2. t \in States /\ t.e = s.e /\ t.c[k] = y /\ \A j \in Clients : j # k => t.c[j] = s.c[j]
  BY <1>1, TurnParts
<1> QED BY <1>2 DEF Good

\* What a call back leaves alone of the object.
Lasting(x, z) ==
    /\ z.st = x.st /\ z.srv = x.srv /\ z.aborted = x.aborted /\ z.neg = x.neg
    /\ z.inmem = x.inmem /\ z.clen = x.clen /\ z.hi = x.hi
    /\ x.release = TRUE => z.release = TRUE

\* Who waits has everything there is, and more may come.
Settled(x, y) == y.on = TRUE /\ y.cb = TRUE => x.st = "pending" /\ y.got = x.hi

\* Client k has been called or may wait.
Served(s, t, k) ==
    /\ Lasting(s.e, t.e)
    /\ \A j \in Clients : j # k => t.c[j] = s.c[j]
    /\ t.c[k].on = s.c[k].on /\ Settled(t.e, t.c[k])

\* The client's part of storeClientCallback.
Answer(y, n) ==
    [y EXCEPT !.cb = FALSE,
              !.got = IF n > 0 THEN y.pos + n ELSE @,
              !.end = IF n = 0 THEN "eof" ELSE IF n < 0 THEN "error" ELSE @]

Answered(y, n, r) ==
    /\ r \in Readers /\ r.on = y.on /\ r.type = y.type /\ r.pos = y.pos /\ r.cb = FALSE
    /\ n > 0 => r.got = y.pos + n /\ r.end = y.end
    /\ n = 0 => r.got = y.got /\ r.end = "eof"
    /\ n < 0 => r.got = y.got /\ r.end = "error"

LEMMA AnswerParts ==
    ASSUME NEW y \in Readers, NEW n \in Int, NEW r, r = Answer(y, n)
    PROVE  Answered(y, n, r)
<1> DEFINE g == IF n > 0 THEN y.pos + n ELSE y.got
           d == IF n = 0 THEN "eof" ELSE IF n < 0 THEN "error" ELSE y.end
<1>1. y.pos \in Nat /\ y.got \in Nat /\ y.end \in {"no", "eof", "error"}
  BY DEF Readers
<1>2. g \in Nat /\ d \in {"no", "eof", "error"}
  BY <1>1
<1>3. r = [y EXCEPT !.cb = FALSE, !.got = g, !.end = d]
  BY DEF Answer, Readers
<1> HIDE DEF g, d
<1>4. r \in Readers /\ r.on = y.on /\ r.type = y.type /\ r.pos = y.pos /\ r.cb = FALSE
      /\ r.got = g /\ r.end = d
  BY <1>2, <1>3 DEF Readers
<1> QED BY <1>4 DEF g, d, Answered

LEMMA CallbackTurn ==
    ASSUME NEW s \in States, NEW k \in Clients, NEW n \in Int
    PROVE  Callback(s, k, n) = Turn(s, k, Answer(s.c[k], n))
<1> DEFINE g == IF n > 0 THEN s.c[k].pos + n ELSE s.c[k].got
           d == IF n = 0 THEN "eof" ELSE IF n < 0 THEN "error" ELSE s.c[k].end
           y == s.c[k]
<1>0. s.c \in [Clients -> Readers] /\ y \in Readers
  BY StateParts
<1>1. Answer(y, n) = [y EXCEPT !.cb = FALSE, !.got = g, !.end = d]
  BY <1>0 DEF Answer, Readers
<1>2. Callback(s, k, n) = [s EXCEPT !.c[k].cb = FALSE, !.c[k].got = g, !.c[k].end = d]
  BY <1>0 DEF Callback, Readers, States
<1> HIDE DEF g, d
<1>3. [s EXCEPT !.c[k].cb = FALSE, !.c[k].got = g, !.c[k].end = d]
        = [s EXCEPT !.c[k] = [y EXCEPT !.cb = FALSE, !.got = g, !.end = d]]
  BY <1>0 DEF Readers, States
<1> QED BY <1>1, <1>2, <1>3 DEF Turn

\* storeClientCallback with bytes that are there, at the end, or on an error.
LEMMA CallbackGood ==
    ASSUME NEW s, Good(s), NEW k \in Clients, s.c[k].on = TRUE, s.c[k].cb = TRUE, NEW n \in Int,
           n > 0 => s.c[k].pos + n <= Size(s.e) /\ (Purged(s.e) => s.e.osz # -1),
           n = 0 => s.e.st = "ok" /\ s.c[k].got = s.e.osz,
           NEW t, t = Callback(s, k, n)
    PROVE  Good(t) /\ t.e = s.e /\ Served(s, t, k)
<1> DEFINE y == s.c[k]
           r == Answer(y, n)
<1>1. s \in States /\ y \in Readers
  BY StateParts DEF Good
<1>2. t = Turn(s, k, r)
  BY <1>1, CallbackTurn
<1>3. GoodClient(s.e, y) /\ y.on = TRUE /\ y.cb = TRUE
  BY DEF Good
<1>4. n > 0 => y.pos + n <= Size(s.e) /\ (Purged(s.e) => s.e.osz # -1)
  OBVIOUS
<1>5. n = 0 => s.e.st = "ok" /\ y.got = s.e.osz
  OBVIOUS
<1>a. t.c[k].on = s.c[k].on <=> t.c[k].on = y.on
  OBVIOUS
<1>b. r = Answer(y, n)
  OBVIOUS
<1> HIDE DEF y, r
<1>c. Answered(y, n, r)
  BY <1>1, <1>b, AnswerParts
<1>6. /\ r \in Readers /\ r.on = y.on /\ r.type = y.type /\ r.pos = y.pos /\ r.cb = FALSE
      /\ (n > 0 => r.got = y.pos + n /\ r.end = y.end)
      /\ (n = 0 => r.got = y.got /\ r.end = "eof")
      /\ (n < 0 => r.got = y.got /\ r.end = "error")
  BY <1>c DEF Answered
<1>7. y.pos \in Nat /\ y.got \in Nat
  BY <1>1 DEF Readers
<1>8. /\ s.e.st # "none" /\ y.got <= Size(s.e) /\ y.got = y.pos /\ y.end = "no"
      /\ (Purged(s.e) => y.type = "disk") /\ (Purged(s.e) /\ s.e.osz = -1 => y.got = 0)
  BY <1>3 DEF GoodClient, Reads
<1>9. Reads(s.e, r)
  <2>1. r.got <= Size(s.e)
    BY <1>4, <1>6, <1>8
  <2>2. r.cb = TRUE => r.got = r.pos /\ r.end = "no"
    BY <1>6, Zenon
  <2>3. r.end = "eof" => s.e.st = "ok" /\ r.got = s.e.osz
    BY <1>5, <1>6, <1>8
  <2>4. Purged(s.e) /\ r.end = "no" => r.type = "disk"
    BY <1>6, <1>8
  <2>5. Purged(s.e) /\ s.e.osz = -1 => r.got = 0 /\ r.end # "eof"
    BY <1>4, <1>5, <1>6, <1>7, <1>8
  <2> QED BY <1>8, <2>1, <2>2, <2>3, <2>4, <2>5 DEF Reads
<1>10. Source(s.e, r)
  BY <1>3, <1>6, <1>8 DEF GoodClient, Source
<1>11. r.pos <= r.got
  BY <1>6, <1>7, <1>8
<1>12. Good(t) /\ t.e = s.e /\ t.c[k] = r /\ \A j \in Clients : j # k => t.c[j] = s.c[j]
  <2>1. GoodClient(s.e, r)
    BY <1>9, <1>10, <1>11 DEF GoodClient
  <2> QED BY <1>2, <1>6, <2>1, TurnGood
<1>13. Settled(t.e, r)
  BY <1>6, Zenon DEF Settled
<1>14. t.c[k].on = y.on
  BY <1>6, <1>12
<1> QED BY <1>12, <1>13, <1>14, <1>a DEF Served, Lasting
\* storeClientFileRead of bytes the file holds.
LEMMA ReadBodyGood ==
    ASSUME NEW s, Good(s), NEW k \in Clients, s.c[k].on = TRUE, s.c[k].cb = TRUE,
           s.c[k].pos < s.e.file, Purged(s.e) => s.e.osz # -1, NEW t, t = ReadBody(s, k)
    PROVE  Good(t) /\ Served(s, t, k)
<1> DEFINE pos == s.c[k].pos
           n == Least(Buf, s.e.file - pos)
           u == Check(s, "assert", s.e.swap = "writing" => s.e.queue > pos)
<1>1. s \in States /\ s.e \in Entries /\ pos \in Nat /\ s.e.file \in Nat /\ s.e.queue \in Nat
      /\ s.e.hi \in Nat
  <2>1. s \in States
    BY DEF Good
  <2>2. s.c[k].pos \in 0..MaxLen
    BY ClientPlace
  <2>3. pos \in Nat
    BY <2>2
  <2> QED BY <2>1, <2>3, StateParts, EntryTypes
<1>2. u = s
  <2>1. s.e.swap = "writing" => s.e.queue > pos
    <3> SUFFICES ASSUME s.e.swap = "writing" PROVE s.e.queue > pos
      OBVIOUS
    <3>1. s.e.file = s.e.queue
      BY GoodAlive DEF Alive, File
    <3> QED BY <1>1, <3>1
  <2> QED BY <2>1, CheckTrue
<1>3. n \in Nat /\ n > 0 /\ n <= s.e.file - pos
  BY <1>1, SizesAssumption DEF Least
<1>4. s.e.file <= Size(s.e)
  BY <1>1, AliveNotPurged DEF Good, GoodEntry, Alive, Bounds, Purged, Size
<1>5. t = IF n > 0 THEN Callback(u, k, n) ELSE Callback(Check(u, "past_end", FALSE), k, -1)
  BY DEF ReadBody
<1>6. t = Callback(s, k, n)
  <2> HIDE DEF u, n
  <2> QED BY <1>2, <1>3, <1>5
<1>7. pos + n <= Size(s.e)
  <2>1. Size(s.e) \in Nat
    BY <1>1 DEF Size
  <2> HIDE DEF n, pos
  <2> QED BY <1>1, <1>3, <1>4, <2>1
<1> HIDE DEF n, u
<1>8. n > 0 => s.c[k].pos + n <= Size(s.e) /\ (Purged(s.e) => s.e.osz # -1)
  BY <1>7
<1>9. n = 0 => s.e.st = "ok" /\ s.c[k].got = s.e.osz
  BY <1>3
<1>10. n \in Int
  BY <1>3
<1> HIDE DEF pos
<1> QED BY <1>6, <1>8, <1>9, <1>10, CallbackGood

\* The length of the object, found in the meta data.
Measured(s) == [s EXCEPT !.e.hdr = HdrSz, !.e.osz = s.e.fsz - HdrSz]

LEMMA MeasuredGood ==
    ASSUME NEW s, Good(s), Purged(s.e), s.e.osz = -1, NEW t, t = Measured(s)
    PROVE  /\ Good(t) /\ Purged(t.e) /\ t.c = s.c /\ t.e.osz = s.e.file /\ t.e.file = s.e.file
           /\ Lasting(s.e, t.e)
<1> DEFINE n == s.e.fsz - HdrSz
           x == [s.e EXCEPT !.hdr = HdrSz, !.osz = n]
<1>1. s \in States /\ s.e \in Entries
  BY StateParts DEF Good
<1>2. n = s.e.file /\ n \in Nat
  BY <1>1, EntryTypes, SizesAssumption DEF Purged
<1>3. t = Put(s, x)
  <2>1. t = [s EXCEPT !.e.hdr = HdrSz, !.e.osz = n]
    BY DEF Measured
  <2> HIDE DEF n
  <2> QED BY <1>1, <2>1 DEF Put, States
<1> HIDE DEF n
<1>4. x \in Entries
  BY <1>1, <1>2 DEF Entries
<1>5. /\ Fixed([s.e EXCEPT !.osz = n], x) /\ x.release = s.e.release /\ x.lo = s.e.lo
      /\ x.queue = s.e.queue /\ x.file = s.e.file /\ x.swap = s.e.swap /\ x.sio = s.e.sio
      /\ x.hdr = HdrSz /\ x.fsz = s.e.fsz /\ x.osz = n /\ x.hi = s.e.hi /\ x.st = s.e.st
      /\ x.clen = s.e.clen /\ x.inmem = s.e.inmem /\ x.srv = s.e.srv /\ x.aborted = s.e.aborted
      /\ x.neg = s.e.neg
  BY <1>1 DEF Entries, Fixed
<1> HIDE DEF x
<1>6. t \in States /\ t.e = x /\ t.c = s.c
  BY <1>1, <1>3, <1>4, PutParts
<1>7. Purged(x)
  BY <1>2, <1>5 DEF Purged
<1>8. ASSUME NEW k \in Clients PROVE GoodClient(t.e, t.c[k])
  <2> DEFINE y == s.c[k]
  <2>1. GoodClient(s.e, y) /\ t.c[k] = y
    BY <1>6 DEF Good
  <2> HIDE DEF y
  <2>2. Size(x) = Size(s.e)
    BY <1>5 DEF Size
  <2>3. Reads(s.e, y) => Reads(x, y)
    BY <1>1, <1>2, <1>5, <1>7, <2>2 DEF Reads
  <2>4. Source(s.e, y) => Source(x, y)
    BY <1>5 DEF Source
  <2> QED BY <1>6, <2>1, <2>3, <2>4 DEF GoodClient
<1>9. Lasting(s.e, t.e)
  BY <1>5, <1>6 DEF Lasting
<1> QED BY <1>2, <1>5, <1>6, <1>7, <1>8, <1>9 DEF Good, GoodEntry

\* The first read of a file: the bytes that came along are the first ones.
LEMMA ReadHeaderGood ==
    ASSUME NEW s, Good(s), NEW k \in Clients, s.c[k].on = TRUE, s.c[k].cb = TRUE,
           Purged(s.e), s.e.osz = -1, NEW t, t = ReadHeader(s, k)
    PROVE  Good(t) /\ Served(s, t, k)
<1> DEFINE body == Least(Buf, HdrSz + s.e.file) - HdrSz
           u == Measured(s)
           v == Check(u, "misplaced", s.c[k].pos = 0)
           n == Least(Buf, body)
<1>1. s \in States /\ s.e \in Entries /\ s.e.file \in Nat
  BY StateParts, EntryTypes DEF Good
<1>2. s.c[k].pos = 0
  <2>1. s.c[k].got = 0
    BY DEF Good, GoodClient, Reads
  <2>2. s.c[k].pos \in 0..MaxLen /\ s.c[k].pos <= s.c[k].got
    BY ClientPlace
  <2> QED BY <2>1, <2>2
<1>3. s.e.file > 0
  BY <1>1 DEF Purged
<1>4. body \in Nat /\ body > 0 /\ body <= s.e.file
  BY <1>1, <1>3, SizesAssumption DEF Least
<1>5. v = u
  BY <1>2, CheckTrue
<1>6. t = IF s.c[k].pos < body THEN Callback(v, k, n) ELSE ReadBody(u, k)
  BY DEF ReadHeader, Measured
<1>7. t = Callback(u, k, n)
  <2> HIDE DEF u, v, n, body
  <2> QED BY <1>2, <1>4, <1>5, <1>6
<1>8. /\ Good(u) /\ Purged(u.e) /\ u.c = s.c /\ u.e.osz = s.e.file /\ u.e.file = s.e.file
      /\ Lasting(s.e, u.e)
  BY MeasuredGood
<1> HIDE DEF u, v
<1>9. n \in Nat /\ n > 0 /\ n <= s.e.file
  <2> HIDE DEF body
  <2> QED BY <1>1, <1>4, SizesAssumption DEF Least
<1> HIDE DEF n, body
<1>10. u.c[k].pos + n <= Size(u.e) /\ u.e.osz # -1
  BY <1>1, <1>2, <1>8, <1>9 DEF Size, Purged
<1>11. u.c[k].on = TRUE /\ u.c[k].cb = TRUE
  BY <1>8
<1>12. Good(t) /\ Served(u, t, k)
  <2>1. n > 0 => u.c[k].pos + n <= Size(u.e) /\ (Purged(u.e) => u.e.osz # -1)
    BY <1>10
  <2>2. n = 0 => u.e.st = "ok" /\ u.c[k].got = u.e.osz
    BY <1>9
  <2>3. n \in Int
    BY <1>9
  <2> QED BY <1>7, <1>8, <1>11, <2>1, <2>2, <2>3, CallbackGood
<1>13. Served(s, t, k)
  BY <1>8, <1>12 DEF Served, Lasting
<1> QED BY <1>12, <1>13
\* The client but for its file.
Alike(y, r) ==
    /\ r.on = y.on /\ r.type = y.type /\ r.pos = y.pos /\ r.got = y.got /\ r.cb = y.cb
    /\ r.end = y.end

\* The client opens the swap file.
SwapIn(s, k) == [s EXCEPT !.c[k].swapin = TRUE]

LEMMA SwapinGood ==
    ASSUME NEW s, Good(s), NEW k \in Clients, NEW t, t = SwapIn(s, k)
    PROVE  /\ Good(t) /\ t.e = s.e /\ Alike(s.c[k], t.c[k])
           /\ \A j \in Clients : j # k => t.c[j] = s.c[j]
<1> DEFINE y == s.c[k]
           r == [y EXCEPT !.swapin = TRUE]
<1>1. s \in States /\ y \in Readers /\ s.c \in [Clients -> Readers]
  BY StateParts DEF Good
<1>2. t = Turn(s, k, r)
  BY <1>1 DEF Turn, States, SwapIn
<1>3. r \in Readers /\ Alike(y, r)
  BY <1>1 DEF Readers, Alike
<1>4. GoodClient(s.e, y)
  BY DEF Good
<1>a. Alike(s.c[k], r)
  BY <1>3
<1> HIDE DEF y, r
<1>5. GoodClient(s.e, r)
  BY <1>3, <1>4 DEF GoodClient, Alike, Reads, Source
<1>6. Good(t) /\ t.e = s.e /\ t.c[k] = r /\ \A j \in Clients : j # k => t.c[j] = s.c[j]
  BY <1>2, <1>3, <1>5, TurnGood
<1> QED BY <1>6, <1>a

LEMMA DeferGood ==
    ASSUME NEW s, Good(s), NEW b \in BOOLEAN, Alive(s.e), NEW t, t = [s EXCEPT !.e.defer = b]
    PROVE  Good(t) /\ Quiet(s, t)
<1> DEFINE x == [s.e EXCEPT !.defer = b]
<1>1. s \in States /\ s.e \in Entries
  BY StateParts DEF Good
<1>2. x \in Entries
  BY <1>1 DEF Entries
<1>3. t = Put(s, x)
  BY <1>1 DEF Put, States
<1>4. Fixed(s.e, x) /\ OnDisk(s.e, x) /\ x.release = s.e.release /\ x.lo = s.e.lo
  BY <1>1 DEF Entries, Fixed, OnDisk
<1> HIDE DEF x
<1>5. t \in States /\ t.e = x /\ t.c = s.c
  BY <1>1, <1>2, <1>3, PutParts, ZenonT(60)
<1>6. Bounds(x) /\ Phase(x)
  BY <1>4 DEF Alive, Bounds, Phase, Fixed, OnDisk
<1>7. File(x) /\ Kept(x)
  BY <1>4 DEF Alive, File, Kept, Fixed, OnDisk
<1>8. s.e.file <= x.file
  BY <1>1, <1>4, EntryTypes DEF OnDisk
<1>9. Good(t)
  BY <1>4, <1>5, <1>6, <1>7, <1>8, ClientsKept DEF Alive
<1> QED BY <1>4, <1>5, <1>9 DEF Quiet

LEMMA QuietLasting ==
    ASSUME NEW s, NEW t, Quiet(s, t)
    PROVE  Lasting(s.e, t.e)
BY DEF Quiet, Fixed, Lasting

LEMMA LastingTrans ==
    ASSUME NEW x, NEW y, NEW z, Lasting(x, y), Lasting(y, z)
    PROVE  Lasting(x, z)
BY DEF Lasting

\* A client that is served after a preparation.
LEMMA ServedAfter ==
    ASSUME NEW s, NEW u, NEW t, NEW k \in Clients, Lasting(s.e, u.e), u.c[k].on = s.c[k].on,
           \A j \in Clients : j # k => u.c[j] = s.c[j], Served(u, t, k)
    PROVE  Served(s, t, k)
BY LastingTrans DEF Served

\* storeClientCopy3
LEMMA ClientCopyGood ==
    ASSUME NEW s, Good(s), NEW k \in Clients, s.c[k].on = TRUE, s.c[k].cb = TRUE, NEW io,
           NEW t, t = ClientCopy(s, k, io)
    PROVE  Good(t) /\ Served(s, t, k)
<1> DEFINE y == s.c[k]
           pos == s.c[k].pos
           disk == s.c[k].type = "disk"
           opened == s.c[k].swapin \/ (io.open /\ s.e.swap # "none")
           s1 == IF disk THEN [s EXCEPT !.c[k].swapin = TRUE] ELSE s
           s2 == IF s1.e.release THEN MaintainMemObject(s1) ELSE s1
           b == s.e.defer /\ Lowest(s) # s.e.hi
           n == Least(Buf, s.e.hi - pos)
<1>1. t = IF NoMoreToSend(s, k) THEN Callback(s, k, 0)
          ELSE IF s.e.st = "pending" /\ pos >= s.e.hi THEN [s EXCEPT !.e.defer = b]
          ELSE IF disk /\ ~opened THEN Callback(s, k, -1)
          ELSE IF pos >= s.e.lo /\ pos < s.e.hi THEN Callback(s2, k, n)
          ELSE FileRead(Check(s1, "assert", disk), k)
  BY DEF ClientCopy
<1>2. s \in States /\ s.e \in Entries /\ y \in Readers
  BY StateParts DEF Good
<1>3. /\ s.e.lo \in Nat /\ s.e.hi \in Nat /\ s.e.file \in Nat /\ s.e.osz \in Int
      /\ s.e.st \in {"none", "pending", "ok"} /\ y.pos \in Nat /\ y.got \in Nat
  <2>1. y.pos \in Nat /\ y.got \in Nat
    BY <1>2 DEF Readers
  <2> HIDE DEF y
  <2> QED BY <1>2, <2>1, EntryTypes
<1>4. /\ s.e.st # "none" /\ y.got <= Size(s.e) /\ y.got = y.pos /\ y.end = "no"
      /\ (Purged(s.e) => y.type = "disk") /\ Source(s.e, y)
  BY DEF Good, GoodClient, Reads
<1>5. /\ Good(s1) /\ s1.e = s.e /\ s1.c[k].pos = pos /\ s1.c[k].on = TRUE /\ s1.c[k].cb = TRUE
      /\ \A j \in Clients : j # k => s1.c[j] = s.c[j]
  <2>1. CASE disk
    <3> DEFINE w == SwapIn(s, k)
    <3>1. s1 = w
      BY <2>1 DEF SwapIn
    <3>2. Good(w) /\ w.e = s.e /\ Alike(s.c[k], w.c[k]) /\ \A j \in Clients : j # k => w.c[j] = s.c[j]
      BY SwapinGood
    <3> HIDE DEF w
    <3> QED BY <3>1, <3>2 DEF Alike
  <2>2. CASE ~disk
    <3>1. s1 = s
      BY <2>2
    <3> QED BY <3>1
  <2> QED BY <2>1, <2>2
<1>6. Good(s2) /\ Quiet(s1, s2)
  <2> HIDE DEF s1
  <2>1. s2 = s1 \/ s2 = MaintainMemObject(s1)
    BY Zenon
  <2> HIDE DEF s2
  <2> QED BY <1>5, <2>1, MaintainGood, QuietSelf
<1>7. Alive(s.e) => Size(s.e) = s.e.hi
  BY <1>2, AliveNotPurged
<1> HIDE DEF opened, s1, s2
<1>8. CASE NoMoreToSend(s, k)
  <2>1. t = Callback(s, k, 0)
    BY <1>1, <1>8
  <2>2. s.e.st = "ok" /\ s.e.osz >= 0 /\ y.pos >= s.e.osz
    BY <1>8 DEF NoMoreToSend
  <2>3. s.e.osz = Size(s.e)
    BY <1>3, <1>7, <2>2 DEF Good, GoodEntry, Alive, Phase, Purged, Size
  <2>4. y.got = s.e.osz
    <3> HIDE DEF y
    <3> QED BY <1>3, <1>4, <2>2, <2>3
  <2>5. 0 = 0 => s.e.st = "ok" /\ s.c[k].got = s.e.osz
    BY <2>2, <2>4
  <2>6. 0 > 0 => s.c[k].pos + 0 <= Size(s.e) /\ (Purged(s.e) => s.e.osz # -1)
    OBVIOUS
  <2>7. 0 \in Int
    OBVIOUS
  <2> QED BY <2>1, <2>5, <2>6, <2>7, CallbackGood
<1>9. CASE ~NoMoreToSend(s, k) /\ s.e.st = "pending" /\ pos >= s.e.hi
  <2>1. t = [s EXCEPT !.e.defer = b]
    BY <1>1, <1>9
  <2>2. Alive(s.e)
    BY <1>9, GoodAlive
  <2>3. b \in BOOLEAN
    OBVIOUS
  <2> HIDE DEF b
  <2>4. Good(t) /\ Quiet(s, t)
    BY <2>1, <2>2, <2>3, DeferGood
  <2>5. y.got = s.e.hi
    <3>1. y.got >= s.e.hi
      BY <1>4, <1>9
    <3> HIDE DEF y
    <3> QED BY <1>3, <1>4, <1>7, <2>2, <3>1
  <2>6. t.c = s.c /\ t.e.st = "pending" /\ t.e.hi = s.e.hi
    BY <1>9, <2>4 DEF Quiet, Fixed
  <2>7. Settled(t.e, t.c[k])
    BY <2>5, <2>6 DEF Settled
  <2> QED BY <2>4, <2>6, <2>7, QuietLasting DEF Served
<1>10. CASE ~NoMoreToSend(s, k) /\ ~(s.e.st = "pending" /\ pos >= s.e.hi) /\ disk /\ ~opened
  <2>1. t = Callback(s, k, -1)
    BY <1>1, <1>10
  <2>2. -1 = 0 => s.e.st = "ok" /\ s.c[k].got = s.e.osz
    OBVIOUS
  <2>3. -1 > 0 => s.c[k].pos + -1 <= Size(s.e) /\ (Purged(s.e) => s.e.osz # -1)
    OBVIOUS
  <2>4. -1 \in Int
    OBVIOUS
  <2> QED BY <2>1, <2>2, <2>3, <2>4, CallbackGood
<1>11. CASE /\ ~NoMoreToSend(s, k) /\ ~(s.e.st = "pending" /\ pos >= s.e.hi) /\ ~(disk /\ ~opened)
            /\ pos >= s.e.lo /\ pos < s.e.hi
  <2>1. t = Callback(s2, k, n)
    BY <1>1, <1>11
  <2>2. n \in Nat /\ n > 0 /\ pos + n <= s.e.hi
    <3>0. pos \in Nat /\ pos < s.e.hi
      BY <1>3, <1>11
    <3> HIDE DEF pos
    <3> QED BY <1>3, <3>0, SizesAssumption DEF Least
  <2>3. s2.c = s1.c /\ s2.e.hi = s.e.hi
    BY <1>5, <1>6 DEF Quiet, Fixed
  <2>4. Alive(s2.e) /\ s2.e \in Entries
    <3>1. s2.e.hi # 0
      BY <1>3, <1>11, <2>3
    <3> QED BY <1>6, <3>1, GoodAlive
  <2>5. ~Purged(s2.e) /\ Size(s2.e) = s.e.hi
    BY <2>3, <2>4, AliveNotPurged
  <2> HIDE DEF n
  <2>6. n > 0 => s2.c[k].pos + n <= Size(s2.e) /\ (Purged(s2.e) => s2.e.osz # -1)
    BY <1>5, <2>2, <2>3, <2>5
  <2>7. n = 0 => s2.e.st = "ok" /\ s2.c[k].got = s2.e.osz
    BY <2>2
  <2>8. n \in Int /\ s2.c[k].on = TRUE /\ s2.c[k].cb = TRUE
    BY <1>5, <2>2, <2>3
  <2>9. Good(t) /\ Served(s2, t, k)
    BY <1>6, <2>1, <2>6, <2>7, <2>8, CallbackGood
  <2>10. Lasting(s.e, s2.e)
    BY <1>5, <1>6, QuietLasting
  <2>11. s2.c[k].on = s.c[k].on /\ \A j \in Clients : j # k => s2.c[j] = s.c[j]
    BY <1>5, <2>3, <2>8
  <2> QED BY <2>9, <2>10, <2>11, ServedAfter
<1>12. CASE /\ ~NoMoreToSend(s, k) /\ ~(s.e.st = "pending" /\ pos >= s.e.hi) /\ ~(disk /\ ~opened)
            /\ ~(pos >= s.e.lo /\ pos < s.e.hi)
  <2>1. t = FileRead(Check(s1, "assert", disk), k)
    BY <1>1, <1>12
  <2>2. s.e.st = "ok" /\ s.e.osz >= 0 => y.pos < s.e.osz
    <3>1. ~(s.e.st = "ok" /\ s.e.osz >= 0 /\ y.pos >= s.e.osz)
      BY <1>12 DEF NoMoreToSend
    <3> HIDE DEF y
    <3> QED BY <1>3, <3>1
  <2>3. Alive(s.e) => disk /\ pos < s.e.file /\ s.e.hdr # 0
    <3> SUFFICES ASSUME Alive(s.e) PROVE disk /\ pos < s.e.file /\ s.e.hdr # 0
      OBVIOUS
    <3>1. y.pos < s.e.lo
      <4>1. ~(y.pos >= s.e.hi)
        <5>1. s.e.st = "ok" => s.e.osz = s.e.hi
          BY DEF Alive, Phase
        <5>2. ~(s.e.st = "pending" /\ y.pos >= s.e.hi)
          BY <1>12
        <5> HIDE DEF y
        <5> QED BY <1>3, <1>4, <2>2, <5>1, <5>2
      <4>2. ~(y.pos >= s.e.lo /\ y.pos < s.e.hi)
        BY <1>12
      <4> HIDE DEF y
      <4> QED BY <1>3, <4>1, <4>2
    <3>2. y.type = "disk" /\ s.e.lo <= s.e.file
      BY <1>4, <3>1 DEF Source
    <3>3. y.pos < s.e.file
      <4> HIDE DEF y
      <4> QED BY <1>3, <3>1, <3>2
    <3>4. s.e.hdr = HdrSz
      <4>1. s.e.file > 0
        <5> HIDE DEF y
        <5> QED BY <1>3, <3>3
      <4> QED BY <4>1 DEF Alive, Bounds
    <3> QED BY <3>2, <3>3, <3>4, SizesAssumption
  <2>4. disk
    BY <1>4, <2>3 DEF Good, GoodEntry
  <2>5. t = FileRead(s1, k)
    BY <2>1, <2>4, CheckTrue
  <2>6. Lasting(s.e, s1.e) /\ s1.c[k].on = s.c[k].on
    BY <1>5 DEF Lasting
  <2>7. CASE Purged(s.e) /\ s.e.osz = -1
    <3>1. s1.e.hdr = 0
      <4>1. s.e.file \in Nat
        BY <1>3
      <4> QED BY <1>5, <2>7, <4>1 DEF Purged
    <3>2. t = ReadHeader(s1, k)
      BY <2>5, <3>1 DEF FileRead
    <3>3. Good(t) /\ Served(s1, t, k)
      BY <1>5, <2>7, <3>2, ReadHeaderGood
    <3> QED BY <1>5, <2>6, <3>3, ServedAfter
  <2>8. CASE ~(Purged(s.e) /\ s.e.osz = -1)
    <3>1. s.e.hdr # 0 /\ pos < s.e.file
      <4>1. CASE Alive(s.e)
        BY <2>3, <4>1
      <4>2. CASE Purged(s.e)
        <5>1. s.e.st = "ok" /\ s.e.osz = s.e.file /\ s.e.hdr = HdrSz
          BY <2>8, <4>2 DEF Purged
        <5>2. y.pos < s.e.file
          <6> HIDE DEF y
          <6> QED BY <1>3, <2>2, <5>1
        <5> QED BY <5>1, <5>2, SizesAssumption
      <4> QED BY <4>1, <4>2 DEF Good, GoodEntry
    <3>2. t = ReadBody(s1, k)
      BY <1>5, <2>5, <3>1 DEF FileRead
    <3>3. s1.c[k].pos < s1.e.file /\ (Purged(s1.e) => s1.e.osz # -1)
      BY <1>5, <2>8, <3>1
    <3>4. Good(t) /\ Served(s1, t, k)
      BY <1>5, <3>2, <3>3, ReadBodyGood
    <3> QED BY <1>5, <2>6, <3>4, ServedAfter
  <2> QED BY <2>7, <2>8
<1> HIDE DEF disk, pos
<1> QED BY <1>8, <1>9, <1>10, <1>11, <1>12
-----------------------------------------------------------------------------
(***************************************************************************)
(* InvokeHandlers.  Its loop is a recursive function; that there is one,   *)
(* and what its values have in common, is shown by the least round for     *)
(* which it fails.                                                         *)
(***************************************************************************)
\* What holds at 0 and goes on holding, holds for every number.
LEMMA NoLeast ==
    ASSUME NEW T, T \subseteq Nat, T # {}
    PROVE  \E n \in T : n = 0 \/ (n - 1 \in Nat /\ n - 1 \notin T)
<1>1. Min(T) \in T /\ \A y \in T : Min(T) <= y
  BY MinNat
<1> DEFINE n == Min(T)
<1> HIDE DEF n
<1>2. n \in T /\ n \in Nat /\ \A y \in T : y \in Nat /\ n <= y
  BY <1>1 DEF n
<1>3. CASE n # 0
  <2>1. n - 1 \in Nat /\ ~(n <= n - 1)
    BY <1>2, <1>3
  <2> QED BY <1>2, <2>1
<1> QED BY <1>2, <1>3

Rounds(f, s, order, io, n) ==
    f = [i \in 0..n |-> IF i = 0 THEN s ELSE ClientCopy(f[i - 1], order[i], io)]

LEMMA RoundsParts ==
    ASSUME NEW f, NEW s, NEW order, NEW io, NEW n \in Nat, Rounds(f, s, order, io, n)
    PROVE  DOMAIN f = 0..n /\ f[0] = s /\ \A i \in 1..n : f[i] = ClientCopy(f[i - 1], order[i], io)
<1> DEFINE h == [i \in 0..n |-> IF i = 0 THEN s ELSE ClientCopy(f[i - 1], order[i], io)]
<1>1. f = h
  BY DEF Rounds
<1>2. DOMAIN h = 0..n /\ h[0] = s /\ \A i \in 1..n : h[i] = ClientCopy(f[i - 1], order[i], io)
  OBVIOUS
<1> HIDE DEF h
<1> QED BY <1>1, <1>2

LEMMA OneMoreRound ==
    ASSUME NEW s, NEW order, NEW io, NEW n \in Nat, NEW f, Rounds(f, s, order, io, n)
    PROVE  \E g : Rounds(g, s, order, io, n + 1)
<1> DEFINE g == [i \in 0..(n + 1) |-> IF i = n + 1 THEN ClientCopy(f[n], order[n + 1], io) ELSE f[i]]
<1>1. DOMAIN f = 0..n /\ f[0] = s /\ \A i \in 1..n : f[i] = ClientCopy(f[i - 1], order[i], io)
  BY RoundsParts
<1>2. /\ DOMAIN g = 0..(n + 1) /\ g[0] = s
      /\ \A i \in 1..n : g[i] = ClientCopy(g[i - 1], order[i], io)
      /\ g[n + 1] = ClientCopy(g[n], order[n + 1], io)
  BY <1>1
<1>3. g = [i \in 0..(n + 1) |-> g[i]]
  OBVIOUS
<1> HIDE DEF g
<1>4. ASSUME NEW i \in 0..(n + 1)
      PROVE  g[i] = IF i = 0 THEN s ELSE ClientCopy(g[i - 1], order[i], io)
  <2>1. i = 0 \/ i \in 1..n \/ i = n + 1
    OBVIOUS
  <2>2. n + 1 - 1 = n
    OBVIOUS
  <2> QED BY <1>2, <2>1, <2>2
<1>5. Rounds(g, s, order, io, n + 1)
  BY <1>3, <1>4 DEF Rounds
<1> QED BY <1>5

LEMMA RoundsExist ==
    ASSUME NEW s, NEW order, NEW io
    PROVE  \A n \in Nat : \E f : Rounds(f, s, order, io, n)
<1> DEFINE T == {n \in Nat : ~\E f : Rounds(f, s, order, io, n)}
<1> SUFFICES ASSUME T # {} PROVE FALSE
  OBVIOUS
<1>1. T \subseteq Nat
  OBVIOUS
<1>2. PICK n \in T : n = 0 \/ (n - 1 \in Nat /\ n - 1 \notin T)
  <2> HIDE DEF T
  <2> QED BY <1>1, NoLeast
<1>3. CASE n = 0
  <2> DEFINE f == [i \in 0..0 |-> s]
  <2>1. f = [i \in 0..0 |-> IF i = 0 THEN s ELSE ClientCopy(f[i - 1], order[i], io)]
    OBVIOUS
  <2>2. Rounds(f, s, order, io, 0)
    BY <2>1 DEF Rounds
  <2> HIDE DEF f
  <2> QED BY <1>3, <2>2
<1>4. CASE n # 0
  <2>1. n - 1 \in Nat /\ \E f : Rounds(f, s, order, io, n - 1)
    BY <1>2, <1>4
  <2>2. PICK f : Rounds(f, s, order, io, n - 1)
    BY <2>1
  <2>3. \E g : Rounds(g, s, order, io, n - 1 + 1)
    BY <2>1, <2>2, OneMoreRound
  <2>4. n - 1 + 1 = n
    BY <1>1
  <2> QED BY <2>3, <2>4
<1> QED BY <1>3, <1>4

\* Who waits, in the order they are called.
Due(s) == {k \in Clients : Waiting(s, k)}

LEMMA HandlersRounds ==
    ASSUME NEW s, NEW io, NEW order, order = SetToSeq(Due(s)), Len(order) \in Nat
    PROVE  \E f : Rounds(f, s, order, io, Len(order)) /\ InvokeHandlers(s, io) = f[Len(order)]
<1>1. \E f : Rounds(f, s, order, io, Len(order))
  BY RoundsExist
<1> QED BY <1>1, Zenon DEF InvokeHandlers, Rounds, Due

\* Everyone who waits is called, and once.
LEMMA OrderParts ==
    ASSUME NEW S, IsFiniteSet(S), NEW order, order = SetToSeq(S)
    PROVE  /\ Len(order) \in Nat /\ \A i \in 1..Len(order) : order[i] \in S
           /\ \A i, j \in 1..Len(order) : order[i] = order[j] => i = j
           /\ \A k \in S : \E i \in 1..Len(order) : order[i] = k
<1> DEFINE n == Cardinality(S)
<1>1. n \in Nat /\ ExistsBijection(1..n, S)
  BY FS_CardinalityType
<1>2. PICK h : h \in [1..n -> S] /\ IsInjective(h)
  BY <1>1 DEF ExistsBijection, Bijection, Injection, IsInjective
<1>3. order \in [1..n -> S] /\ IsInjective(order)
  BY <1>2, Zenon DEF SetToSeq
<1> HIDE DEF n
<1>4. Len(order) = n
  BY <1>1, <1>3
<1>5. \A i, j \in 1..n : order[i] = order[j] => i = j
  BY <1>3 DEF IsInjective
<1>6. order \in Injection(1..n, S)
  BY <1>3, <1>5 DEF Injection, IsInjective
<1>7. Cardinality(1..n) = n
  BY <1>1, FS_Interval
<1>8. order \in Surjection(1..n, S)
  BY <1>6, <1>7, FS_Injection DEF n
<1>9. \A k \in S : \E i \in 1..n : order[i] = k
  BY <1>8 DEF Surjection
<1> QED BY <1>1, <1>3, <1>4, <1>5, <1>9

\* The first i of the waiting clients have been called.
Called(s, u, order, i) ==
    /\ Good(u) /\ Lasting(s.e, u.e)
    /\ \A k \in Clients : u.c[k].on = s.c[k].on
    /\ \A k \in Clients : (\A j \in 1..i : order[j] # k) => u.c[k] = s.c[k]
    /\ \A j \in 1..i : Settled(u.e, u.c[order[j]])

LEMMA CalledNext ==
    ASSUME NEW s, NEW order, NEW n \in Nat, NEW i \in 1..n,
           \A j \in 1..n : order[j] \in Due(s), \A j, l \in 1..n : order[j] = order[l] => j = l,
           Good(s), NEW u, Called(s, u, order, i - 1), NEW io, NEW t, t = ClientCopy(u, order[i], io)
    PROVE  Called(s, t, order, i)
<1> DEFINE k == order[i]
<1>1. k \in Clients /\ Waiting(s, k)
  BY DEF Due
<1>2. s.c[k].on = TRUE /\ s.c[k].cb = TRUE
  <2>1. s.c[k] \in Readers
    BY <1>1, StateParts DEF Good
  <2>2. s.c[k].on \in BOOLEAN /\ s.c[k].cb \in BOOLEAN
    BY <2>1 DEF Readers
  <2> HIDE DEF k
  <2> QED BY <1>1, <2>2, Zenon DEF Waiting
<1>3. i - 1 \in Nat /\ 1..(i - 1) \subseteq 1..n /\ \A j \in 1..(i - 1) : order[j] # k
  OBVIOUS
<1>a. \A j \in 1..i : j = i \/ j \in 1..(i - 1)
  OBVIOUS
<1>b. 1..(i - 1) \subseteq 1..i /\ i \in 1..i
  OBVIOUS
<1>4. u.c[k] = s.c[k] /\ Good(u)
  BY <1>1, <1>3 DEF Called
<1> HIDE DEF k
<1>5. t = ClientCopy(u, k, io) /\ order[i] = k
  BY DEF k
<1>6. Good(t) /\ Served(u, t, k)
  BY <1>1, <1>2, <1>4, <1>5, ClientCopyGood, ZenonT(60)
<1>7. Lasting(s.e, t.e)
  BY <1>6, LastingTrans DEF Called, Served
<1>8. ASSUME NEW x \in Clients PROVE t.c[x].on = s.c[x].on
  BY <1>1, <1>6 DEF Called, Served
<1>9. ASSUME NEW x \in Clients, \A j \in 1..i : order[j] # x PROVE t.c[x] = s.c[x]
  <2>1. x # k
    BY <1>5, <1>9, <1>b
  <2>2. \A j \in 1..(i - 1) : order[j] # x
    BY <1>9, <1>b
  <2>3. u.c[x] = s.c[x]
    BY <2>2 DEF Called
  <2> QED BY <1>6, <2>1, <2>3 DEF Served
<1>10. ASSUME NEW j \in 1..i PROVE Settled(t.e, t.c[order[j]])
  <2>1. CASE j = i
    BY <1>5, <1>6, <2>1 DEF Served
  <2>2. CASE j \in 1..(i - 1)
    <3> DEFINE x == order[j]
    <3>1. x # k /\ x \in Clients
      BY <1>3, <2>2 DEF Due
    <3>2. Settled(u.e, u.c[x])
      BY <2>2 DEF Called
    <3> HIDE DEF x
    <3>3. t.c[x] = u.c[x] /\ t.e.st = u.e.st /\ t.e.hi = u.e.hi
      BY <1>6, <3>1 DEF Served, Lasting
    <3>4. Settled(t.e, t.c[x])
      BY <3>2, <3>3 DEF Settled
    <3> QED BY <3>4 DEF x
  <2> QED BY <1>a, <2>1, <2>2
<1> QED BY <1>6, <1>7, <1>8, <1>9, <1>10 DEF Called

LEMMA CalledAll ==
    ASSUME NEW s, Good(s), NEW order, NEW n \in Nat, \A j \in 1..n : order[j] \in Due(s),
           \A j, l \in 1..n : order[j] = order[l] => j = l, NEW io, NEW f, Rounds(f, s, order, io, n)
    PROVE  \A i \in 0..n : Called(s, f[i], order, i)
<1> DEFINE T == {i \in 0..n : ~Called(s, f[i], order, i)}
<1> SUFFICES ASSUME T # {} PROVE FALSE
  OBVIOUS
<1>0. f[0] = s /\ \A i \in 1..n : f[i] = ClientCopy(f[i - 1], order[i], io)
  BY RoundsParts
<1>1. T \subseteq Nat
  OBVIOUS
<1>2. PICK i \in T : i = 0 \/ (i - 1 \in Nat /\ i - 1 \notin T)
  <2> HIDE DEF T
  <2> QED BY <1>1, NoLeast
<1>3. i \in 0..n /\ ~Called(s, f[i], order, i)
  BY <1>2
<1>4. CASE i = 0
  <2>1. 1..0 = {}
    OBVIOUS
  <2>2. Called(s, s, order, 0)
    BY <2>1 DEF Called, Lasting
  <2> QED BY <1>0, <1>3, <1>4, <2>2
<1>5. CASE i # 0
  <2>1. i \in 1..n /\ i - 1 \in 0..n /\ Called(s, f[i - 1], order, i - 1)
    BY <1>2, <1>3, <1>5
  <2>2. f[i] = ClientCopy(f[i - 1], order[i], io)
    BY <1>0, <2>1
  <2> DEFINE u == f[i - 1]
             t == f[i]
  <2>3. Called(s, u, order, i - 1) /\ t = ClientCopy(u, order[i], io) /\ ~Called(s, t, order, i)
    BY <1>3, <2>1, <2>2
  <2> HIDE DEF u, t, T
  <2> QED BY <2>1, <2>3, CalledNext
<1> QED BY <1>4, <1>5

\* InvokeHandlers: nobody who waits is passed over.
LEMMA HandlersGood ==
    ASSUME NEW s, Good(s), NEW io, NEW t, t = InvokeHandlers(s, io)
    PROVE  /\ Good(t) /\ Lasting(s.e, t.e)
           /\ \A k \in Clients : t.c[k].on = s.c[k].on /\ Settled(t.e, t.c[k])
<1> DEFINE order == SetToSeq(Due(s))
           n == Len(order)
<1>1. IsFiniteSet(Due(s))
  <2>1. Due(s) \in SUBSET Clients /\ IsFiniteSet(Clients)
    BY SizesAssumption DEF Due
  <2> QED BY <2>1, FS_Subset
<1>2. /\ n \in Nat /\ \A i \in 1..n : order[i] \in Due(s)
      /\ \A i, j \in 1..n : order[i] = order[j] => i = j
      /\ \A k \in Due(s) : \E i \in 1..n : order[i] = k
  BY <1>1, OrderParts
<1>3. PICK f : Rounds(f, s, order, io, n) /\ InvokeHandlers(s, io) = f[n]
  BY <1>2, HandlersRounds
<1> HIDE DEF order, n
<1>4. Called(s, f[n], order, n)
  <2>1. \A i \in 0..n : Called(s, f[i], order, i)
    BY <1>2, <1>3, CalledAll
  <2>2. n \in 0..n
    BY <1>2
  <2> QED BY <2>1, <2>2
<1>5. Called(s, t, order, n)
  BY <1>3, <1>4
<1>6. ASSUME NEW k \in Clients PROVE Settled(t.e, t.c[k])
  <2>1. CASE k \in Due(s)
    <3>1. PICK i \in 1..n : order[i] = k
      BY <1>2, <2>1
    <3> QED BY <1>5, <3>1 DEF Called
  <2>2. CASE k \notin Due(s)
    <3>1. t.c[k] = s.c[k]
      BY <1>2, <1>5, <2>2 DEF Called
    <3>2. ~(s.c[k].on = TRUE /\ s.c[k].cb = TRUE)
      BY <2>2, Zenon DEF Due, Waiting
    <3> QED BY <3>1, <3>2 DEF Settled
  <2> QED BY <2>1, <2>2
<1> QED BY <1>5, <1>6 DEF Called
-----------------------------------------------------------------------------
(***************************************************************************)
(* Appending, completing, failing.                                         *)
(***************************************************************************)
AllSettled(s) == \A k \in Clients : Settled(s.e, s.c[k])

LEMMA QuietSettled ==
    ASSUME NEW s, NEW t, Quiet(s, t), AllSettled(s)
    PROVE  AllSettled(t)
BY DEF Quiet, Fixed, AllSettled, Settled

\* The clients of an object that gets longer or ends are not disturbed.
LEMMA PendingKept ==
    ASSUME NEW s, Good(s), s.e.st = "pending", NEW t \in States, t.c = s.c, Alive(t.e),
           t.e.st # "none", t.e.lo = s.e.lo, t.e.file = s.e.file, s.e.hi <= t.e.hi
    PROVE  Good(t)
<1>1. Alive(s.e) /\ s \in States /\ s.e \in Entries
  BY GoodAlive
<1>2. t.e \in Entries
  BY StateParts
<1>3. ~Purged(t.e) /\ Size(t.e) = t.e.hi /\ Size(s.e) = s.e.hi
  BY <1>1, <1>2, AliveNotPurged
<1>4. s.e.hi \in Nat /\ t.e.hi \in Nat
  BY <1>1, <1>2, EntryTypes
<1>5. ASSUME NEW k \in Clients PROVE GoodClient(t.e, t.c[k])
  <2> DEFINE y == s.c[k]
  <2>1. t.c[k] = y /\ GoodClient(s.e, y) /\ y \in Readers
    BY <1>1, StateParts DEF Good
  <2> HIDE DEF y
  <2>2. y.got \in Nat
    BY <2>1 DEF Readers
  <2>3. Reads(s.e, y) => Reads(t.e, y)
    BY <1>3, <1>4, <2>2 DEF Reads
  <2>4. Source(s.e, y) => Source(t.e, y)
    BY DEF Source
  <2> QED BY <2>1, <2>3, <2>4 DEF GoodClient
<1> QED BY <1>5 DEF Good, GoodEntry

LEMMA PendingNotKept ==
    ASSUME NEW s, Good(s), s.e.st = "pending"
    PROVE  /\ s \in States /\ s.e \in Entries /\ Alive(s.e) /\ s.e.inmem = FALSE /\ s.e.srv = TRUE
           /\ s.e.swap = "done" => s.e.release = TRUE
<1>1. Alive(s.e) /\ s \in States /\ s.e \in Entries
  BY GoodAlive
<1>2. s.e.srv = TRUE
  BY <1>1 DEF Alive, Phase
<1>3. s.e.inmem # TRUE
  BY <1>1, <1>2, Zenon DEF Alive, Kept
<1>4. s.e.inmem = FALSE
  BY <1>1, <1>3, EntryFlags, Zenon
<1>5. s.e.swap = "done" => s.e.release = TRUE
  BY <1>1 DEF Alive, File
<1> QED BY <1>1, <1>2, <1>4, <1>5

Longer(s, n) == [s EXCEPT !.e.hi = @ + n]

LEMMA LongerGood ==
    ASSUME NEW s, Good(s), s.e.st = "pending", NEW n \in Nat, s.e.hi + n <= MaxLen,
           NEW t, t = Longer(s, n)
    PROVE  /\ Good(t) /\ t.c = s.c /\ t.e.st = "pending" /\ t.e.hi = s.e.hi + n
           /\ t.e.clen = s.e.clen /\ t.e.release = s.e.release
<1> DEFINE m == s.e.hi + n
           x == [s.e EXCEPT !.hi = m]
<1>1. /\ s \in States /\ s.e \in Entries /\ Alive(s.e) /\ s.e.inmem = FALSE /\ s.e.srv = TRUE
      /\ s.e.swap = "done" => s.e.release = TRUE
  BY PendingNotKept
<1>2. m \in Nat /\ s.e.hi <= m /\ m <= MaxLen /\ s.e.hi \in Nat /\ s.e.lo \in Nat /\ s.e.queue \in Nat
  BY <1>1, EntryTypes
<1>3. t = Put(s, x)
  <2>1. t = [s EXCEPT !.e.hi = m]
    BY <1>1 DEF Longer, States
  <2> HIDE DEF m
  <2> QED BY <1>1, <2>1 DEF Put, States
<1>a. m = s.e.hi + n
  OBVIOUS
<1> HIDE DEF m
<1>4. x \in Entries
  BY <1>1, <1>2 DEF Entries
<1>5. /\ OnDisk(s.e, x) /\ x.release = s.e.release /\ x.lo = s.e.lo /\ x.hi = m /\ x.st = s.e.st
      /\ x.osz = s.e.osz /\ x.srv = s.e.srv /\ x.inmem = s.e.inmem /\ x.clen = s.e.clen
      /\ x.aborted = s.e.aborted
  BY <1>1 DEF Entries, OnDisk
<1> HIDE DEF x
<1>6. t \in States /\ t.e = x /\ t.c = s.c
  BY <1>1, <1>3, <1>4, PutParts
<1>7. Bounds(x)
  BY <1>1, <1>2, <1>5 DEF Alive, Bounds, OnDisk
<1>8. Phase(x)
  BY <1>1, <1>5 DEF Alive, Phase
<1>9. File(x)
  BY <1>1, <1>5 DEF Alive, File, OnDisk
<1>10. Kept(x)
  BY <1>1, <1>5, Zenon DEF Kept
<1>11. Good(t)
  <2>1. x.file = s.e.file
    BY <1>5 DEF OnDisk
  <2> QED BY <1>2, <1>5, <1>6, <1>7, <1>8, <1>9, <1>10, <2>1, PendingKept DEF Alive
<1> QED BY <1>5, <1>6, <1>11, <1>a

\* Who is attached stays so.
SameOn(s, t) == \A k \in Clients : t.c[k].on = s.c[k].on

LEMMA HandlersSettle ==
    ASSUME NEW s, Good(s), NEW io, NEW t, t = InvokeHandlers(s, io)
    PROVE  Good(t) /\ Lasting(s.e, t.e) /\ SameOn(s, t) /\ AllSettled(t)
BY HandlersGood DEF SameOn, AllSettled

\* storeAppend
LEMMA StoreAppendGood ==
    ASSUME NEW s, Good(s), s.e.st = "pending", NEW n \in Nat, s.e.hi + n <= MaxLen,
           NEW io \in Outcomes, NEW t, t = StoreAppend(s, n, io)
    PROVE  /\ Good(t) /\ AllSettled(t) /\ SameOn(s, t) /\ t.e.st = "pending"
           /\ t.e.hi = s.e.hi + n /\ t.e.clen = s.e.clen /\ (s.e.release = TRUE => t.e.release = TRUE)
<1> DEFINE u == Longer(s, n)
           v == InvokeHandlers(u, io)
<1>1. t = SwapOut(v, io)
  BY DEF StoreAppend, Longer
<1>2. /\ Good(u) /\ u.c = s.c /\ u.e.st = "pending" /\ u.e.hi = s.e.hi + n
      /\ u.e.clen = s.e.clen /\ u.e.release = s.e.release
  BY LongerGood
<1> HIDE DEF u
<1>3. Good(v) /\ Lasting(u.e, v.e) /\ SameOn(u, v) /\ AllSettled(v)
  BY <1>2, HandlersSettle
<1> HIDE DEF v
<1>4. Good(t) /\ Quiet(v, t)
  BY <1>1, <1>3, SwapOutGood
<1>5. AllSettled(t)
  BY <1>3, <1>4, QuietSettled
<1> QED BY <1>2, <1>3, <1>4, <1>5 DEF Lasting, Quiet, Fixed, SameOn

LEMMA EndedGood ==
    ASSUME NEW s, Good(s), s.e.st = "pending", s.e.hi > 0, NEW t, t = ErrorStored(s)
    PROVE  /\ Good(t) /\ t.c = s.c /\ t.e.st = "ok" /\ t.e.hi = s.e.hi /\ Alive(t.e)
           /\ t.e.inmem = FALSE
<1> DEFINE x == [s.e EXCEPT !.st = "ok", !.osz = s.e.hi]
<1>1. /\ s \in States /\ s.e \in Entries /\ Alive(s.e) /\ s.e.inmem = FALSE
      /\ s.e.swap = "done" => s.e.release = TRUE
  BY PendingNotKept
<1>2. s.e.hi \in Nat
  BY <1>1, EntryTypes
<1>3. t = Put(s, x)
  BY <1>1 DEF Put, States, ErrorStored
<1>4. x \in Entries
  BY <1>1, <1>2 DEF Entries
<1>5. /\ OnDisk(s.e, x) /\ x.release = s.e.release /\ x.lo = s.e.lo /\ x.hi = s.e.hi /\ x.st = "ok"
      /\ x.osz = s.e.hi /\ x.inmem = s.e.inmem /\ x.aborted = s.e.aborted
  BY <1>1 DEF Entries, OnDisk
<1> HIDE DEF x
<1>6. t \in States /\ t.e = x /\ t.c = s.c
  BY <1>1, <1>3, <1>4, PutParts
<1>7. Bounds(x) /\ Phase(x)
  BY <1>1, <1>2, <1>5 DEF Alive, Bounds, Phase, OnDisk
<1>8. File(x)
  BY <1>1, <1>5 DEF Alive, File, OnDisk
<1>9. Kept(x)
  BY <1>1, <1>5, Zenon DEF Kept
<1>10. Alive(x)
  BY <1>7, <1>8, <1>9 DEF Alive
<1>11. Good(t)
  <2>1. x.file = s.e.file /\ s.e.hi <= x.hi
    BY <1>2, <1>5 DEF OnDisk
  <2> QED BY <1>5, <1>6, <1>10, <2>1, PendingKept
<1> QED BY <1>1, <1>5, <1>6, <1>10, <1>11

\* storeComplete
LEMMA StoreCompleteGood ==
    ASSUME NEW s, Good(s), s.e.st = "pending", s.e.hi > 0, NEW io \in Outcomes,
           NEW t, t = StoreComplete(s, io)
    PROVE  Good(t) /\ AllSettled(t) /\ SameOn(s, t) /\ t.e.st = "ok" /\ t.e.hi = s.e.hi
<1> DEFINE s1 == ErrorStored(s)
           s2 == IF s.e.clen >= 0 /\ s.e.clen # s.e.hi THEN ReleaseRequest(s1) ELSE s1
           u == SwapOut(s2, io)
<1>1. t = InvokeHandlers(u, io)
  BY DEF StoreComplete, ErrorStored
<1>2. /\ Good(s1) /\ s1.c = s.c /\ s1.e.st = "ok" /\ s1.e.hi = s.e.hi /\ Alive(s1.e)
      /\ s1.e.inmem = FALSE
  BY EndedGood
<1> HIDE DEF s1
<1>3. Good(s2) /\ Quiet(s1, s2)
  <2>1. s2 = s1 \/ s2 = ReleaseRequest(s1)
    OBVIOUS
  <2> HIDE DEF s2
  <2> QED BY <1>2, <2>1, QuietSelf, ReleaseGood
<1> HIDE DEF s2
<1>4. Good(u) /\ Quiet(s2, u)
  BY <1>3, SwapOutGood
<1> HIDE DEF u
<1>5. Good(t) /\ Lasting(u.e, t.e) /\ SameOn(u, t) /\ AllSettled(t)
  BY <1>1, <1>4, HandlersSettle
<1>6. u.c = s.c /\ u.e.st = "ok" /\ u.e.hi = s.e.hi
  BY <1>2, <1>3, <1>4 DEF Quiet, Fixed
<1> QED BY <1>5, <1>6 DEF Lasting, SameOn

Aborted(s) ==
    ReleaseRequest([s EXCEPT !.e.st = "ok", !.e.aborted = TRUE, !.e.osz = s.e.hi])

LEMMA AbortedGood ==
    ASSUME NEW s, Good(s), s.e.st = "pending", NEW t, t = Aborted(s)
    PROVE  Good(t) /\ t.c = s.c /\ t.e.st = "ok" /\ t.e.hi = s.e.hi /\ t.e.release = TRUE
<1> DEFINE x == [s.e EXCEPT !.st = "ok", !.aborted = TRUE, !.osz = s.e.hi, !.release = TRUE]
<1>1. s \in States /\ s.e \in Entries /\ Alive(s.e) /\ s.e.inmem = FALSE
  BY PendingNotKept
<1>2. s.e.hi \in Nat
  BY <1>1, EntryTypes
<1>3. t = Put(s, x)
  BY <1>1 DEF Put, States, Aborted, ReleaseRequest, Entries
<1>4. x \in Entries
  BY <1>1, <1>2 DEF Entries
<1>5. /\ OnDisk(s.e, x) /\ x.release = TRUE /\ x.lo = s.e.lo /\ x.hi = s.e.hi /\ x.st = "ok"
      /\ x.osz = s.e.hi /\ x.inmem = s.e.inmem
  BY <1>1 DEF Entries, OnDisk
<1> HIDE DEF x
<1>6. t \in States /\ t.e = x /\ t.c = s.c
  BY <1>1, <1>3, <1>4, PutParts
<1>7. Bounds(x) /\ Phase(x)
  BY <1>1, <1>2, <1>5 DEF Alive, Bounds, Phase, OnDisk
<1>8. File(x)
  BY <1>1, <1>5 DEF Alive, File, OnDisk
<1>9. Kept(x)
  BY <1>1, <1>5, Zenon DEF Kept
<1>10. Alive(x)
  BY <1>7, <1>8, <1>9 DEF Alive
<1>11. Good(t)
  <2>1. x.file = s.e.file /\ s.e.hi <= x.hi
    BY <1>2, <1>5 DEF OnDisk
  <2> QED BY <1>5, <1>6, <1>10, <2>1, PendingKept
<1> QED BY <1>5, <1>6, <1>11

\* storeAbort
LEMMA StoreAbortGood ==
    ASSUME NEW s, Good(s), s.e.st = "pending", NEW io, NEW t, t = StoreAbort(s, io)
    PROVE  Good(t) /\ AllSettled(t) /\ SameOn(s, t) /\ t.e.st = "ok" /\ t.e.hi = s.e.hi
           /\ t.e.release = TRUE
<1> DEFINE u == Aborted(s)
           v == InvokeHandlers(u, io)
<1>1. t = SwapOutFileClose(v)
  BY DEF StoreAbort, Aborted
<1>2. Good(u) /\ u.c = s.c /\ u.e.st = "ok" /\ u.e.hi = s.e.hi /\ u.e.release = TRUE
  BY AbortedGood
<1> HIDE DEF u
<1>3. Good(v) /\ Lasting(u.e, v.e) /\ SameOn(u, v) /\ AllSettled(v)
  BY <1>2, HandlersSettle
<1> HIDE DEF v
<1>4. v.e.st = "ok" /\ v.e.hi = s.e.hi /\ v.e.release = TRUE
  BY <1>2, <1>3 DEF Lasting
<1>5. Good(t) /\ Quiet(v, t)
  BY <1>1, <1>3, <1>4, FileCloseGood DEF Closable
<1>6. AllSettled(t)
  BY <1>3, <1>5, QuietSettled
<1> QED BY <1>2, <1>3, <1>4, <1>5, <1>6 DEF Quiet, Fixed, SameOn

\* storeRequestFailed
LEMMA RequestFailedGood ==
    ASSUME NEW s, Good(s), s.e.st = "pending", NEW io \in Outcomes,
           NEW t, t = StoreRequestFailed(s, io)
    PROVE  Good(t) /\ AllSettled(t) /\ t.e.st = "ok" /\ t.e.hi > 0
<1>0. /\ s \in States /\ s.e \in Entries /\ Alive(s.e) /\ s.e.inmem = FALSE
      /\ s.e.hi \in Nat
  BY PendingNotKept, EntryTypes
<1>1. CASE s.e.hi > 0
  <2> DEFINE u == StoreAbort(s, io)
  <2>1. t = u
    BY <1>1 DEF StoreRequestFailed
  <2>2. Good(u) /\ AllSettled(u) /\ SameOn(s, u) /\ u.e.st = "ok" /\ u.e.hi = s.e.hi
        /\ u.e.release = TRUE
    BY StoreAbortGood
  <2> HIDE DEF u
  <2> QED BY <1>1, <2>1, <2>2
<1>2. CASE ~(s.e.hi > 0)
  <2> DEFINE u == ReleaseRequest(s)
             v == StoreAppend(u, 1, io)
             w == ErrorStored(v)
  <2>1. t = InvokeHandlers(w, io)
    BY <1>2 DEF StoreRequestFailed
  <2>2. Good(u) /\ Quiet(s, u) /\ u.e.release = TRUE
    BY <1>0, ReleaseGood
  <2> HIDE DEF u
  <2>3. u.e.st = "pending" /\ u.e.hi = 0
    BY <1>0, <1>2, <2>2 DEF Quiet, Fixed
  <2>4. 1 \in Nat /\ u.e.hi + 1 <= MaxLen
    BY <2>3, SizesAssumption
  <2>5. Good(v) /\ v.e.st = "pending" /\ v.e.hi = u.e.hi + 1
    BY <2>2, <2>3, <2>4, StoreAppendGood, ZenonT(60)
  <2> HIDE DEF v
  <2>6. v.e.hi > 0
    BY <2>3, <2>5
  <2>7. Good(w) /\ w.e.st = "ok" /\ w.e.hi = v.e.hi
    BY <2>5, <2>6, EndedGood
  <2> HIDE DEF w
  <2>8. Good(t) /\ Lasting(w.e, t.e) /\ AllSettled(t)
    BY <2>1, <2>7, HandlersSettle
  <2> QED BY <2>6, <2>7, <2>8 DEF Lasting
<1> QED BY <1>1, <1>2
-----------------------------------------------------------------------------
(***************************************************************************)
(* Letting go.                                                             *)
(***************************************************************************)
Nobody(s) == \A k \in Clients : s.c[k].on = FALSE

LEMMA NobodyOn ==
    ASSUME NEW s, Good(s)
    PROVE  On(s) = {} <=> Nobody(s)
<1>1. \A k \in Clients : s.c[k].on \in BOOLEAN
  BY StateParts DEF Good, Readers
<1> QED BY <1>1, Zenon DEF On, Nobody

LEMMA NobodyGood ==
    ASSUME NEW s, Good(s), Nobody(s), NEW x \in Entries, GoodEntry(x), NEW t, t = Put(s, x)
    PROVE  Good(t) /\ AllSettled(t) /\ t.e = x /\ t.c = s.c
<1>1. s \in States
  BY DEF Good
<1>2. t \in States /\ t.e = x /\ t.c = s.c
  BY <1>1, PutParts
<1>3. ASSUME NEW k \in Clients PROVE GoodClient(t.e, t.c[k]) /\ Settled(t.e, t.c[k])
  <2>1. t.c[k] = s.c[k] /\ s.c[k].on = FALSE /\ GoodClient(s.e, s.c[k])
    BY <1>2 DEF Nobody, Good
  <2> DEFINE y == s.c[k]
  <2>2. y.on = FALSE /\ GoodClient(s.e, y) /\ t.c[k] = y
    BY <2>1
  <2> HIDE DEF y
  <2>3. y.pos <= y.got
    BY <2>2 DEF GoodClient
  <2>4. ~(y.on = TRUE)
    BY <2>2, Zenon
  <2> QED BY <2>2, <2>3, <2>4 DEF GoodClient, Settled
<1> QED BY <1>2, <1>3 DEF Good, AllSettled

LEMMA NoEntryGood ==
    NoEntry \in Entries /\ GoodEntry(NoEntry)
<1>1. NoEntry \in Entries
  BY DEF NoEntry, Entries
<1>2. Bounds(NoEntry) /\ Phase(NoEntry)
  BY SizesAssumption DEF NoEntry, Bounds, Phase
<1>3. File(NoEntry) /\ Kept(NoEntry)
  BY DEF NoEntry, File, Kept
<1> QED BY <1>1, <1>2, <1>3 DEF GoodEntry, Alive

\* A destroyed entry is all gone.
None(x) == x.st = "none" => x = NoEntry

LEMMA PutNone ==
    ASSUME NEW s, Good(s), Nobody(s), NEW t, t = [s EXCEPT !.e = NoEntry]
    PROVE  Good(t) /\ AllSettled(t) /\ None(t.e)
<1>1. t = Put(s, NoEntry)
  BY DEF Put
<1> QED BY <1>1, NoEntryGood, NobodyGood DEF None

\* What storePurgeMem leaves.
FileOnly(x) ==
    [x EXCEPT !.inmem = FALSE, !.lo = 0, !.hi = 0, !.queue = 0, !.osz = -1, !.hdr = 0, !.clen = -1]

LEMMA FileOnlyPurged ==
    ASSUME NEW x \in Entries, GoodEntry(x), x.swap = "done", x.release = FALSE, x.srv = FALSE,
           NEW z, z = FileOnly(x)
    PROVE  z \in Entries /\ Purged(z)
<1>1. z \in Entries
  BY DEF Entries, FileOnly
<1>2. /\ z.inmem = FALSE /\ z.lo = 0 /\ z.hi = 0 /\ z.queue = 0 /\ z.osz = -1 /\ z.hdr = 0
      /\ z.clen = -1 /\ z.st = x.st /\ z.srv = x.srv /\ z.aborted = x.aborted /\ z.swap = x.swap
      /\ z.sio = x.sio /\ z.release = x.release /\ z.file = x.file /\ z.fsz = x.fsz
  BY DEF Entries, FileOnly
<1>3. x.st = "ok" /\ 0 < x.file /\ x.file <= MaxLen /\ x.fsz = x.file + HdrSz
  <2>1. CASE Purged(x)
    BY <2>1 DEF Purged
  <2>2. CASE Alive(x)
    <3>1. x.release # TRUE
      BY Zenon
    <3>2. x.hi \in Nat
      BY EntryTypes
    <3> QED BY <2>2, <3>1, <3>2 DEF Alive, File, Phase, Bounds
  <2> QED BY <2>1, <2>2 DEF GoodEntry
<1>4. x.sio = FALSE /\ x.aborted = FALSE
  <2>1. CASE Purged(x)
    BY <2>1 DEF Purged
  <2>2. CASE Alive(x)
    <3>1. x.sio # TRUE
      BY <2>2 DEF Alive, File
    <3>2. x.aborted # TRUE
      BY <2>2, Zenon DEF Alive, Phase
    <3> QED BY <3>1, <3>2, EntryFlags, Zenon
  <2> QED BY <2>1, <2>2 DEF GoodEntry
<1>5. Purged(z)
  BY <1>2, <1>3, <1>4 DEF Purged
<1> QED BY <1>1, <1>5

LEMMA PurgeMemGood ==
    ASSUME NEW s, Good(s), Nobody(s), s.e.swap = "done" => s.e.release = FALSE, s.e.srv = FALSE,
           NEW t, t = PurgeMem(s)
    PROVE  Good(t) /\ AllSettled(t) /\ None(t.e)
<1>1. s \in States /\ s.e \in Entries /\ GoodEntry(s.e)
  BY StateParts DEF Good
<1>2. CASE s.e.swap = "done"
  <2> DEFINE x == s.e
             z == FileOnly(x)
  <2>1. t = Put(s, z)
    BY <1>1, <1>2 DEF PurgeMem, Put, FileOnly, States
  <2>2. x \in Entries /\ GoodEntry(x) /\ x.swap = "done" /\ x.release = FALSE /\ x.srv = FALSE
    BY <1>1, <1>2
  <2> HIDE DEF x
  <2>3. z \in Entries /\ Purged(z)
    BY <2>2, FileOnlyPurged
  <2> HIDE DEF z
  <2>4. Good(t) /\ AllSettled(t) /\ t.e = z
    BY <2>1, <2>3, NobodyGood DEF GoodEntry
  <2> QED BY <2>3, <2>4 DEF None, Purged
<1>3. CASE s.e.swap # "done"
  <2>1. t = [s EXCEPT !.e = NoEntry]
    BY <1>3 DEF PurgeMem
  <2> QED BY <2>1, PutNone
<1> QED BY <1>2, <1>3

\* storeUnlockObject
LEMMA UnlockGood ==
    ASSUME NEW s, Good(s), AllSettled(s), None(s.e), NEW t, t = UnlockObject(s)
    PROVE  Good(t) /\ AllSettled(t) /\ None(t.e)
<1>1. s \in States /\ s.e \in Entries /\ GoodEntry(s.e)
  BY StateParts DEF Good
<1>2. s.e.srv \in BOOLEAN /\ s.e.sio \in BOOLEAN /\ s.e.release \in BOOLEAN
  BY <1>1, EntryFlags
<1>3. CASE t = s
  BY <1>3
<1>4. CASE t # s
  <2>1. s.e.srv = FALSE /\ s.e.sio = FALSE /\ On(s) = {}
    BY <1>2, <1>4, Zenon DEF UnlockObject
  <2>2. Nobody(s)
    BY <2>1, NobodyOn
  <2>3. CASE s.e.release = TRUE
    <3>1. t = [s EXCEPT !.e = NoEntry]
      BY <2>1, <2>3, Zenon DEF UnlockObject
    <3> QED BY <2>2, <3>1, PutNone
  <2>4. CASE s.e.release = FALSE /\ s.e.lo = 0 /\ s.e.hi > 0
    <3> DEFINE x == [s.e EXCEPT !.inmem = TRUE]
    <3>1. t = [s EXCEPT !.e.inmem = TRUE]
      BY <2>1, <2>4, Zenon DEF UnlockObject
    <3>2. t = Put(s, x)
      BY <1>1, <3>1 DEF Put, States
    <3>3. x \in Entries
      BY <1>1 DEF Entries
    <3>4. /\ OnDisk(s.e, x) /\ x.release = s.e.release /\ x.lo = s.e.lo /\ x.hi = s.e.hi
          /\ x.st = s.e.st /\ x.osz = s.e.osz /\ x.srv = s.e.srv /\ x.aborted = s.e.aborted
      BY <1>1 DEF Entries, OnDisk
    <3> HIDE DEF x
    <3>5. Alive(s.e)
      <4>1. s.e.hi # 0
        BY <2>4
      <4> QED BY <4>1, GoodAlive
    <3>6. Bounds(x) /\ Phase(x)
      BY <3>4, <3>5 DEF Alive, Bounds, Phase, OnDisk
    <3>7. File(x)
      BY <3>4, <3>5 DEF Alive, File, OnDisk
    <3>8. Kept(x)
      <4>1. x.swap # "writing"
        BY <2>1, <3>4, <3>5, Zenon DEF Alive, File, OnDisk
      <4> QED BY <2>1, <2>4, <3>4, <4>1 DEF Kept
    <3>9. GoodEntry(x)
      BY <3>6, <3>7, <3>8 DEF GoodEntry, Alive
    <3>10. Good(t) /\ AllSettled(t) /\ t.e = x
      BY <2>2, <3>2, <3>3, <3>9, NobodyGood
    <3>11. None(x)
      <4>1. s.e.st # "none"
        BY <2>4 DEF None, NoEntry
      <4> QED BY <3>4, <4>1 DEF None
    <3> QED BY <3>10, <3>11
  <2>5. CASE s.e.release = FALSE /\ ~(s.e.lo = 0 /\ s.e.hi > 0)
    <3>1. t = PurgeMem(s)
      BY <2>1, <2>5, Zenon DEF UnlockObject
    <3> QED BY <2>1, <2>2, <2>5, <3>1, PurgeMemGood
  <2> QED BY <1>2, <2>3, <2>4, <2>5
<1> QED BY <1>3, <1>4

\* fwdStateFree
LEMMA FwdStateFreeGood ==
    ASSUME NEW s, Good(s), AllSettled(s), Alive(s.e), s.e.st = "ok", NEW t, t = FwdStateFree(s)
    PROVE  Good(t) /\ AllSettled(t) /\ None(t.e)
<1> DEFINE x == [s.e EXCEPT !.defer = FALSE, !.srv = FALSE]
           u == [s EXCEPT !.e.defer = FALSE, !.e.srv = FALSE]
<1>1. s \in States /\ s.e \in Entries
  BY StateParts DEF Good
<1>2. u = Put(s, x)
  BY <1>1 DEF Put, States
<1>3. x \in Entries
  BY <1>1 DEF Entries
<1>4. /\ OnDisk(s.e, x) /\ x.release = s.e.release /\ x.lo = s.e.lo /\ x.hi = s.e.hi
      /\ x.st = s.e.st /\ x.osz = s.e.osz /\ x.srv = FALSE /\ x.aborted = s.e.aborted
      /\ x.neg = s.e.neg /\ x.clen = s.e.clen /\ x.inmem = s.e.inmem
  BY <1>1 DEF Entries, OnDisk
<1>5. t = UnlockObject(u)
  BY DEF FwdStateFree
<1> HIDE DEF x, u
<1>6. u \in States /\ u.e = x /\ u.c = s.c
  BY <1>1, <1>2, <1>3, PutParts
<1>7. Bounds(x) /\ Phase(x)
  BY <1>4 DEF Alive, Bounds, Phase, OnDisk
<1>8. File(x)
  BY <1>4 DEF Alive, File, OnDisk
<1>9. Kept(x)
  BY <1>4 DEF Alive, Kept, OnDisk
<1>10. Alive(x)
  BY <1>7, <1>8, <1>9 DEF Alive
<1>11. ASSUME NEW k \in Clients PROVE GoodClient(u.e, u.c[k])
  <2> DEFINE y == s.c[k]
  <2>1. u.c[k] = y /\ GoodClient(s.e, y)
    BY <1>6 DEF Good
  <2> HIDE DEF y
  <2>2. Reads(s.e, y) => Reads(x, y)
    BY <1>1, <1>3, <1>4, <1>10, ReadsKept
  <2>3. Source(s.e, y) => Source(x, y)
    BY <1>4 DEF Source, OnDisk
  <2> QED BY <1>6, <2>1, <2>2, <2>3 DEF GoodClient
<1>12. Good(u)
  BY <1>6, <1>10, <1>11 DEF Good, GoodEntry
<1>13. AllSettled(u) /\ None(u.e)
  BY <1>4, <1>6 DEF AllSettled, Settled, None
<1> QED BY <1>5, <1>12, <1>13, UnlockGood
-----------------------------------------------------------------------------
(***************************************************************************)
(* The steps.                                                              *)
(***************************************************************************)
Fully(s) == Good(s) /\ AllSettled(s) /\ None(s.e)
IInv == Fully(State)

LEMMA BecomeKeeps ==
    ASSUME NEW s, Fully(s), Become(s)
    PROVE  IInv'
<1>1. s \in States
  BY DEF Fully, Good
<1>2. [e |-> s.e, c |-> s.c, broken |-> s.broken] = s
  BY <1>1 DEF States
<1>3. State' = s
  BY <1>2 DEF Become, State
<1> QED BY <1>3 DEF IInv, Fully

LEMMA StateIs ==
    ASSUME IInv
    PROVE  /\ Good(State) /\ AllSettled(State) /\ None(State.e) /\ State \in States
           /\ State.e = e /\ State.c = c /\ e \in Entries /\ c \in [Clients -> Readers]
<1>1. State.e = e /\ State.c = c
  BY DEF State
<1>2. State \in States
  BY DEF IInv, Fully, Good
<1> QED BY <1>1, <1>2, StateParts DEF IInv, Fully

\* The client is changed, the object perhaps swapped out, and the client tried.
LEMMA AskGood ==
    ASSUME NEW s, Fully(s), NEW k \in Clients, NEW y \in Readers, GoodClient(s.e, y),
           y.on = TRUE, y.cb = TRUE, NEW u, u = Turn(s, k, y), NEW io \in Outcomes,
           NEW v, v = u \/ v = SwapOut(u, io), NEW t, t = ClientCopy(v, k, io)
    PROVE  Fully(t)
<1>1. Good(u) /\ u.e = s.e /\ u.c[k] = y /\ \A j \in Clients : j # k => u.c[j] = s.c[j]
  BY TurnGood DEF Fully
<1>2. Good(v) /\ Quiet(u, v)
  BY <1>1, SwapOutGood, QuietSelf
<1>3. v.c = u.c /\ v.e.st = s.e.st /\ v.e.hi = s.e.hi
  BY <1>1, <1>2 DEF Quiet, Fixed
<1>4. v.c[k].on = TRUE /\ v.c[k].cb = TRUE
  BY <1>1, <1>3
<1>5. Good(t) /\ Served(v, t, k)
  BY <1>2, <1>4, ClientCopyGood
<1>6. t.e.st = s.e.st /\ t.e.hi = s.e.hi
  BY <1>3, <1>5 DEF Served, Lasting
<1>7. ASSUME NEW j \in Clients PROVE Settled(t.e, t.c[j])
  <2>1. CASE j = k
    BY <1>5, <2>1 DEF Served
  <2>2. CASE j # k
    <3>1. t.c[j] = s.c[j] /\ Settled(s.e, s.c[j])
      BY <1>1, <1>3, <1>5, <2>2 DEF Served, Fully, AllSettled
    <3> QED BY <1>6, <3>1 DEF Settled
  <2> QED BY <2>1, <2>2
<1>8. None(t.e)
  <2>1. t.c[k].on = TRUE
    BY <1>4, <1>5 DEF Served
  <2>2. t.e.st # "none"
    BY <1>5, <2>1 DEF Good, GoodClient, Reads
  <2> QED BY <2>2 DEF None
<1> QED BY <1>5, <1>7, <1>8 DEF Fully, AllSettled

\* A new client of a public entry is given the right source.
Newcomer(t) == [NoClient EXCEPT !.on = TRUE, !.cb = TRUE, !.type = t]

LEMMA NewcomerGood ==
    ASSUME NEW s, Fully(s), s.e.release = FALSE, s.e.hi > 0 \/ s.e.swap = "done",
           NEW y, y = Newcomer(ClientType(s))
    PROVE  y \in Readers /\ y.on = TRUE /\ y.cb = TRUE /\ GoodClient(s.e, y)
<1> DEFINE ty == ClientType(s)
<1>0. s \in States /\ s.e \in Entries /\ GoodEntry(s.e)
  BY StateParts DEF Fully, Good
<1>1. s.e.lo \in Nat /\ s.e.hi \in Nat /\ s.e.file \in Nat /\ s.e.queue \in Nat
  BY <1>0, EntryTypes
<1>2. /\ ty \in {"mem", "disk"} /\ (s.e.lo > 0 => ty = "disk")
      /\ (Purged(s.e) => ty = "disk")
  <2>1. s.e.lo > 0 => ty = "disk"
    BY <1>1 DEF ClientType
  <2>2. s.e.lo = 0 /\ s.e.st = "ok" => ty = IF s.e.hi > 0 THEN "mem" ELSE "disk"
    BY <1>1 DEF ClientType
  <2>3. ~(s.e.lo > 0) /\ ~(s.e.lo = 0 /\ s.e.st = "ok")
           => ty = IF On(s) = {} \/ s.e.swap = "none" THEN "mem" ELSE "disk"
    BY <1>1 DEF ClientType
  <2>4. Purged(s.e) => s.e.lo = 0 /\ s.e.st = "ok" /\ ~(s.e.hi > 0)
    BY DEF Purged
  <2> HIDE DEF ty
  <2> QED BY <1>1, <2>1, <2>2, <2>3, <2>4
<1> HIDE DEF ty
<1>3. /\ y \in Readers /\ y.on = TRUE /\ y.cb = TRUE /\ y.type = ty /\ y.pos = 0 /\ y.got = 0
      /\ y.end = "no"
  BY <1>2 DEF Newcomer, NoClient, Readers, ty
<1>4. s.e.st # "none"
  BY DEF Fully, None, NoEntry
<1>5. Reads(s.e, y)
  <2>1. 0 <= Size(s.e)
    BY <1>1 DEF Size
  <2> QED BY <1>2, <1>3, <1>4, <2>1 DEF Reads
<1>6. Source(s.e, y)
  <2> SUFFICES ASSUME 0 < s.e.lo PROVE y.type = "disk" /\ s.e.lo <= s.e.file
    BY <1>3 DEF Source
  <2>1. ~Purged(s.e)
    BY DEF Purged
  <2>2. Alive(s.e)
    BY <1>0, <2>1 DEF GoodEntry
  <2>3. s.e.release # TRUE
    BY Zenon
  <2>4. s.e.swap # "none"
    <3>1. s.e.lo # 0
      BY <1>1
    <3>2. s.e.swap = "none" => s.e.release = TRUE \/ s.e.lo = 0
      BY <2>2 DEF Alive, File
    <3> QED BY <2>3, <3>1, <3>2, Zenon
  <2>5. s.e.swap = "writing" \/ s.e.swap = "done"
    BY <1>0, <2>4, EntryTypes
  <2>6. CASE s.e.swap = "writing"
    BY <1>1, <1>2, <1>3, <2>2, <2>6 DEF Alive, File
  <2>7. CASE s.e.swap = "done"
    <3>1. s.e.file = s.e.hi
      BY <2>2, <2>3, <2>7, Zenon DEF Alive, File
    <3>2. s.e.lo < s.e.hi
      BY <1>1, <2>2 DEF Alive, Bounds
    <3> QED BY <1>1, <1>2, <1>3, <3>1, <3>2
  <2> QED BY <2>5, <2>6, <2>7
<1> QED BY <1>3, <1>5, <1>6 DEF GoodClient

LEMMA HitKeeps ==
    ASSUME IInv, NEW k \in Clients, NEW io \in Outcomes, Hit(k, io)
    PROVE  IInv'
<1> DEFINE y == Newcomer(ClientType(State))
           u == Turn(State, k, y)
           v == IF e.defer THEN SwapOut(u, io) ELSE u
           t == ClientCopy(v, k, io)
<1>1. Fully(State) /\ State.e = e /\ e \in Entries
  BY StateIs DEF IInv
<1>2. Become(t)
  BY DEF Hit, Newcomer, Turn
<1>3. ~e.release /\ (e.hi > 0 \/ e.swap = "done")
  BY DEF Hit
<1>4. State.e.release = FALSE /\ (State.e.hi > 0 \/ State.e.swap = "done")
  <2>1. e.release = FALSE
    BY <1>1, <1>3, EntryFlags, Zenon
  <2> QED BY <1>1, <1>3, <2>1
<1>5. y \in Readers /\ y.on = TRUE /\ y.cb = TRUE /\ GoodClient(State.e, y)
  BY <1>1, <1>4, NewcomerGood
<1> HIDE DEF y
<1>6. v = u \/ v = SwapOut(u, io)
  BY Zenon
<1> HIDE DEF v
<1>7. Fully(t)
  BY <1>1, <1>5, <1>6, AskGood
<1> HIDE DEF t
<1> QED BY <1>2, <1>7, BecomeKeeps

\* storeClientCopy for what follows the bytes received.
Further(r) == [r EXCEPT !.pos = r.got, !.cb = TRUE]

LEMMA CopyMoreAsks ==
    ASSUME IInv, NEW k \in Clients, NEW io \in Outcomes, CopyMore(k, io),
           NEW y, y = Further(c[k]), NEW u, u = Turn(State, k, y),
           NEW v, v = IF e.defer THEN SwapOut(u, io) ELSE u, NEW t, t = ClientCopy(v, k, io)
    PROVE  /\ Become(t) /\ y \in Readers /\ y.on = TRUE /\ y.cb = TRUE /\ y.got = c[k].got
           /\ GoodClient(State.e, y)
<1> DEFINE r == c[k]
<1>1. /\ Fully(State) /\ State.e = e /\ State.c = c /\ e \in Entries /\ c \in [Clients -> Readers]
      /\ State \in States
  BY StateIs DEF IInv
<1>2. [State EXCEPT !.c[k].pos = c[k].got, !.c[k].cb = TRUE] = u
  <2> DEFINE g == c[k].got
  <2>1. u = [State EXCEPT !.c[k] = [c[k] EXCEPT !.pos = g, !.cb = TRUE]]
    BY DEF Turn, Further
  <2> HIDE DEF g
  <2>2. [State EXCEPT !.c[k].pos = g, !.c[k].cb = TRUE]
          = [State EXCEPT !.c[k] = [c[k] EXCEPT !.pos = g, !.cb = TRUE]]
    BY <1>1 DEF States, Readers
  <2> QED BY <2>1, <2>2 DEF g
<1>3. Become(t)
  <2> DEFINE w == [State EXCEPT !.c[k].pos = c[k].got, !.c[k].cb = TRUE]
  <2>1. Become(ClientCopy(IF e.defer THEN SwapOut(w, io) ELSE w, k, io))
    BY DEF CopyMore
  <2>2. w = u
    BY <1>2
  <2> HIDE DEF w
  <2> QED BY <2>1, <2>2
<1>4. r \in Readers /\ GoodClient(e, r)
  BY <1>1 DEF Fully, Good
<1>5. r.on = TRUE /\ r.end = "no"
  <2>1. c[k].on /\ c[k].end = "no"
    BY DEF CopyMore
  <2>2. r.on \in BOOLEAN
    BY <1>4 DEF Readers
  <2> QED BY <2>1, <2>2, Zenon
<1>y. y = [r EXCEPT !.pos = r.got, !.cb = TRUE]
  BY DEF Further
<1> HIDE DEF r
<1>6. r.pos \in Nat /\ r.got \in Nat
  BY <1>4 DEF Readers
<1>7. /\ y \in Readers /\ y.on = TRUE /\ y.cb = TRUE /\ y.pos = r.got /\ y.got = r.got
      /\ y.end = "no" /\ y.type = r.type
  BY <1>4, <1>5, <1>6, <1>y DEF Readers
<1>8. e.lo \in Nat
  BY <1>1, EntryTypes
<1>9. GoodClient(State.e, y)
  <2>1. Reads(e, r) /\ Source(e, r) /\ r.pos <= r.got
    BY <1>4, <1>5 DEF GoodClient
  <2>2. Reads(e, y)
    BY <1>5, <1>7, <2>1 DEF Reads
  <2>3. Source(e, y)
    BY <1>5, <1>6, <1>7, <1>8, <2>1 DEF Source
  <2>4. y.pos <= y.got
    BY <1>6, <1>7
  <2> QED BY <1>1, <2>2, <2>3, <2>4 DEF GoodClient
<1> QED BY <1>3, <1>7, <1>9 DEF r

LEMMA CopyMoreKeeps ==
    ASSUME IInv, NEW k \in Clients, NEW io \in Outcomes, CopyMore(k, io)
    PROVE  IInv'
<1> DEFINE y == Further(c[k])
           u == Turn(State, k, y)
           v == IF e.defer THEN SwapOut(u, io) ELSE u
           t == ClientCopy(v, k, io)
<1>1. Fully(State)
  BY DEF IInv
<1>2. Become(t) /\ y \in Readers /\ y.on = TRUE /\ y.cb = TRUE /\ GoodClient(State.e, y)
  BY CopyMoreAsks
<1> HIDE DEF y
<1>3. v = u \/ v = SwapOut(u, io)
  BY Zenon
<1> HIDE DEF v
<1>4. Fully(t)
  BY <1>1, <1>2, <1>3, AskGood
<1> HIDE DEF t
<1> QED BY <1>2, <1>4, BecomeKeeps

LEMMA UnregisterKeeps ==
    ASSUME IInv, NEW k \in Clients, NEW io \in Outcomes, NEW abort \in BOOLEAN,
           Unregister(k, io, abort)
    PROVE  IInv'
<1> DEFINE s == Turn(State, k, NoClient)
           s1 == IF e.st = "ok" /\ e.swap # "done" THEN SwapOut(s, io) ELSE s
           s2 == MaintainMemObject(s1)
           s3 == IF abort THEN StoreAbort(s2, io) ELSE s2
           t == UnlockObject(s3)
<1>1. Good(State) /\ AllSettled(State) /\ State.e = e /\ State.c = c /\ e \in Entries
      /\ c \in [Clients -> Readers]
  BY StateIs
<1>2. Become(t)
  BY DEF Unregister, Turn
<1>3. c[k].on /\ (abort => e.st = "pending")
  BY DEF Unregister
<1>4. NoClient \in Readers /\ GoodClient(State.e, NoClient) /\ NoClient.on = FALSE
  BY DEF NoClient, Readers, GoodClient
<1>5. Good(s) /\ s.e = e /\ s.c[k] = NoClient /\ \A j \in Clients : j # k => s.c[j] = c[j]
  BY <1>1, <1>4, TurnGood
<1> HIDE DEF s
<1>6. AllSettled(s)
  <2> SUFFICES ASSUME NEW j \in Clients PROVE Settled(s.e, s.c[j])
    BY DEF AllSettled
  <2>1. CASE j = k
    BY <1>4, <1>5, <2>1, Zenon DEF Settled
  <2>2. CASE j # k
    BY <1>1, <1>5, <2>2 DEF AllSettled
  <2> QED BY <2>1, <2>2
<1>7. Good(s1) /\ Quiet(s, s1)
  <2>1. s1 = s \/ s1 = SwapOut(s, io)
    OBVIOUS
  <2> HIDE DEF s1
  <2> QED BY <1>5, <2>1, SwapOutGood, QuietSelf
<1> HIDE DEF s1
<1>8. Good(s2) /\ Quiet(s1, s2)
  BY <1>7, MaintainGood
<1> HIDE DEF s2
<1>9. AllSettled(s2) /\ s2.e.st = e.st
  <2>1. Quiet(s, s2)
    BY <1>7, <1>8, QuietTrans
  <2> QED BY <1>5, <1>6, <2>1, QuietSettled DEF Quiet, Fixed
<1>10. e.st # "none"
  <2>1. State.c[k].on = TRUE
    <3>1. c[k].on \in BOOLEAN
      BY <1>1 DEF Readers
    <3> QED BY <1>1, <1>3, <3>1, Zenon
  <2> QED BY <1>1, <2>1 DEF Good, GoodClient, Reads
<1>11. Good(s3) /\ AllSettled(s3) /\ s3.e.st # "none"
  <2>1. CASE abort = TRUE
    <3> DEFINE w == StoreAbort(s2, io)
    <3>1. s3 = w
      BY <2>1, Zenon
    <3>2. s2.e.st = "pending"
      BY <1>3, <1>9, <2>1
    <3>3. Good(w) /\ AllSettled(w) /\ SameOn(s2, w) /\ w.e.st = "ok" /\ w.e.hi = s2.e.hi
          /\ w.e.release = TRUE
      BY <1>8, <3>2, StoreAbortGood
    <3> HIDE DEF w, s3
    <3> QED BY <3>1, <3>3
  <2>2. CASE abort = FALSE
    <3>1. s3 = s2
      BY <2>2, Zenon
    <3> HIDE DEF s3
    <3> QED BY <1>8, <1>9, <1>10, <3>1
  <2> QED BY <2>1, <2>2
<1> HIDE DEF s3
<1>12. Fully(t)
  BY <1>11, UnlockGood DEF None, Fully
<1> HIDE DEF t
<1> QED BY <1>2, <1>12, BecomeKeeps

LEMMA RequestKeeps ==
    ASSUME IInv, NEW k \in Clients, Request(k)
    PROVE  IInv'
<1> DEFINE y == [NoClient EXCEPT !.on = TRUE, !.cb = TRUE]
           s == Put(State, FreshEntry)
           t == Turn(s, k, y)
<1>1. Good(State) /\ State.e = e /\ State.c = c /\ State \in States /\ c \in [Clients -> Readers]
  BY StateIs
<1>2. e.st = "none" /\ e' = FreshEntry /\ c' = [c EXCEPT ![k] = y] /\ broken' = broken
  BY DEF Request
<1>3. FreshEntry \in Entries /\ FreshEntry.st = "pending" /\ FreshEntry.hi = 0
  <2>1. FreshEntry \in Entries
    BY NoEntryGood DEF FreshEntry, Entries
  <2>2. FreshEntry.st = "pending" /\ FreshEntry.hi = 0
    BY DEF FreshEntry, NoEntry
  <2> QED BY <2>1, <2>2
<1>4. Alive(FreshEntry)
  <2>1. Bounds(FreshEntry) /\ Phase(FreshEntry)
    BY SizesAssumption DEF FreshEntry, NoEntry, Bounds, Phase
  <2>2. File(FreshEntry) /\ Kept(FreshEntry)
    BY DEF FreshEntry, NoEntry, File, Kept
  <2> QED BY <2>1, <2>2 DEF Alive
<1>5. Nobody(State)
  <2> SUFFICES ASSUME NEW j \in Clients PROVE c[j].on = FALSE
    BY <1>1 DEF Nobody
  <2>1. c[j].on \in BOOLEAN
    BY <1>1 DEF Readers
  <2>2. c[j].on # TRUE
    BY <1>1, <1>2 DEF Good, GoodClient, Reads
  <2> QED BY <2>1, <2>2, Zenon
<1>6. Become(t)
  <2>1. t.e = FreshEntry /\ t.c = [c EXCEPT ![k] = y] /\ t.broken = broken
    BY <1>1 DEF Turn, Put, State
  <2> QED BY <1>2, <2>1 DEF Become
<1>7. Good(s) /\ AllSettled(s) /\ s.e = FreshEntry
  BY <1>1, <1>3, <1>4, <1>5, NobodyGood DEF GoodEntry
<1> HIDE DEF s
<1>8. /\ y \in Readers /\ y.on = TRUE /\ y.cb = TRUE /\ y.pos = 0 /\ y.got = 0 /\ y.end = "no"
  BY DEF NoClient, Readers
<1> HIDE DEF y
<1>9. GoodClient(s.e, y)
  <2>1. ~Purged(FreshEntry) /\ Size(FreshEntry) = 0
    BY <1>3, <1>4, AliveNotPurged
  <2>2. Reads(FreshEntry, y)
    BY <1>3, <1>8, <2>1 DEF Reads
  <2>3. Source(FreshEntry, y)
    BY <1>8 DEF Source, FreshEntry, NoEntry
  <2> QED BY <1>7, <1>8, <2>2, <2>3 DEF GoodClient
<1>10. Good(t) /\ t.e = s.e /\ t.c[k] = y /\ \A j \in Clients : j # k => t.c[j] = s.c[j]
  BY <1>7, <1>8, <1>9, TurnGood
<1> HIDE DEF t
<1>11. AllSettled(t) /\ None(t.e)
  <2>1. ASSUME NEW j \in Clients PROVE Settled(t.e, t.c[j])
    <3>1. CASE j = k
      BY <1>3, <1>7, <1>8, <1>10, <3>1 DEF Settled
    <3>2. CASE j # k
      BY <1>7, <1>10, <3>2 DEF AllSettled, Settled
    <3> QED BY <3>1, <3>2
  <2> QED BY <1>3, <1>7, <1>10, <2>1 DEF AllSettled, None
<1> QED BY <1>6, <1>10, <1>11, BecomeKeeps DEF Fully

\* The header of the reply.
Headed(s, n, r, b) == [s EXCEPT !.e.clen = n, !.e.release = r, !.e.neg = b]

Heading(s, n, r, b) ==
    /\ n \in Nat \cup {-1} /\ r \in BOOLEAN /\ b \in BOOLEAN
    /\ s.e.release = TRUE => r = TRUE

LEMMA HeadedGood ==
    ASSUME NEW s, Good(s), s.e.st = "pending", NEW n, NEW r, NEW b, Heading(s, n, r, b),
           NEW t, t = Headed(s, n, r, b)
    PROVE  Good(t) /\ t.c = s.c /\ t.e.st = "pending" /\ t.e.hi = s.e.hi
<1> DEFINE x == [s.e EXCEPT !.clen = n, !.release = r, !.neg = b]
<1>1. /\ s \in States /\ s.e \in Entries /\ Alive(s.e) /\ s.e.inmem = FALSE
      /\ s.e.swap = "done" => s.e.release = TRUE
  BY PendingNotKept
<1>0. n \in Nat \cup {-1} /\ r \in BOOLEAN /\ b \in BOOLEAN /\ (s.e.release = TRUE => r = TRUE)
  BY Zenon DEF Heading
<1>2. t = Put(s, x)
  BY <1>1 DEF Put, States, Headed
<1>3. x \in Entries
  BY <1>0, <1>1 DEF Entries
<1>4. /\ OnDisk(s.e, x) /\ x.release = r /\ x.lo = s.e.lo /\ x.hi = s.e.hi
      /\ x.st = s.e.st /\ x.osz = s.e.osz /\ x.srv = s.e.srv /\ x.aborted = s.e.aborted
      /\ x.inmem = s.e.inmem
  BY <1>1 DEF Entries, OnDisk
<1> HIDE DEF x
<1>5. t \in States /\ t.e = x /\ t.c = s.c
  BY <1>1, <1>2, <1>3, PutParts
<1>6. Bounds(x) /\ Phase(x)
  BY <1>0, <1>1, <1>4 DEF Alive, Bounds, Phase, OnDisk
<1>7. File(x)
  BY <1>0, <1>1, <1>4 DEF Alive, File, OnDisk
<1>8. Kept(x)
  BY <1>1, <1>4, Zenon DEF Kept
<1>9. Good(t)
  <2>1. x.file = s.e.file /\ s.e.hi <= x.hi
    BY <1>1, <1>4, EntryTypes DEF OnDisk
  <2>2. Alive(x)
    BY <1>6, <1>7, <1>8 DEF Alive
  <2> QED BY <1>4, <1>5, <2>1, <2>2, PendingKept
<1> QED BY <1>4, <1>5, <1>9

\* A complete object, when the server lets go of it.
LEMMA CompletedGood ==
    ASSUME NEW s, Good(s), s.e.st = "pending", s.e.hi > 0, NEW io \in Outcomes,
           NEW t, t = FwdStateFree(StoreComplete(s, io))
    PROVE  Fully(t)
<1> DEFINE u == StoreComplete(s, io)
<1>1. Good(u) /\ AllSettled(u) /\ SameOn(s, u) /\ u.e.st = "ok" /\ u.e.hi = s.e.hi
  BY StoreCompleteGood
<1>2. t = FwdStateFree(u)
  OBVIOUS
<1> HIDE DEF u
<1>3. u.e.hi # 0
  BY <1>1
<1>4. Alive(u.e)
  BY <1>1, <1>3, GoodAlive
<1> QED BY <1>1, <1>2, <1>4, FwdStateFreeGood DEF Fully

LEMMA ServerReadKeeps ==
    ASSUME IInv, NEW n \in 1..MaxRead, NEW kind, NEW clen \in Lengths \cup {-1},
           NEW io \in Outcomes, ServerRead(n, kind, clen, io)
    PROVE  IInv'
<1> DEFINE r == e.release \/ kind = "private"
           b == e.neg \/ kind = "negative"
           s == Headed(State, clen, r, b)
           u == StoreAppend(s, n, io)
           t == Transferred(u, io)
<1>1. Good(State) /\ State.e = e /\ State \in States /\ e \in Entries
  BY StateIs
<1>2. e.st = "pending" /\ e.hi + n <= MaxLen
  BY DEF ServerRead
<1>3. Become(t)
  <2> DEFINE w == [State EXCEPT !.e.clen = clen, !.e.release = @ \/ kind = "private",
                                !.e.neg = @ \/ kind = "negative"]
  <2>1. Become(Transferred(StoreAppend(w, n, io), io))
    BY DEF ServerRead
  <2>2. w = s
    BY <1>1 DEF Headed, States, Entries
  <2> HIDE DEF w, s
  <2> QED BY <2>1, <2>2
<1>4. r \in BOOLEAN /\ b \in BOOLEAN /\ (State.e.release = TRUE => r = TRUE)
  BY <1>1, Zenon
<1>5. clen \in Nat \cup {-1} /\ n \in Nat /\ n > 0 /\ e.hi \in Nat
  BY <1>1, SizesAssumption, EntryTypes
<1>a. s = Headed(State, clen, r, b) /\ State.e.st = "pending"
  BY <1>1, <1>2
<1> HIDE DEF r, b, s
<1>6. Good(s) /\ s.e.st = "pending" /\ s.e.hi = e.hi
  <2>1. Heading(State, clen, r, b)
    BY <1>4, <1>5, Zenon DEF Heading
  <2>2. Good(s) /\ s.c = State.c /\ s.e.st = "pending" /\ s.e.hi = State.e.hi
    BY <1>1, <1>a, <2>1, HeadedGood
  <2> QED BY <1>1, <2>2
<1>7. s.e.hi + n <= MaxLen
  BY <1>2, <1>6
<1>8. /\ Good(u) /\ AllSettled(u) /\ SameOn(s, u) /\ u.e.st = "pending"
      /\ u.e.hi = s.e.hi + n /\ u.e.clen = s.e.clen /\ (s.e.release = TRUE => u.e.release = TRUE)
  BY <1>5, <1>6, <1>7, StoreAppendGood
<1> HIDE DEF u
<1>9. u.e.hi > 0
  BY <1>5, <1>6, <1>8
<1>10. Fully(t)
  <2>1. CASE u.e.hi = u.e.clen
    <3>1. t = FwdStateFree(StoreComplete(u, io))
      BY <2>1 DEF Transferred
    <3> HIDE DEF t
    <3> QED BY <1>8, <1>9, <3>1, CompletedGood
  <2>2. CASE u.e.hi # u.e.clen
    <3>1. t = u
      BY <2>2 DEF Transferred
    <3> HIDE DEF t
    <3> QED BY <1>8, <3>1 DEF Fully, None
  <2> QED BY <2>1, <2>2
<1> HIDE DEF t
<1> QED BY <1>3, <1>10, BecomeKeeps

LEMMA ServerKeeps ==
    ASSUME IInv, Server
    PROVE  IInv'
<1>1. Good(State) /\ AllSettled(State) /\ None(State.e) /\ State.e = e /\ State.c = c
      /\ State \in States /\ e \in Entries
  BY StateIs
<1>2. CASE ServerDefer
  <2> DEFINE t == [State EXCEPT !.e.defer = TRUE]
  <2>1. e.st = "pending" /\ e' = [e EXCEPT !.defer = TRUE] /\ c' = c /\ broken' = broken
    BY <1>2 DEF ServerDefer
  <2>2. Become(t)
    <3>1. t.e = [e EXCEPT !.defer = TRUE] /\ t.c = c /\ t.broken = broken
      BY <1>1 DEF State
    <3> HIDE DEF t
    <3> QED BY <2>1, <3>1 DEF Become
  <2>3. Alive(State.e)
    BY <1>1, <2>1, GoodAlive
  <2>4. Good(t) /\ Quiet(State, t)
    BY <1>1, <2>3, DeferGood
  <2> HIDE DEF t
  <2>5. AllSettled(t) /\ t.e.st = "pending"
    BY <1>1, <2>1, <2>4, QuietSettled DEF Quiet, Fixed
  <2> QED BY <2>2, <2>4, <2>5, BecomeKeeps DEF Fully, None
<1>3. CASE \E n \in 1..MaxRead, kind \in {"public", "negative", "private"},
               clen \in Lengths \cup {-1}, io \in Outcomes : ServerRead(n, kind, clen, io)
  BY <1>3, ServerReadKeeps
<1>4. ASSUME NEW io \in Outcomes, ServerEof(io) PROVE IInv'
  <2> DEFINE t == FwdStateFree(StoreComplete(State, io))
  <2>1. State.e.st = "pending" /\ State.e.hi > 0 /\ Become(t)
    BY <1>1, <1>4 DEF ServerEof
  <2>2. Fully(t)
    BY <1>1, <2>1, CompletedGood
  <2> HIDE DEF t
  <2> QED BY <2>1, <2>2, BecomeKeeps
<1>5. ASSUME NEW io \in Outcomes, ServerFail(io) PROVE IInv'
  <2> DEFINE u == StoreRequestFailed(State, io)
             t == FwdStateFree(u)
  <2>1. State.e.st = "pending" /\ Become(t)
    BY <1>1, <1>5 DEF ServerFail
  <2>2. Good(u) /\ AllSettled(u) /\ u.e.st = "ok" /\ u.e.hi > 0
    BY <1>1, <2>1, RequestFailedGood
  <2> HIDE DEF u
  <2>3. u.e.hi # 0
    BY <2>2
  <2>4. Alive(u.e)
    BY <2>2, <2>3, GoodAlive
  <2>5. Fully(t)
    BY <2>2, <2>4, FwdStateFreeGood DEF Fully
  <2> HIDE DEF t
  <2> QED BY <2>1, <2>5, BecomeKeeps
<1>6. CASE FwdAbort
  <2> DEFINE t == FwdStateFree(State)
  <2>1. e.srv /\ e.st = "ok" /\ Become(t)
    BY <1>6 DEF FwdAbort
  <2>2. Alive(State.e)
    <3>1. e.srv = TRUE
      BY <1>1, <2>1, EntryFlags, Zenon
    <3>2. ~Purged(State.e)
      BY <1>1, <3>1, Zenon DEF Purged
    <3> QED BY <1>1, <3>2 DEF Good, GoodEntry
  <2>3. Fully(t)
    BY <1>1, <2>1, <2>2, FwdStateFreeGood DEF Fully
  <2> HIDE DEF t
  <2> QED BY <2>1, <2>3, BecomeKeeps
<1> QED BY <1>2, <1>3, <1>4, <1>5, <1>6 DEF Server

LEMMA MemPurgeKeeps ==
    ASSUME IInv, MemPurge
    PROVE  IInv'
<1> DEFINE t == PurgeMem(State)
<1>1. Good(State) /\ State.e = e /\ e \in Entries
  BY StateIs
<1>2. e.inmem /\ On(State) = {} /\ Become(t)
  BY DEF MemPurge
<1>3. e.inmem = TRUE
  BY <1>1, <1>2, EntryFlags, Zenon
<1>4. Nobody(State)
  BY <1>1, <1>2, NobodyOn
<1>5. Alive(e)
  <2>1. ~Purged(e)
    BY <1>3, Zenon DEF Purged
  <2> QED BY <1>1, <2>1 DEF Good, GoodEntry
<1>6. e.srv = FALSE /\ (e.swap = "done" => e.release = FALSE)
  BY <1>3, <1>5 DEF Alive, Kept
<1>7. Fully(t)
  BY <1>1, <1>4, <1>6, PurgeMemGood DEF Fully
<1> HIDE DEF t
<1> QED BY <1>2, <1>7, BecomeKeeps
-----------------------------------------------------------------------------
LEMMA InitIInv ==
    ASSUME Init
    PROVE  IInv
<1>1. e = NoEntry /\ c = [k \in Clients |-> NoClient] /\ broken = {}
  BY DEF Init
<1>2. State.e = e /\ State.c = c /\ State = [e |-> e, c |-> c, broken |-> broken]
  BY DEF State
<1>3. NoClient \in Readers /\ NoClient.on = FALSE /\ NoClient.pos <= NoClient.got
  BY DEF NoClient, Readers
<1>4. State \in States
  BY <1>1, <1>2, <1>3, NoEntryGood DEF States
<1>5. \A k \in Clients : State.c[k] = NoClient
  BY <1>1, <1>2
<1>6. ~(NoClient.on = TRUE)
  BY <1>3, Zenon
<1>7. \A k \in Clients : GoodClient(State.e, State.c[k]) /\ Settled(State.e, State.c[k])
  BY <1>3, <1>5, <1>6 DEF GoodClient, Settled
<1> QED BY <1>1, <1>2, <1>4, <1>7, NoEntryGood DEF IInv, Fully, Good, AllSettled, None

LEMMA NextIInv ==
    ASSUME IInv, [Next]_vars
    PROVE  IInv'
<1>1. CASE UNCHANGED vars
  <2>1. State' = State
    BY <1>1 DEF vars, State
  <2> QED BY <2>1 DEF IInv, Fully
<1>2. ASSUME NEW k \in Clients, Request(k) PROVE IInv'
  BY <1>2, RequestKeeps
<1>3. ASSUME NEW k \in Clients, NEW io \in Outcomes, Hit(k, io) PROVE IInv'
  BY <1>3, HitKeeps
<1>4. ASSUME NEW k \in Clients, NEW io \in Outcomes, CopyMore(k, io) PROVE IInv'
  BY <1>4, CopyMoreKeeps
<1>5. ASSUME NEW k \in Clients, NEW io \in Outcomes, NEW abort \in BOOLEAN, Unregister(k, io, abort)
      PROVE  IInv'
  BY <1>5, UnregisterKeeps
<1>6. CASE MemPurge
  BY <1>6, MemPurgeKeeps
<1>7. CASE Server
  BY <1>7, ServerKeeps
<1> QED BY <1>1, <1>2, <1>3, <1>4, <1>5, <1>6, <1>7 DEF Next

\* The inductive invariant holds throughout.
LEMMA Invariance == Spec => []IInv
BY InitIInv, NextIInv, PTL DEF Spec

\* The object is whole in memory, on disk, or in both, and everybody who reads
\* it has a source for the byte that comes next (StoreEntry, MemObject and
\* store_client as store.c, store_swapout.c and store_client.c keep them).
LEMMA TypeHolds ==
    ASSUME IInv
    PROVE  TypeOK
<1>1. Good(State) /\ State.e = e /\ State.c = c /\ e \in Entries /\ c \in [Clients -> Readers]
  BY StateIs
<1>2. /\ e.st \in {"none", "pending", "ok"} /\ e.swap \in {"none", "writing", "done"}
      /\ e.lo \in Nat /\ e.hi \in Nat /\ e.file \in Nat /\ e.queue \in Nat
  BY <1>1, EntryTypes
<1>3. GoodEntry(e)
  BY <1>1 DEF Good
<1>4. e.lo <= e.hi /\ e.hi <= MaxLen /\ e.file <= MaxLen /\ e.queue <= e.hi
  BY <1>2, <1>3, SizesAssumption DEF GoodEntry, Purged, Alive, Bounds
<1>5. e.sio <=> e.swap = "writing"
  <2>1. e.sio \in BOOLEAN
    BY <1>1, EntryFlags
  <2>2. e.sio = TRUE <=> e.swap = "writing"
    <3>1. CASE Purged(e)
      BY <3>1, Zenon DEF Purged
    <3>2. CASE Alive(e)
      BY <3>2 DEF Alive, File
    <3> QED BY <1>3, <3>1, <3>2 DEF GoodEntry
  <2> QED BY <2>1, <2>2, Zenon
<1>6. ASSUME NEW k \in Clients PROVE c[k].type \in {"mem", "disk"} /\ c[k].pos <= c[k].got
  BY <1>1 DEF Good, GoodClient, Readers
<1> QED BY <1>2, <1>4, <1>5, <1>6 DEF TypeOK

LEMMA BrokenNever ==
    ASSUME IInv
    PROVE  AssertionsHold /\ BytesInOrder
<1>1. State \in States /\ State.broken = broken
  BY StateIs DEF State
<1>2. broken = {}
  BY <1>1, StateParts
<1> QED BY <1>2 DEF AssertionsHold, BytesInOrder

LEMMA OnReads ==
    ASSUME IInv, NEW k \in On(State)
    PROVE  /\ k \in Clients /\ Reads(e, c[k]) /\ Source(e, c[k])
           /\ c[k].pos \in Nat /\ c[k].got \in Nat /\ c[k].pos <= c[k].got
<1>1. Good(State) /\ State.e = e /\ State.c = c /\ c \in [Clients -> Readers]
  BY StateIs
<1>2. k \in Clients /\ c[k].on
  BY <1>1 DEF On
<1>3. c[k] \in Readers
  BY <1>1, <1>2
<1>4. c[k].on = TRUE
  <2>1. c[k].on \in BOOLEAN
    BY <1>3 DEF Readers
  <2> QED BY <1>2, <2>1, Zenon
<1>5. GoodClient(e, c[k])
  BY <1>1, <1>2 DEF Good
<1> QED BY <1>2, <1>3, <1>4, <1>5 DEF GoodClient, Readers

LEMMA DataKept ==
    ASSUME IInv
    PROVE  ReaderDataKept
<1> SUFFICES ASSUME NEW k \in On(State), c[k].end = "no", c[k].got < e.lo
             PROVE  c[k].type = "disk" /\ c[k].got < e.file
  BY DEF ReaderDataKept
<1>1. Source(e, c[k]) /\ c[k].pos \in Nat /\ c[k].got \in Nat /\ c[k].pos <= c[k].got
  BY OnReads
<1>2. e.lo \in Nat /\ e.file \in Nat
  BY StateIs, EntryTypes
<1> DEFINE y == c[k]
<1>3. y.pos < e.lo
  <2>1. y.pos \in Nat /\ y.got \in Nat /\ y.pos <= y.got /\ y.got < e.lo
    BY <1>1
  <2> HIDE DEF y
  <2> QED BY <1>2, <2>1
<1>4. y.type = "disk" /\ e.lo <= e.file
  BY <1>1, <1>3 DEF Source
<1>5. y.got \in Nat /\ y.got < e.lo
  BY <1>1
<1> HIDE DEF y
<1>6. y.type = "disk" /\ y.got < e.file
  BY <1>2, <1>4, <1>5
<1> QED BY <1>6 DEF y

LEMMA EndsWhole ==
    ASSUME IInv
    PROVE  EndMeansWhole
<1> SUFFICES ASSUME NEW k \in On(State), c[k].end = "eof" PROVE c[k].got = e.osz
  BY DEF EndMeansWhole
<1> QED BY OnReads DEF Reads

LEMMA NoneForgotten ==
    ASSUME IInv
    PROVE  NobodyForgotten
<1> SUFFICES ASSUME e.st = "ok", NEW k \in Clients, Waiting(State, k) PROVE FALSE
  BY DEF NobodyForgotten
<1>1. Good(State) /\ AllSettled(State) /\ State.e = e /\ State.c = c /\ c \in [Clients -> Readers]
  BY StateIs
<1>2. c[k] \in Readers
  BY <1>1
<1>3. c[k].on \in BOOLEAN /\ c[k].cb \in BOOLEAN
  BY <1>2 DEF Readers
<1>4. c[k].on = TRUE /\ c[k].cb = TRUE
  BY <1>1, <1>3, Zenon DEF Waiting
<1>5. Settled(e, c[k])
  BY <1>1 DEF AllSettled
<1> QED BY <1>4, <1>5 DEF Settled
-----------------------------------------------------------------------------
(***************************************************************************)
(* The theorems.                                                           *)
(***************************************************************************)
\* The offsets of the object keep their order (inmem_lo <= inmem_hi,
\* queue_offset <= inmem_hi, what the file holds), swapout.sio is open exactly
\* while the file is written, and no client has read less than it has sent on,
\* for any number of clients and all sizes.
THEOREM TypeCorrect == Spec => []TypeOK
<1>1. IInv => TypeOK
  BY TypeHolds
<1> QED BY <1>1, Invariance, PTL

\* No assert() of store_client.c and store_swapout.c is reached with a false
\* condition, and storeSwapOut always finds the page it goes on from: whatever
\* the clients, the sizes, and the file operations that fail.
THEOREM AssertionsCorrect == Spec => []AssertionsHold
<1>1. IInv => AssertionsHold
  BY BrokenNever
<1> QED BY <1>1, Invariance, PTL

\* storeClientFileRead is never sent behind the end of what storeSwapOut wrote,
\* and storeClientReadHeader never hands over the wrong bytes.
THEOREM OrderCorrect == Spec => []BytesInOrder
<1>1. IInv => BytesInOrder
  BY BrokenNever
<1> QED BY <1>1, Invariance, PTL

\* storeSwapOutMaintainMemObject frees no page a reader still needs: a client
\* whose place is gone from memory is a disk client, and its bytes are in the
\* swap file.
THEOREM ReaderDataCorrect == Spec => []ReaderDataKept
<1>1. IInv => ReaderDataKept
  BY DataKept
<1> QED BY <1>1, Invariance, PTL

\* A client that storeClientCopy3 tells the end (a call back with 0) has every
\* byte of the object, whether its length came from storeComplete, from an
\* abort or from the meta data of the swap file.
THEOREM EndCorrect == Spec => []EndMeansWhole
<1>1. IInv => EndMeansWhole
  BY EndsWhole
<1> QED BY <1>1, Invariance, PTL

\* InvokeHandlers of storeComplete, storeAbort and storeRequestFailed reaches
\* everybody: no client waits for an object that has ended.
THEOREM NobodyForgottenCorrect == Spec => []NobodyForgotten
<1>1. IInv => NobodyForgotten
  BY NoneForgotten
<1> QED BY <1>1, Invariance, PTL
-----------------------------------------------------------------------------
(***************************************************************************)
(* A deferred read.  The invariant above does not say why the connection   *)
(* to the server is read again; for that the pages are counted: pages are  *)
(* freed as a whole, a file that is open lacks less than one of them, and  *)
(* a released object that everybody has read keeps few of them.            *)
(***************************************************************************)
\* A page begins here.
OnPage(a) == \E m \in Nat : a = m * Page

\* Between two pages lies a page.
LEMMA PageGap ==
    ASSUME NEW a, NEW b, OnPage(a), OnPage(b), a < b
    PROVE  a + Page <= b
<1>1. PICK m \in Nat : a = m * Page
  BY DEF OnPage
<1>2. PICK n \in Nat : b = n * Page
  BY DEF OnPage
<1>3. Page \in Nat /\ Page > 0
  BY SizesAssumption
<1>4. m < n
  <2> SUFFICES ASSUME n <= m PROVE FALSE
    OBVIOUS
  <2>1. PICK d \in Nat : m = n + d
    <3>1. m - n \in Nat /\ m = n + (m - n)
      OBVIOUS
    <3> QED BY <3>1
  <2>2. m * Page = n * Page + d * Page /\ d * Page \in Nat /\ n * Page \in Nat
    BY <1>3, <2>1
  <2> QED BY <1>1, <1>2, <2>2
<1>5. PICK d \in Nat : n = (m + 1) + d
  <2>1. n - (m + 1) \in Nat /\ n = (m + 1) + (n - (m + 1))
    BY <1>4
  <2> QED BY <2>1
<1>6. n * Page = (m + 1) * Page + d * Page /\ d * Page \in Nat
  BY <1>3, <1>5
<1>7. (m + 1) * Page = m * Page + Page /\ m * Page \in Nat
  BY <1>3
<1> QED BY <1>1, <1>2, <1>3, <1>6, <1>7

LEMMA PageOfOnPage ==
    ASSUME NEW a \in Nat
    PROVE  OnPage(PageOf(a))
BY PageBelow DEF OnPage, PageOf

LEMMA ZeroOnPage == OnPage(0)
<1>1. 0 = 0 * Page
  BY SizesAssumption
<1> QED BY <1>1 DEF OnPage

LEMMA MorePages ==
    ASSUME NEW a, OnPage(a), NEW k \in Nat
    PROVE  OnPage(a + k * Page)
<1>1. PICK m \in Nat : a = m * Page
  BY DEF OnPage
<1>2. Page \in Nat
  BY SizesAssumption
<1>3. a + k * Page = (m + k) * Page /\ m + k \in Nat
  BY <1>1, <1>2
<1> QED BY <1>3 DEF OnPage

\* stmemFreeDataUpto frees all pages below the target but the last.
LEMMA FreedFar ==
    ASSUME NEW lo \in Nat, NEW hi \in Nat, lo < hi \/ lo = 0, NEW target \in Nat, OnPage(lo),
           NEW z, z = FreeDataUpto(lo, hi, target)
    PROVE  OnPage(z) /\ (hi <= z + Page \/ target < z + Page)
<1> DEFINE tail == IF hi = 0 THEN 0 ELSE PageOf(hi - 1)
           page == IF target >= hi THEN tail ELSE PageOf(target)
<1>0. Page \in Nat /\ Page > 0
  BY SizesAssumption
<1>1. z = Most(lo, Least(page, tail))
  BY DEF FreeDataUpto, PageOf
<1>2. tail \in Nat /\ hi <= tail + Page /\ OnPage(tail)
  <2>1. CASE hi = 0
    BY <1>0, <2>1, ZeroOnPage
  <2>2. CASE hi # 0
    <3>1. hi - 1 \in Nat
      BY <2>2
    <3>2. PageOf(hi - 1) \in Nat /\ hi - 1 < PageOf(hi - 1) + Page /\ OnPage(PageOf(hi - 1))
      BY <3>1, PageBelow, PageOfOnPage
    <3> QED BY <1>0, <2>2, <3>2
  <2> QED BY <2>1, <2>2
<1>3. page \in Nat /\ (page = tail \/ target < page + Page) /\ OnPage(page)
  <2>1. PageOf(target) \in Nat /\ target < PageOf(target) + Page /\ OnPage(PageOf(target))
    BY PageBelow, PageOfOnPage
  <2> HIDE DEF tail
  <2> QED BY <1>2, <2>1
<1> HIDE DEF tail, page
<1>4. z = lo \/ z = page \/ z = tail
  BY <1>1 DEF Most, Least
<1>5. OnPage(z)
  BY <1>2, <1>3, <1>4
<1> QED BY <1>0, <1>1, <1>2, <1>3, <1>5 DEF Most, Least

\* The lowest reader is one of them or there is none, and never beyond one.
LEMMA LowestIs ==
    ASSUME NEW s, Good(s), s.e.st = "pending"
    PROVE  /\ Lowest(s) \in Nat
           /\ Lowest(s) = s.e.hi + 1 \/ \E k \in Clients : s.c[k].on = TRUE /\ Lowest(s) = s.c[k].pos
           /\ (\E k \in Clients : s.c[k].on = TRUE) => Lowest(s) <= s.e.hi
<1> DEFINE all == {s.c[k].pos : k \in On(s)}
           counted == {s.c[k].pos : k \in {j \in On(s) : ~s.e.sio \/ s.c[j].type = "mem"}}
           T == {s.e.hi + 1} \cup counted
           lowest == Min(T)
<1>0. s.e \in Entries /\ s.e.hi \in Nat /\ Alive(s.e)
  BY PendingNotKept, EntryTypes
<1>1. \A k \in Clients : k \in On(s) <=> s.c[k].on = TRUE
  <2>1. \A k \in Clients : s.c[k].on \in BOOLEAN
    BY StateParts DEF Good, Readers
  <2> QED BY <2>1, Zenon DEF On
<1>2. \A k \in On(s) : k \in Clients
  BY DEF On
<1>3. ASSUME NEW k \in On(s) PROVE s.c[k].pos \in 0..s.e.hi
  <2>1. k \in Clients /\ s.c[k].on = TRUE
    BY <1>1, <1>2
  <2>a. s.c[k].pos \in 0..MaxLen /\ s.c[k].got \in 0..MaxLen /\ s.c[k].pos <= s.c[k].got
    BY <2>1, ClientPlace
  <2>2. s.c[k].pos \in Nat /\ s.c[k].got \in Nat /\ s.c[k].pos <= s.c[k].got
    BY <2>a, SizesAssumption
  <2>3. s.c[k].got <= s.e.hi
    BY <1>0, <2>1, AliveNotPurged DEF Good, GoodClient, Reads
  <2> QED BY <1>0, <2>2, <2>3
<1>4. all \subseteq 0..s.e.hi /\ counted \subseteq all
  BY <1>3
<1>5. Lowest(s) = IF all # {} /\ Max(all) < lowest THEN Max(all) ELSE lowest
  BY DEF Lowest
<1>6. T \subseteq Nat /\ T # {} /\ s.e.hi + 1 \in T
  BY <1>0, <1>4
<1>7. lowest \in T /\ lowest <= s.e.hi + 1
  <2> HIDE DEF T
  <2> QED BY <1>6, MinNat
<1>8. all # {} => Max(all) \in all
  <2> HIDE DEF all
  <2> QED BY <1>0, <1>4, MaxBelow
<1>9. lowest \in Nat /\ (lowest = s.e.hi + 1 \/ lowest \in all)
  BY <1>4, <1>6, <1>7
<1>10. all # {} => Max(all) \in 0..s.e.hi
  BY <1>4, <1>8
<1>11. \A y \in all : \E k \in Clients : s.c[k].on = TRUE /\ y = s.c[k].pos
  BY <1>1, <1>2
<1>12. (\E k \in Clients : s.c[k].on = TRUE) => all # {}
  BY <1>1
<1> HIDE DEF all, lowest, T, counted
<1>13. Lowest(s) \in Nat /\ (Lowest(s) = s.e.hi + 1 \/ Lowest(s) \in all)
  BY <1>5, <1>8, <1>9, <1>10
<1>14. all # {} => Lowest(s) <= s.e.hi
  BY <1>0, <1>5, <1>9, <1>10
<1> QED BY <1>11, <1>12, <1>13, <1>14

Paged(x) == OnPage(x.lo) /\ OnPage(x.queue)

\* What freeing the pages up to a leaves.
FreedTo(s, a, t) ==
    \/ a <= s.e.lo /\ t = s
    \/ /\ a \in Nat /\ OnPage(t.e.lo) /\ s.e.lo <= t.e.lo
       /\ s.e.hi <= t.e.lo + Page \/ a < t.e.lo + Page
       /\ t.e.defer = (s.e.defer /\ s.e.hi - t.e.lo > Gap)

LEMMA FreePagesFar ==
    ASSUME NEW s, Good(s), Alive(s.e), Paged(s.e), NEW able, Ready(s.e, able), s.e.inmem = FALSE,
           NEW t, t = FreePages(s, able)
    PROVE  FreedTo(s, Aim(s, able), t)
<1> DEFINE a == Aim(s, able)
           l == s.e.lo
           h == s.e.hi
           z == FreeDataUpto(l, h, a)
<1>0. s \in States /\ l \in Nat /\ h \in Nat /\ s.e.queue \in Nat
  BY StateParts, EntryTypes DEF Good
<1>1. t = IF a <= l THEN s ELSE Freed(s, z)
  BY DEF FreePages, Aim
<1>2. a \in Int
  <2>1. Lowest(s) \in Nat
    BY LowestBelow
  <2> DEFINE w == WantedLo(s, able)
             q == s.e.queue
  <2>2. w \in Nat /\ q \in Nat
    BY <1>0, <2>1 DEF WantedLo
  <2>3. a = Least(w, q - 1) \/ a = w
    BY DEF Aim, CappedLo
  <2> HIDE DEF w, a, q
  <2> QED BY <2>2, <2>3 DEF Least
<1>3. CASE a <= l
  BY <1>1, <1>3 DEF FreedTo
<1>4. CASE ~(a <= l)
  <2>1. t = Freed(s, z) /\ a > s.e.lo
    BY <1>0, <1>1, <1>2, <1>4
  <2>2. a \in Nat
    BY <2>1, AimIs
  <2>3. (l < h \/ l = 0) /\ OnPage(l)
    BY DEF Alive, Bounds, Paged
  <2>4. z = FreeDataUpto(l, h, a)
    OBVIOUS
  <2> HIDE DEF a, l, h, z
  <2>5. z \in Nat /\ l <= z
    BY <1>0, <2>2, <2>3, <2>4, FreedUpto
  <2>6. OnPage(z) /\ (h <= z + Page \/ a < z + Page)
    BY <1>0, <2>2, <2>3, <2>4, FreedFar
  <2>7. t.e.lo = z /\ t.e.defer = (s.e.defer /\ s.e.hi - z > Gap)
    BY <1>0, <2>1, <2>5, FreedParts DEF l
  <2> QED BY <2>2, <2>5, <2>6, <2>7 DEF a, l, h, FreedTo
<1> HIDE DEF a
<1> QED BY <1>3, <1>4 DEF a

\* If every reader is near the end, so is the first page kept.
Near(s) == \A k \in Clients : s.c[k].on = TRUE => s.e.hi <= s.c[k].pos + Buf
Swept(s) == Near(s) => s.e.hi <= s.e.lo + Page + Buf

\* Maintaining memory and swapping out free pages, resume a deferred read but do
\* not defer it, and leave less than a page unwritten if they leave the file open.
Eased(s, t) ==
    /\ s.e.lo <= t.e.lo /\ Paged(t.e)
    /\ t.e.defer = TRUE => s.e.defer = TRUE
    /\ t.e.sio = TRUE => \/ s.e.sio = TRUE /\ t.e.queue = s.e.queue
                         \/ t.e.hi < t.e.queue + Page

LEMMA EasedSelf ==
    ASSUME NEW s, Good(s), Paged(s.e)
    PROVE  Eased(s, s)
<1>1. s.e.lo \in Nat
  BY StateParts, EntryTypes DEF Good
<1>2. s.e.lo <= s.e.lo
  BY <1>1
<1> QED BY <1>2, Zenon DEF Eased

LEMMA EasedTrans ==
    ASSUME NEW s, NEW t, NEW u, Good(s), Good(t), Good(u), Quiet(t, u), Eased(s, t), Eased(t, u)
    PROVE  Eased(s, u)
<1>1. s.e.lo \in Nat /\ t.e.lo \in Nat /\ u.e.lo \in Nat
  BY StateParts, EntryTypes DEF Good
<1>2. s.e.lo <= u.e.lo
  BY <1>1 DEF Eased
<1>3. u.e.hi = t.e.hi
  BY DEF Quiet, Fixed
<1>4. u.e.defer = TRUE => s.e.defer = TRUE
  BY DEF Eased
<1>5. u.e.sio = TRUE => \/ s.e.sio = TRUE /\ u.e.queue = s.e.queue
                        \/ u.e.hi < u.e.queue + Page
  BY <1>3 DEF Eased
<1> QED BY <1>2, <1>4, <1>5 DEF Eased

LEMMA SweptKept ==
    ASSUME NEW s, NEW t, Good(s), Good(t), Quiet(s, t), Swept(s), s.e.lo <= t.e.lo
    PROVE  Swept(t)
<1>1. s.e.lo \in Nat /\ t.e.lo \in Nat /\ s.e.hi \in Nat /\ Page \in Nat /\ Buf \in Nat
  BY StateParts, EntryTypes, SizesAssumption DEF Good
<1>2. t.e.hi = s.e.hi /\ t.c = s.c
  BY DEF Quiet, Fixed
<1>3. Near(t) => Near(s)
  BY <1>2 DEF Near
<1> QED BY <1>1, <1>2, <1>3 DEF Swept

\* Maintaining memory leaves a released object swept.
Tidied(s, t) == Eased(s, t) /\ (t.e.release = TRUE => Swept(t))

\* storeSwapOutMaintainMemObject once the file is closed or written.
LEMMA FreePagesEased ==
    ASSUME NEW s, Good(s), s.e.st = "pending", Paged(s.e), NEW able, Ready(s.e, able),
           NEW t, t = FreePages(s, able)
    PROVE  Tidied(s, t)
<1>1. /\ s \in States /\ s.e \in Entries /\ Alive(s.e) /\ s.e.inmem = FALSE
  BY PendingNotKept
<1>2. Good(t) /\ Trimmed(s, t)
  BY <1>1, FreePagesGood
<1>3. /\ s.e.lo \in Nat /\ s.e.hi \in Nat /\ t.e.lo \in Nat /\ t.e.hi = s.e.hi /\ t.c = s.c
      /\ t.e.queue = s.e.queue /\ t.e.sio = s.e.sio /\ s.e.lo <= t.e.lo /\ t.e.release = s.e.release
  BY <1>1, <1>2, StateParts, EntryTypes DEF Good, Trimmed, Fixed, OnDisk
<1>4. \/ Aim(s, able) <= s.e.lo /\ t = s
      \/ /\ Aim(s, able) \in Nat /\ OnPage(t.e.lo) /\ s.e.lo <= t.e.lo
         /\ s.e.hi <= t.e.lo + Page \/ Aim(s, able) < t.e.lo + Page
         /\ t.e.defer = (s.e.defer /\ s.e.hi - t.e.lo > Gap)
  <2>1. FreedTo(s, Aim(s, able), t)
    BY <1>1, FreePagesFar
  <2> QED BY <2>1 DEF FreedTo
<1>5. Eased(s, t)
  <2>1. OnPage(t.e.lo)
    BY <1>4 DEF Paged
  <2>2. t.e.defer = TRUE => s.e.defer = TRUE
    <3>1. s.e.defer \in BOOLEAN
      BY <1>1, EntryFlags
    <3>2. t.e.defer = s.e.defer \/ t.e.defer = (s.e.defer /\ s.e.hi - t.e.lo > Gap)
      BY <1>4
    <3> QED BY <3>1, <3>2, Zenon
  <2> QED BY <1>3, <2>1, <2>2 DEF Eased, Paged
<1>6. ASSUME t.e.release = TRUE PROVE Swept(t)
  <2>1. able = FALSE
    BY <1>3, <1>6, Zenon DEF Ready
  <2>2. Aim(s, able) = Lowest(s)
    BY <2>1 DEF Aim, CappedLo, WantedLo
  <2>3. /\ Lowest(s) \in Nat
        /\ Lowest(s) = s.e.hi + 1 \/ \E k \in Clients : s.c[k].on = TRUE /\ Lowest(s) = s.c[k].pos
    BY LowestIs
  <2>4. Page \in Nat /\ Buf \in Nat
    BY SizesAssumption
  <2> SUFFICES ASSUME Near(t) PROVE t.e.hi <= t.e.lo + Page + Buf
    BY DEF Swept
  <2>5. s.e.hi <= Lowest(s) + Buf
    <3>1. \A k \in Clients : s.c[k].on = TRUE => s.e.hi <= s.c[k].pos + Buf
      BY <1>3 DEF Near
    <3> QED BY <1>3, <2>3, <2>4, <3>1
  <2>6. s.e.hi <= t.e.lo + Page \/ Lowest(s) <= t.e.lo + Page
    BY <1>3, <1>4, <2>2, <2>3, <2>4
  <2> QED BY <1>3, <2>3, <2>4, <2>5, <2>6
<1> QED BY <1>5, <1>6 DEF Tidied

\* A released object whose pages are freed, seen from before its release.
LEMMA TidiedAfter ==
    ASSUME NEW s, NEW u, NEW t, Good(s), Good(u), Good(t), Quiet(u, t), Eased(s, u), Tidied(u, t)
    PROVE  Tidied(s, t)
BY EasedTrans DEF Tidied

\* What changes neither the pages nor what is written.
LEMMA EasedStill ==
    ASSUME NEW s, Good(s), Paged(s.e), NEW t, t.e.lo = s.e.lo, OnPage(t.e.queue),
           t.e.defer = s.e.defer, t.e.sio = FALSE \/ (t.e.sio = s.e.sio /\ t.e.queue = s.e.queue)
    PROVE  Eased(s, t)
<1>1. s.e.lo \in Nat
  BY StateParts, EntryTypes DEF Good
<1>2. s.e.lo <= t.e.lo /\ Paged(t.e)
  BY <1>1 DEF Paged
<1> QED BY <1>2, Zenon DEF Eased

LEMMA ReleaseEased ==
    ASSUME NEW s, Good(s), s.e.st = "pending", Paged(s.e), NEW u, u = ReleaseRequest(s)
    PROVE  /\ Good(u) /\ Quiet(s, u) /\ u.e.release = TRUE /\ OnDisk(s.e, u.e) /\ Eased(s, u)
           /\ u.e.st = "pending" /\ Paged(u.e)
<1>1. Alive(s.e) /\ s.e.inmem = FALSE
  BY PendingNotKept
<1>2. /\ Good(u) /\ Quiet(s, u) /\ u.e.release = TRUE /\ OnDisk(s.e, u.e) /\ u.e.lo = s.e.lo
      /\ u.e.defer = s.e.defer
  BY <1>1, ReleaseGood
<1>3. u.e.queue = s.e.queue /\ u.e.sio = s.e.sio /\ u.e.st = "pending"
  BY <1>2 DEF OnDisk, Quiet, Fixed
<1>4. Paged(u.e)
  BY <1>2, <1>3 DEF Paged
<1>5. Eased(s, u)
  BY <1>2, <1>3, EasedStill DEF Paged
<1> QED BY <1>2, <1>3, <1>4, <1>5

LEMMA MaintainClosedEased ==
    ASSUME NEW s, Good(s), s.e.st = "pending", Paged(s.e), s.e.sio = FALSE,
           NEW t, t = MaintainClosed(s)
    PROVE  Tidied(s, t)
<1>1. s.e.inmem = FALSE
  BY PendingNotKept
<1>2. CASE SwapOutAble(s)
  <2>1. t = FreePages(s, TRUE)
    BY <1>1, <1>2, Zenon DEF MaintainClosed
  <2>2. Ready(s.e, TRUE)
    BY <1>2, AbleFacts DEF Ready
  <2> QED BY <2>1, <2>2, FreePagesEased
<1>3. CASE ~SwapOutAble(s)
  <2> DEFINE u == ReleaseRequest(s)
  <2>1. t = FreePages(u, FALSE)
    BY <1>1, <1>3, Zenon DEF MaintainClosed
  <2>2. /\ Good(u) /\ Quiet(s, u) /\ u.e.release = TRUE /\ OnDisk(s.e, u.e) /\ Eased(s, u)
        /\ u.e.st = "pending" /\ Paged(u.e)
    BY ReleaseEased
  <2> HIDE DEF u
  <2>3. u.e.sio = FALSE /\ u.e.inmem = FALSE
    BY <1>1, <2>2 DEF OnDisk, Quiet, Fixed
  <2>4. Ready(u.e, FALSE)
    BY <2>2, <2>3 DEF Ready
  <2>5. Tidied(u, t)
    BY <2>1, <2>2, <2>4, FreePagesEased
  <2>6. Good(t) /\ Quiet(u, t)
    BY <2>1, <2>2, <2>3, <2>4, FreePagesGood, TrimmedQuiet
  <2> QED BY <2>2, <2>5, <2>6, TidiedAfter
<1> QED BY <1>2, <1>3

\* storeSwapOutFileClosed, after an error and without one.
LEMMA ClosedErrorEased ==
    ASSUME NEW s, Good(s), s.e.st = "pending", Paged(s.e), NEW q, NEW f, Stops(s, q, f), OnPage(q),
           NEW t, t = SwapOutFileClosed(Wrote(s, q, f), TRUE)
    PROVE  Good(t) /\ Quiet(s, t) /\ Tidied(s, t) /\ t.e.sio = FALSE
<1> DEFINE d == Dropped(Wrote(s, q, f))
<1>1. t = MaintainClosed(d)
  BY Zenon DEF SwapOutFileClosed, Dropped
<1>2. d = Dropped(Wrote(s, q, f))
  OBVIOUS
<1> HIDE DEF d
<1>3. Stopped(s, q, d)
  BY <1>2, DroppedGood
<1>4. /\ Good(d) /\ Quiet(s, d) /\ d.e.sio = FALSE /\ d.e.lo = s.e.lo /\ d.e.queue = q
      /\ d.e.defer = s.e.defer
  BY <1>3 DEF Stopped
<1>5. d.e.st = "pending" /\ Paged(d.e)
  BY <1>4 DEF Quiet, Fixed, Paged
<1>6. Eased(s, d)
  BY <1>4, EasedStill
<1>7. Good(t) /\ Quiet(d, t) /\ OnDisk(d.e, t.e)
  BY <1>1, <1>4, MaintainClosedGood
<1>8. Tidied(d, t)
  BY <1>1, <1>4, <1>5, MaintainClosedEased
<1>9. Tidied(s, t)
  BY <1>4, <1>6, <1>7, <1>8, TidiedAfter
<1>10. t.e.sio = FALSE
  BY <1>4, <1>7 DEF OnDisk
<1> QED BY <1>4, <1>7, <1>9, <1>10, QuietTrans

LEMMA FileCloseEased ==
    ASSUME NEW s, Good(s), s.e.st = "pending", Paged(s.e), s.e.release = TRUE,
           NEW t, t = SwapOutFileClose(s)
    PROVE  Eased(s, t)
<1>1. s.e.sio \in BOOLEAN
  BY StateParts, EntryFlags DEF Good
<1>2. CASE s.e.sio = FALSE
  <2>1. t = s
    BY <1>2, Zenon DEF SwapOutFileClose
  <2> QED BY <2>1, EasedSelf
<1>3. CASE s.e.sio = TRUE
  <2> DEFINE v == CheckCachable(Finished(s))
  <2>1. t = MaintainClosed(v)
    BY <1>3, Zenon DEF SwapOutFileClose, SwapOutFileClosed, Finished
  <2>2. v = CheckCachable(Finished(s))
    OBVIOUS
  <2> HIDE DEF v
  <2>3. Closable(s.e)
    BY DEF Closable
  <2>4. /\ Good(v) /\ Quiet(s, v) /\ v.e.sio = FALSE
        /\ v.e.lo = s.e.lo /\ v.e.queue = s.e.queue /\ v.e.defer = s.e.defer
    BY <1>3, <2>2, <2>3, FinishedGood
  <2>5. v.e.st = "pending" /\ Paged(v.e)
    BY <2>4 DEF Quiet, Fixed, Paged
  <2>6. Eased(s, v)
    BY <2>4, EasedStill DEF Paged
  <2>7. Good(t) /\ Quiet(v, t)
    BY <2>1, <2>4, MaintainClosedGood
  <2>8. Tidied(v, t)
    BY <2>1, <2>4, <2>5, MaintainClosedEased
  <2> QED BY <2>4, <2>6, <2>7, <2>8, EasedTrans DEF Tidied
<1> QED BY <1>1, <1>2, <1>3

\* A released object is closed before its pages are freed.
Closing(s) == SwapOutFileClose(ReleaseRequest(s))

LEMMA ClosingEased ==
    ASSUME NEW s, Good(s), s.e.st = "pending", Paged(s.e), NEW v, v = Closing(s)
    PROVE  /\ Good(v) /\ Quiet(s, v) /\ v.e.sio = FALSE /\ v.e.release = TRUE
           /\ v.e.st = "pending" /\ Paged(v.e) /\ Eased(s, v)
<1> DEFINE u == ReleaseRequest(s)
<1>1. v = SwapOutFileClose(u)
  BY DEF Closing
<1>2. /\ Good(u) /\ Quiet(s, u) /\ u.e.release = TRUE /\ Eased(s, u)
      /\ u.e.st = "pending" /\ Paged(u.e)
  BY ReleaseEased
<1> HIDE DEF u
<1>3. Good(v) /\ Quiet(u, v) /\ v.e.sio = FALSE
  BY <1>1, <1>2, FileCloseGood DEF Closable
<1>4. Eased(u, v)
  BY <1>1, <1>2, FileCloseEased
<1>5. Eased(s, v)
  BY <1>2, <1>3, <1>4, EasedTrans
<1>6. v.e.release = TRUE /\ v.e.st = "pending" /\ Paged(v.e)
  BY <1>2, <1>3, <1>4 DEF Quiet, Fixed, Eased
<1> QED BY <1>2, <1>3, <1>5, <1>6, QuietTrans

\* storeSwapOutMaintainMemObject
LEMMA MaintainEased ==
    ASSUME NEW s, Good(s), s.e.st = "pending", Paged(s.e), NEW t, t = MaintainMemObject(s)
    PROVE  Tidied(s, t) /\ (~SwapOutAble(s) => t.e.sio = FALSE)
<1>1. s.e.inmem = FALSE
  BY PendingNotKept
<1>2. CASE SwapOutAble(s)
  <2>1. t = FreePages(s, TRUE)
    BY <1>1, <1>2, Zenon DEF MaintainMemObject
  <2>2. Ready(s.e, TRUE)
    BY <1>2, AbleFacts DEF Ready
  <2> QED BY <1>2, <2>1, <2>2, FreePagesEased
<1>3. CASE ~SwapOutAble(s)
  <2> DEFINE v == Closing(s)
  <2>1. t = FreePages(v, FALSE)
    BY <1>1, <1>3, Zenon DEF MaintainMemObject, Closing
  <2>2. /\ Good(v) /\ Quiet(s, v) /\ v.e.sio = FALSE /\ v.e.release = TRUE
        /\ v.e.st = "pending" /\ Paged(v.e) /\ Eased(s, v)
    BY ClosingEased
  <2> HIDE DEF v
  <2>3. Ready(v.e, FALSE) /\ v.e.inmem = FALSE
    BY <1>1, <2>2 DEF Ready, Quiet, Fixed
  <2>4. Tidied(v, t)
    BY <2>1, <2>2, <2>3, FreePagesEased
  <2>5. Good(t) /\ Trimmed(v, t)
    BY <2>1, <2>2, <2>3, FreePagesGood
  <2>6. Quiet(v, t) /\ t.e.sio = FALSE
    BY <2>2, <2>5, TrimmedQuiet DEF Trimmed, OnDisk
  <2> QED BY <2>2, <2>4, <2>5, <2>6, TidiedAfter
<1> QED BY <1>2, <1>3

\* Less than a page is not written yet.
Level(s) == s.e.sio = TRUE => s.e.hi < s.e.queue + Page

\* Whole pages are written, as many as there are.
LEMMA UptoPaged ==
    ASSUME NEW x \in Entries, x.queue <= x.hi, OnPage(x.queue),
           NEW n, n = (x.hi - x.queue) \div Page, NEW k \in Nat, k <= n
    PROVE  OnPage(Upto(x, k)) /\ x.hi < Upto(x, n) + Page
<1> DEFINE hi == x.hi
           q == x.queue
           d == hi - q
<1>1. Page \in Nat /\ Page > 0 /\ hi \in Nat /\ q \in Nat /\ q <= hi /\ OnPage(q)
  BY SizesAssumption, EntryTypes
<1> HIDE DEF hi, q
<1>2. d \in Nat /\ n = d \div Page
  BY <1>1 DEF hi, q
<1> HIDE DEF d
<1>3. PageOf(d) \in Nat /\ PageOf(d) <= d /\ d < PageOf(d) + Page /\ n \in Nat /\ PageOf(d) = n * Page
  BY <1>2, PageBelow DEF PageOf
<1>4. PICK i \in Nat : n = k + i
  <2>1. n - k \in Nat /\ n = k + (n - k)
    BY <1>3
  <2> QED BY <2>1
<1>5. n * Page = k * Page + i * Page /\ k * Page \in Nat /\ i * Page \in Nat
  BY <1>1, <1>4
<1> DEFINE a == k * Page
           b == n * Page
<1>6. a \in Nat /\ b \in Nat /\ a <= b /\ b <= d /\ d < b + Page
  BY <1>3, <1>5
<1>7. OnPage(q + a)
  BY <1>1, MorePages
<1>8. Upto(x, k) = Least(hi, q + a) /\ Upto(x, n) = Least(hi, q + b)
  BY DEF Upto, hi, q
<1> HIDE DEF a, b
<1>9. q + a <= hi /\ q + b <= hi /\ hi < q + b + Page
  BY <1>1, <1>6 DEF d
<1>10. Least(hi, q + a) = q + a /\ Least(hi, q + b) = q + b
  BY <1>1, <1>6, <1>9 DEF Least
<1> QED BY <1>1, <1>6, <1>7, <1>8, <1>9, <1>10 DEF hi

LEMMA WritePagesEased ==
    ASSUME NEW s, Good(s), s.e.st = "pending", Paged(s.e), s.e.sio = TRUE, s.e.release = FALSE,
           NEW io \in Outcomes, NEW t, t = WritePages(s, io)
    PROVE  Tidied(s, t) /\ Level(t)
<1> DEFINE n == (s.e.hi - s.e.queue) \div Page
           p == io.pages
           w == Wrote(s, Upto(s.e, n), Upto(s.e, n))
<1>1. Alive(s.e) /\ s \in States /\ s.e \in Entries
  BY GoodAlive
<1>2. /\ s.e.queue <= s.e.hi /\ s.e.queue \in Nat /\ s.e.hi \in Nat /\ s.e.file = s.e.queue
      /\ s.e.lo \in Nat /\ (s.e.lo < s.e.queue \/ s.e.lo = 0) /\ OnPage(s.e.queue)
  BY <1>1, EntryTypes DEF Alive, Bounds, File, Paged
<1>3. Check(s, "page_gone", s.e.lo < s.e.queue \/ (s.e.queue = 0 /\ s.e.lo = 0)) = s
  <2>1. s.e.lo < s.e.queue \/ (s.e.queue = 0 /\ s.e.lo = 0)
    BY <1>2
  <2> QED BY <2>1, CheckTrue
<1>4. t = IF p < n THEN SwapOutFileClosed(Wrote(s, Upto(s.e, p + 1), Upto(s.e, p)), TRUE) ELSE w
  <2> DEFINE s1 == Check(s, "page_gone", s.e.lo < s.e.queue \/ (s.e.queue = 0 /\ s.e.lo = 0))
             w1 == Wrote(s1, Upto(s.e, n), Upto(s.e, n))
  <2>1. t = IF p < n THEN SwapOutFileClosed(Wrote(s1, Upto(s.e, p + 1), Upto(s.e, p)), TRUE)
            ELSE w1
    BY DEF WritePages, Wrote, Upto
  <2>2. s1 = s
    BY <1>3
  <2> HIDE DEF s1
  <2> QED BY <2>1, <2>2
<1>5. n = (s.e.hi - s.e.queue) \div Page /\ n \in Nat /\ p \in Nat
  <2>1. s.e.hi - s.e.queue \in Nat
    BY <1>2
  <2> QED BY <2>1, PageBelow, OutcomeTypes
<1> HIDE DEF n, p
<1>6. CASE p < n
  <2> DEFINE a == Upto(s.e, p)
             b == Upto(s.e, p + 1)
  <2>1. a \in Nat /\ s.e.queue <= a /\ a <= b
    BY <1>1, <1>2, <1>5, UptoGrows
  <2>2. p + 1 \in Nat /\ p + 1 <= n
    BY <1>5, <1>6
  <2>3. b \in Nat /\ b <= s.e.hi /\ OnPage(b)
    BY <1>1, <1>2, <1>5, <2>2, UptoGrows, UptoPaged
  <2>4. t = SwapOutFileClosed(Wrote(s, b, a), TRUE)
    BY <1>4, <1>6
  <2> HIDE DEF a, b
  <2>5. Stops(s, b, a)
    BY <1>2, <2>1, <2>3 DEF Stops
  <2>6. Tidied(s, t) /\ t.e.sio = FALSE
    BY <2>3, <2>4, <2>5, ClosedErrorEased
  <2> QED BY <2>6, Zenon DEF Level
<1>7. CASE ~(p < n)
  <2> DEFINE a == Upto(s.e, n)
  <2>1. a \in Nat /\ s.e.queue <= a /\ a <= s.e.hi
    BY <1>1, <1>2, <1>5, UptoGrows
  <2>2. n <= n
    BY <1>5
  <2>3. OnPage(a) /\ s.e.hi < a + Page
    BY <1>1, <1>2, <1>5, <2>2, UptoPaged
  <2>4. t = Wrote(s, a, a)
    BY <1>4, <1>7
  <2> HIDE DEF a
  <2>5. /\ t.e.lo = s.e.lo /\ t.e.queue = a /\ t.e.defer = s.e.defer /\ t.e.release = s.e.release
        /\ Fixed(s.e, t.e)
    BY <1>1, <2>1, <2>4, WroteParts
  <2>6. t.e.hi < t.e.queue + Page
    BY <2>3, <2>5 DEF Fixed
  <2>7. s.e.lo <= t.e.lo /\ Paged(t.e)
    BY <1>2, <2>3, <2>5 DEF Paged
  <2>8. Eased(s, t) /\ Level(t)
    BY <2>5, <2>6, <2>7 DEF Eased, Level
  <2> QED BY <2>5, <2>8, Zenon DEF Tidied
<1> QED BY <1>6, <1>7

LEMMA WriteOnEased ==
    ASSUME NEW s, Good(s), s.e.st = "pending", Paged(s.e), s.e.release = FALSE,
           NEW io \in Outcomes, NEW t, t = WriteOn(s, io)
    PROVE  Tidied(s, t) /\ Level(t)
<1>1. s.e.sio \in BOOLEAN
  BY StateParts, EntryFlags DEF Good
<1>2. CASE s.e.sio = TRUE
  <2>1. t = WritePages(s, io)
    BY <1>2, Zenon DEF WriteOn
  <2> QED BY <1>2, <2>1, WritePagesEased
<1>3. CASE s.e.sio = FALSE
  <2>1. t = s
    BY <1>3, Zenon DEF WriteOn
  <2>2. Eased(s, s)
    BY EasedSelf
  <2> QED BY <1>3, <2>1, <2>2, Zenon DEF Tidied, Level
<1> QED BY <1>1, <1>2, <1>3

\* The same pages, and less than one unwritten: nothing else counts.
LEMMA EasedLevel ==
    ASSUME NEW s, NEW w, NEW t, w.e.lo = s.e.lo, w.e.defer = s.e.defer, Tidied(w, t), Level(t)
    PROVE  Tidied(s, t)
BY DEF Eased, Level, Tidied

\* storeSwapOut for the first time.
LEMMA BeginEased ==
    ASSUME NEW s, Good(s), s.e.st = "pending", Paged(s.e), s.e.swap = "none",
           s.e.release = FALSE, NEW io \in Outcomes, NEW t, t = SwapOutBegin(s, io)
    PROVE  Tidied(s, t) /\ Level(t)
<1>0. Alive(s.e) /\ s \in States /\ s.e \in Entries /\ s.e.release \in BOOLEAN
  BY GoodAlive, EntryFlags
<1>s. s.e.sio = FALSE
  <2>1. s.e.sio # TRUE
    BY <1>0 DEF Alive, File
  <2> QED BY <1>0, <2>1, EntryFlags, Zenon
<1>l. s.e.lo = 0 /\ s.e.queue = 0
  BY <1>0, Zenon DEF Alive, File
<1>1. CASE Cachable(s)
  <2> DEFINE p == Packed(s)
             w == Opened(s)
             u == SwapOutStart(s, io)
  <2>1. t = WriteOn(u, io)
    BY <1>1 DEF SwapOutBegin
  <2>2. u = CASE io.create = "fail" -> p
              [] io.create = "error" -> SwapOutFileClosed(w, TRUE)
              [] OTHER -> w
    BY DEF SwapOutStart, Packed, Opened
  <2>p. p = Packed(s) /\ w = Opened(s)
    OBVIOUS
  <2> HIDE DEF p, w, u
  <2>3. /\ Good(p) /\ Quiet(s, p) /\ p.e.sio = FALSE
        /\ p.e.release = FALSE /\ p.e.lo = 0 /\ p.e.queue = 0 /\ p.e.defer = s.e.defer
    BY <1>1, <2>p, StartParts, ZenonT(60)
  <2>4. /\ Good(w) /\ Quiet(s, w) /\ w.e.sio = TRUE
        /\ w.e.release = FALSE /\ w.e.lo = 0 /\ w.e.queue = 0 /\ w.e.defer = s.e.defer
    BY <1>1, <2>p, StartParts, ZenonT(60)
  <2>5. p.e.st = "pending" /\ Paged(p.e) /\ w.e.st = "pending" /\ Paged(w.e)
    BY <2>3, <2>4, ZeroOnPage DEF Quiet, Fixed, Paged
  <2>6. CASE io.create = "fail"
    <3>1. t = WriteOn(p, io)
      BY <2>1, <2>2, <2>6
    <3>2. Tidied(p, t) /\ Level(t)
      BY <2>3, <2>5, <3>1, WriteOnEased
    <3> QED BY <1>l, <2>3, <3>2, EasedLevel
  <2>7. CASE io.create = "error"
    <3> DEFINE q == w.e.queue
               f == w.e.file
    <3>1. w \in States /\ w.e \in Entries /\ Alive(w.e)
      BY <2>4, GoodAlive
    <3>2. q \in Nat /\ f \in Nat /\ f <= q /\ q <= w.e.hi /\ OnPage(q)
      BY <2>5, <3>1, EntryTypes DEF Alive, Bounds, Paged
    <3>3. Wrote(w, q, f) = w
      BY <3>1 DEF Wrote, States, Entries
    <3>4. u = SwapOutFileClosed(Wrote(w, q, f), TRUE) /\ w.e.file <= f
      BY <2>2, <2>7, <3>2, <3>3
    <3>5. Stops(w, q, f)
      BY <2>4, <3>2, <3>4 DEF Stops
    <3> HIDE DEF q, f
    <3>6. Tidied(w, u) /\ u.e.sio = FALSE
      BY <2>4, <2>5, <3>2, <3>4, <3>5, ClosedErrorEased
    <3>7. t = u /\ Level(u)
      BY <2>1, <3>6, Zenon DEF WriteOn, Level
    <3> QED BY <1>l, <2>4, <3>6, <3>7, EasedLevel
  <2>8. CASE io.create # "fail" /\ io.create # "error"
    <3>1. t = WriteOn(w, io)
      BY <2>1, <2>2, <2>8
    <3>2. Tidied(w, t) /\ Level(t)
      BY <2>4, <2>5, <3>1, WriteOnEased
    <3> QED BY <1>l, <2>4, <3>2, EasedLevel
  <2> QED BY <2>6, <2>7, <2>8
<1>2. CASE ~Cachable(s)
  <2> DEFINE u == CheckCachable(s)
  <2>1. t = MaintainMemObject(u)
    BY <1>2 DEF SwapOutBegin
  <2>2. Good(u) /\ Quiet(s, u)
    BY <1>0, CheckCachableGood
  <2>3. u = s \/ u = ReleaseRequest(s)
    BY DEF CheckCachable
  <2> HIDE DEF u
  <2>4. u.e.st = "pending" /\ Paged(u.e) /\ Eased(s, u) /\ u.e.sio = FALSE
    <3>1. CASE u = s
      BY <1>s, <3>1, EasedSelf
    <3>2. CASE u = ReleaseRequest(s)
      <4>1. OnDisk(s.e, u.e) /\ Eased(s, u) /\ u.e.st = "pending" /\ Paged(u.e)
        BY <3>2, ReleaseEased
      <4> QED BY <1>s, <4>1 DEF OnDisk
    <3> QED BY <2>3, <3>1, <3>2
  <2>5. Good(t) /\ Quiet(u, t)
    BY <2>1, <2>2, MaintainGood
  <2>6. Tidied(u, t)
    BY <2>1, <2>2, <2>4, MaintainEased
  <2>7. Tidied(s, t)
    BY <2>2, <2>4, <2>5, <2>6, TidiedAfter
  <2>8. Level(t)
    <3>1. t.e.sio = TRUE => u.e.sio = TRUE \/ t.e.hi < t.e.queue + Page
      BY <2>6, Zenon DEF Tidied, Eased
    <3> QED BY <2>4, <3>1, Zenon DEF Level
  <2> QED BY <2>7, <2>8
<1> QED BY <1>1, <1>2

\* storeSwapOut once the memory is looked after.
LEMMA DueEased ==
    ASSUME NEW s, Good(s), s.e.st = "pending", Paged(s.e), NEW able \in BOOLEAN,
           able = TRUE => s.e.release = FALSE, able = FALSE => s.e.sio = FALSE,
           s.e.release = TRUE => Swept(s),
           NEW io \in Outcomes, NEW t, t = SwapOutDue(s, able, io)
    PROVE  Tidied(s, t) /\ Level(t)
<1> DEFINE due == s.e.hi - s.e.queue
           stop == ~able \/ (s.e.st = "pending" /\ due < Page)
           full == able /\ s.e.st = "ok" /\ due = 0
           u == Check(s, "assert", s.e.lo = 0 /\ ~s.e.sio)
<1>1. t = CASE stop -> s
            [] full -> SwapOutFileClose(s)
            [] OTHER -> IF s.e.swap = "none" THEN SwapOutBegin(u, io) ELSE WriteOn(s, io)
  BY DEF SwapOutDue
<1>2. ~full
  OBVIOUS
<1>3. s \in States /\ s.e \in Entries /\ s.e.hi \in Nat /\ s.e.queue \in Nat /\ Alive(s.e)
  BY StateParts, EntryTypes, PendingNotKept DEF Good
<1>4. CASE stop
  <2>1. t = s
    BY <1>1, <1>4, Zenon
  <2>2. Level(s)
    <3>1. CASE able = FALSE
      BY <3>1, Zenon DEF Level
    <3>2. CASE due < Page
      <4>1. Page \in Nat
        BY SizesAssumption
      <4>2. s.e.hi < s.e.queue + Page
        BY <1>3, <3>2, <4>1
      <4> QED BY <4>2 DEF Level
    <3> QED BY <1>4, <3>1, <3>2, Zenon
  <2> QED BY <2>1, <2>2, EasedSelf DEF Tidied
<1>5. CASE ~stop
  <2>1. able = TRUE
    BY <1>5, Zenon
  <2>2. s.e.release = FALSE
    BY <2>1
  <2>3. t = IF s.e.swap = "none" THEN SwapOutBegin(u, io) ELSE WriteOn(s, io)
    <3> HIDE DEF stop, full, u
    <3> QED BY <1>1, <1>2, <1>5
  <2>4. CASE s.e.swap = "none"
    <3>1. s.e.lo = 0
      BY <1>3, <2>2, <2>4, Zenon DEF Alive, File
    <3>2. ~s.e.sio
      <4>1. s.e.sio # TRUE
        BY <1>3, <2>4 DEF Alive, File
      <4> QED BY <1>3, <4>1, EntryFlags, Zenon
    <3>3. u = s
      BY <3>1, <3>2, CheckTrue
    <3> HIDE DEF u
    <3>4. t = SwapOutBegin(s, io)
      BY <2>3, <2>4, <3>3
    <3> QED BY <2>2, <2>4, <3>4, BeginEased
  <2>5. CASE s.e.swap # "none"
    <3>1. t = WriteOn(s, io)
      BY <2>3, <2>5
    <3> QED BY <2>2, <3>1, WriteOnEased
  <2> QED BY <2>4, <2>5
<1> QED BY <1>4, <1>5

\* storeSwapOut of an object that grows.
LEMMA SwapOutEased ==
    ASSUME NEW s, Good(s), s.e.st = "pending", s.e.aborted = FALSE, Paged(s.e),
           NEW io \in Outcomes, NEW t, t = SwapOut(s, io)
    PROVE  Tidied(s, t) /\ Level(t)
<1> DEFINE u == MaintainMemObject(s)
           able == s.e.inmem \/ SwapOutAble(s)
<1>1. s.e.inmem = FALSE
  BY PendingNotKept
<1>2. t = SwapOutDue(u, able, io)
  BY Zenon DEF SwapOut
<1>3. Good(u) /\ Quiet(s, u) /\ (SwapOutAble(s) => Trimmed(s, u))
  BY MaintainGood
<1>4. Tidied(s, u) /\ (~SwapOutAble(s) => u.e.sio = FALSE)
  BY MaintainEased
<1> HIDE DEF u
<1>5. SwapOutAble(s) => u.e.release = FALSE
  <2> SUFFICES ASSUME SwapOutAble(s) PROVE u.e.release = FALSE
    OBVIOUS
  <2>1. s.e.release = FALSE /\ u.e.release = s.e.release
    BY <1>3, AbleFacts DEF Trimmed
  <2> QED BY <2>1
<1>6. able \in BOOLEAN /\ (able = TRUE => u.e.release = FALSE) /\ (able = FALSE => u.e.sio = FALSE)
  BY <1>1, <1>4, <1>5, Zenon
<1> HIDE DEF able
<1>7. u.e.st = "pending" /\ Paged(u.e) /\ (u.e.release = TRUE => Swept(u)) /\ Eased(s, u)
  BY <1>3, <1>4 DEF Quiet, Fixed, Tidied, Eased
<1>8. Tidied(u, t) /\ Level(t)
  BY <1>2, <1>3, <1>6, <1>7, DueEased
<1>9. Good(t) /\ Quiet(u, t)
  <2>1. able = TRUE => u.e.inmem = TRUE \/ u.e.release = FALSE
    BY <1>6
  <2> QED BY <1>2, <1>3, <1>6, <2>1, DueGood
<1>10. Tidied(s, t)
  BY <1>3, <1>7, <1>8, <1>9, TidiedAfter
<1> QED BY <1>8, <1>10

\* One copy gives no more than a buffer; a released object that is read to its
\* end has few pages left.
Reach(s) == \A k \in Clients : s.c[k].on = TRUE => s.c[k].got <= s.c[k].pos + Buf
AllRead(s) == \A k \in Clients : s.c[k].on = TRUE => s.c[k].got = s.e.hi
Tidy(s) == s.e.release = TRUE /\ AllRead(s) => s.e.hi <= s.e.lo + Page + Buf

LEMMA SweptTidy ==
    ASSUME NEW s, Reach(s), s.e.release = TRUE => Swept(s)
    PROVE  Tidy(s)
<1>1. AllRead(s) => Near(s)
  BY DEF AllRead, Reach, Near
<1> QED BY <1>1 DEF Tidy, Swept

LEMMA CallbackParts ==
    ASSUME NEW s, Good(s), NEW k \in Clients, NEW n \in Int, NEW t, t = Callback(s, k, n)
    PROVE  /\ t.e = s.e /\ \A j \in Clients : j # k => t.c[j] = s.c[j]
           /\ Answered(s.c[k], n, t.c[k])
<1>1. s \in States /\ s.c[k] \in Readers
  BY StateParts DEF Good
<1> DEFINE r == Answer(s.c[k], n)
<1>2. Answered(s.c[k], n, r)
  BY <1>1, AnswerParts
<1>3. t = Turn(s, k, r)
  BY <1>1, CallbackTurn
<1> HIDE DEF r
<1>4. r \in Readers
  BY <1>2 DEF Answered
<1> QED BY <1>1, <1>2, <1>3, <1>4, TurnParts

\* A client that is given bytes, or the news that it gets none.
Given(s, t, k) ==
    /\ t.e = s.e /\ \A j \in Clients : j # k => t.c[j] = s.c[j]
    /\ t.c[k].on = s.c[k].on /\ t.c[k].pos = s.c[k].pos /\ t.c[k].cb = FALSE
    /\ t.c[k].got <= t.c[k].pos + Buf

LEMMA GivenReach ==
    ASSUME NEW s, NEW t, NEW k \in Clients, Reach(s), Given(s, t, k)
    PROVE  Reach(t) /\ (Near(t) => Near(s))
<1>1. Reach(t)
  BY DEF Reach, Given
<1>2. ASSUME Near(t), NEW j \in Clients, s.c[j].on = TRUE PROVE s.e.hi <= s.c[j].pos + Buf
  <2>1. t.c[j].on = TRUE /\ t.c[j].pos = s.c[j].pos /\ t.e.hi = s.e.hi
    BY <1>2 DEF Given
  <2>2. t.e.hi <= t.c[j].pos + Buf
    BY <1>2, <2>1 DEF Near
  <2> QED BY <2>1, <2>2
<1> QED BY <1>1, <1>2 DEF Near

\* What trying a client does to the object.
Copied(s, t, k) ==
    /\ Eased(s, t) /\ Reach(t) /\ (Tidy(s) => Tidy(t))
    /\ t.c[k].cb = TRUE => t.c = s.c /\ (t.e.defer = TRUE => Lowest(s) # s.e.hi)

\* The bytes come from memory, whose pages a released object then frees.
LEMMA MemoryEased ==
    ASSUME NEW s, Good(s), s.e.st = "pending", Paged(s.e), NEW k \in Clients,
           s.c[k].on = TRUE, Reach(s),
           NEW u, Good(u), u.e = s.e, Alike(s.c[k], u.c[k]), \A j \in Clients : j # k => u.c[j] = s.c[j],
           NEW v, v = IF u.e.release THEN MaintainMemObject(u) ELSE u,
           NEW n \in Nat, n > 0, n <= Buf, NEW t, t = Callback(v, k, n)
    PROVE  Copied(s, t, k)
<1>1. u.e.release \in BOOLEAN
  BY StateParts, EntryFlags DEF Good
<1>2. Good(v) /\ Quiet(u, v) /\ Tidied(u, v)
  <2>1. CASE u.e.release = TRUE
    <3>1. v = MaintainMemObject(u)
      BY <2>1, Zenon
    <3> QED BY <3>1, MaintainGood, MaintainEased
  <2>2. CASE u.e.release = FALSE
    <3>1. v = u
      BY <2>2, Zenon
    <3>2. Eased(u, u)
      BY EasedSelf
    <3> QED BY <2>2, <3>1, <3>2, QuietSelf, Zenon DEF Tidied
  <2> QED BY <1>1, <2>1, <2>2
<1>3. v.c = u.c
  BY <1>2 DEF Quiet
<1>4. Reach(v)
  BY <1>3 DEF Reach, Alike
<1>5. /\ t.e = v.e /\ (\A j \in Clients : j # k => t.c[j] = v.c[j]) /\ Answered(v.c[k], n, t.c[k])
  BY <1>2, CallbackParts
<1>6. v.c[k].pos \in Nat
  <2>1. v.c[k] \in Readers
    BY <1>2, StateParts DEF Good
  <2> QED BY <2>1 DEF Readers
<1>7. Given(v, t, k)
  <2>1. t.c[k].got = v.c[k].pos + n /\ t.c[k].pos = v.c[k].pos /\ t.c[k].on = v.c[k].on
        /\ t.c[k].cb = FALSE
    BY <1>5 DEF Answered
  <2>2. t.c[k].got <= t.c[k].pos + Buf
    BY <1>6, <2>1, SizesAssumption
  <2> QED BY <1>5, <2>1, <2>2 DEF Given
<1>8. Reach(t) /\ (Near(t) => Near(v))
  BY <1>4, <1>7, GivenReach
<1>9. t.e.release = TRUE => Swept(t)
  BY <1>2, <1>5, <1>8 DEF Tidied, Swept
<1>10. Tidy(t)
  BY <1>8, <1>9, SweptTidy
<1>11. Eased(s, t)
  BY <1>2, <1>5 DEF Tidied, Eased
<1>12. t.c[k].cb # TRUE
  BY <1>7, Zenon DEF Given
<1> QED BY <1>8, <1>10, <1>11, <1>12 DEF Copied

\* The bytes come from the file, or none: the pages stay.
LEMMA AwayEased ==
    ASSUME NEW s, Good(s), s.e.st = "pending", Paged(s.e), NEW k \in Clients,
           s.c[k].on = TRUE, Reach(s), NEW t, Given(s, t, k),
           t.c[k].got = s.c[k].got \/ s.c[k].pos < s.e.lo
    PROVE  Copied(s, t, k)
<1>1. Reach(t)
  BY GivenReach
<1>2. Eased(s, t)
  <2>1. Eased(s, s)
    BY EasedSelf
  <2> QED BY <2>1 DEF Eased, Given
<1>3. Tidy(s) => Tidy(t)
  <2> SUFFICES ASSUME Tidy(s), t.e.release = TRUE, AllRead(t) PROVE t.e.hi <= t.e.lo + Page + Buf
    BY DEF Tidy
  <2>1. CASE t.c[k].got = s.c[k].got
    <3>1. AllRead(s)
      BY <2>1 DEF AllRead, Given
    <3> QED BY <3>1 DEF Tidy, Given
  <2>2. CASE s.c[k].pos < s.e.lo
    <3>1. t.c[k].got = s.e.hi /\ t.c[k].got <= s.c[k].pos + Buf
      BY DEF AllRead, Given
    <3>2. s.c[k].pos \in Nat /\ s.e.hi \in Nat /\ s.e.lo \in Nat /\ Page \in Nat /\ Buf \in Nat
      <4>1. s.c[k] \in Readers /\ s.e \in Entries
        BY StateParts DEF Good
      <4>2. s.c[k].pos \in Nat
        BY <4>1 DEF Readers
      <4> QED BY <4>1, <4>2, EntryTypes, SizesAssumption
    <3>3. s.e.hi <= s.e.lo + Page + Buf
      BY <2>2, <3>1, <3>2
    <3> QED BY <3>3 DEF Given
  <2> QED BY <2>1, <2>2
<1>4. t.c[k].cb # TRUE
  BY Zenon DEF Given
<1> QED BY <1>1, <1>2, <1>3, <1>4 DEF Copied

\* Only the deferral changes.
PutOff(s, b) == [s EXCEPT !.e.defer = b]

LEMMA DeferParts ==
    ASSUME NEW s \in States, NEW b \in BOOLEAN, NEW t, t = PutOff(s, b)
    PROVE  /\ t.c = s.c /\ t.e.release = s.e.release /\ t.e.lo = s.e.lo /\ t.e.hi = s.e.hi
           /\ t.e.queue = s.e.queue /\ t.e.sio = s.e.sio /\ t.e.defer = b
<1> DEFINE x == [s.e EXCEPT !.defer = b]
<1>1. s.e \in Entries
  BY StateParts
<1>2. x \in Entries
  BY <1>1 DEF Entries
<1>3. t = Put(s, x)
  BY <1>1 DEF Put, PutOff, States
<1>4. /\ x.release = s.e.release /\ x.lo = s.e.lo /\ x.hi = s.e.hi /\ x.queue = s.e.queue
      /\ x.sio = s.e.sio /\ x.defer = b
  BY <1>1 DEF Entries
<1> HIDE DEF x
<1>5. t.e = x /\ t.c = s.c
  BY <1>2, <1>3, PutParts
<1> QED BY <1>4, <1>5

\* A client that has everything waits, and the read goes on if all have.
LEMMA WaitEased ==
    ASSUME NEW s, Good(s), s.e.st = "pending", Paged(s.e), NEW k \in Clients, Reach(s),
           NEW b \in BOOLEAN, b = TRUE => s.e.defer = TRUE /\ Lowest(s) # s.e.hi,
           NEW t, t = PutOff(s, b)
    PROVE  Copied(s, t, k)
<1>1. s \in States
  BY DEF Good
<1>6. /\ t.c = s.c /\ t.e.release = s.e.release /\ t.e.lo = s.e.lo /\ t.e.hi = s.e.hi
      /\ t.e.queue = s.e.queue /\ t.e.sio = s.e.sio /\ t.e.defer = b
  BY <1>1, DeferParts
<1>7. Eased(s, t)
  <2>1. Eased(s, s)
    BY EasedSelf
  <2> QED BY <1>6, <2>1 DEF Eased, Paged
<1>8. Reach(t)
  BY <1>6 DEF Reach
<1>9. Tidy(s) => Tidy(t)
  BY <1>6 DEF Tidy, AllRead
<1> QED BY <1>6, <1>7, <1>8, <1>9 DEF Copied

\* storeClientCopy3 of an object that grows.
LEMMA CopyEased ==
    ASSUME NEW s, Good(s), s.e.st = "pending", Paged(s.e), NEW k \in Clients,
           s.c[k].on = TRUE, s.c[k].cb = TRUE, Reach(s), NEW io, NEW t, t = ClientCopy(s, k, io)
    PROVE  Copied(s, t, k)
<1> DEFINE y == s.c[k]
           pos == s.c[k].pos
           disk == s.c[k].type = "disk"
           opened == s.c[k].swapin \/ (io.open /\ s.e.swap # "none")
           s1 == IF disk THEN [s EXCEPT !.c[k].swapin = TRUE] ELSE s
           s2 == IF s1.e.release THEN MaintainMemObject(s1) ELSE s1
           n == Least(Buf, s.e.hi - pos)
<1>1. t = IF NoMoreToSend(s, k) THEN Callback(s, k, 0)
          ELSE IF s.e.st = "pending" /\ pos >= s.e.hi
          THEN [s EXCEPT !.e.defer = s.e.defer /\ Lowest(s) # s.e.hi]
          ELSE IF disk /\ ~opened THEN Callback(s, k, -1)
          ELSE IF pos >= s.e.lo /\ pos < s.e.hi THEN Callback(s2, k, n)
          ELSE FileRead(Check(s1, "assert", disk), k)
  BY DEF ClientCopy
<1>2. s \in States /\ s.e \in Entries /\ Alive(s.e) /\ y \in Readers
  BY PendingNotKept, StateParts
<1>3. /\ s.e.lo \in Nat /\ s.e.hi \in Nat /\ s.e.file \in Nat /\ s.e.queue \in Nat
      /\ pos \in Nat /\ y.got \in Nat
  <2>1. y.pos \in Nat /\ y.got \in Nat
    BY <1>2 DEF Readers
  <2> HIDE DEF y
  <2> QED BY <1>2, <2>1, EntryTypes DEF y
<1>4. y.got = y.pos /\ y.end = "no" /\ Source(s.e, y)
  BY DEF Good, GoodClient, Reads
<1>5. /\ Good(s1) /\ s1.e = s.e /\ Alike(s.c[k], s1.c[k])
      /\ \A j \in Clients : j # k => s1.c[j] = s.c[j]
  <2>1. CASE disk
    <3> DEFINE w == SwapIn(s, k)
    <3>1. s1 = w
      BY <2>1 DEF SwapIn
    <3>2. Good(w) /\ w.e = s.e /\ Alike(s.c[k], w.c[k]) /\ \A j \in Clients : j # k => w.c[j] = s.c[j]
      BY SwapinGood
    <3> HIDE DEF w, s1
    <3> QED BY <3>1, <3>2
  <2>2. CASE ~disk
    <3>1. s1 = s
      BY <2>2
    <3>2. Alike(s.c[k], s.c[k])
      BY DEF Alike
    <3> HIDE DEF s1
    <3> QED BY <3>1, <3>2
  <2> QED BY <2>1, <2>2
<1>6. ~NoMoreToSend(s, k)
  BY DEF NoMoreToSend
<1>7. s2 = IF s1.e.release THEN MaintainMemObject(s1) ELSE s1
  OBVIOUS
<1> HIDE DEF opened, s1, s2
<1>8. CASE pos >= s.e.hi
  <2> DEFINE b == s.e.defer /\ Lowest(s) # s.e.hi
  <2>1. t = PutOff(s, b)
    BY <1>1, <1>6, <1>8 DEF PutOff
  <2>2. b \in BOOLEAN /\ (b = TRUE => s.e.defer = TRUE /\ Lowest(s) # s.e.hi)
    BY <1>2, EntryFlags, Zenon
  <2> HIDE DEF b
  <2> QED BY <2>1, <2>2, WaitEased
<1>9. CASE ~(pos >= s.e.hi) /\ disk /\ ~opened
  <2>1. t = Callback(s, k, -1)
    BY <1>1, <1>6, <1>9
  <2>2. -1 \in Int
    OBVIOUS
  <2>3. t.e = s.e /\ (\A j \in Clients : j # k => t.c[j] = s.c[j]) /\ Answered(s.c[k], -1, t.c[k])
    BY <2>1, <2>2, CallbackParts
  <2>4. t.c[k].got = s.c[k].got /\ t.c[k].pos = s.c[k].pos /\ t.c[k].on = s.c[k].on /\ t.c[k].cb = FALSE
    BY <2>3 DEF Answered
  <2>5. Given(s, t, k)
    BY <2>3, <2>4 DEF Given, Reach
  <2> QED BY <2>4, <2>5, AwayEased
<1>10. CASE ~(pos >= s.e.hi) /\ ~(disk /\ ~opened) /\ pos >= s.e.lo /\ pos < s.e.hi
  <2>1. t = Callback(s2, k, n)
    BY <1>1, <1>6, <1>10
  <2>2. n \in Nat /\ n > 0 /\ n <= Buf
    <3>0. pos < s.e.hi
      BY <1>10
    <3> HIDE DEF pos
    <3> QED BY <1>3, <3>0, SizesAssumption DEF Least
  <2> HIDE DEF n, pos
  <2> QED BY <1>5, <1>7, <2>1, <2>2, MemoryEased
<1>11. CASE ~(pos >= s.e.hi) /\ ~(disk /\ ~opened) /\ ~(pos >= s.e.lo /\ pos < s.e.hi)
  <2>1. t = FileRead(Check(s1, "assert", disk), k)
    BY <1>1, <1>6, <1>11
  <2>2. pos < s.e.lo
    <3>1. ~(pos >= s.e.hi) /\ ~(pos >= s.e.lo /\ pos < s.e.hi)
      BY <1>11
    <3> HIDE DEF pos
    <3> QED BY <1>3, <3>1
  <2>3. disk /\ s.e.lo <= s.e.file
    BY <1>4, <2>2 DEF Source
  <2>4. pos < s.e.file
    <3> HIDE DEF pos
    <3> QED BY <1>3, <2>2, <2>3
  <2>5. s.e.hdr # 0
    <3>1. s.e.file > 0
      <4> HIDE DEF pos
      <4> QED BY <1>3, <2>4
    <3> QED BY <1>2, <3>1, SizesAssumption DEF Alive, Bounds
  <2>6. t = FileRead(s1, k)
    BY <2>1, <2>3, CheckTrue
  <2>7. t = ReadBody(s1, k)
    BY <1>5, <2>5, <2>6 DEF FileRead
  <2> DEFINE m == Least(Buf, s1.e.file - s1.c[k].pos)
             u == Check(s1, "assert", s1.e.swap = "writing" => s1.e.queue > s1.c[k].pos)
  <2>8. s1.c[k].pos = pos /\ s1.c[k].on = s.c[k].on /\ s1.e = s.e
    BY <1>5 DEF Alike
  <2>9. m \in Nat /\ m > 0 /\ m <= Buf
    <3> HIDE DEF pos
    <3> QED BY <1>3, <2>4, <2>8, SizesAssumption DEF Least
  <2>10. u = s1
    <3>1. s1.e.swap = "writing" => s1.e.queue > s1.c[k].pos
      <4> SUFFICES ASSUME s1.e.swap = "writing" PROVE s1.e.queue > s1.c[k].pos
        OBVIOUS
      <4>1. s.e.file = s.e.queue
        BY <1>2, <2>8 DEF Alive, File
      <4> HIDE DEF pos
      <4> QED BY <1>3, <2>4, <2>8, <4>1
    <3> QED BY <3>1, CheckTrue
  <2>11. t = IF m > 0 THEN Callback(u, k, m) ELSE Callback(Check(u, "past_end", FALSE), k, -1)
    BY <2>7 DEF ReadBody
  <2> HIDE DEF u, m
  <2>12. t = Callback(s1, k, m)
    BY <2>9, <2>10, <2>11
  <2>13. m \in Int
    BY <2>9
  <2>14. t.e = s1.e /\ (\A j \in Clients : j # k => t.c[j] = s1.c[j]) /\ Answered(s1.c[k], m, t.c[k])
    BY <1>5, <2>12, <2>13, CallbackParts
  <2>15. t.c[k].got = pos + m /\ t.c[k].pos = pos /\ t.c[k].on = s.c[k].on /\ t.c[k].cb = FALSE
    BY <2>8, <2>9, <2>14 DEF Answered
  <2>16. t.c[k].got <= t.c[k].pos + Buf
    <3> HIDE DEF pos
    <3> QED BY <1>3, <2>9, <2>15, SizesAssumption
  <2>17. Given(s, t, k)
    BY <1>5, <2>14, <2>15, <2>16 DEF Given
  <2> QED BY <2>2, <2>17, AwayEased
<1> HIDE DEF disk, pos
<1> QED BY <1>8, <1>9, <1>10, <1>11

-----------------------------------------------------------------------------
\* Some waiting clients of an object that grows have been tried.
Calmed(s, u) == Good(u) => Paged(u.e) /\ Reach(u) /\ (u.e.defer = TRUE => s.e.defer = TRUE)

LEMMA CalmedAll ==
    ASSUME NEW s, Good(s), s.e.st = "pending", Paged(s.e), Reach(s), NEW order, NEW n \in Nat,
           \A j \in 1..n : order[j] \in Due(s), \A j, l \in 1..n : order[j] = order[l] => j = l,
           NEW io, NEW f, Rounds(f, s, order, io, n)
    PROVE  \A i \in 0..n : Calmed(s, f[i])
<1> DEFINE T == {i \in 0..n : ~Calmed(s, f[i])}
<1> SUFFICES ASSUME T # {} PROVE FALSE
  OBVIOUS
<1>0. f[0] = s /\ \A i \in 1..n : f[i] = ClientCopy(f[i - 1], order[i], io)
  BY RoundsParts
<1>c. \A i \in 0..n : Called(s, f[i], order, i)
  BY CalledAll
<1>1. T \subseteq Nat
  OBVIOUS
<1>2. PICK i \in T : i = 0 \/ (i - 1 \in Nat /\ i - 1 \notin T)
  <2> HIDE DEF T
  <2> QED BY <1>1, NoLeast
<1>3. i \in 0..n /\ ~Calmed(s, f[i])
  BY <1>2
<1>4. CASE i = 0
  BY <1>0, <1>3, <1>4 DEF Calmed
<1>5. CASE i # 0
  <2> DEFINE m == i - 1
             u == f[m]
             t == f[i]
             k == order[i]
  <2>1. i \in 1..n /\ m \in 0..n /\ Calmed(s, f[m])
    BY <1>2, <1>3, <1>5
  <2>2. f[i] = ClientCopy(f[m], order[i], io)
    BY <1>0, <2>1
  <2>3. Calmed(s, u) /\ t = ClientCopy(u, k, io) /\ ~Calmed(s, t)
    BY <1>3, <2>1, <2>2
  <2>4. Called(s, u, order, m)
    BY <1>c, <2>1
  <2>5. k \in Clients /\ s.c[k].on = TRUE /\ s.c[k].cb = TRUE
    <3>1. k \in Due(s)
      BY <2>1
    <3> HIDE DEF k
    <3>2. s.c[k] \in Readers /\ k \in Clients
      BY <3>1, StateParts DEF Good, Due
    <3>3. s.c[k].on \in BOOLEAN /\ s.c[k].cb \in BOOLEAN
      BY <3>2 DEF Readers
    <3> QED BY <3>1, <3>2, <3>3, Zenon DEF Due, Waiting
  <2>6. \A j \in 1..m : order[j] # k
    <3> SUFFICES ASSUME NEW j \in 1..m, order[j] = k PROVE FALSE
      OBVIOUS
    <3>1. j \in 1..n /\ j # i
      BY <2>1
    <3> QED BY <2>1, <3>1
  <2>7. u.c[k] = s.c[k] /\ Good(u) /\ Lasting(s.e, u.e)
    <3> HIDE DEF k, m, u
    <3> QED BY <2>4, <2>5, <2>6 DEF Called
  <2> HIDE DEF u, t, k, m
  <2>8. u.e.st = "pending" /\ Paged(u.e) /\ Reach(u) /\ (u.e.defer = TRUE => s.e.defer = TRUE)
    BY <2>3, <2>7 DEF Calmed, Lasting
  <2>9. u.c[k].on = TRUE /\ u.c[k].cb = TRUE
    BY <2>5, <2>7
  <2>10. Copied(u, t, k)
    BY <2>3, <2>5, <2>7, <2>8, <2>9, CopyEased
  <2>11. Calmed(s, t)
    BY <2>8, <2>10 DEF Calmed, Copied, Eased
  <2> QED BY <2>3, <2>11
<1> QED BY <1>4, <1>5

\* InvokeHandlers of an object that grows.
LEMMA HandlersCalm ==
    ASSUME NEW s, Good(s), s.e.st = "pending", Paged(s.e), Reach(s), NEW io,
           NEW t, t = InvokeHandlers(s, io)
    PROVE  Paged(t.e) /\ Reach(t) /\ (t.e.defer = TRUE => s.e.defer = TRUE)
<1> DEFINE order == SetToSeq(Due(s))
           n == Len(order)
<1>1. IsFiniteSet(Due(s))
  <2>1. Due(s) \in SUBSET Clients /\ IsFiniteSet(Clients)
    BY SizesAssumption DEF Due
  <2> QED BY <2>1, FS_Subset
<1>2. /\ n \in Nat /\ \A i \in 1..n : order[i] \in Due(s)
      /\ \A i, j \in 1..n : order[i] = order[j] => i = j
  BY <1>1, OrderParts
<1>3. PICK f : Rounds(f, s, order, io, n) /\ InvokeHandlers(s, io) = f[n]
  BY <1>2, HandlersRounds
<1> HIDE DEF order, n
<1>4. \A i \in 0..n : Calmed(s, f[i])
  BY <1>2, <1>3, CalmedAll
<1>5. n \in 0..n
  BY <1>2
<1>6. Calmed(s, t)
  BY <1>3, <1>4, <1>5
<1>7. Good(t)
  BY HandlersGood
<1> QED BY <1>6, <1>7 DEF Calmed

\* storeAppend leaves less than a page unwritten and a released object swept.
LEMMA AppendEased ==
    ASSUME NEW s, Good(s), s.e.st = "pending", s.e.aborted = FALSE, Paged(s.e), Reach(s),
           NEW n \in Nat, s.e.hi + n <= MaxLen,
           NEW io \in Outcomes, NEW t, t = StoreAppend(s, n, io)
    PROVE  /\ Paged(t.e) /\ Reach(t) /\ Level(t) /\ Tidy(t) /\ t.e.aborted = FALSE
           /\ t.e.defer = TRUE => s.e.defer = TRUE
<1> DEFINE u == Longer(s, n)
           v == InvokeHandlers(u, io)
<1>1. t = SwapOut(v, io)
  BY DEF StoreAppend, Longer
<1>2. Good(u) /\ u.c = s.c /\ u.e.st = "pending"
  BY LongerGood
<1>3. /\ u.e.lo = s.e.lo /\ u.e.queue = s.e.queue /\ u.e.defer = s.e.defer
      /\ u.e.aborted = s.e.aborted
  BY StateParts DEF Good, Longer, States, Entries
<1> HIDE DEF u
<1>4. Paged(u.e) /\ Reach(u)
  BY <1>2, <1>3 DEF Paged, Reach
<1>5. Paged(v.e) /\ Reach(v) /\ (v.e.defer = TRUE => u.e.defer = TRUE)
  BY <1>2, <1>4, HandlersCalm
<1>6. Good(v) /\ Lasting(u.e, v.e)
  BY <1>2, HandlersGood
<1> HIDE DEF v
<1>7. v.e.st = "pending" /\ v.e.aborted = FALSE
  BY <1>2, <1>3, <1>6 DEF Lasting
<1>8. Tidied(v, t) /\ Level(t)
  BY <1>1, <1>5, <1>6, <1>7, SwapOutEased
<1>9. Good(t) /\ Quiet(v, t)
  BY <1>1, <1>6, SwapOutGood
<1>10. Reach(t) /\ t.e.aborted = FALSE
  BY <1>5, <1>7, <1>9 DEF Reach, Quiet, Fixed
<1>11. Tidy(t)
  BY <1>8, <1>10, SweptTidy DEF Tidied
<1>12. Paged(t.e) /\ (t.e.defer = TRUE => s.e.defer = TRUE)
  BY <1>3, <1>5, <1>8 DEF Tidied, Eased
<1> QED BY <1>8, <1>10, <1>11, <1>12

-----------------------------------------------------------------------------
\* The sizes squid.conf starts from keep these proportions: a page is 4 KB,
\* read_ahead_gap 16 KB, maximum_object_size_in_memory 8 KB, and a client asks
\* for 4 KB at a time (cf.data.pre, SM_PAGE_SIZE, STORE_CLIENT_BUF_SZ).
UsualSizes ==
    /\ Page >= 2 /\ 2 * Page <= Gap + 1
    /\ MaxInMem <= Gap /\ Buf <= MaxInMem + Gap

\* Somebody will come back for more.
Attended(s) ==
    s.e.defer = TRUE /\ s.e.queue > 0 =>
        \E k \in Clients : s.c[k].on = TRUE /\ s.c[k].cb = FALSE

\* The object that grows.
Easy(s) ==
    s.e.st = "pending" =>
        /\ s.e.aborted = FALSE /\ Paged(s.e) /\ Reach(s) /\ Level(s) /\ Tidy(s)
        /\ s.e.defer = TRUE => s.e.hi > Gap
        /\ Attended(s)

EInv == Easy(State)

LEMMA BecomeEasy ==
    ASSUME NEW s \in States, Easy(s), Become(s)
    PROVE  EInv'
<1>1. [e |-> s.e, c |-> s.c, broken |-> s.broken] = s
  BY DEF States
<1>2. State' = s
  BY <1>1 DEF Become, State
<1> QED BY <1>2 DEF EInv

\* All have everything.
AtEnd(s) == \A k \in Clients : s.c[k].on = TRUE => s.c[k].pos = s.e.hi /\ s.c[k].got = s.e.hi

\* Who waits has everything, so one is behind or all are at the end.
LEMMA OneBehind ==
    ASSUME NEW s, Good(s), AllSettled(s)
    PROVE  AtEnd(s) \/ \E k \in Clients : s.c[k].on = TRUE /\ s.c[k].cb = FALSE
<1> SUFFICES ASSUME ~\E k \in Clients : s.c[k].on = TRUE /\ s.c[k].cb = FALSE,
                    NEW k \in Clients, s.c[k].on = TRUE
             PROVE  s.c[k].pos = s.e.hi /\ s.c[k].got = s.e.hi
  BY DEF AtEnd
<1>1. s.c[k].cb \in BOOLEAN
  BY StateParts DEF Good, Readers
<1>2. s.c[k].cb = TRUE
  BY <1>1, Zenon
<1>3. s.c[k].got = s.e.hi
  BY <1>2 DEF AllSettled, Settled
<1>4. s.c[k].got = s.c[k].pos
  BY <1>2 DEF Good, GoodClient, Reads
<1> QED BY <1>3, <1>4

LEMMA LowestAtEnd ==
    ASSUME NEW s, Good(s), s.e.st = "pending", AtEnd(s)
    PROVE  /\ Lowest(s) = s.e.hi + 1 \/ Lowest(s) = s.e.hi
           /\ (\E k \in Clients : s.c[k].on = TRUE) => Lowest(s) = s.e.hi
<1>1. /\ Lowest(s) \in Nat
      /\ Lowest(s) = s.e.hi + 1 \/ \E k \in Clients : s.c[k].on = TRUE /\ Lowest(s) = s.c[k].pos
      /\ (\E k \in Clients : s.c[k].on = TRUE) => Lowest(s) <= s.e.hi
  BY LowestIs
<1>2. Lowest(s) = s.e.hi + 1 \/ Lowest(s) = s.e.hi
  BY <1>1 DEF AtEnd
<1>3. s.e.hi \in Nat
  BY StateParts, EntryTypes DEF Good
<1> QED BY <1>1, <1>2, <1>3

\* The client is changed, the object perhaps swapped out, and the client tried.
LEMMA AskEased ==
    ASSUME NEW s, Fully(s), Easy(s), NEW k \in Clients, NEW y \in Readers, GoodClient(s.e, y),
           y.on = TRUE, y.cb = TRUE, s.c[k].on = TRUE => s.c[k].got = y.got,
           NEW u, u = Turn(s, k, y), NEW io \in Outcomes,
           NEW v, v = u \/ v = SwapOut(u, io), NEW t, t = ClientCopy(v, k, io)
    PROVE  Easy(t)
<1>1. Good(u) /\ u.e = s.e /\ u.c[k] = y /\ \A j \in Clients : j # k => u.c[j] = s.c[j]
  BY TurnGood DEF Fully
<1>2. Good(v) /\ Quiet(u, v)
  BY <1>1, SwapOutGood, QuietSelf
<1>3. v.c = u.c /\ v.e.st = s.e.st /\ v.e.hi = s.e.hi /\ v.e.aborted = s.e.aborted
  BY <1>1, <1>2 DEF Quiet, Fixed
<1>4. v.c[k].on = TRUE /\ v.c[k].cb = TRUE
  BY <1>1, <1>3
<1>5. Good(t) /\ Served(v, t, k)
  BY <1>2, <1>4, ClientCopyGood
<1>6. /\ t.e.st = s.e.st /\ t.e.hi = s.e.hi /\ t.e.aborted = s.e.aborted
      /\ t.c[k].on = TRUE
  BY <1>3, <1>4, <1>5 DEF Served, Lasting
<1>7. Fully(t)
  BY AskGood
<1> SUFFICES ASSUME s.e.st = "pending" PROVE Easy(t)
  BY <1>6 DEF Easy
<1>8. /\ s.e.aborted = FALSE /\ Paged(s.e) /\ Reach(s) /\ Level(s) /\ Tidy(s)
      /\ s.e.defer = TRUE => s.e.hi > Gap
  BY DEF Easy
<1>9. Paged(u.e) /\ Reach(u) /\ Level(u) /\ Tidy(u)
  <2>1. y.got <= y.pos + Buf
    <3>1. y.got = y.pos /\ y.pos \in Nat /\ Buf \in Nat
      BY SizesAssumption DEF GoodClient, Reads, Readers
    <3> QED BY <3>1
  <2>2. Reach(u)
    BY <1>1, <1>8, <2>1 DEF Reach
  <2>3. AllRead(u) => AllRead(s)
    BY <1>1 DEF AllRead
  <2> QED BY <1>1, <1>8, <2>2, <2>3 DEF Level, Tidy
<1>10. Paged(v.e) /\ Reach(v) /\ Level(v) /\ Tidy(v) /\ (v.e.defer = TRUE => s.e.defer = TRUE)
  <2>1. CASE v = u
    BY <1>1, <1>9, <2>1
  <2>2. CASE v = SwapOut(u, io)
    <3>1. u.e.st = "pending" /\ u.e.aborted = FALSE
      BY <1>1, <1>8
    <3>2. Tidied(u, v) /\ Level(v)
      BY <1>1, <1>9, <2>2, <3>1, SwapOutEased
    <3>3. Reach(v)
      BY <1>3, <1>9 DEF Reach
    <3>4. Tidy(v)
      BY <3>2, <3>3, SweptTidy DEF Tidied
    <3> QED BY <1>1, <3>2, <3>3, <3>4 DEF Tidied, Eased
  <2> QED BY <2>1, <2>2
<1>11. Copied(v, t, k)
  BY <1>2, <1>3, <1>4, <1>10, CopyEased
<1>12. Paged(t.e) /\ Reach(t) /\ Tidy(t) /\ (t.e.defer = TRUE => v.e.defer = TRUE)
  BY <1>10, <1>11 DEF Copied, Eased
<1>13. Level(t)
  BY <1>3, <1>6, <1>10, <1>11 DEF Copied, Eased, Level
<1>14. Attended(t)
  <2> SUFFICES ASSUME t.e.defer = TRUE, ~\E j \in Clients : t.c[j].on = TRUE /\ t.c[j].cb = FALSE
               PROVE  FALSE
    BY DEF Attended
  <2>1. AtEnd(t)
    BY <1>7, OneBehind DEF Fully
  <2>2. t.c[k].cb = TRUE
    <3>1. t.c[k].cb \in BOOLEAN
      BY <1>5, StateParts DEF Good, Readers
    <3> QED BY <1>6, <3>1, Zenon
  <2>3. t.c = v.c /\ Lowest(v) # v.e.hi
    BY <1>11, <2>2 DEF Copied
  <2>4. AtEnd(v)
    BY <1>3, <1>6, <2>1, <2>3 DEF AtEnd
  <2> QED BY <1>2, <1>3, <1>4, <2>3, <2>4, LowestAtEnd
<1> QED BY <1>6, <1>8, <1>10, <1>12, <1>13, <1>14 DEF Easy

\* storeSwapOutMaintainMemObject, when nobody is behind, frees so much of an
\* object of which something is on disk that the read goes on.
LEMMA Resumes ==
    ASSUME UsualSizes, NEW s, Good(s), s.e.st = "pending", Paged(s.e), Level(s), AtEnd(s),
           s.e.hi > Gap, NEW t, t = MaintainMemObject(s), t.e.queue > 0
    PROVE  t.e.defer # TRUE
<1>1. s \in States /\ s.e \in Entries /\ Alive(s.e) /\ s.e.inmem = FALSE
  BY PendingNotKept
<1>2. /\ Page \in Nat /\ Page >= 2 /\ 2 * Page <= Gap + 1 /\ Gap \in Nat /\ MaxInMem \in Nat
      /\ MaxInMem <= Gap
  BY SizesAssumption DEF UsualSizes
<1>3. s.e.hi \in Nat /\ s.e.lo \in Nat /\ s.e.queue \in Nat
  BY <1>1, EntryTypes
<1>4. CASE SwapOutAble(s)
  <2> DEFINE a == Aim(s, TRUE)
             q == s.e.queue
             h == s.e.hi
             l == s.e.lo
             z == t.e.lo
  <2>1. t = FreePages(s, TRUE)
    BY <1>1, <1>4, Zenon DEF MaintainMemObject
  <2>2. Ready(s.e, TRUE) /\ s.e.release = FALSE
    BY <1>4, AbleFacts DEF Ready
  <2>3. FreedTo(s, a, t)
    BY <1>1, <2>1, <2>2, FreePagesFar
  <2>4. Good(t) /\ Trimmed(s, t)
    BY <1>1, <2>1, <2>2, FreePagesGood
  <2>5. q > 0 /\ z \in Nat
    BY <2>4, StateParts, EntryTypes DEF Trimmed, OnDisk, Good
  <2>6. s.e.sio = TRUE
    <3>1. s.e.release # TRUE
      BY <2>2, Zenon
    <3>2. s.e.swap # "none" /\ s.e.swap # "done"
      <4>1. s.e.queue # 0 /\ s.e.st # "ok"
        BY <1>3, <2>5
      <4>2. s.e.swap = "none" => s.e.release = TRUE \/ s.e.queue = 0
        BY <1>1 DEF Alive, File
      <4>3. s.e.swap = "done" => s.e.release = TRUE \/ s.e.st = "ok"
        BY <1>1 DEF Alive, File
      <4> QED BY <3>1, <4>1, <4>2, <4>3, Zenon
    <3>3. s.e.swap = "writing"
      BY <1>1, <3>2, EntryTypes
    <3> QED BY <1>1, <3>3 DEF Alive, File
  <2>7. h < q + Page /\ l < q /\ q <= h
    <3>1. l < q \/ l = 0
      BY <1>1, <2>6 DEF Alive, File
    <3> QED BY <1>1, <1>3, <2>5, <2>6, <3>1 DEF Level, Alive, Bounds
  <2>8. l + Page <= q
    BY <2>7, PageGap DEF Paged
  <2>9. a = q - 1
    <3>1. Lowest(s) = h + 1 \/ Lowest(s) = h
      BY LowestAtEnd
    <3>2. WantedLo(s, TRUE) = Lowest(s)
      BY <1>2, <1>3 DEF WantedLo
    <3>3. a = IF Lowest(s) # 0 THEN Least(Lowest(s), q - 1) ELSE Lowest(s)
      BY <3>2 DEF Aim, CappedLo
    <3> HIDE DEF a, q, h
    <3>4. h \in Nat /\ q \in Nat
      BY <1>3 DEF h, q
    <3> QED BY <2>5, <2>7, <3>1, <3>3, <3>4 DEF Least
  <2>10. /\ h <= z + Page \/ a < z + Page
         /\ t.e.defer = (s.e.defer /\ s.e.hi - t.e.lo > Gap)
    <3>1. ~(a <= l)
      <4> HIDE DEF a, q, l
      <4>1. q \in Nat /\ l \in Nat
        BY <1>3 DEF q, l
      <4> QED BY <1>2, <2>8, <2>9, <4>1
    <3> QED BY <2>3, <3>1 DEF FreedTo
  <2>11. ~(s.e.hi - t.e.lo > Gap)
    <3>1. h \in Nat /\ q \in Nat
      BY <1>3
    <3> HIDE DEF a, q, h, z
    <3>2. ~(h - z > Gap)
      BY <1>2, <2>5, <2>7, <2>9, <2>10, <3>1
    <3> QED BY <3>2 DEF h, z
  <2> HIDE DEF a, q, h, l, z
  <2> QED BY <2>10, <2>11, Zenon
<1>5. CASE ~SwapOutAble(s)
  <2> DEFINE v == Closing(s)
             a == Lowest(v)
             h == s.e.hi
             z == t.e.lo
  <2>1. t = FreePages(v, FALSE)
    BY <1>1, <1>5, Zenon DEF MaintainMemObject, Closing
  <2>2. /\ Good(v) /\ Quiet(s, v) /\ v.e.sio = FALSE /\ v.e.release = TRUE
        /\ v.e.st = "pending" /\ Paged(v.e)
    BY ClosingEased
  <2> HIDE DEF v
  <2>3. Ready(v.e, FALSE) /\ v.e.inmem = FALSE /\ v.e.hi = s.e.hi /\ v.c = s.c
    BY <1>1, <2>2 DEF Ready, Quiet, Fixed
  <2>4. Alive(v.e) /\ v.e \in Entries /\ v.e.lo \in Nat
    BY <2>2, PendingNotKept, EntryTypes
  <2>5. Aim(v, FALSE) = a
    BY DEF Aim, CappedLo, WantedLo
  <2>6. FreedTo(v, a, t)
    <3>1. FreedTo(v, Aim(v, FALSE), t)
      BY <2>1, <2>2, <2>3, <2>4, FreePagesFar
    <3> QED BY <2>5, <3>1
  <2>7. a = h + 1 \/ a = h
    <3>1. AtEnd(v)
      BY <2>3 DEF AtEnd
    <3>2. Lowest(v) = v.e.hi + 1 \/ Lowest(v) = v.e.hi
      BY <2>2, <3>1, LowestAtEnd
    <3> QED BY <2>3, <3>2
  <2>8. v.e.lo < h
    BY <1>2, <1>3, <2>3, <2>4 DEF Alive, Bounds
  <2>9. z \in Nat
    <3>1. Good(t)
      BY <2>1, <2>2, <2>3, <2>4, FreePagesGood
    <3> QED BY <3>1, StateParts, EntryTypes DEF Good
  <2>10. /\ h <= z + Page \/ a < z + Page
         /\ t.e.defer = (v.e.defer /\ v.e.hi - t.e.lo > Gap)
    <3>1. ~(a <= v.e.lo)
      <4> HIDE DEF a, h
      <4>1. h \in Nat
        BY <1>3 DEF h
      <4> QED BY <2>4, <2>7, <2>8, <4>1
    <3> QED BY <2>3, <2>6, <3>1 DEF FreedTo
  <2>11. ~(v.e.hi - t.e.lo > Gap)
    <3>1. h \in Nat
      BY <1>3
    <3> HIDE DEF a, h, z
    <3>2. ~(h - z > Gap)
      BY <1>2, <2>7, <2>9, <2>10, <3>1
    <3> QED BY <2>3, <3>2 DEF h, z
  <2> HIDE DEF a, h, z
  <2> QED BY <2>10, <2>11, Zenon
<1> QED BY <1>4, <1>5

\* fwdCheckDeferRead only defers the read when somebody is behind.
LEMMA DeferEasy ==
    ASSUME UsualSizes, IInv, EInv, ServerDefer
    PROVE  EInv'
<1> DEFINE s == State
           t == PutOff(s, TRUE)
<1>1. Good(s) /\ AllSettled(s) /\ s.e = e /\ s.c = c /\ s \in States /\ e \in Entries
  BY StateIs
<1>2. e.st = "pending" /\ MustDefer /\ e' = [e EXCEPT !.defer = TRUE] /\ c' = c /\ broken' = broken
  BY DEF ServerDefer
<1>3. Become(t)
  <2>1. t.e = [e EXCEPT !.defer = TRUE] /\ t.c = c /\ t.broken = broken
    BY <1>1 DEF State, PutOff
  <2> HIDE DEF t
  <2> QED BY <1>2, <2>1 DEF Become
<1>4. Easy(s)
  BY DEF EInv
<1>m. \/ s.e.release = TRUE /\ s.e.hi - s.e.lo > Page + MaxInMem + Gap
      \/ s.e.hi - Lowest(s) > Gap
  <2>1. e.release \in BOOLEAN
    BY <1>1, EntryFlags
  <2> QED BY <1>1, <1>2, <2>1, Zenon DEF MustDefer
<1> HIDE DEF s
<1>a. s.e.st = "pending"
  BY <1>1, <1>2
<1>5. Good(t) /\ Quiet(s, t)
  BY <1>1, <1>a, DeferGood, PendingNotKept DEF PutOff
<1>6. /\ t.c = s.c /\ t.e.release = s.e.release /\ t.e.lo = s.e.lo /\ t.e.hi = s.e.hi
      /\ t.e.queue = s.e.queue /\ t.e.sio = s.e.sio /\ t.e.defer = TRUE
  BY <1>1, DeferParts
<1> HIDE DEF t
<1>7. t.e.aborted = s.e.aborted
  BY <1>5 DEF Quiet, Fixed
<1>8. s.e.aborted = FALSE /\ Paged(s.e) /\ Reach(s) /\ Level(s) /\ Tidy(s)
  BY <1>4, <1>a DEF Easy
<1>9. /\ s.e.hi \in Nat /\ s.e.lo \in Nat /\ Lowest(s) \in Nat
      /\ Page \in Nat /\ MaxInMem \in Nat /\ Gap \in Nat /\ Buf \in Nat /\ Buf <= MaxInMem + Gap
  BY <1>1, <1>a, EntryTypes, LowestIs, SizesAssumption DEF UsualSizes
<1>10. s.e.hi > Gap
  BY <1>m, <1>9
<1>11. ~AtEnd(s)
  <2> SUFFICES ASSUME AtEnd(s) PROVE FALSE
    OBVIOUS
  <2>1. AllRead(s)
    BY DEF AtEnd, AllRead
  <2>2. s.e.release = TRUE => s.e.hi <= s.e.lo + Page + Buf
    BY <1>8, <2>1 DEF Tidy
  <2>3. Lowest(s) = s.e.hi + 1 \/ Lowest(s) = s.e.hi
    BY <1>1, <1>a, LowestAtEnd
  <2>4. CASE s.e.hi - Lowest(s) > Gap
    BY <1>9, <2>3, <2>4
  <2>5. CASE s.e.release = TRUE /\ s.e.hi - s.e.lo > Page + MaxInMem + Gap
    BY <1>9, <2>2, <2>5
  <2> QED BY <1>m, <2>4, <2>5
<1>12. Attended(t)
  BY <1>1, <1>6, <1>11, OneBehind DEF Attended
<1>13. Paged(t.e) /\ Reach(t) /\ Level(t) /\ Tidy(t)
  BY <1>6, <1>8 DEF Paged, Reach, Level, Tidy, AllRead
<1>14. Easy(t)
  BY <1>6, <1>7, <1>8, <1>10, <1>12, <1>13 DEF Easy
<1>15. t \in States
  BY <1>5 DEF Good
<1> QED BY <1>3, <1>14, <1>15, BecomeEasy

\* storeUnlockObject of an object that does not grow any more.
LEMMA UnlockEnds ==
    ASSUME NEW s \in States, s.e.st # "pending", NEW t, t = UnlockObject(s)
    PROVE  t.e.st # "pending"
<1>1. s.e \in Entries
  BY StateParts
<1>2. NoEntry.st # "pending"
  BY DEF NoEntry
<1>3. [s EXCEPT !.e = NoEntry].e.st # "pending"
  BY <1>2 DEF States
<1>4. [s EXCEPT !.e.inmem = TRUE].e.st # "pending"
  BY <1>1 DEF States, Entries
<1>5. PurgeMem(s).e.st # "pending"
  <2>1. CASE s.e.swap = "done"
    BY <1>1, <2>1 DEF PurgeMem, States, Entries
  <2>2. CASE s.e.swap # "done"
    BY <1>3, <2>2 DEF PurgeMem
  <2> QED BY <2>1, <2>2
<1>6. \/ t = s \/ t = [s EXCEPT !.e = NoEntry] \/ t = [s EXCEPT !.e.inmem = TRUE]
      \/ t = PurgeMem(s)
  BY Zenon DEF UnlockObject
<1>7. CASE t = s
  BY <1>7
<1>8. CASE t = [s EXCEPT !.e = NoEntry]
  BY <1>3, <1>8
<1>9. CASE t = [s EXCEPT !.e.inmem = TRUE]
  BY <1>4, <1>9
<1>10. CASE t = PurgeMem(s)
  BY <1>5, <1>10
<1> QED BY <1>6, <1>7, <1>8, <1>9, <1>10

\* fwdStateFree
LEMMA FreeEnds ==
    ASSUME NEW s \in States, s.e.st = "ok", NEW t, t = FwdStateFree(s)
    PROVE  t.e.st # "pending"
<1> DEFINE x == [s.e EXCEPT !.defer = FALSE, !.srv = FALSE]
           u == [s EXCEPT !.e.defer = FALSE, !.e.srv = FALSE]
<1>1. s.e \in Entries
  BY StateParts
<1>2. u = Put(s, x)
  BY <1>1 DEF Put, States
<1>3. x \in Entries /\ x.st = "ok"
  BY <1>1 DEF Entries
<1>4. t = UnlockObject(u)
  BY DEF FwdStateFree
<1> HIDE DEF x, u
<1>5. u \in States /\ u.e = x
  BY <1>2, <1>3, PutParts
<1>6. u.e.st # "pending"
  BY <1>3, <1>5
<1> QED BY <1>4, <1>5, <1>6, UnlockEnds

\* A step to an object that does not grow.
LEMMA EndsEasy ==
    ASSUME IInv', NEW s, Become(s), s.e.st # "pending"
    PROVE  EInv'
<1>1. State'.e = s.e
  BY DEF State, Become
<1> QED BY <1>1 DEF EInv, Easy

LEMMA HitEasy ==
    ASSUME IInv, EInv, NEW k \in Clients, NEW io \in Outcomes, Hit(k, io)
    PROVE  EInv'
<1> DEFINE y == Newcomer(ClientType(State))
           u == Turn(State, k, y)
           v == IF e.defer THEN SwapOut(u, io) ELSE u
           t == ClientCopy(v, k, io)
<1>1. /\ Fully(State) /\ State.e = e /\ State.c = c /\ e \in Entries /\ c \in [Clients -> Readers]
      /\ Easy(State)
  BY StateIs DEF IInv, EInv
<1>2. Become(t)
  BY DEF Hit, Newcomer, Turn
<1>3. ~c[k].on /\ ~e.release /\ (e.hi > 0 \/ e.swap = "done")
  BY DEF Hit
<1>4. State.e.release = FALSE /\ (State.e.hi > 0 \/ State.e.swap = "done")
  <2>1. e.release = FALSE
    BY <1>1, <1>3, EntryFlags, Zenon
  <2> QED BY <1>1, <1>3, <2>1
<1>5. y \in Readers /\ y.on = TRUE /\ y.cb = TRUE /\ GoodClient(State.e, y)
  BY <1>1, <1>4, NewcomerGood
<1> HIDE DEF y
<1>6. v = u \/ v = SwapOut(u, io)
  BY Zenon
<1>7. State.c[k].on = TRUE => State.c[k].got = y.got
  BY <1>1, <1>3, Zenon
<1> HIDE DEF v
<1>8. Easy(t)
  BY <1>1, <1>5, <1>6, <1>7, AskEased
<1>9. t \in States
  <2>1. Fully(t)
    BY <1>1, <1>5, <1>6, AskGood
  <2> QED BY <2>1 DEF Fully, Good
<1> HIDE DEF t
<1> QED BY <1>2, <1>8, <1>9, BecomeEasy

LEMMA CopyMoreEasy ==
    ASSUME IInv, EInv, NEW k \in Clients, NEW io \in Outcomes, CopyMore(k, io)
    PROVE  EInv'
<1> DEFINE y == Further(c[k])
           u == Turn(State, k, y)
           v == IF e.defer THEN SwapOut(u, io) ELSE u
           t == ClientCopy(v, k, io)
<1>1. Fully(State) /\ State.c = c /\ Easy(State)
  BY StateIs DEF IInv, EInv
<1>2. /\ Become(t) /\ y \in Readers /\ y.on = TRUE /\ y.cb = TRUE /\ y.got = c[k].got
      /\ GoodClient(State.e, y)
  BY CopyMoreAsks
<1> HIDE DEF y
<1>3. State.c[k].on = TRUE => State.c[k].got = y.got
  BY <1>1, <1>2
<1>4. v = u \/ v = SwapOut(u, io)
  BY Zenon
<1> HIDE DEF v
<1>5. Easy(t)
  BY <1>1, <1>2, <1>3, <1>4, AskEased
<1>6. t \in States
  <2>1. Fully(t)
    BY <1>1, <1>2, <1>4, AskGood
  <2> QED BY <2>1 DEF Fully, Good
<1> HIDE DEF t
<1> QED BY <1>2, <1>5, <1>6, BecomeEasy

\* The client leaves an object that grows.
LEMMA LeaveEased ==
    ASSUME UsualSizes, NEW s, Fully(s), Easy(s), s.e.st = "pending", NEW k \in Clients,
           NEW u, u = Turn(s, k, NoClient), NEW t, t = MaintainMemObject(u)
    PROVE  Easy(t) /\ Good(t) /\ t.e.st = "pending" /\ UnlockObject(t) = t
<1>1. NoClient \in Readers /\ GoodClient(s.e, NoClient) /\ NoClient.on = FALSE
  BY DEF NoClient, Readers, GoodClient
<1>2. Good(u) /\ u.e = s.e /\ u.c[k] = NoClient /\ \A j \in Clients : j # k => u.c[j] = s.c[j]
  BY <1>1, TurnGood DEF Fully
<1>3. Good(t) /\ Quiet(u, t)
  BY <1>2, MaintainGood
<1>4. t.c = u.c /\ t.e.st = "pending" /\ t.e.hi = s.e.hi /\ t.e.aborted = s.e.aborted
  BY <1>2, <1>3 DEF Quiet, Fixed
<1>5. /\ s.e.aborted = FALSE /\ Paged(s.e) /\ Reach(s) /\ Level(s)
      /\ s.e.defer = TRUE => s.e.hi > Gap
  BY DEF Easy
<1>n. NoClient.on # TRUE
  BY <1>1, Zenon
<1>6. Paged(u.e) /\ Reach(u) /\ Level(u)
  BY <1>2, <1>5, <1>n DEF Reach, Level
<1>7. Tidied(u, t)
  BY <1>2, <1>6, MaintainEased
<1>8. Reach(t)
  BY <1>4, <1>6 DEF Reach
<1>9. Tidy(t)
  BY <1>7, <1>8, SweptTidy DEF Tidied
<1>10. Paged(t.e) /\ (t.e.defer = TRUE => s.e.defer = TRUE)
  BY <1>2, <1>7 DEF Tidied, Eased
<1>11. Level(t)
  BY <1>2, <1>4, <1>6, <1>7 DEF Tidied, Eased, Level
<1>12. Attended(t)
  <2> SUFFICES ASSUME t.e.defer = TRUE, t.e.queue > 0,
                      ~\E j \in Clients : t.c[j].on = TRUE /\ t.c[j].cb = FALSE
               PROVE  FALSE
    BY DEF Attended
  <2>1. AllSettled(u)
    <3> SUFFICES ASSUME NEW j \in Clients PROVE Settled(u.e, u.c[j])
      BY DEF AllSettled
    <3>1. CASE j = k
      BY <1>2, <1>n, <3>1 DEF Settled
    <3>2. CASE j # k
      BY <1>2, <3>2 DEF Fully, AllSettled
    <3> QED BY <3>1, <3>2
  <2>2. ~\E j \in Clients : u.c[j].on = TRUE /\ u.c[j].cb = FALSE
    BY <1>4
  <2>3. AtEnd(u)
    BY <1>2, <2>1, <2>2, OneBehind
  <2>4. u.e.hi > Gap
    BY <1>2, <1>5, <1>10
  <2>5. t.e.defer # TRUE
    BY <1>2, <1>6, <2>3, <2>4, Resumes
  <2> QED BY <2>5
<1>13. Easy(t)
  BY <1>4, <1>5, <1>8, <1>9, <1>10, <1>11, <1>12 DEF Easy
<1>14. UnlockObject(t) = t
  <2>1. t.e.srv = TRUE
    BY <1>3, <1>4, PendingNotKept
  <2> QED BY <2>1, Zenon DEF UnlockObject
<1> QED BY <1>3, <1>4, <1>13, <1>14

LEMMA UnregisterEasy ==
    ASSUME UsualSizes, IInv, EInv, NEW k \in Clients, NEW io \in Outcomes, NEW abort \in BOOLEAN,
           Unregister(k, io, abort)
    PROVE  EInv'
<1> DEFINE s == Turn(State, k, NoClient)
           s1 == IF e.st = "ok" /\ e.swap # "done" THEN SwapOut(s, io) ELSE s
           s2 == MaintainMemObject(s1)
           s3 == IF abort THEN StoreAbort(s2, io) ELSE s2
           t == UnlockObject(s3)
<1>1. /\ Fully(State) /\ Good(State) /\ State.e = e /\ Easy(State)
  BY StateIs DEF IInv, EInv
<1>2. Become(t)
  BY DEF Unregister, Turn
<1>3. abort = TRUE => e.st = "pending"
  BY DEF Unregister
<1>4. NoClient \in Readers /\ GoodClient(State.e, NoClient)
  BY DEF NoClient, Readers, GoodClient
<1>5. Good(s) /\ s.e = e /\ s = Turn(State, k, NoClient)
  BY <1>1, <1>4, TurnGood
<1>i. IInv'
  BY UnregisterKeeps
<1> HIDE DEF s
<1>6. CASE e.st = "pending"
  <2>1. s1 = s
    BY <1>6
  <2>2. s2 = MaintainMemObject(s)
    BY <2>1
  <2> HIDE DEF s1, s2
  <2>3. Easy(s2) /\ Good(s2) /\ s2.e.st = "pending" /\ UnlockObject(s2) = s2
    BY <1>1, <1>5, <1>6, <2>2, LeaveEased
  <2>4. CASE abort = TRUE
    <3> DEFINE w == StoreAbort(s2, io)
    <3>1. s3 = w
      BY <2>4, Zenon
    <3>2. Good(w) /\ w.e.st = "ok"
      BY <2>3, StoreAbortGood
    <3> HIDE DEF w, s3
    <3>3. s3 \in States /\ s3.e.st # "pending"
      BY <3>1, <3>2 DEF Good
    <3>4. t.e.st # "pending"
      BY <3>3, UnlockEnds
    <3> HIDE DEF t
    <3> QED BY <1>2, <1>i, <3>4, EndsEasy
  <2>5. CASE abort = FALSE
    <3>1. s3 = s2
      BY <2>5, Zenon
    <3> HIDE DEF s3
    <3>2. t = s2
      BY <2>3, <3>1
    <3> HIDE DEF t
    <3>3. t \in States /\ Easy(t)
      BY <2>3, <3>2 DEF Good
    <3> QED BY <1>2, <3>3, BecomeEasy
  <2> QED BY <2>4, <2>5
<1>7. CASE e.st # "pending"
  <2>1. abort = FALSE
    BY <1>3, <1>7
  <2>2. Good(s1) /\ Quiet(s, s1)
    <3>1. s1 = s \/ s1 = SwapOut(s, io)
      OBVIOUS
    <3> HIDE DEF s1
    <3> QED BY <1>5, <3>1, SwapOutGood, QuietSelf
  <2> HIDE DEF s1
  <2>3. Good(s2) /\ Quiet(s1, s2)
    BY <2>2, MaintainGood
  <2> HIDE DEF s2
  <2>4. s2.e.st # "pending" /\ s2 \in States
    BY <1>5, <1>7, <2>2, <2>3 DEF Quiet, Fixed, Good
  <2>5. s3 = s2
    BY <2>1, Zenon
  <2> HIDE DEF s3
  <2>6. t.e.st # "pending"
    BY <2>4, <2>5, UnlockEnds
  <2> HIDE DEF t
  <2> QED BY <1>2, <1>i, <2>6, EndsEasy
<1> QED BY <1>6, <1>7

LEMMA RequestEasy ==
    ASSUME IInv, NEW k \in Clients, Request(k)
    PROVE  EInv'
<1> DEFINE y == [NoClient EXCEPT !.on = TRUE, !.cb = TRUE]
<1>1. Good(State) /\ State.e = e /\ State.c = c /\ c \in [Clients -> Readers]
  BY StateIs
<1>2. e.st = "none" /\ e' = FreshEntry /\ c' = [c EXCEPT ![k] = y]
  BY DEF Request
<1> DEFINE t == State'
<1>3. t.e = FreshEntry /\ t.c = [c EXCEPT ![k] = y]
  BY <1>2 DEF State
<1>4. t.c[k] = y /\ \A j \in Clients : j # k => t.c[j] = c[j]
  BY <1>1, <1>3
<1>5. \A j \in Clients : c[j].on # TRUE
  BY <1>1, <1>2 DEF Good, GoodClient, Reads
<1>6. y.pos = 0 /\ y.got = 0
  BY DEF NoClient
<1>7. /\ FreshEntry.aborted = FALSE /\ FreshEntry.lo = 0 /\ FreshEntry.queue = 0
      /\ FreshEntry.sio = FALSE /\ FreshEntry.release = FALSE /\ FreshEntry.defer = FALSE
  BY DEF FreshEntry, NoEntry
<1> HIDE DEF y
<1>8. y.got <= y.pos + Buf
  BY <1>6, SizesAssumption
<1> HIDE DEF t
<1>9. Reach(t)
  BY <1>4, <1>5, <1>8 DEF Reach
<1>10. Paged(t.e)
  BY <1>3, <1>7, ZeroOnPage DEF Paged
<1>11. t.e.sio # TRUE /\ t.e.release # TRUE /\ t.e.defer # TRUE /\ t.e.aborted = FALSE
  BY <1>3, <1>7, Zenon
<1>12. Easy(t)
  BY <1>9, <1>10, <1>11 DEF Easy, Level, Tidy, Attended
<1> QED BY <1>12 DEF EInv, t

\* The header of the reply leaves the pages alone.
LEMMA HeadedParts ==
    ASSUME NEW s \in States, NEW n, NEW r, NEW b, Heading(s, n, r, b), NEW t, t = Headed(s, n, r, b)
    PROVE  /\ t.e.lo = s.e.lo /\ t.e.queue = s.e.queue /\ t.e.defer = s.e.defer
           /\ t.e.aborted = s.e.aborted
<1> DEFINE x == [s.e EXCEPT !.clen = n, !.release = r, !.neg = b]
<1>1. s.e \in Entries
  BY StateParts
<1>2. n \in Nat \cup {-1} /\ r \in BOOLEAN /\ b \in BOOLEAN
  BY Zenon DEF Heading
<1>3. t = Put(s, x)
  BY <1>1 DEF Put, States, Headed
<1>4. x \in Entries
  BY <1>1, <1>2 DEF Entries
<1>5. /\ x.lo = s.e.lo /\ x.queue = s.e.queue /\ x.defer = s.e.defer /\ x.aborted = s.e.aborted
  BY <1>1 DEF Entries
<1> HIDE DEF x
<1>6. t.e = x
  BY <1>3, <1>4, PutParts
<1> QED BY <1>5, <1>6

LEMMA ServerReadEasy ==
    ASSUME IInv, EInv, NEW n \in 1..MaxRead, NEW kind, NEW clen \in Lengths \cup {-1},
           NEW io \in Outcomes, ServerRead(n, kind, clen, io)
    PROVE  EInv'
<1> DEFINE r == e.release \/ kind = "private"
           b == e.neg \/ kind = "negative"
           s == Headed(State, clen, r, b)
           u == StoreAppend(s, n, io)
           t == Transferred(u, io)
<1>1. Good(State) /\ State.e = e /\ State \in States /\ e \in Entries
  BY StateIs
<1>e. Easy(State)
  BY DEF EInv
<1>2. e.st = "pending" /\ ~e.defer /\ e.hi + n <= MaxLen
  BY DEF ServerRead
<1>3. Become(t)
  <2> DEFINE w == [State EXCEPT !.e.clen = clen, !.e.release = @ \/ kind = "private",
                                !.e.neg = @ \/ kind = "negative"]
  <2>1. Become(Transferred(StoreAppend(w, n, io), io))
    BY DEF ServerRead
  <2>2. w = s
    BY <1>1 DEF Headed, States, Entries
  <2> HIDE DEF w, s
  <2> QED BY <2>1, <2>2
<1>i. IInv'
  BY ServerReadKeeps
<1>4. r \in BOOLEAN /\ b \in BOOLEAN /\ (State.e.release = TRUE => r = TRUE)
  BY <1>1, Zenon
<1>5. clen \in Nat \cup {-1} /\ n \in Nat /\ n > 0 /\ e.hi \in Nat
  BY <1>1, SizesAssumption, EntryTypes
<1>6. State.e.aborted = FALSE /\ Paged(State.e) /\ Reach(State) /\ State.e.defer # TRUE
  BY <1>1, <1>2, <1>e DEF Easy
<1>a. s = Headed(State, clen, r, b) /\ State.e.st = "pending"
  BY <1>1, <1>2
<1> HIDE DEF r, b, s
<1>h. Heading(State, clen, r, b)
  BY <1>4, <1>5, Zenon DEF Heading
<1>7. Good(s) /\ s.c = State.c /\ s.e.st = "pending" /\ s.e.hi = State.e.hi
  BY <1>1, <1>a, <1>h, HeadedGood
<1>8. /\ s.e.lo = State.e.lo /\ s.e.queue = State.e.queue /\ s.e.defer = State.e.defer
      /\ s.e.aborted = State.e.aborted
  BY <1>1, <1>a, <1>h, HeadedParts
<1>9. s.e.hi + n <= MaxLen /\ s.e.aborted = FALSE /\ Paged(s.e) /\ Reach(s) /\ s.e.defer # TRUE
  BY <1>1, <1>2, <1>6, <1>7, <1>8 DEF Paged, Reach
<1>10. /\ Good(u) /\ AllSettled(u) /\ SameOn(s, u) /\ u.e.st = "pending"
       /\ u.e.hi = s.e.hi + n /\ u.e.clen = s.e.clen /\ (s.e.release = TRUE => u.e.release = TRUE)
  BY <1>5, <1>7, <1>9, StoreAppendGood
<1>11. /\ Paged(u.e) /\ Reach(u) /\ Level(u) /\ Tidy(u) /\ u.e.aborted = FALSE
       /\ u.e.defer = TRUE => s.e.defer = TRUE
  BY <1>5, <1>7, <1>9, AppendEased
<1> HIDE DEF u
<1>12. CASE u.e.hi = u.e.clen
  <2> DEFINE w == StoreComplete(u, io)
  <2>1. t = FwdStateFree(w)
    BY <1>12 DEF Transferred
  <2>2. u.e.hi > 0
    BY <1>1, <1>5, <1>7, <1>10
  <2>3. Good(w) /\ w.e.st = "ok"
    BY <1>10, <2>2, StoreCompleteGood
  <2> HIDE DEF w, t
  <2>4. t.e.st # "pending"
    BY <2>1, <2>3, FreeEnds DEF Good
  <2> QED BY <1>3, <1>i, <2>4, EndsEasy
<1>13. CASE u.e.hi # u.e.clen
  <2>1. t = u
    BY <1>13 DEF Transferred
  <2> HIDE DEF t
  <2>2. t.e.defer # TRUE
    BY <1>9, <1>11, <2>1
  <2>3. Easy(t)
    BY <1>11, <2>1, <2>2 DEF Easy, Attended
  <2> QED BY <1>3, <1>10, <2>1, <2>3, BecomeEasy DEF Good
<1> QED BY <1>12, <1>13

LEMMA ServerEasy ==
    ASSUME UsualSizes, IInv, EInv, Server
    PROVE  EInv'
<1>1. Good(State) /\ State.e = e /\ State \in States
  BY StateIs
<1>i. IInv'
  BY ServerKeeps
<1>2. CASE ServerDefer
  BY <1>2, DeferEasy
<1>3. CASE \E n \in 1..MaxRead, kind \in {"public", "negative", "private"},
               clen \in Lengths \cup {-1}, io \in Outcomes : ServerRead(n, kind, clen, io)
  BY <1>3, ServerReadEasy
<1>4. ASSUME NEW io \in Outcomes, ServerEof(io) PROVE EInv'
  <2> DEFINE u == StoreComplete(State, io)
             t == FwdStateFree(u)
  <2>1. State.e.st = "pending" /\ State.e.hi > 0 /\ Become(t)
    BY <1>1, <1>4 DEF ServerEof
  <2>2. Good(u) /\ u.e.st = "ok"
    BY <1>1, <2>1, StoreCompleteGood
  <2> HIDE DEF u
  <2>3. t.e.st # "pending"
    BY <2>2, FreeEnds DEF Good
  <2> HIDE DEF t
  <2> QED BY <1>i, <2>1, <2>3, EndsEasy
<1>5. ASSUME NEW io \in Outcomes, ServerFail(io) PROVE EInv'
  <2> DEFINE u == StoreRequestFailed(State, io)
             t == FwdStateFree(u)
  <2>1. State.e.st = "pending" /\ Become(t)
    BY <1>1, <1>5 DEF ServerFail
  <2>2. Good(u) /\ u.e.st = "ok"
    BY <1>1, <2>1, RequestFailedGood
  <2> HIDE DEF u
  <2>3. t.e.st # "pending"
    BY <2>2, FreeEnds DEF Good
  <2> HIDE DEF t
  <2> QED BY <1>i, <2>1, <2>3, EndsEasy
<1>6. CASE FwdAbort
  <2> DEFINE t == FwdStateFree(State)
  <2>1. State.e.st = "ok" /\ Become(t)
    BY <1>1, <1>6 DEF FwdAbort
  <2>2. t.e.st # "pending"
    BY <1>1, <2>1, FreeEnds
  <2> HIDE DEF t
  <2> QED BY <1>i, <2>1, <2>2, EndsEasy
<1> QED BY <1>2, <1>3, <1>4, <1>5, <1>6 DEF Server

LEMMA MemPurgeEasy ==
    ASSUME IInv, MemPurge
    PROVE  EInv'
<1> DEFINE t == PurgeMem(State)
<1>1. Good(State) /\ State.e = e /\ State \in States /\ e \in Entries
  BY StateIs
<1>i. IInv'
  BY MemPurgeKeeps
<1>2. e.inmem /\ Become(t)
  BY DEF MemPurge
<1>3. e.inmem # FALSE
  BY <1>2, Zenon
<1>4. State.e.st # "pending"
  BY <1>1, <1>3, PendingNotKept
<1>5. t.e.st # "pending"
  <2>1. CASE State.e.swap = "done"
    BY <1>1, <1>4, <2>1 DEF PurgeMem, States, Entries
  <2>2. CASE State.e.swap # "done"
    <3>1. t = [State EXCEPT !.e = NoEntry]
      BY <2>2 DEF PurgeMem
    <3>2. [State EXCEPT !.e = NoEntry].e = NoEntry /\ NoEntry.st # "pending"
      BY <1>1 DEF States, NoEntry
    <3> QED BY <3>1, <3>2
  <2> QED BY <2>1, <2>2
<1> HIDE DEF t
<1> QED BY <1>i, <1>2, <1>5, EndsEasy

LEMMA NextEasy ==
    ASSUME UsualSizes, IInv, EInv, [Next]_vars
    PROVE  EInv'
<1>1. CASE UNCHANGED vars
  <2>1. State' = State
    BY <1>1 DEF vars, State
  <2> QED BY <2>1 DEF EInv
<1>2. ASSUME NEW k \in Clients, Request(k) PROVE EInv'
  BY <1>2, RequestEasy
<1>3. ASSUME NEW k \in Clients, NEW io \in Outcomes, Hit(k, io) PROVE EInv'
  BY <1>3, HitEasy
<1>4. ASSUME NEW k \in Clients, NEW io \in Outcomes, CopyMore(k, io) PROVE EInv'
  BY <1>4, CopyMoreEasy
<1>5. ASSUME NEW k \in Clients, NEW io \in Outcomes, NEW abort \in BOOLEAN, Unregister(k, io, abort)
      PROVE  EInv'
  BY <1>5, UnregisterEasy
<1>6. CASE MemPurge
  BY <1>6, MemPurgeEasy
<1>7. CASE Server
  BY <1>7, ServerEasy
<1> QED BY <1>1, <1>2, <1>3, <1>4, <1>5, <1>6, <1>7 DEF Next

\* What the invariant says of a deferred read.
LEMMA ReaderBehind ==
    ASSUME IInv, EInv
    PROVE  DeferHasReader
<1>1. Good(State) /\ State.e = e /\ State.c = c /\ e \in Entries /\ c \in [Clients -> Readers]
  BY StateIs
<1> SUFFICES ASSUME e.defer, e.st = "pending", e.queue > 0 PROVE \E k \in On(State) : ~c[k].cb
  BY DEF DeferHasReader
<1>2. State.e.defer = TRUE
  BY <1>1, EntryFlags, Zenon
<1>3. PICK k \in Clients : State.c[k].on = TRUE /\ State.c[k].cb = FALSE
  BY <1>1, <1>2 DEF EInv, Easy, Attended
<1>4. k \in On(State) /\ ~c[k].cb
  BY <1>1, <1>3, Zenon DEF On
<1> QED BY <1>4

\* A deferred server connection has a client that is still behind and will ask
\* again, once a part of the object is on disk, whatever the number of clients
\* and the sizes, as long as the sizes keep the usual proportions: when the
\* slowest client leaves or catches up, storeSwapOutMaintainMemObject or
\* storeClientCopy3 resumes the read (store_swapout.c:190, store_client.c:269).
THEOREM DeferCorrect ==
    ASSUME UsualSizes
    PROVE  Spec => []DeferHasReader
<1>1. Init => EInv
  BY DEF Init, EInv, Easy, State, NoEntry
<1>2. IInv /\ EInv /\ [Next]_vars => EInv'
  BY NextEasy
<1>3. IInv /\ EInv => DeferHasReader
  BY ReaderBehind
<1>4. Spec => []IInv
  BY Invariance
<1> QED BY <1>1, <1>2, <1>3, <1>4, PTL DEF Spec
=============================================================================
