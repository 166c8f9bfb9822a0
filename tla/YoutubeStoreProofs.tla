------------------------- MODULE YoutubeStoreProofs -------------------------
(***************************************************************************)
(* Theorems about YoutubeStore, for every set of URLs, chunks, requests,     *)
(* entries, files and cache_dirs.                                           *)
(*                                                                         *)
(* That a hit answers with the chunk that was asked for is not inductive: it *)
(* rests on what entries, swap files, table rows and requests know of each   *)
(* other.  Inv collects it:                                                  *)
(*   GoodEntry    an entry that is in use has a key; it has a file exactly   *)
(*                while it has a swap status; its memory object is named     *)
(*                after its own URL until it is on disk, and after a URL of   *)
(*                the same chunk from then on;                               *)
(*   GoodFile     a swap file that carries a URL carries the key of that URL; *)
(*   GoodRow      a row's key is the key of a URL of the row's chunk;         *)
(*   GoodRequest  the entry of a request in progress is in use, has a memory  *)
(*                object and, on a hit, belongs to the chunk asked for.       *)
(***************************************************************************)
EXTENDS YoutubeStore, WellFoundedInduction, TLAPS

\* two URLs of one chunk, or one URL
Kin(u, v) == u = v \/ (IsYouTubeUrl(u) /\ ChunkOf[u] = ChunkOf[v])

GoodEntry(x) ==
    /\ x \in Entry
    /\ x.st = "free" => x = Free
    /\ x.st # "free" => x.key \in Keys
    /\ x.swap = "none" <=> x.filen = None
    /\ x.st # "free" /\ x.swap # "done" => x.murl = x.key[2]
    /\ x.murl # None => Kin(x.key[2], x.murl)

GoodFile(d) ==
    /\ d \in SwapFile
    /\ d.url # None => d.key \in Keys /\ d.key[2] = d.url

GoodRow(w) == w \in TableRow /\ (w \in Row => ChunkOf[w.key[2]] = w.chunk)

GoodRequest(q, ob) ==
    /\ q \in Request
    /\ q.ph = "idle" => q.e = None
    /\ q.ph # "idle" => /\ q.e \in Entries /\ q.key \in Keys
                        /\ ob[q.e].st # "free" /\ ob[q.e].murl # None
    /\ q.ph = "hit" => Kin(ob[q.e].key[2], q.key[2])
    /\ q.ph = "serve" => q.ans \in Keys /\ Kin(q.key[2], q.ans[2])

\* x becomes z without being given a new file or a new swap status
SameSwap(x, z) == z.filen = None \/ (z.filen = x.filen /\ z.swap = x.swap)

\* what a client that holds x relies on
Kept(x, z) == z.st # "free" /\ z.key = x.key /\ z.murl = x.murl
-----------------------------------------------------------------------------
(***************************************************************************)
(* Entries.                                                                 *)
(***************************************************************************)
\* A key is a pair of a method and a URL, and never the empty value.
LEMMA KeyParts == ASSUME NEW k \in Keys PROVE k[1] \in Methods /\ k[2] \in Urls /\ k # None
BY ConstantsAssumption DEF Keys

\* To be URLs of one chunk is an equivalence.
LEMMA KinEquiv ==
    /\ \A u \in Urls : Kin(u, u)
    /\ \A u, v \in Urls : Kin(u, v) => Kin(v, u)
    /\ \A u, v, w \in Urls : Kin(u, v) /\ Kin(v, w) => Kin(u, w)
BY DEF Kin, IsYouTubeUrl

\* An address without an entry is good.
LEMMA FreeIsGood == GoodEntry(Free)
BY ConstantsAssumption DEF GoodEntry, Free, Entry, Bodies

\* storeReleaseRequest leaves file, key and memory object alone.
LEMMA ReleaseRequestKeeps ==
    ASSUME NEW x, GoodEntry(x), x.st # "free"
    PROVE  LET z == storeReleaseRequest(x)
           IN  GoodEntry(z) /\ SameSwap(x, z) /\ Kept(x, z) /\ z.st = x.st
<1> DEFINE z == storeReleaseRequest(x)
<1>1. CASE x.rel
  BY <1>1 DEF storeReleaseRequest, SameSwap, Kept
<1>2. CASE ~x.rel
  <2>1. z = [x EXCEPT !.rel = TRUE, !.pub = FALSE]
    BY <1>2 DEF storeReleaseRequest
  <2>2. x \in Entry
    BY DEF GoodEntry
  <2> HIDE DEF z
  <2>3. /\ z \in Entry /\ z.st = x.st /\ z.key = x.key /\ z.murl = x.murl
        /\ z.swap = x.swap /\ z.filen = x.filen
    BY <2>1, <2>2 DEF Entry
  <2>4. GoodEntry(z)
    BY <2>3 DEF GoodEntry
  <2> QED BY <2>3, <2>4 DEF SameSwap, Kept, z
<1> QED BY <1>1, <1>2

\* What somebody holds is in use.
LEMMA LockedInUse ==
    ASSUME NEW x, GoodEntry(x), NEW lock \in BOOLEAN, lock => x.st # "free",
           storeEntryLocked(x, lock)
    PROVE  x.st # "free"
BY DEF GoodEntry, storeEntryLocked, Free

\* storeRelease frees an entry only if no client holds it and it is complete.
LEMMA ReleaseGood ==
    ASSUME NEW x, GoodEntry(x), NEW lock \in BOOLEAN, lock => x.st # "free"
    PROVE  LET z == storeRelease(x, lock)
           IN  /\ GoodEntry(z) /\ SameSwap(x, z)
               /\ lock => Kept(x, z)
               /\ x.st = "pending" => Kept(x, z) /\ z.st = "pending"
<1>1. CASE storeEntryLocked(x, lock)
  BY <1>1, LockedInUse, ReleaseRequestKeeps DEF storeRelease
<1>2. CASE ~storeEntryLocked(x, lock) /\ Rebuilding /\ x.filen # None
  <2>1. x.st # "free" /\ x.swap = "done" /\ x.st # "pending" /\ ~lock
    BY <1>2 DEF storeEntryLocked, GoodEntry, Free, Entry
  <2> QED BY <1>2, <2>1 DEF storeRelease, GoodEntry, SameSwap, Entry, Free
<1>3. CASE ~storeEntryLocked(x, lock) /\ ~(Rebuilding /\ x.filen # None)
  BY <1>3, FreeIsGood DEF storeRelease, storeEntryLocked, SameSwap, Free
<1> QED BY <1>1, <1>2, <1>3

\* Letting go of a lock keeps an entry that another client holds.
LEMMA UnlockGood ==
    ASSUME NEW x, GoodEntry(x), NEW lock \in BOOLEAN, x.st # "free"
    PROVE  LET z == storeUnlockObject(x, lock)
           IN  GoodEntry(z) /\ SameSwap(x, z) /\ (lock => Kept(x, z))
<1>1. CASE storeEntryLocked(x, lock)
  BY <1>1 DEF storeUnlockObject, SameSwap, Kept
<1>2. CASE ~storeEntryLocked(x, lock) /\ x.rel
  <2>1. ~lock
    BY <1>2 DEF storeEntryLocked
  <2> QED BY <1>2, <2>1, ReleaseGood DEF storeUnlockObject
<1>3. CASE ~storeEntryLocked(x, lock) /\ ~x.rel /\ x.data
  BY <1>3 DEF storeUnlockObject, SameSwap, Kept
<1>4. CASE ~storeEntryLocked(x, lock) /\ ~x.rel /\ ~x.data /\ x.swap = "done"
  BY <1>4 DEF storeUnlockObject, SameSwap, storeEntryLocked, GoodEntry, Entry, Free
<1>5. CASE ~storeEntryLocked(x, lock) /\ ~x.rel /\ ~x.data /\ x.swap # "done"
  <2> DEFINE y == [x EXCEPT !.murl = None]
  <2>1. ~lock /\ x.filen = None
    BY <1>5 DEF storeEntryLocked, GoodEntry, Entry
  <2>2. ~storeEntryLocked(y, FALSE) /\ y.filen = None
    BY <1>5, <2>1 DEF storeEntryLocked, GoodEntry, Entry
  <2>3. storeRelease(y, FALSE) = Free
    BY <2>2 DEF storeRelease
  <2>4. storeUnlockObject(x, lock) = storeRelease(y, FALSE)
    BY <1>5 DEF storeUnlockObject
  <2>5. storeUnlockObject(x, lock) = Free
    BY <2>3, <2>4
  <2>6. SameSwap(x, Free)
    BY DEF SameSwap, Free
  <2> QED BY <2>1, <2>5, <2>6, FreeIsGood
<1> QED BY <1>1, <1>2, <1>3, <1>4, <1>5

\* storeSwapOut may give the entry a file, and only to start writing it.
LEMMA SwapOutGood ==
    ASSUME NEW x, GoodEntry(x), x.st # "free", NEW y \in storeSwapOut(x)
    PROVE  /\ GoodEntry(y) /\ Kept(x, y) /\ y.st = x.st
           /\ SameSwap(x, y) \/ y.swap = "writing"
<1>1. CASE y = x
  BY <1>1 DEF Kept, SameSwap
<1>2. CASE y = storeReleaseRequest(x)
  BY <1>2, ReleaseRequestKeeps
<1>3. CASE x.swap = "none" /\ \E f \in Files : y = [x EXCEPT !.swap = "writing", !.filen = f]
  <2>1. PICK f \in Files : y = [x EXCEPT !.swap = "writing", !.filen = f]
    BY <1>3
  <2>2. f # None
    BY ConstantsAssumption
  <2>3. y \in Entry
    BY <2>1 DEF GoodEntry, Entry
  <2>4. /\ y.st = x.st /\ y.key = x.key /\ y.murl = x.murl
        /\ y.swap = "writing" /\ y.filen = f
    BY <2>1 DEF GoodEntry, Entry
  <2> QED BY <1>3, <2>2, <2>3, <2>4 DEF GoodEntry, Kept
<1> QED BY ZenonT(60), <1>1, <1>2, <1>3 DEF storeSwapOut

\* storeAbort leaves file, key and memory object alone.
LEMMA AbortGood ==
    ASSUME NEW x, GoodEntry(x), x.st # "free"
    PROVE  LET z == storeAbort(x) IN GoodEntry(z) /\ Kept(x, z) /\ SameSwap(x, z)
<1> DEFINE w == storeReleaseRequest(x)
<1>1. GoodEntry(w) /\ Kept(x, w) /\ SameSwap(x, w) /\ w.st = x.st
  BY ReleaseRequestKeeps
<1>2. storeAbort(x) = [w EXCEPT !.aborted = TRUE, !.st = "ok"]
  BY DEF storeAbort
<1> HIDE DEF w
<1> DEFINE z == storeAbort(x)
<1>3. w \in Entry /\ w.st # "free"
  BY <1>1 DEF GoodEntry
<1>4. /\ z \in Entry /\ z.st = "ok" /\ z.key = w.key /\ z.murl = w.murl
      /\ z.swap = w.swap /\ z.filen = w.filen
  BY <1>2, <1>3 DEF Entry
<1> HIDE DEF z
<1>5. GoodEntry(z)
  BY <1>1, <1>3, <1>4 DEF GoodEntry
<1>6. Kept(x, z) /\ SameSwap(x, z)
  BY <1>1, <1>4 DEF Kept, SameSwap
<1> QED BY <1>5, <1>6 DEF z

\* A client that leaves disturbs neither the entry's file nor the other clients.
LEMMA UnregisterGood ==
    ASSUME NEW x, GoodEntry(x), x.st # "free", NEW others \in BOOLEAN,
           NEW z \in storeClientUnregister(x, others)
    PROVE  /\ GoodEntry(z)
           /\ others => Kept(x, z)
           /\ SameSwap(x, z) \/ z.swap = "writing"
<1>1. PICK y : /\ z = storeUnlockObject(y, others)
               /\ y \in storeSwapOut(x) \/ y = storeAbort(x) \/ y = x
  BY DEF storeClientUnregister
<1>2. /\ GoodEntry(y) /\ Kept(x, y)
      /\ SameSwap(x, y) \/ y.swap = "writing"
  BY <1>1, SwapOutGood, AbortGood DEF Kept, SameSwap
<1>3. GoodEntry(z) /\ SameSwap(y, z) /\ (others => Kept(y, z))
  BY <1>1, <1>2, UnlockGood DEF Kept
<1>4. z.filen = None => SameSwap(x, z)
  BY DEF SameSwap
<1>5. z.filen = y.filen /\ z.swap = y.swap => SameSwap(x, z) \/ z.swap = "writing"
  BY <1>2 DEF SameSwap
<1> QED BY <1>2, <1>3, <1>4, <1>5 DEF SameSwap, Kept

\* A new entry has a key and a memory object and no file.
LEMMA CreateGood ==
    ASSUME NEW k \in Keys
    PROVE  LET z == storeCreateEntry(k)
           IN  GoodEntry(z) /\ z.st = "pending" /\ z.key = k /\ z.murl # None /\ z.filen = None
BY ZenonT(60), KeyParts, KinEquiv, ConstantsAssumption DEF storeCreateEntry, GoodEntry, Entry, Free, Bodies
-----------------------------------------------------------------------------
(***************************************************************************)
(* The chunk table.                                                         *)
(***************************************************************************)
\* A set of positions that is not empty has a first one.
LEMMA FirstExists ==
    ASSUME NEW S, S \subseteq Nat, S # {}
    PROVE  \E i \in S : \A j \in S : i <= j
<1> DEFINE R == {ss \in Nat \X Nat : ss[1] < ss[2]}
<1>1. OpToRel(<, Nat) = R
  BY Zenon DEF OpToRel
<1>2. IsWellFoundedOn(R, Nat)
  BY <1>1, NatLessThanWellFounded, Zenon
<1>3. \E i \in S : \A j \in S : ~ (<<j, i>> \in R)
  <2> HIDE DEF R
  <2> QED BY <1>2, WFMin
<1>4. PICK i \in S : \A j \in S : ~ (<<j, i>> \in R)
  BY <1>3
<1>5. ASSUME NEW j \in S PROVE i <= j
  <2>1. i \in Nat /\ j \in Nat /\ ~ (<<j, i>> \in R)
    BY <1>4
  <2>2. j < i => <<j, i>> \in R
    BY <2>1
  <2> QED BY <2>1, <2>2
<1> QED BY <1>5

\* The rows of a chunk are positions of the table.
LEMMA MatchingNat ==
    ASSUME NEW R, NEW tab \in Seq(R), NEW c PROVE Matching(tab, c) \subseteq Nat
BY DEF Matching

\* getMatchedSwapoutKey returns the key of the first row of the chunk.
LEMMA FirstMatch ==
    ASSUME NEW R, NEW tab \in Seq(R), NEW c, Matching(tab, c) # {}
    PROVE  \E i \in Matching(tab, c) :
              /\ \A j \in Matching(tab, c) : i <= j
              /\ getMatchedSwapoutKey(tab, c) = tab[i].key
<1> DEFINE i == CHOOSE i \in Matching(tab, c) : \A j \in Matching(tab, c) : i <= j
<1>1. i \in Matching(tab, c) /\ \A j \in Matching(tab, c) : i <= j
  BY FirstExists, MatchingNat
<1>2. getMatchedSwapoutKey(tab, c) = tab[i].key
  BY DEF getMatchedSwapoutKey
<1> QED BY <1>1, <1>2

\* A key found in a table of good rows belongs to the chunk looked for.
LEMMA MatchedKey ==
    ASSUME NEW tab \in Seq(TableRow), \A i \in DOMAIN tab : GoodRow(tab[i]),
           NEW c \in Chunks, getMatchedSwapoutKey(tab, c) # None
    PROVE  /\ getMatchedSwapoutKey(tab, c) \in Keys
           /\ ChunkOf[getMatchedSwapoutKey(tab, c)[2]] = c
<1>1. Matching(tab, c) # {}
  BY DEF getMatchedSwapoutKey
<1>2. PICK i \in Matching(tab, c) : getMatchedSwapoutKey(tab, c) = tab[i].key
  BY <1>1, FirstMatch
<1>3. i \in DOMAIN tab /\ tab[i].chunk = c
  BY DEF Matching
<1>4. tab[i] \in Row
  BY <1>3, ConstantsAssumption DEF GoodRow, TableRow, Garbage
<1> QED BY <1>2, <1>3, <1>4 DEF GoodRow, Row

\* What storeGet finds is public and has the key asked for.
LEMMA StoreGetFinds ==
    ASSUME NEW ob, NEW k, storeGet(ob, k) # None
    PROVE  storeGet(ob, k) \in Entries /\ ob[storeGet(ob, k)].pub /\ ob[storeGet(ob, k)].key = k
<1>1. \E e \in Entries : ob[e].pub /\ ob[e].key = k
  BY DEF storeGet
<1> QED BY <1>1 DEF storeGet
-----------------------------------------------------------------------------
(***************************************************************************)
(* The inductive invariant.                                                 *)
(***************************************************************************)
GoodStore(ob) == ob \in [Entries -> Entry] /\ \A e \in Entries : GoodEntry(ob[e])
GoodRequests(rq, ob) == \A r \in Requests : GoodRequest(rq[r], ob)
GoodTable(tab) == \A i \in DOMAIN tab : GoodRow(tab[i])
GoodTableFile(f) == \A i \in DOMAIN f.recs : GoodRow(f.recs[i].row)

Inv ==
    /\ TypeOK
    /\ GoodStore(obj)
    /\ GoodRequests(req, obj)
    /\ GoodTable(table)
    /\ \A d \in Dirs : GoodTableFile(tfile[d])
    /\ \A f \in Files : GoodFile(disk[f])

\* Through the table or by key, a lookup finds an entry of the chunk asked for.
LEMMA LookupByMethod ==
    ASSUME Inv, NEW k \in Keys, NEW m, NEW ob,
           storeGetPublicByRequestMethod(ob, k, m) # None
    PROVE  LET e == storeGetPublicByRequestMethod(ob, k, m)
           IN  e \in Entries /\ ob[e].pub /\ Kin(ob[e].key[2], k[2])
<1> DEFINE e == storeGetPublicByRequestMethod(ob, k, m)
           row == IF IsYouTubeUrl(k[2]) THEN getMatchedSwapoutKey(table, ChunkOf[k[2]]) ELSE None
<1>1. CASE row # None
  <2>1. IsYouTubeUrl(k[2]) /\ row = getMatchedSwapoutKey(table, ChunkOf[k[2]])
    BY <1>1
  <2>2. ChunkOf[k[2]] \in Chunks /\ table \in Seq(TableRow) /\ \A i \in DOMAIN table : GoodRow(table[i])
    BY <2>1 DEF IsYouTubeUrl, Inv, TypeOK, GoodTable
  <2>3. row \in Keys /\ ChunkOf[row[2]] = ChunkOf[k[2]]
    BY <1>1, <2>1, <2>2, MatchedKey
  <2>4. e = storeGet(ob, row)
    BY <1>1 DEF storeGetPublicByRequestMethod
  <2>5. e \in Entries /\ ob[e].pub /\ ob[e].key = row
    BY <2>4, StoreGetFinds
  <2>6. Kin(row[2], k[2])
    BY <2>2, <2>3 DEF Kin, IsYouTubeUrl
  <2> QED BY <2>5, <2>6
<1>2. CASE row = None
  <2>1. e = storeGet(ob, <<m, k[2]>>)
    BY <1>2 DEF storeGetPublicByRequestMethod
  <2>2. e \in Entries /\ ob[e].pub /\ ob[e].key = <<m, k[2]>>
    BY <2>1, StoreGetFinds
  <2> QED BY <2>2 DEF Kin
<1> QED BY <1>1, <1>2

\* Whatever a lookup finds is public and belongs to the chunk asked for.
LEMMA LookupFinds ==
    ASSUME Inv, NEW k \in Keys, NEW ob, storeGetPublicByRequest(ob, k) # None
    PROVE  LET e == storeGetPublicByRequest(ob, k)
           IN  e \in Entries /\ ob[e].pub /\ Kin(ob[e].key[2], k[2])
BY LookupByMethod, KeyParts, ConstantsAssumption DEF storeGetPublicByRequest

\* ob becomes ob2 without a new file, and no client loses its entry
Calm(ob, ob2) ==
    /\ GoodStore(ob2)
    /\ \A e \in Entries : /\ SameSwap(ob[e], ob2[e])
                          /\ Users(e) # {} => Kept(ob[e], ob2[e])
                          /\ ob[e].st = "pending" => Kept(ob[e], ob2[e]) /\ ob2[e].st = "pending"

UsersInUse(ob) == \A e \in Entries : Users(e) # {} => ob[e].st # "free"

\* The entries of the requests in progress are in use.
LEMMA UsedEntries == ASSUME Inv PROVE UsersInUse(obj)
BY ConstantsAssumption DEF Inv, UsersInUse, Users, GoodRequests, GoodRequest

\* No change is a calm one.
LEMMA CalmReflexive ==
    ASSUME NEW ob, GoodStore(ob), UsersInUse(ob) PROVE Calm(ob, ob)
BY DEF Calm, SameSwap, Kept, UsersInUse

\* Two calm changes make one.
LEMMA CalmTransitive ==
    ASSUME NEW ob, NEW ob1, NEW ob2, Calm(ob, ob1), Calm(ob1, ob2)
    PROVE  Calm(ob, ob2)
BY DEF Calm, SameSwap, Kept

\* A calm change leaves the store good and the clients' entries in use.
LEMMA CalmUsers ==
    ASSUME NEW ob, NEW ob1, Calm(ob, ob1) PROVE UsersInUse(ob1) /\ GoodStore(ob1)
BY DEF Calm, UsersInUse, Kept

\* one entry of a good store is replaced
LEMMA CalmUpdate ==
    ASSUME NEW ob, GoodStore(ob), UsersInUse(ob), NEW e \in Entries, NEW z,
           GoodEntry(z), SameSwap(ob[e], z), Users(e) # {} => Kept(ob[e], z),
           ob[e].st = "pending" => Kept(ob[e], z) /\ z.st = "pending"
    PROVE  Calm(ob, [ob EXCEPT ![e] = z])
<1>1. z \in Entry
  BY DEF GoodEntry
<1> DEFINE ob2 == [ob EXCEPT ![e] = z]
<1>2. ob2 \in [Entries -> Entry] /\ ob2[e] = z /\ \A d \in Entries : d # e => ob2[d] = ob[d]
  BY <1>1 DEF GoodStore
<1> HIDE DEF ob2
<1>3. GoodStore(ob2)
  BY <1>2 DEF GoodStore
<1>4. ASSUME NEW d \in Entries
      PROVE  /\ SameSwap(ob[d], ob2[d])
             /\ Users(d) # {} => Kept(ob[d], ob2[d])
             /\ ob[d].st = "pending" => Kept(ob[d], ob2[d]) /\ ob2[d].st = "pending"
  BY <1>2 DEF SameSwap, Kept, UsersInUse
<1> QED BY <1>3, <1>4 DEF Calm, ob2

\* storeRelease on any entry is calm: a held one is only marked.
LEMMA CalmRelease ==
    ASSUME NEW ob, GoodStore(ob), UsersInUse(ob), NEW p \in Entries
    PROVE  Calm(ob, ReleaseIn(ob, p))
<1> DEFINE lock == Users(p) # {}  z == storeRelease(ob[p], lock)
<1>1. ReleaseIn(ob, p) = [ob EXCEPT ![p] = z]
  BY DEF ReleaseIn
<1>2. GoodEntry(ob[p]) /\ lock \in BOOLEAN /\ (lock => ob[p].st # "free")
  BY DEF GoodStore, UsersInUse
<1>3. /\ GoodEntry(z) /\ SameSwap(ob[p], z)
      /\ lock => Kept(ob[p], z)
      /\ ob[p].st = "pending" => Kept(ob[p], z) /\ z.st = "pending"
  <2> HIDE DEF lock
  <2> QED BY <1>2, ReleaseGood
<1>4. Users(p) # {} => Kept(ob[p], z)
  BY <1>3
<1>5. Calm(ob, [ob EXCEPT ![p] = z])
  <2> HIDE DEF z
  <2> QED BY <1>3, <1>4, CalmUpdate
<1> QED BY <1>1, <1>5

\* hiding or showing an entry that is in use
LEMMA CalmPublic ==
    ASSUME NEW ob, GoodStore(ob), UsersInUse(ob), NEW e \in Entries, ob[e].st # "free",
           NEW b \in BOOLEAN
    PROVE  Calm(ob, [ob EXCEPT ![e].pub = b])
<1> DEFINE z == [ob[e] EXCEPT !.pub = b]
<1>1. GoodEntry(ob[e])
  BY DEF GoodStore
<1>2. GoodEntry(z) /\ SameSwap(ob[e], z) /\ Kept(ob[e], z) /\ z.st = ob[e].st
  BY <1>1 DEF GoodEntry, Entry, SameSwap, Kept, Free
<1>3. [ob EXCEPT ![e].pub = b] = [ob EXCEPT ![e] = z]
  BY DEF GoodStore
<1> HIDE DEF z
<1> QED BY <1>2, <1>3, CalmUpdate

\* A public entry is in use.
LEMMA PublicInUse ==
    ASSUME NEW ob, GoodStore(ob), NEW e \in Entries, ob[e].pub
    PROVE  ob[e].st # "free"
BY DEF GoodStore, GoodEntry, Free

\* storeSetPublicKey displaces the entry that had the key, calmly.
LEMMA SetPublicKeyCalm ==
    ASSUME NEW ob, GoodStore(ob), UsersInUse(ob), NEW e \in Entries, ob[e].st = "pending"
    PROVE  Calm(ob, storeSetPublicKey(ob, e))
<1> DEFINE e2  == storeGet(ob, ob[e].key)
           oba == [ob EXCEPT ![e2].pub = FALSE]
           ob1 == IF e2 = None THEN ob ELSE ReleaseIn(oba, e2)
           obz == [ob1 EXCEPT ![e].pub = TRUE]
<1>1. Calm(ob, ob1)
  <2>1. CASE e2 = None
    BY <2>1, CalmReflexive
  <2>2. CASE e2 # None
    <3>1. e2 \in Entries /\ ob[e2].pub
      BY <2>2, StoreGetFinds
    <3>2. Calm(ob, oba)
      <4>1. ob[e2].st # "free"
        BY <3>1, PublicInUse
      <4> HIDE DEF e2
      <4> QED BY <3>1, <4>1, CalmPublic
    <3>3. Calm(oba, ReleaseIn(oba, e2))
      <4> HIDE DEF oba, e2
      <4> QED BY <3>1, <3>2, CalmUsers, CalmRelease
    <3>4. Calm(ob, ReleaseIn(oba, e2))
      <4> HIDE DEF oba, e2
      <4> QED BY <3>2, <3>3, CalmTransitive
    <3> QED BY <2>2, <3>4
  <2> QED BY <2>1, <2>2
<1>2. Calm(ob1, obz)
  <2> HIDE DEF ob1
  <2>1. GoodStore(ob1) /\ UsersInUse(ob1)
    BY <1>1, CalmUsers
  <2>2. ob1[e].st # "free"
    BY <1>1 DEF Calm
  <2> QED BY <2>1, <2>2, CalmPublic
<1>3. Calm(ob, obz)
  <2> HIDE DEF ob1, obz
  <2> QED BY <1>1, <1>2, CalmTransitive
<1>4. storeSetPublicKey(ob, e) = IF ob[e].pub \/ ob[e].rel THEN ob ELSE obz
  BY DEF storeSetPublicKey
<1> HIDE DEF obz
<1> QED BY <1>3, <1>4, CalmReflexive

\* httpMaybeRemovePublic releases what the lookups lead it to, calmly.
LEMMA RemovePublicCalm ==
    ASSUME Inv, NEW ob, GoodStore(ob), UsersInUse(ob), NEW e \in Entries, ob[e].st = "pending"
    PROVE  Calm(ob, httpMaybeRemovePublic(ob, e))
<1> DEFINE k   == ob[e].key
           pe  == storeGetPublicByRequest(ob, k)
           ob1 == IF ~ob[e].pub /\ pe # None THEN ReleaseIn(ob, pe) ELSE ob
           ph  == storeGetPublicByRequestMethod(ob1, k, "HEAD")
           obz == IF ph # None /\ ph # e THEN ReleaseIn(ob1, ph) ELSE ob1
<1>1. k \in Keys
  BY DEF GoodStore, GoodEntry
<1>2. Calm(ob, ob1)
  <2>1. pe # None => pe \in Entries
    <3> HIDE DEF k
    <3> QED BY <1>1, LookupFinds
  <2> HIDE DEF pe, k
  <2> QED BY <2>1, CalmRelease, CalmReflexive
<1>3. Calm(ob1, obz)
  <2>1. GoodStore(ob1) /\ UsersInUse(ob1)
    <3> HIDE DEF ob1
    <3> QED BY <1>2, CalmUsers
  <2>2. ph # None => ph \in Entries
    <3> HIDE DEF ob1, k
    <3> QED BY <1>1, LookupByMethod
  <2> HIDE DEF ob1, ph
  <2> QED BY <2>1, <2>2, CalmRelease, CalmReflexive
<1>4. httpMaybeRemovePublic(ob, e) = obz
  BY DEF httpMaybeRemovePublic
<1> HIDE DEF ob1, obz
<1> QED BY <1>2, <1>3, <1>4, CalmTransitive

\* Taking in the reply headers is calm.
LEMMA ReplyEntryCalm ==
    ASSUME Inv, NEW e \in Entries, obj[e].st = "pending", NEW body \in Bodies
    PROVE  Calm(obj, [obj EXCEPT ![e].hdr = TRUE, ![e].data = TRUE, ![e].body = body])
<1> DEFINE x == obj[e]
           z == [x EXCEPT !.hdr = TRUE, !.data = TRUE, !.body = body]
<1>1. GoodEntry(x) /\ GoodStore(obj)
  BY DEF Inv, GoodStore
<1>2. GoodEntry(z) /\ SameSwap(x, z) /\ Kept(x, z) /\ z.st = "pending"
  BY <1>1 DEF GoodEntry, Entry, SameSwap, Kept
<1>3. [obj EXCEPT ![e].hdr = TRUE, ![e].data = TRUE, ![e].body = body] = [obj EXCEPT ![e] = z]
  BY <1>1 DEF GoodStore, Entry
<1>4. Calm(obj, [obj EXCEPT ![e] = z])
  <2> HIDE DEF z
  <2> QED BY <1>1, <1>2, UsedEntries, CalmUpdate
<1> QED BY <1>3, <1>4

\* Publishing, hiding or negatively caching a reply is calm.
LEMMA ClassifiedCalm ==
    ASSUME Inv, NEW e \in Entries, obj[e].st = "pending", NEW kind \in ReplyKinds,
           NEW expired \in BOOLEAN
    PROVE  Calm(obj, Classified(kind, e, expired))
<1> DEFINE body == CASE kind = "private" -> "data"
                     [] kind \in {"notfound", "servererror"} -> "negative"
                     [] OTHER -> kind
           got  == [obj EXCEPT ![e].hdr = TRUE, ![e].data = TRUE, ![e].body = body]
           pub  == storeSetPublicKey(got, e)
           priv == [got EXCEPT ![e] = storeReleaseRequest(@)]
           gone == ReleaseIn(pub, e)
<1>1. body \in Bodies
  BY DEF ReplyKinds, Bodies
<1>2. Calm(obj, got)
  <2> HIDE DEF body
  <2> QED BY <1>1, ReplyEntryCalm
<1>3. Classified(kind, e, expired) \in {pub, priv, gone}
  BY DEF Classified
<1> HIDE DEF got
<1>4. GoodStore(got) /\ UsersInUse(got) /\ got[e].st = "pending"
  BY <1>2, CalmUsers DEF Calm
<1>5. Calm(obj, pub)
  <2>1. Calm(got, pub)
    BY <1>4, SetPublicKeyCalm
  <2> HIDE DEF pub
  <2> QED BY <1>2, <2>1, CalmTransitive
<1>6. Calm(obj, priv)
  <2> DEFINE z == storeReleaseRequest(got[e])
  <2>1. GoodEntry(z) /\ SameSwap(got[e], z) /\ Kept(got[e], z) /\ z.st = "pending"
    BY <1>4, ReleaseRequestKeeps DEF GoodStore
  <2>2. Calm(got, [got EXCEPT ![e] = z])
    <3> HIDE DEF z
    <3> QED BY <1>4, <2>1, CalmUpdate
  <2>3. Calm(got, priv)
    BY <2>2
  <2> HIDE DEF priv
  <2> QED BY <1>2, <2>3, CalmTransitive
<1>7. Calm(obj, gone)
  <2> HIDE DEF pub
  <2>1. Calm(pub, gone)
    BY <1>5, CalmUsers, CalmRelease
  <2> HIDE DEF gone
  <2> QED BY <1>5, <2>1, CalmTransitive
<1> HIDE DEF pub, priv, gone
<1> QED BY <1>3, <1>5, <1>6, <1>7
-----------------------------------------------------------------------------
(***************************************************************************)
(* What a change of the entries does to the disk.                           *)
(***************************************************************************)
\* a file that an entry did not have before is one it has begun to write
NewFilesWriting(ob, ob2) ==
    \A e \in Entries : ob2[e].filen \in {None, ob[e].filen} \/ ob2[e].swap = "writing"

\* The holder of a file that is held holds it.
LEMMA HolderHolds ==
    ASSUME NEW ob, NEW f, HoldsFile(ob, f)
    PROVE  Holder(ob, f) \in Entries /\ ob[Holder(ob, f)].filen = f
BY DEF HoldsFile, Holder

\* A new swap file carries key and URL of one entry; the old ones stay good.
LEMMA SwapFilesGood ==
    ASSUME Inv, NEW ob2, GoodStore(ob2), NewFilesWriting(obj, ob2), NEW f \in Files
    PROVE  GoodFile(SwapFiles(obj, ob2)[f])
<1> DEFINE x == ob2[Holder(ob2, f)]
<1>1. GoodFile(disk[f]) /\ disk[f] \in SwapFile
  BY DEF Inv, GoodFile
<1>2. CASE HoldsFile(ob2, f) /\ ~HoldsFile(obj, f)
  <2>1. SwapFiles(obj, ob2)[f] = [key |-> x.key, url |-> x.murl, body |-> x.body, whole |-> FALSE]
    BY <1>2 DEF SwapFiles
  <2>2. Holder(ob2, f) \in Entries /\ x.filen = f
    BY <1>2, HolderHolds
  <2>3. obj[Holder(ob2, f)].filen # f /\ f # None
    BY <1>2, <2>2, ConstantsAssumption DEF HoldsFile
  <2>4. x.swap = "writing"
    BY <2>2, <2>3 DEF NewFilesWriting
  <2>5. GoodEntry(x)
    BY <2>2 DEF GoodStore
  <2>6. x.st # "free"
    BY <2>4, <2>5 DEF GoodEntry, Free
  <2>7. x \in Entry /\ x.key \in Keys /\ x.murl = x.key[2]
    BY <2>4, <2>5, <2>6 DEF GoodEntry
  <2> HIDE DEF x
  <2> QED BY <2>1, <2>7 DEF GoodFile, SwapFile, Entry
<1>3. CASE HoldsFile(ob2, f) /\ HoldsFile(obj, f)
  <2> DEFINE b == disk[f].whole \/ (obj[Holder(obj, f)].swap = "writing" /\ x.swap = "done")
  <2>1. SwapFiles(obj, ob2)[f] = [disk[f] EXCEPT !.whole = b]
    BY <1>3 DEF SwapFiles
  <2>2. b \in BOOLEAN
    OBVIOUS
  <2> HIDE DEF b
  <2> QED BY <1>1, <2>1, <2>2 DEF GoodFile, SwapFile
<1>4. CASE ~HoldsFile(ob2, f) /\ HoldsFile(obj, f)
  <2>1. SwapFiles(obj, ob2)[f] = NoFile
    BY <1>4 DEF SwapFiles
  <2> QED BY <2>1 DEF GoodFile, SwapFile, NoFile, Bodies
<1>5. CASE ~HoldsFile(ob2, f) /\ ~HoldsFile(obj, f)
  BY <1>1, <1>5 DEF SwapFiles
<1> QED BY <1>2, <1>3, <1>4, <1>5

\* The record of a logged entry is a log record.
LEMMA LoggedRecord ==
    ASSUME NEW ob, GoodStore(ob), NEW e \in Entries, Logged(ob[e])
    PROVE  LogOf(ob[e]) \in LogRecord
<1>1. GoodEntry(ob[e]) /\ ob[e].st # "free"
  BY PublicInUse DEF GoodStore, Logged
<1>2. ob[e].key \in Keys /\ ob[e].filen \in Files
  BY <1>1 DEF GoodEntry, Entry, Logged
<1> QED BY <1>2 DEF LogOf, LogRecord

\* The swap log stays a set of log records.
LEMMA SwapLogGood ==
    ASSUME NEW ob, NEW ob2, GoodStore(ob2), NEW log, log \subseteq LogRecord
    PROVE  storeDirSwapLog(log, ob, ob2) \subseteq LogRecord
BY LoggedRecord DEF storeDirSwapLog

\* The disk stays good when the entries change.
LEMMA DiskFollows ==
    ASSUME Inv, NEW ob2, GoodStore(ob2), NewFilesWriting(obj, ob2), SetEntries(ob2)
    PROVE  /\ disk' \in [Files -> SwapFile] /\ \A f \in Files : GoodFile(disk'[f])
           /\ slog' \subseteq LogRecord /\ nlog' \subseteq LogRecord /\ map' \subseteq Files
<1>1. \A f \in Files : GoodFile(SwapFiles(obj, ob2)[f])
  BY SwapFilesGood
<1>2. disk' = SwapFiles(obj, ob2)
  BY DEF SetEntries
<1>3. DOMAIN disk' = Files /\ disk' = [f \in Files |-> disk'[f]]
  BY <1>2 DEF SwapFiles
<1>4. slog' \subseteq LogRecord /\ nlog' \subseteq LogRecord
  BY SwapLogGood DEF SetEntries, Inv, TypeOK
<1>5. map' \subseteq Files
  <2>1. map \subseteq Files /\ \A e \in Entries : ob2[e].filen \in Files \cup {None}
    BY DEF Inv, TypeOK, GoodStore, GoodEntry, Entry
  <2> QED BY <2>1 DEF SetEntries, Marked
<1> QED BY <1>1, <1>2, <1>3, <1>4, <1>5 DEF GoodFile

\* The entries change, the disk follows, and the requests fit the new entries.
LEMMA SetEntriesInv ==
    ASSUME Inv, NEW ob2, GoodStore(ob2), NewFilesWriting(obj, ob2), SetEntries(ob2),
           req' \in [Requests -> Request], GoodRequests(req', ob2),
           UNCHANGED <<proc, table, tfile, todo, torn, kills>>
    PROVE  Inv'
<1>1. obj' = ob2 /\ ob2 \in [Entries -> Entry]
  BY DEF SetEntries, GoodStore
<1>2. /\ disk' \in [Files -> SwapFile] /\ \A f \in Files : GoodFile(disk'[f])
      /\ slog' \subseteq LogRecord /\ nlog' \subseteq LogRecord /\ map' \subseteq Files
  BY DiskFollows
<1>3. TypeOK'
  BY <1>1, <1>2 DEF Inv, TypeOK
<1>4. GoodStore(obj)' /\ GoodRequests(req, obj)'
  BY <1>1
<1>5. GoodTable(table)' /\ (\A d \in Dirs : GoodTableFile(tfile[d]))'
  BY DEF Inv
<1> QED BY <1>2, <1>3, <1>4, <1>5 DEF Inv

\* A request fits the new entries if its own entry is kept.
LEMMA RequestStays ==
    ASSUME NEW q, NEW ob, NEW ob2, GoodRequest(q, ob), q.e # None => Kept(ob[q.e], ob2[q.e])
    PROVE  GoodRequest(q, ob2)
BY ConstantsAssumption DEF GoodRequest, Kept

\* All requests fit the new entries if the held ones are kept.
LEMMA RequestsStay ==
    ASSUME Inv, NEW ob2, \A e \in Entries : Users(e) # {} => Kept(obj[e], ob2[e])
    PROVE  GoodRequests(req, ob2)
<1> SUFFICES ASSUME NEW r \in Requests PROVE GoodRequest(req[r], ob2)
  BY DEF GoodRequests
<1>1. GoodRequest(req[r], obj)
  BY DEF Inv, GoodRequests
<1>2. req[r].e # None => req[r].e \in Entries /\ r \in Users(req[r].e)
  BY <1>1 DEF GoodRequest, Request, Users
<1> QED BY <1>1, <1>2, RequestStays

\* A calm change of the entries preserves Inv.
LEMMA CalmInv ==
    ASSUME Inv, NEW ob2, Calm(obj, ob2), SetEntries(ob2),
           UNCHANGED <<proc, req, table, tfile, todo, torn, kills>>
    PROVE  Inv'
<1>1. GoodStore(ob2) /\ NewFilesWriting(obj, ob2)
  BY DEF Calm, SameSwap, NewFilesWriting
<1>2. GoodRequests(req, ob2)
  BY RequestsStay DEF Calm
<1>3. req' \in [Requests -> Request] /\ GoodRequests(req', ob2)
  BY <1>2 DEF Inv, TypeOK
<1> QED BY <1>1, <1>3, SetEntriesInv

\* The usual step: one entry changes.
LEMMA EntryInv ==
    ASSUME Inv, NEW e \in Entries, NEW z, GoodEntry(z), Users(e) # {} => Kept(obj[e], z),
           z.filen \in {None, obj[e].filen} \/ z.swap = "writing",
           SetEntries([obj EXCEPT ![e] = z]),
           UNCHANGED <<proc, req, table, tfile, todo, torn, kills>>
    PROVE  Inv'
<1> DEFINE ob2 == [obj EXCEPT ![e] = z]
<1>1. z \in Entry /\ GoodStore(obj)
  BY DEF GoodEntry, Inv
<1>2. ob2 \in [Entries -> Entry] /\ ob2[e] = z /\ \A d \in Entries : d # e => ob2[d] = obj[d]
  BY <1>1 DEF GoodStore
<1>3. SetEntries(ob2)
  OBVIOUS
<1> HIDE DEF ob2
<1>4. GoodStore(ob2)
  BY <1>1, <1>2 DEF GoodStore
<1>5. NewFilesWriting(obj, ob2)
  BY <1>2 DEF NewFilesWriting
<1>6. GoodRequests(req, ob2)
  BY <1>2, RequestsStay, UsedEntries DEF UsersInUse, Kept
<1>7. req' \in [Requests -> Request] /\ GoodRequests(req', ob2)
  BY <1>6 DEF Inv, TypeOK
<1> QED BY <1>3, <1>4, <1>5, <1>7, SetEntriesInv
-----------------------------------------------------------------------------
(***************************************************************************)
(* The steps of the server side, of swapout and of memory.                  *)
(***************************************************************************)
\* fwdStateFree's unlock keeps an entry that a client holds.
LEMMA ServerUnlockGood ==
    ASSUME NEW x, GoodEntry(x), x.st # "free", NEW lock \in BOOLEAN
    PROVE  LET z == fwdStateFree(x, lock)
           IN  GoodEntry(z) /\ SameSwap(x, z) /\ (lock => Kept(x, z))
<1> DEFINE y == [x EXCEPT !.srv = FALSE]
<1>1. GoodEntry(y) /\ y.st # "free" /\ Kept(x, y) /\ SameSwap(x, y)
  BY DEF GoodEntry, Entry, Kept, SameSwap
<1>2. y.filen = x.filen /\ y.swap = x.swap
  BY DEF GoodEntry, Entry
<1> DEFINE z == storeUnlockObject(y, lock)
<1>3. GoodEntry(z) /\ SameSwap(y, z) /\ (lock => Kept(y, z))
  <2> HIDE DEF y
  <2> QED BY <1>1, UnlockGood
<1> HIDE DEF y, z
<1>4. SameSwap(x, z) /\ (lock => Kept(x, z))
  BY <1>1, <1>2, <1>3 DEF SameSwap, Kept
<1> QED BY <1>3, <1>4 DEF y, z, fwdStateFree

\* The reply headers arrive: the entry that is replaced, and the ones the chunk
\* table leads httpMaybeRemovePublic to, are released under their clients.
LEMMA ReplyHeaderInv ==
    ASSUME Inv, NEW e \in Entries, NEW kind \in Replies, NEW expired \in BOOLEAN,
           ReplyHeader(e, kind, expired)
    PROVE  Inv'
<1> DEFINE got == Classified(kind, e, expired)
           rem == httpMaybeRemovePublic(got, e)
<1>1. kind \in ReplyKinds /\ obj[e].st = "pending"
  BY ConstantsAssumption DEF ReplyHeader
<1>2. Calm(obj, got)
  BY <1>1, ClassifiedCalm
<1>3. SetEntries(IF kind = "servererror" THEN got ELSE rem)
      /\ UNCHANGED <<proc, req, table, tfile, todo, torn, kills>>
  BY DEF ReplyHeader
<1> HIDE DEF got
<1>4. GoodStore(got) /\ UsersInUse(got) /\ got[e].st = "pending"
  BY <1>1, <1>2, CalmUsers DEF Calm
<1>5. Calm(got, rem)
  BY <1>4, RemovePublicCalm
<1> HIDE DEF rem
<1>6. Calm(obj, rem)
  BY <1>2, <1>5, CalmTransitive
<1>7. CASE kind = "servererror"
  BY <1>2, <1>3, <1>7, CalmInv
<1>8. CASE kind # "servererror"
  BY <1>3, <1>6, <1>8, CalmInv
<1> QED BY <1>7, <1>8

\* Data arrives and may start the swapout.
LEMMA Append4KInv ==
    ASSUME Inv, NEW e \in Entries, Append4K(e)
    PROVE  Inv'
<1>1. GoodEntry(obj[e]) /\ obj[e].st # "free"
  BY DEF Inv, GoodStore, Append4K
<1>2. PICK y \in storeSwapOut(obj[e]) : SetEntries([obj EXCEPT ![e] = y])
  BY DEF Append4K
<1>3. GoodEntry(y) /\ Kept(obj[e], y) /\ (SameSwap(obj[e], y) \/ y.swap = "writing")
  BY <1>1, SwapOutGood
<1>4. y.filen \in {None, obj[e].filen} \/ y.swap = "writing"
  BY <1>3 DEF SameSwap
<1>5. UNCHANGED <<proc, req, table, tfile, todo, torn, kills>>
  BY DEF Append4K
<1> QED BY <1>2, <1>3, <1>4, <1>5, EntryInv

\* The reply is complete.
LEMMA CompleteInv ==
    ASSUME Inv, NEW e \in Entries, NEW validLength \in BOOLEAN, Complete(e, validLength)
    PROVE  Inv'
<1> DEFINE x == [obj[e] EXCEPT !.st = "ok"]
           w == IF validLength THEN x ELSE storeReleaseRequest(x)
           lock == Users(e) # {}
<1>1. GoodEntry(obj[e]) /\ obj[e].st = "pending" /\ obj \in [Entries -> Entry]
  BY DEF Inv, GoodStore, Complete
<1>2. storeComplete(obj[e], validLength) = storeSwapOut(w)
  BY DEF storeComplete
<1>3. GoodEntry(x) /\ Kept(obj[e], x) /\ SameSwap(obj[e], x) /\ x.st # "free"
  BY <1>1 DEF GoodEntry, Entry, Kept, SameSwap
<1> HIDE DEF w
<1>4. PICK y \in storeSwapOut(w) : SetEntries([obj EXCEPT ![e] = fwdStateFree(y, lock)])
  BY <1>2 DEF Complete
<1> USE DEF w
<1> HIDE DEF x
<1>5. GoodEntry(w) /\ Kept(obj[e], w) /\ SameSwap(obj[e], w) /\ w.st # "free"
  BY <1>3, ReleaseRequestKeeps DEF Kept, SameSwap
<1> HIDE DEF w
<1>6. GoodEntry(y) /\ Kept(w, y) /\ y.st # "free" /\ (SameSwap(w, y) \/ y.swap = "writing")
  BY <1>5, SwapOutGood
<1> DEFINE z == fwdStateFree(y, lock)
<1>7. GoodEntry(z) /\ SameSwap(y, z) /\ (lock => Kept(y, z))
  <2>1. lock \in BOOLEAN
    OBVIOUS
  <2> HIDE DEF lock
  <2> QED BY <1>6, <2>1, ServerUnlockGood
<1>8. SetEntries([obj EXCEPT ![e] = z])
  BY <1>4
<1> HIDE DEF z
<1>9. lock => Kept(obj[e], z)
  BY <1>5, <1>6, <1>7 DEF Kept
<1>10. z.filen \in {None, obj[e].filen} \/ z.swap = "writing"
  BY <1>5, <1>6, <1>7 DEF SameSwap
<1>11. UNCHANGED <<proc, req, table, tfile, todo, torn, kills>>
  BY DEF Complete
<1> QED BY <1>7, <1>8, <1>9, <1>10, <1>11, EntryInv

\* The server fails.
LEMMA RequestFailedInv ==
    ASSUME Inv, NEW e \in Entries, RequestFailed(e)
    PROVE  Inv'
<1> DEFINE w == storeReleaseRequest(obj[e])
           x == IF obj[e].hdr THEN storeAbort(obj[e])
                ELSE [w EXCEPT !.st = "ok", !.hdr = TRUE, !.data = TRUE, !.body = "error"]
           lock == Users(e) # {}
           z == fwdStateFree(x, lock)
<1>1. GoodEntry(obj[e]) /\ obj[e].st # "free" /\ obj \in [Entries -> Entry]
  BY DEF Inv, GoodStore, RequestFailed
<1>2. GoodEntry(w) /\ Kept(obj[e], w) /\ SameSwap(obj[e], w) /\ w.st # "free"
  BY <1>1, ReleaseRequestKeeps
<1>3. SetEntries([obj EXCEPT ![e] = z]) /\ UNCHANGED <<proc, req, table, tfile, todo, torn, kills>>
  <2>1. x = storeRequestFailed(obj[e])
    BY DEF storeRequestFailed
  <2> HIDE DEF x
  <2> QED BY <1>1, <2>1 DEF RequestFailed
<1> HIDE DEF w
<1>4. GoodEntry(x) /\ Kept(obj[e], x) /\ SameSwap(obj[e], x)
  <2>1. CASE obj[e].hdr
    BY <1>1, <2>1, AbortGood
  <2>2. CASE ~obj[e].hdr
    BY <1>2, <2>2 DEF GoodEntry, Entry, Bodies, Kept, SameSwap
  <2> QED BY <2>1, <2>2
<1> HIDE DEF x
<1>5. GoodEntry(z) /\ SameSwap(x, z) /\ (lock => Kept(x, z))
  <2>1. lock \in BOOLEAN
    OBVIOUS
  <2> HIDE DEF lock
  <2> QED BY <1>4, <2>1, ServerUnlockGood DEF Kept
<1> HIDE DEF z
<1>6. (lock => Kept(obj[e], z)) /\ z.filen \in {None, obj[e].filen}
  BY <1>4, <1>5 DEF Kept, SameSwap
<1> QED BY <1>3, <1>5, <1>6, EntryInv

\* The server side of an aborted entry lets go.
LEMMA ServerAbortedInv ==
    ASSUME Inv, NEW e \in Entries, ServerAborted(e)
    PROVE  Inv'
<1> DEFINE lock == Users(e) # {}
           z == fwdStateFree(obj[e], lock)
<1>1. GoodEntry(obj[e]) /\ obj[e].st # "free" /\ obj \in [Entries -> Entry]
  BY DEF Inv, GoodStore, ServerAborted, GoodEntry, Free
<1>2. SetEntries([obj EXCEPT ![e] = z]) /\ UNCHANGED <<proc, req, table, tfile, todo, torn, kills>>
  BY <1>1 DEF ServerAborted
<1>3. GoodEntry(z) /\ SameSwap(obj[e], z) /\ (lock => Kept(obj[e], z))
  <2>1. lock \in BOOLEAN
    OBVIOUS
  <2> HIDE DEF lock
  <2> QED BY <1>1, <2>1, ServerUnlockGood
<1> HIDE DEF z
<1>4. z.filen \in {None, obj[e].filen}
  BY <1>3 DEF SameSwap
<1> QED BY <1>2, <1>3, <1>4, EntryInv

\* A row of a cachable YouTube entry is good, in memory and in the table file.
LEMMA AppendGood ==
    ASSUME Inv, NEW k \in Keys, IsYouTubeUrl(k[2]), NEW d \in Dirs
    PROVE  LET row == [chunk |-> ChunkOf[k[2]], key |-> k]
               tf == [tfile EXCEPT ![d] = appendChunkToTableFile(@, row)]
           IN  /\ Append(table, row) \in Seq(TableRow) /\ GoodTable(Append(table, row))
               /\ tf \in [Dirs -> TableFile] /\ \A c \in Dirs : GoodTableFile(tf[c])
<1> DEFINE row == [chunk |-> ChunkOf[k[2]], key |-> k]
           f == tfile[d]
           rec == [off |-> f.len, row |-> row]
           g == appendChunkToTableFile(f, row)
           tf == [tfile EXCEPT ![d] = g]
<1>1. row \in Row /\ row \in TableRow /\ GoodRow(row)
  BY DEF IsYouTubeUrl, Row, TableRow, GoodRow
<1>2. row.chunk \in Chunks
  BY DEF IsYouTubeUrl
<1> HIDE DEF row
<1>3. table \in Seq(TableRow) /\ GoodTable(table) /\ tfile \in [Dirs -> TableFile]
      /\ \A c \in Dirs : GoodTableFile(tfile[c])
  BY DEF Inv, TypeOK
<1>4. Append(table, row) \in Seq(TableRow) /\ GoodTable(Append(table, row))
  <2>1. Append(table, row) \in Seq(TableRow)
    BY <1>1, <1>3
  <2>2. ASSUME NEW i \in DOMAIN Append(table, row) PROVE GoodRow(Append(table, row)[i])
    BY <1>1, <1>3 DEF GoodTable
  <2> QED BY <2>1, <2>2 DEF GoodTable
<1>5. f.len \in Nat /\ f.recs \in Seq([off : Nat, row : Row]) /\ GoodTableFile(f)
  BY <1>3 DEF TableFile
<1>6. rec \in [off : Nat, row : Row] /\ rec.row = row
  BY <1>1, <1>5
<1>7. RecordLen(row.chunk) \in Nat
  BY <1>2, ConstantsAssumption DEF RecordLen
<1>8. g = [recs |-> Append(f.recs, rec), len |-> f.len + RecordLen(row.chunk)]
  BY DEF appendChunkToTableFile
<1> HIDE DEF rec, f
<1>9. g \in TableFile
  <2>1. Append(f.recs, rec) \in Seq([off : Nat, row : Row]) /\ f.len + RecordLen(row.chunk) \in Nat
    BY <1>5, <1>6, <1>7
  <2> QED BY <1>8, <2>1 DEF TableFile
<1>10. GoodTableFile(g)
  <2>1. g.recs = Append(f.recs, rec)
    BY <1>8
  <2>2. ASSUME NEW i \in DOMAIN Append(f.recs, rec) PROVE GoodRow(Append(f.recs, rec)[i].row)
    BY <1>1, <1>5, <1>6 DEF GoodTableFile
  <2> QED BY <2>1, <2>2 DEF GoodTableFile
<1>11. tf = [tfile EXCEPT ![d] = appendChunkToTableFile(@, row)]
  BY <1>3 DEF f
<1> HIDE DEF g
<1>12. tf \in [Dirs -> TableFile] /\ \A c \in Dirs : GoodTableFile(tf[c])
  BY <1>3, <1>9, <1>10
<1> HIDE DEF tf
<1> QED BY <1>4, <1>11, <1>12 DEF row

\* The swapout is over: the entry is on disk and the table may get a row.
LEMMA SwapOutFileClosedInv ==
    ASSUME Inv, NEW e \in Entries, SwapOutFileClosed(e)
    PROVE  Inv'
<1> DEFINE x == [obj EXCEPT ![e].swap = "done"][e]
           y == IF storeCheckCachable(x) THEN x ELSE storeReleaseRequest(x)
           lock == Users(e) # {}
           z == storeUnlockObject(y, lock)
           ob2 == [obj EXCEPT ![e] = z]
           row == [chunk |-> ChunkOf[x.key[2]], key |-> x.key]
           d == DirOf[x.filen]
<1>1. GoodEntry(obj[e]) /\ obj[e].st = "ok" /\ obj[e].swap = "writing"
      /\ obj \in [Entries -> Entry] /\ GoodStore(obj)
  BY DEF Inv, GoodStore, SwapOutFileClosed
<1>2. x = [obj[e] EXCEPT !.swap = "done"]
  BY <1>1
<1>3. GoodEntry(x) /\ Kept(obj[e], x) /\ x.st # "free" /\ x.filen = obj[e].filen
  BY <1>1, <1>2 DEF GoodEntry, Entry, Kept
<1>4. x.key \in Keys /\ x.filen \in Files
  BY <1>1, <1>3 DEF GoodEntry, Entry
<1>5. SetEntries(ob2) /\ UNCHANGED <<proc, req, todo, kills>>
  BY DEF SwapOutFileClosed
<1>6. \/ /\ IsYouTubeUrl(x.key[2])
         /\ table' = Append(table, row)
         /\ tfile' = [tfile EXCEPT ![d] = appendChunkToTableFile(@, row)]
         /\ torn' = torn \ {x.key}
      \/ UNCHANGED <<table, tfile, torn>>
  BY DEF SwapOutFileClosed
<1> HIDE DEF x
<1>7. GoodEntry(y) /\ Kept(x, y) /\ SameSwap(x, y) /\ y.st # "free"
  BY <1>3, ReleaseRequestKeeps DEF Kept, SameSwap
<1> HIDE DEF y
<1>8. GoodEntry(z) /\ SameSwap(y, z) /\ (lock => Kept(y, z))
  <2>1. lock \in BOOLEAN
    OBVIOUS
  <2> HIDE DEF lock
  <2> QED BY <1>7, <2>1, UnlockGood
<1> HIDE DEF z
<1>9. z \in Entry /\ (lock => Kept(obj[e], z)) /\ z.filen \in {None, obj[e].filen}
  BY <1>3, <1>7, <1>8 DEF Kept, SameSwap, GoodEntry
<1>10. ob2 \in [Entries -> Entry] /\ ob2[e] = z /\ \A c \in Entries : c # e => ob2[c] = obj[c]
  BY <1>1, <1>9
<1> HIDE DEF ob2
<1>11. GoodStore(ob2) /\ NewFilesWriting(obj, ob2)
  BY <1>1, <1>8, <1>9, <1>10 DEF GoodStore, NewFilesWriting
<1>12. GoodRequests(req, ob2)
  BY <1>9, <1>10, RequestsStay, UsedEntries DEF UsersInUse, Kept
<1>13. /\ disk' \in [Files -> SwapFile] /\ \A f \in Files : GoodFile(disk'[f])
       /\ slog' \subseteq LogRecord /\ nlog' \subseteq LogRecord /\ map' \subseteq Files
  BY <1>5, <1>11, DiskFollows
<1>14. /\ table' \in Seq(TableRow) /\ GoodTable(table')
       /\ tfile' \in [Dirs -> TableFile] /\ \A c \in Dirs : GoodTableFile(tfile'[c])
       /\ torn' \subseteq Keys
  <2>1. d \in Dirs
    BY <1>4, ConstantsAssumption
  <2> HIDE DEF d
  <2>2. CASE UNCHANGED <<table, tfile, torn>>
    BY <2>2 DEF Inv, TypeOK
  <2>3. CASE /\ IsYouTubeUrl(x.key[2])
             /\ table' = Append(table, row)
             /\ tfile' = [tfile EXCEPT ![d] = appendChunkToTableFile(@, row)]
             /\ torn' = torn \ {x.key}
    <3>1. torn' \subseteq Keys
      BY <2>3 DEF Inv, TypeOK
    <3> QED BY <1>4, <2>1, <2>3, <3>1, AppendGood
  <2> QED BY <1>6, <2>2, <2>3
<1>15. obj' = ob2 /\ req' = req /\ proc' = proc /\ todo' = todo /\ kills' = kills
  BY <1>5 DEF SetEntries
<1>16. TypeOK'
  BY <1>10, <1>13, <1>14, <1>15 DEF Inv, TypeOK
<1>17. GoodStore(obj)' /\ GoodRequests(req, obj)'
  BY <1>11, <1>12, <1>15
<1> QED BY <1>13, <1>14, <1>16, <1>17 DEF Inv

\* A write error takes the file from the entry.
LEMMA SwapOutFileErrorInv ==
    ASSUME Inv, NEW e \in Entries, SwapOutFileError(e)
    PROVE  Inv'
<1> DEFINE w == storeReleaseRequest(obj[e])
           x == [w EXCEPT !.swap = "none", !.filen = None]
           lock == Users(e) # {}
           z == storeUnlockObject(x, lock)
<1>1. GoodEntry(obj[e]) /\ obj[e].st # "free" /\ obj[e].swap = "writing"
      /\ obj \in [Entries -> Entry]
  BY DEF Inv, GoodStore, SwapOutFileError, GoodEntry, Free
<1>2. GoodEntry(w) /\ Kept(obj[e], w) /\ w.st # "free" /\ w.swap # "done"
  <2>1. GoodEntry(w) /\ SameSwap(obj[e], w) /\ Kept(obj[e], w) /\ w.st = obj[e].st
    BY <1>1, ReleaseRequestKeeps
  <2>2. obj[e] \in Entry
    BY <1>1
  <2>3. w.swap = obj[e].swap
    BY <2>2 DEF storeReleaseRequest, Entry
  <2> QED BY <1>1, <2>1, <2>3
<1>3. SetEntries([obj EXCEPT ![e] = z]) /\ UNCHANGED <<proc, req, table, tfile, todo, torn, kills>>
  BY <1>1 DEF SwapOutFileError
<1> HIDE DEF w
<1>4. GoodEntry(x) /\ Kept(obj[e], x) /\ x.filen = None
  BY <1>2 DEF GoodEntry, Entry, Kept
<1> HIDE DEF x
<1>5. GoodEntry(z) /\ SameSwap(x, z) /\ (lock => Kept(x, z))
  <2>1. lock \in BOOLEAN
    OBVIOUS
  <2> HIDE DEF lock
  <2> QED BY <1>4, <2>1, UnlockGood DEF Kept
<1> HIDE DEF z
<1>6. (lock => Kept(obj[e], z)) /\ z.filen \in {None, obj[e].filen}
  BY <1>4, <1>5 DEF Kept, SameSwap
<1> QED BY <1>3, <1>5, <1>6, EntryInv

\* Memory pressure takes the data of an entry, or the entry.
LEMMA PurgeMemInv ==
    ASSUME Inv, NEW e \in Entries, PurgeMem(e)
    PROVE  Inv'
<1> DEFINE x == [obj EXCEPT ![e].data = FALSE, ![e].murl = None][e]
           z == IF x.swap = "done" THEN x ELSE storeRelease(x, FALSE)
<1>1. GoodEntry(obj[e]) /\ obj[e].st = "ok" /\ obj \in [Entries -> Entry]
      /\ ~storeEntryLocked(obj[e], Users(e) # {})
  BY DEF Inv, GoodStore, PurgeMem
<1>2. x = [obj[e] EXCEPT !.data = FALSE, !.murl = None]
  BY <1>1
<1>3. SetEntries([obj EXCEPT ![e] = z]) /\ UNCHANGED <<proc, req, table, tfile, todo, torn, kills>>
  BY DEF PurgeMem
<1> HIDE DEF x
<1>4. Users(e) = {}
  BY <1>1 DEF storeEntryLocked
<1>5. GoodEntry(z) /\ z.filen \in {None, obj[e].filen}
  <2>1. CASE x.swap = "done"
    <3>1. GoodEntry(x) /\ x.filen = obj[e].filen
      BY <1>1, <1>2, <2>1 DEF GoodEntry, Entry
    <3> QED BY <2>1, <3>1
  <2>2. CASE x.swap # "done"
    <3>1. ~storeEntryLocked(x, FALSE) /\ x.filen = None
      BY <1>1, <1>2, <2>2 DEF storeEntryLocked, GoodEntry, Entry
    <3>2. z = Free
      BY <2>2, <3>1 DEF storeRelease
    <3>3. Free.filen = None
      BY DEF Free
    <3> QED BY <3>2, <3>3, FreeIsGood
  <2> QED BY <2>1, <2>2
<1> HIDE DEF z
<1> QED BY <1>3, <1>4, <1>5, EntryInv

\* The replacement policy gives up an entry nobody holds.
LEMMA EvictInv ==
    ASSUME Inv, NEW e \in Entries, Evict(e)
    PROVE  Inv'
<1>1. Calm(obj, ReleaseIn(obj, e))
  BY UsedEntries, CalmRelease DEF Inv
<1>2. SetEntries(ReleaseIn(obj, e)) /\ UNCHANGED <<proc, req, table, tfile, todo, torn, kills>>
  BY DEF Evict
<1> QED BY <1>1, <1>2, CalmInv

\* An entry released during the rebuild goes when the rebuild is over.
LEMMA LateReleaseInv ==
    ASSUME Inv, NEW e \in Entries, LateRelease(e)
    PROVE  Inv'
<1> DEFINE x == [obj[e] EXCEPT !.late = FALSE]
           lock == Users(e) # {}
           z == storeUnlockObject(x, lock)
<1>1. GoodEntry(obj[e]) /\ obj[e].st # "free" /\ obj \in [Entries -> Entry]
  BY DEF Inv, GoodStore, LateRelease, GoodEntry, Free
<1>2. SetEntries([obj EXCEPT ![e] = z]) /\ UNCHANGED <<proc, req, table, tfile, todo, torn, kills>>
  BY <1>1 DEF LateRelease
<1>3. GoodEntry(x) /\ Kept(obj[e], x) /\ x.filen = obj[e].filen
  BY <1>1 DEF GoodEntry, Entry, Kept
<1> HIDE DEF x
<1>4. GoodEntry(z) /\ SameSwap(x, z) /\ (lock => Kept(x, z))
  <2>1. lock \in BOOLEAN
    OBVIOUS
  <2> HIDE DEF lock
  <2> QED BY <1>3, <2>1, UnlockGood DEF Kept
<1> HIDE DEF z
<1>5. (lock => Kept(obj[e], z)) /\ z.filen \in {None, obj[e].filen}
  BY <1>3, <1>4 DEF Kept, SameSwap
<1> QED BY <1>2, <1>4, <1>5, EntryInv

\* storeCleanup marks an entry valid, or gives it up.
LEMMA ValidateInv ==
    ASSUME Inv, NEW e \in Entries, Validate(e)
    PROVE  Inv'
<1> DEFINE x == [obj[e] EXCEPT !.valid = TRUE]
           lock == Users(e) # {}
           z == IF x.pub THEN x ELSE storeRelease(x, lock)
<1>1. GoodEntry(obj[e]) /\ obj[e].st # "free" /\ obj \in [Entries -> Entry]
  BY DEF Inv, GoodStore, Validate
<1>2. SetEntries([obj EXCEPT ![e] = z]) /\ UNCHANGED <<proc, req, table, tfile, todo, torn, kills>>
  <2>1. [obj EXCEPT ![e].valid = TRUE][e] = x
    BY <1>1
  <2> HIDE DEF x
  <2> QED BY <2>1 DEF Validate
<1>3. GoodEntry(x) /\ Kept(obj[e], x) /\ SameSwap(obj[e], x)
  BY <1>1 DEF GoodEntry, Entry, Kept, SameSwap
<1> HIDE DEF x
<1>4. GoodEntry(z) /\ SameSwap(x, z) /\ (lock => Kept(x, z))
  <2>1. lock \in BOOLEAN
    OBVIOUS
  <2> HIDE DEF lock
  <2>2. CASE x.pub
    BY <1>3, <2>2 DEF SameSwap, Kept
  <2>3. CASE ~x.pub
    BY <1>3, <2>1, <2>3, ReleaseGood DEF Kept
  <2> QED BY <2>2, <2>3
<1> HIDE DEF z
<1>5. (lock => Kept(obj[e], z)) /\ z.filen \in {None, obj[e].filen}
  BY <1>3, <1>4 DEF Kept, SameSwap
<1> QED BY <1>2, <1>4, <1>5, EntryInv

\* The entries and the requests change and nothing else does.
LEMMA MemoryInv ==
    ASSUME Inv, GoodStore(obj'), req' \in [Requests -> Request], GoodRequests(req', obj'),
           DiskUnchanged, UNCHANGED <<proc, table, tfile, todo, torn, kills>>
    PROVE  Inv'
<1>1. map' = map /\ disk' = disk /\ slog' = slog /\ nlog' = nlog
  BY DEF DiskUnchanged
<1>2. TypeOK'
  BY <1>1 DEF Inv, TypeOK, GoodStore
<1>3. (\A f \in Files : GoodFile(disk[f]))' /\ GoodTable(table)'
      /\ (\A d \in Dirs : GoodTableFile(tfile[d]))'
  BY <1>1 DEF Inv
<1> QED BY <1>2, <1>3 DEF Inv

\* A create fails and leaves its number marked.
LEMMA CreateFailsInv ==
    ASSUME Inv, NEW e \in Entries, NEW f \in Files, CreateFails(e, f)
    PROVE  Inv'
<1>1. /\ map' = map \cup {f}
      /\ UNCHANGED <<proc, obj, req, table, tfile, disk, slog, nlog, todo, torn, kills>>
  BY DEF CreateFails
<1>2. TypeOK'
  BY <1>1 DEF Inv, TypeOK
<1>3. /\ GoodStore(obj)' /\ GoodRequests(req, obj)' /\ (\A g \in Files : GoodFile(disk[g]))'
      /\ GoodTable(table)' /\ (\A d \in Dirs : GoodTableFile(tfile[d]))'
  BY <1>1 DEF Inv
<1> QED BY <1>2, <1>3 DEF Inv

\* The front of an object leaves memory.
LEMMA TrimMemoryInv ==
    ASSUME Inv, NEW e \in Entries, TrimMemory(e)
    PROVE  Inv'
<1> DEFINE z == [obj[e] EXCEPT !.data = FALSE]
<1>1. GoodEntry(obj[e]) /\ obj[e].st # "free" /\ obj \in [Entries -> Entry] /\ GoodStore(obj)
  BY DEF Inv, GoodStore, TrimMemory, GoodEntry, Free
<1>2. GoodEntry(z) /\ Kept(obj[e], z) /\ z \in Entry
  BY <1>1 DEF GoodEntry, Entry, Kept
<1>3. obj' = [obj EXCEPT ![e] = z] /\ DiskUnchanged
      /\ UNCHANGED <<proc, req, table, tfile, todo, torn, kills>>
  BY <1>1 DEF TrimMemory
<1> HIDE DEF z
<1>4. GoodStore(obj')
  BY <1>1, <1>2, <1>3 DEF GoodStore
<1>5. \A d \in Entries : Users(d) # {} => Kept(obj[d], obj'[d])
  BY <1>1, <1>2, <1>3, UsedEntries DEF UsersInUse, Kept
<1>6. GoodRequests(req, obj')
  BY <1>5, RequestsStay
<1>7. req' \in [Requests -> Request] /\ GoodRequests(req', obj')
  BY <1>3, <1>6 DEF Inv, TypeOK
<1> QED BY <1>3, <1>4, <1>7, MemoryInv
-----------------------------------------------------------------------------
(***************************************************************************)
(* The steps of the clients.                                                *)
(***************************************************************************)
\* One request changes; the others keep their entries.
LEMMA OneRequest ==
    ASSUME Inv, NEW r \in Requests, NEW q, NEW ob2, GoodRequest(q, ob2),
           \A e \in Entries : Users(e) \ {r} # {} => Kept(obj[e], ob2[e])
    PROVE  LET rq == [req EXCEPT ![r] = q]
           IN  rq \in [Requests -> Request] /\ GoodRequests(rq, ob2)
<1> DEFINE rq == [req EXCEPT ![r] = q]
<1>1. req \in [Requests -> Request] /\ q \in Request
  BY DEF Inv, TypeOK, GoodRequest
<1>2. rq \in [Requests -> Request] /\ rq[r] = q /\ \A s \in Requests : s # r => rq[s] = req[s]
  BY <1>1
<1> HIDE DEF rq
<1>3. ASSUME NEW s \in Requests, s # r PROVE GoodRequest(rq[s], ob2)
  <2>1. GoodRequest(req[s], obj)
    BY DEF Inv, GoodRequests
  <2>2. req[s].e # None => req[s].e \in Entries /\ s \in Users(req[s].e) \ {r}
    BY <1>3, <2>1 DEF GoodRequest, Request, Users
  <2>3. GoodRequest(req[s], ob2)
    BY <2>1, <2>2, RequestStays
  <2> QED BY <1>2, <1>3, <2>3
<1>4. GoodRequests(rq, ob2)
  BY <1>2, <1>3 DEF GoodRequests
<1> QED BY <1>2, <1>4 DEF rq

\* A hit names the memory object of an entry on disk after its own URL, which
\* is a URL of the entry's chunk.
LEMMA RequestHitInv ==
    ASSUME Inv, NEW r \in Requests, NEW k \in Keys, RequestHit(r, k)
    PROVE  Inv'
<1> DEFINE e == storeGetPublicByRequest(obj, k)
           x == obj[e]
           z == [x EXCEPT !.murl = IF x.murl = None THEN k[2] ELSE x.murl]
           q == [Idle EXCEPT !.ph = "hit", !.key = k, !.e = e, !.typ = storeClientType(e)]
<1>1. e # None /\ DiskUnchanged /\ UNCHANGED <<proc, table, tfile, todo, torn, kills>>
      /\ req' = [req EXCEPT ![r] = q]
      /\ obj' = [obj EXCEPT ![e].murl = IF x.murl = None THEN k[2] ELSE x.murl]
  BY DEF RequestHit
<1>2. e \in Entries /\ x.pub /\ Kin(x.key[2], k[2])
  BY <1>1, LookupFinds
<1>3. storeClientType(e) \in {"mem", "disk"}
  BY DEF storeClientType
<1>4. GoodStore(obj) /\ obj \in [Entries -> Entry]
  BY DEF Inv, GoodStore
<1> HIDE DEF e
<1>5. obj' = [obj EXCEPT ![e] = z]
  BY <1>1, <1>2, <1>4 DEF Entry
<1>6. GoodEntry(x) /\ x.st # "free" /\ x.key \in Keys
  BY <1>2, <1>4, PublicInUse DEF GoodStore, GoodEntry
<1>7. k[2] \in Urls /\ k[2] # None
  BY KeyParts, ConstantsAssumption
<1> HIDE DEF x
<1>8. GoodEntry(z) /\ z.st # "free" /\ z.key = x.key /\ z.murl # None
      /\ (x.murl # None => Kept(x, z))
  <2>1. CASE x.murl # None
    <3>1. z = x
      BY <1>6, <2>1 DEF GoodEntry, Entry
    <3> QED BY <1>6, <2>1, <3>1 DEF Kept
  <2>2. CASE x.murl = None
    <3>1. x.swap = "done"
      BY <1>6, <2>2, KeyParts, ConstantsAssumption DEF GoodEntry
    <3>2. z = [x EXCEPT !.murl = k[2]]
      BY <2>2
    <3> QED BY <1>2, <1>6, <1>7, <2>2, <3>1, <3>2 DEF GoodEntry, Entry
  <2> QED BY <2>1, <2>2
<1> HIDE DEF z
<1>9. GoodStore(obj') /\ obj'[e] = z /\ \A d \in Entries : d # e => obj'[d] = obj[d]
  BY <1>2, <1>4, <1>5, <1>8 DEF GoodStore, GoodEntry
<1>10. GoodRequest(q, obj')
  <2>1. q \in Request /\ q.ph = "hit" /\ q.e = e /\ q.key = k
    BY <1>2, <1>3 DEF Request, Idle, Bodies
  <2> HIDE DEF q
  <2> QED BY <1>2, <1>8, <1>9, <2>1 DEF GoodRequest
<1>11. ASSUME NEW d \in Entries, Users(d) \ {r} # {} PROVE Kept(obj[d], obj'[d])
  <2>1. Users(d) # {} /\ obj[d].st # "free"
    BY <1>11, UsedEntries DEF UsersInUse
  <2>2. obj[d].murl # None
    <3>1. PICK s \in Requests : req[s].e = d
      BY <2>1 DEF Users
    <3>2. GoodRequest(req[s], obj) /\ d # None
      BY ConstantsAssumption DEF Inv, GoodRequests
    <3> QED BY <3>1, <3>2 DEF GoodRequest
  <2>3. d = e => Kept(obj[d], obj'[d])
    BY <1>8, <1>9, <2>2 DEF x
  <2> QED BY <1>9, <2>1, <2>3 DEF Kept
<1> HIDE DEF q
<1>12. req' \in [Requests -> Request] /\ GoodRequests(req', obj')
  BY <1>1, <1>10, <1>11, OneRequest
<1> QED BY <1>1, <1>9, <1>12, MemoryInv

\* The new request of a miss, with the entry made for it.
LEMMA FetchRequestGood ==
    ASSUME NEW k \in Keys, NEW n \in Entries, NEW ob, ob[n] = storeCreateEntry(k)
    PROVE  GoodRequest([Idle EXCEPT !.ph = "fetch", !.key = k, !.e = n], ob)
<1> DEFINE q == [Idle EXCEPT !.ph = "fetch", !.key = k, !.e = n]
<1>1. q \in Request /\ q.ph = "fetch" /\ q.e = n /\ q.key = k
  BY DEF Request, Idle, Bodies
<1>2. ob[n].st # "free" /\ ob[n].murl # None
  BY CreateGood
<1> HIDE DEF q
<1>3. GoodRequest(q, ob)
  BY <1>1, <1>2 DEF GoodRequest
<1> QED BY <1>3 DEF q

\* A miss makes a new private entry.
LEMMA RequestMissInv ==
    ASSUME Inv, NEW r \in Requests, NEW k \in Keys, NEW n \in Entries, RequestMiss(r, k, n)
    PROVE  Inv'
<1> DEFINE z == storeCreateEntry(k)
           q == [Idle EXCEPT !.ph = "fetch", !.key = k, !.e = n]
<1>1. obj[n] = Free /\ DiskUnchanged /\ UNCHANGED <<proc, table, tfile, todo, torn, kills>>
      /\ req' = [req EXCEPT ![r] = q] /\ obj' = [obj EXCEPT ![n] = z]
  BY DEF RequestMiss
<1>2. GoodEntry(z) /\ GoodStore(obj) /\ obj \in [Entries -> Entry]
  BY CreateGood DEF Inv, GoodStore
<1> HIDE DEF z
<1>3. GoodStore(obj') /\ obj'[n] = z /\ \A d \in Entries : d # n => obj'[d] = obj[d]
  BY <1>1, <1>2 DEF GoodStore, GoodEntry
<1>4. GoodRequest(q, obj')
  BY <1>3, FetchRequestGood DEF z
<1> HIDE DEF q
<1>5. \A d \in Entries : Users(d) \ {r} # {} => Kept(obj[d], obj'[d])
  BY <1>1, <1>3, UsedEntries DEF UsersInUse, Kept, Free
<1>6. req' \in [Requests -> Request] /\ GoodRequests(req', obj')
  BY <1>1, <1>4, <1>5, OneRequest
<1> QED BY <1>1, <1>3, <1>6, MemoryInv

\* A hit served from memory answers with the entry's own key, one served from
\* disk with the key of a file that carries the URL of the memory object: both
\* belong to the chunk that was asked for.
LEMMA CacheHitInv ==
    ASSUME Inv, NEW r \in Requests, CacheHit(r)
    PROVE  Inv'
<1> DEFINE x == obj[req[r].e]
           f == disk[x.filen]
           ans == IF x.data THEN x.key ELSE f.key
           whole == x.data \/ x.swap = "writing" \/ f.whole
           q == [req[r] EXCEPT !.ph = "serve", !.ans = ans, !.whole = whole]
<1>1. req[r].ph = "hit" /\ (x.data \/ SwapInOk(x)) /\ DiskUnchanged
      /\ UNCHANGED <<proc, obj, table, tfile, todo, torn, kills>>
  BY DEF CacheHit, storeClientCopy
<1>2. req \in [Requests -> Request] /\ GoodRequest(req[r], obj) /\ req[r] \in Request
  BY DEF Inv, TypeOK, GoodRequests
<1>3. req' = [req EXCEPT ![r].ph = "serve", ![r].ans = ans, ![r].whole = whole]
  BY DEF CacheHit
<1>4. req' = [req EXCEPT ![r] = q]
  BY <1>2, <1>3 DEF Request
<1>5. /\ req[r].e \in Entries /\ req[r].key \in Keys
      /\ x.st # "free" /\ x.murl # None /\ Kin(x.key[2], req[r].key[2])
  BY <1>1, <1>2 DEF GoodRequest
<1>6. GoodEntry(x) /\ x \in Entry /\ x.key \in Keys
  BY <1>5 DEF Inv, GoodStore, GoodEntry
<1>7. ans \in Keys /\ Kin(req[r].key[2], ans[2])
  <2>1. CASE x.data
    <3>1. Kin(req[r].key[2], x.key[2])
      BY <1>5, <1>6, KeyParts, KinEquiv
    <3> HIDE DEF x
    <3> QED BY <1>6, <2>1, <3>1 DEF Entry
  <2>2. CASE ~x.data
    <3>1. x.filen \in Files /\ f.url = x.murl
      BY <1>1, <1>6, <2>2 DEF SwapInOk, Entry
    <3>2. GoodFile(f)
      BY <3>1 DEF Inv
    <3>3. f.key \in Keys /\ f.key[2] = x.murl
      BY <1>5, <3>1, <3>2 DEF GoodFile, SwapFile
    <3>4. Kin(x.key[2], f.key[2])
      BY <1>5, <1>6, <3>3 DEF GoodEntry
    <3> HIDE DEF x, f
    <3>5. Kin(req[r].key[2], f.key[2])
      <4>1. req[r].key[2] \in Urls /\ x.key[2] \in Urls /\ f.key[2] \in Urls
        BY <1>5, <1>6, <3>3, KeyParts
      <4>2. Kin(req[r].key[2], x.key[2])
        BY <1>5, <4>1, KinEquiv
      <4> QED BY <3>4, <4>1, <4>2, KinEquiv
    <3> QED BY <2>2, <3>3, <3>5
  <2> QED BY <2>1, <2>2
<1>8. whole \in BOOLEAN
  <2>1. x.data \in BOOLEAN
    BY <1>6 DEF Entry
  <2>2. x.data \/ (x.filen \in Files /\ f.whole \in BOOLEAN)
    <3>1. x.data \/ x.filen \in Files
      BY <1>1, <1>6 DEF SwapInOk, Entry
    <3> QED BY <3>1 DEF Inv, GoodFile, SwapFile
  <2> QED BY <2>1, <2>2
<1> HIDE DEF ans, whole
<1>9. q \in Request /\ q.ph = "serve" /\ q.ans = ans /\ q.key = req[r].key /\ q.e = req[r].e
  BY <1>2, <1>7, <1>8 DEF Request
<1> HIDE DEF q
<1>10. GoodRequest(q, obj)
  BY <1>5, <1>7, <1>9 DEF GoodRequest
<1>11. \A d \in Entries : Users(d) \ {r} # {} => Kept(obj[d], obj[d])
  BY UsedEntries DEF UsersInUse, Kept
<1>12. req' \in [Requests -> Request] /\ GoodRequests(req', obj)
  BY <1>4, <1>10, <1>11, OneRequest
<1>13. GoodStore(obj') /\ GoodRequests(req', obj')
  BY <1>1, <1>12 DEF Inv
<1> QED BY <1>1, <1>12, <1>13, MemoryInv

\* the others that hold the entry of r
LEMMA OthersHold ==
    ASSUME Inv, NEW r \in Requests, req[r].ph # "idle"
    PROVE  LET e == req[r].e
           IN  /\ e \in Entries /\ GoodEntry(obj[e]) /\ obj[e].st # "free" /\ req[r].key \in Keys
               /\ Users(e) # {r} <=> Users(e) \ {r} # {}
<1> DEFINE e == req[r].e
<1>1. GoodRequest(req[r], obj)
  BY DEF Inv, GoodRequests
<1>2. e \in Entries /\ obj[e].st # "free" /\ req[r].key \in Keys
  BY <1>1 DEF GoodRequest
<1>3. r \in Users(e)
  BY DEF Users
<1> QED BY <1>2, <1>3 DEF Inv, GoodStore

\* A client is done with its entry.
LEMMA ClientDoneInv ==
    ASSUME Inv, NEW r \in Requests, ClientDone(r)
    PROVE  Inv'
<1> DEFINE e == req[r].e
           others == Users(e) # {r}
<1>1. /\ req[r].ph # "idle" /\ req' = [req EXCEPT ![r] = Idle]
      /\ UNCHANGED <<proc, table, tfile, todo, torn, kills>>
  BY DEF ClientDone
<1>2. PICK z \in storeClientUnregister(obj[e], others) : SetEntries([obj EXCEPT ![e] = z])
  BY DEF ClientDone
<1>3. e \in Entries /\ GoodEntry(obj[e]) /\ obj[e].st # "free" /\ (others <=> Users(e) \ {r} # {})
  BY <1>1, OthersHold
<1>4. /\ GoodEntry(z) /\ (others => Kept(obj[e], z))
      /\ SameSwap(obj[e], z) \/ z.swap = "writing"
  <2>1. others \in BOOLEAN
    OBVIOUS
  <2> HIDE DEF others, e
  <2> QED BY <1>2, <1>3, <2>1, UnregisterGood
<1> DEFINE ob2 == [obj EXCEPT ![e] = z]
<1>5. SetEntries(ob2)
  BY <1>2
<1>6. GoodStore(obj) /\ obj \in [Entries -> Entry]
  BY DEF Inv, GoodStore
<1> HIDE DEF e
<1>7. ob2 \in [Entries -> Entry] /\ ob2[e] = z /\ \A d \in Entries : d # e => ob2[d] = obj[d]
  BY <1>3, <1>4, <1>6 DEF GoodEntry
<1> HIDE DEF ob2
<1>8. GoodStore(ob2) /\ NewFilesWriting(obj, ob2)
  BY <1>4, <1>6, <1>7 DEF GoodStore, NewFilesWriting, SameSwap
<1>9. \A d \in Entries : Users(d) \ {r} # {} => Kept(obj[d], ob2[d])
  BY <1>3, <1>4, <1>7, UsedEntries DEF UsersInUse, Kept
<1>10. GoodRequest(Idle, ob2)
  BY DEF GoodRequest, Request, Idle, Bodies
<1>11. req' \in [Requests -> Request] /\ GoodRequests(req', ob2)
  BY <1>1, <1>9, <1>10, OneRequest
<1> QED BY <1>1, <1>5, <1>8, <1>11, SetEntriesInv

\* A hit that turns into a miss lets go of one entry and makes another.
LEMMA CacheMissInv ==
    ASSUME Inv, NEW r \in Requests, NEW n \in Entries, CacheMiss(r, n)
    PROVE  Inv'
<1> DEFINE e == req[r].e
           k == req[r].key
           others == Users(e) # {r}
           q == [Idle EXCEPT !.ph = "fetch", !.key = k, !.e = n]
           c == storeCreateEntry(k)
<1>1. /\ req[r].ph = "hit" /\ obj[n] = Free /\ req' = [req EXCEPT ![r] = q]
      /\ UNCHANGED <<proc, table, tfile, todo, torn, kills>>
  BY DEF CacheMiss
<1>2. PICK z \in storeClientUnregister(obj[e], others) :
        SetEntries([obj EXCEPT ![e] = z, ![n] = c])
  BY DEF CacheMiss
<1>3. /\ e \in Entries /\ GoodEntry(obj[e]) /\ obj[e].st # "free" /\ k \in Keys
      /\ (others <=> Users(e) \ {r} # {})
  BY <1>1, OthersHold
<1>4. /\ GoodEntry(z) /\ (others => Kept(obj[e], z))
      /\ SameSwap(obj[e], z) \/ z.swap = "writing"
  <2>1. others \in BOOLEAN
    OBVIOUS
  <2> HIDE DEF others, e
  <2> QED BY <1>2, <1>3, <2>1, UnregisterGood
<1>5. GoodEntry(c) /\ c.filen = None
  BY <1>3, CreateGood
<1> DEFINE ob2 == [obj EXCEPT ![e] = z, ![n] = c]
<1>6. SetEntries(ob2)
  BY <1>2
<1>7. GoodStore(obj) /\ obj \in [Entries -> Entry] /\ e # n
  BY <1>1, <1>3 DEF Inv, GoodStore, Free
<1> HIDE DEF e, c
<1>8. /\ ob2 \in [Entries -> Entry] /\ ob2[e] = z /\ ob2[n] = c
      /\ \A d \in Entries : d # e /\ d # n => ob2[d] = obj[d]
  BY <1>3, <1>4, <1>5, <1>7 DEF GoodEntry
<1> HIDE DEF ob2
<1>9. GoodStore(ob2) /\ NewFilesWriting(obj, ob2)
  BY <1>4, <1>5, <1>7, <1>8 DEF GoodStore, NewFilesWriting, SameSwap
<1>10. Users(n) = {}
  BY <1>1, UsedEntries DEF UsersInUse, Free
<1>11. ASSUME NEW d \in Entries, Users(d) \ {r} # {} PROVE Kept(obj[d], ob2[d])
  <2>1. d # n /\ obj[d].st # "free"
    BY <1>10, <1>11, UsedEntries DEF UsersInUse
  <2>2. d = e => Kept(obj[d], ob2[d])
    BY <1>3, <1>4, <1>8, <1>11
  <2> QED BY <1>8, <2>1, <2>2 DEF Kept
<1>12. GoodRequest(q, ob2)
  BY <1>3, <1>8, FetchRequestGood DEF c
<1> HIDE DEF q
<1>13. req' \in [Requests -> Request] /\ GoodRequests(req', ob2)
  BY <1>1, <1>11, <1>12, OneRequest
<1> QED BY <1>1, <1>6, <1>9, <1>13, SetEntriesInv
-----------------------------------------------------------------------------
(***************************************************************************)
(* The process.                                                             *)
(***************************************************************************)
\* A process without entries and requests, over a good disk, satisfies Inv.
LEMMA FreshInv ==
    ASSUME obj' = [e \in Entries |-> Free], req' = [r \in Requests |-> Idle], table' = <<>>,
           proc' \in {"down", "rebuilding", "validating", "up"},
           tfile' \in [Dirs -> TableFile], \A d \in Dirs : GoodTableFile(tfile'[d]),
           disk' \in [Files -> SwapFile], \A f \in Files : GoodFile(disk'[f]),
           slog' \subseteq LogRecord, nlog' \subseteq LogRecord, todo' \subseteq LogRecord,
           torn' \subseteq Keys, kills' \in 0 .. MaxKills, map' = {}
    PROVE  Inv'
<1>1. GoodStore(obj)'
  BY FreeIsGood DEF GoodStore, GoodEntry
<1>2. Idle \in Request
  BY DEF Idle, Request, Bodies
<1>3. GoodRequests(req, obj)'
  BY <1>2 DEF GoodRequests, GoodRequest, Idle
<1>4. GoodTable(table)' /\ (table \in Seq(TableRow))'
  BY DEF GoodTable
<1>5. TypeOK'
  BY <1>1, <1>2, <1>4 DEF TypeOK, GoodStore
<1> QED BY <1>1, <1>3, <1>4, <1>5 DEF Inv

\* The initial state, an empty cache_dir and no process, satisfies Inv.
LEMMA InitInv == Init => Inv
<1> SUFFICES ASSUME Init PROVE Inv
  OBVIOUS
<1>1. GoodStore(obj)
  BY FreeIsGood DEF Init, GoodStore, GoodEntry
<1>2. Idle \in Request
  BY DEF Idle, Request, Bodies
<1>3. GoodRequests(req, obj)
  BY <1>2 DEF Init, GoodRequests, GoodRequest, Idle
<1>4. GoodTable(table) /\ table \in Seq(TableRow)
  BY DEF Init, GoodTable
<1>5. tfile \in [Dirs -> TableFile] /\ \A d \in Dirs : GoodTableFile(tfile[d])
  <2>1. <<>> \in Seq([off : Nat, row : Row])
    OBVIOUS
  <2> QED BY <2>1 DEF Init, TableFile, GoodTableFile
<1>6. disk \in [Files -> SwapFile] /\ \A f \in Files : GoodFile(disk[f])
  BY DEF Init, NoFile, SwapFile, Bodies, GoodFile
<1>7. TypeOK
  BY <1>1, <1>2, <1>4, <1>5, <1>6, ConstantsAssumption DEF Init, TypeOK, GoodStore
<1> QED BY <1>1, <1>3, <1>4, <1>5, <1>6, <1>7 DEF Inv

\* The process dies between two callbacks.
LEMMA DieInv ==
    ASSUME Inv, Die, UNCHANGED <<tfile, disk, slog, nlog, torn>>
    PROVE  Inv'
<1>1. kills' \in 0 .. MaxKills
  BY ConstantsAssumption DEF Inv, TypeOK, Die
<1> QED BY <1>1, FreshInv DEF Inv, TypeOK, Die

\* The process dies between the record of the swap log and that of the table.
LEMMA DieInFileClosedInv ==
    ASSUME Inv, NEW e \in Entries, DieInFileClosed(e)
    PROVE  Inv'
<1> DEFINE ob2 == [obj EXCEPT ![e].swap = "done"]
           z == [obj[e] EXCEPT !.swap = "done"]
<1>1. GoodEntry(obj[e]) /\ obj[e].st # "free" /\ obj[e].swap = "writing"
      /\ obj \in [Entries -> Entry] /\ GoodStore(obj)
  BY DEF Inv, GoodStore, DieInFileClosed
<1>2. GoodEntry(z) /\ z.filen = obj[e].filen /\ z \in Entry
  BY <1>1 DEF GoodEntry, Entry
<1>3. ob2 = [obj EXCEPT ![e] = z]
  BY <1>1 DEF Entry
<1>4. /\ disk' = SwapFiles(obj, ob2)
      /\ slog' = IF proc = "rebuilding" THEN slog ELSE storeDirSwapLog(slog, obj, ob2)
      /\ nlog' = IF proc = "rebuilding" THEN storeDirSwapLog(nlog, obj, ob2) ELSE nlog
      /\ torn' = torn \cup {obj[e].key} /\ Die /\ tfile' = tfile
  BY DEF DieInFileClosed
<1> HIDE DEF z, ob2
<1>5. GoodStore(ob2) /\ NewFilesWriting(obj, ob2)
  BY <1>1, <1>2, <1>3 DEF GoodStore, NewFilesWriting
<1>6. \A f \in Files : GoodFile(disk'[f])
  BY <1>4, <1>5, SwapFilesGood
<1>7. disk' \in [Files -> SwapFile]
  <2>1. disk' = [f \in Files |-> disk'[f]]
    BY <1>4 DEF SwapFiles
  <2> QED BY <1>6, <2>1 DEF GoodFile
<1>8. slog' \subseteq LogRecord /\ nlog' \subseteq LogRecord
  BY <1>4, <1>5, SwapLogGood DEF Inv, TypeOK
<1>9. torn' \subseteq Keys
  BY <1>1, <1>4 DEF Inv, TypeOK, GoodEntry
<1>10. kills' \in 0 .. MaxKills
  BY <1>4, ConstantsAssumption DEF Inv, TypeOK, Die
<1> QED BY <1>4, <1>6, <1>7, <1>8, <1>9, <1>10, FreshInv DEF Inv, TypeOK, Die

\* An entry restored from swap.state has a key and a file and no memory object.
LEMMA RestoredGood ==
    ASSUME NEW k \in Keys, NEW f \in Files, NEW body \in Bodies
    PROVE  GoodEntry([Free EXCEPT !.st = "ok", !.key = k, !.pub = TRUE, !.hdr = TRUE,
                                  !.body = body, !.swap = "done", !.filen = f])
BY ConstantsAssumption DEF GoodEntry, Entry, Free, Bodies

\* A record of swap.state is loaded or ignored.
LEMMA RebuildLoadInv ==
    ASSUME Inv, NEW l \in todo, NEW n \in Entries, RebuildLoad(l, n)
    PROVE  Inv'
<1> DEFINE z == storeUfsDirAddDiskRestore(l)
<1>1. l \in LogRecord /\ l.key \in Keys /\ l.filen \in Files
  BY DEF Inv, TypeOK, LogRecord
<1>2. disk[l.filen].body \in Bodies
  BY <1>1 DEF Inv, GoodFile, SwapFile
<1>3. GoodEntry(z)
  BY <1>1, <1>2, RestoredGood DEF storeUfsDirAddDiskRestore
<1>4. \/ obj[n] = Free /\ obj' = [obj EXCEPT ![n] = z] /\ nlog' = nlog \cup {l}
      \/ UNCHANGED <<obj, nlog>>
  BY DEF RebuildLoad
<1>5. todo' = todo \ {l} /\ UNCHANGED <<proc, req, table, tfile, disk, slog, torn, kills>>
  BY DEF RebuildLoad
<1> HIDE DEF z
<1>6. GoodStore(obj') /\ GoodRequests(req, obj') /\ nlog' \subseteq LogRecord
  <2>1. CASE UNCHANGED <<obj, nlog>>
    BY <2>1 DEF Inv, TypeOK
  <2>2. CASE obj[n] = Free /\ obj' = [obj EXCEPT ![n] = z] /\ nlog' = nlog \cup {l}
    <3>1. GoodStore(obj') /\ \A d \in Entries : d # n => obj'[d] = obj[d]
      BY <1>3, <2>2 DEF Inv, GoodStore, GoodEntry
    <3>2. \A d \in Entries : Users(d) # {} => Kept(obj[d], obj'[d])
      BY <2>2, <3>1, UsedEntries DEF UsersInUse, Kept, Free
    <3>3. nlog' \subseteq LogRecord
      BY <1>1, <2>2 DEF Inv, TypeOK
    <3> QED BY <3>1, <3>2, <3>3, RequestsStay
  <2> QED BY <1>4, <2>1, <2>2
<1>7. TypeOK'
  <2>1. map' \subseteq Files
    BY <1>1 DEF RebuildLoad, Inv, TypeOK
  <2> QED BY <1>5, <1>6, <2>1 DEF Inv, TypeOK, GoodStore
<1>8. GoodRequests(req, obj)' /\ (\A f \in Files : GoodFile(disk[f]))' /\ GoodTable(table)'
      /\ (\A d \in Dirs : GoodTableFile(tfile[d]))'
  BY <1>5, <1>6 DEF Inv
<1> QED BY <1>6, <1>7, <1>8 DEF Inv

\* What is read back from a table file, however its records are aligned and
\* whatever temp[] picks up, is made of rows that were written and of garbage.
LEMMA ReadGood ==
    ASSUME NEW f \in TableFile, GoodTableFile(f), NEW misread
    PROVE  LET tab == readChunkFromTableFile(f, misread)
           IN  tab \in Seq(TableRow) /\ GoodTable(tab)
<1> DEFINE n == (f.len + Unit - 1) \div Unit
           tab == readChunkFromTableFile(f, misread)
           At(i, j) == f.recs[i].off = Unit * (j - 1) /\ LmtLen[f.recs[i].row.chunk] = 16
           Found(j) == CHOOSE i \in DOMAIN f.recs : At(i, j)
           Ok(j) == j \notin misread /\ \E i \in DOMAIN f.recs : At(i, j)
<1>1. n \in Nat
  BY DEF TableFile, Unit
<1>2. tab = [j \in 1 .. n |-> IF Ok(j) THEN f.recs[Found(j)].row ELSE Garbage]
  BY DEF readChunkFromTableFile
<1>3. ASSUME NEW j, Ok(j) PROVE Found(j) \in DOMAIN f.recs
  BY <1>3
<1>4. \A i \in DOMAIN f.recs : f.recs[i].row \in Row /\ GoodRow(f.recs[i].row)
  <2> DEFINE Rec == [off : Nat, row : Row]
             s == f.recs
  <2>1. s \in Seq(Rec)
    BY DEF TableFile
  <2>2. ASSUME NEW i \in DOMAIN s PROVE s[i].row \in Row
    <3>1. s[i] \in Rec
      <4> HIDE DEF Rec, s
      <4> QED BY <2>1
    <3> QED BY <3>1
  <2> QED BY <2>2 DEF GoodTableFile
<1>5. GoodRow(Garbage) /\ Garbage \in TableRow
  BY ConstantsAssumption DEF GoodRow, Garbage, TableRow, Row
<1> HIDE DEF n, Found, Ok, tab
<1>6. ASSUME NEW j \in 1 .. n PROVE tab[j] \in TableRow /\ GoodRow(tab[j])
  <2>1. CASE Ok(j)
    BY <1>2, <1>3, <1>4, <2>1 DEF TableRow
  <2>2. CASE ~Ok(j)
    BY <1>2, <1>5, <2>2
  <2> QED BY <2>1, <2>2
<1>7. DOMAIN tab = 1 .. n /\ tab = [j \in 1 .. n |-> tab[j]]
  BY <1>2
<1>8. tab \in [1 .. n -> TableRow]
  BY <1>6, <1>7
<1>9. tab \in Seq(TableRow)
  BY <1>1, <1>8
<1>10. GoodTable(tab)
  BY <1>6, <1>7 DEF GoodTable
<1> QED BY <1>9, <1>10 DEF tab

\* The rebuild ends and the table is read from its file.
LEMMA RebuildCompleteInv ==
    ASSUME Inv, NEW misread, RebuildComplete(misread)
    PROVE  Inv'
<1>1. tfile[Dir0] \in TableFile /\ GoodTableFile(tfile[Dir0])
  BY ConstantsAssumption DEF Inv, TypeOK
<1>2. table' \in Seq(TableRow) /\ GoodTable(table')
  BY <1>1, ReadGood DEF RebuildComplete
<1>3. /\ proc' = "validating" /\ slog' = nlog /\ nlog' = {}
      /\ UNCHANGED <<obj, req, tfile, map, disk, todo, torn, kills>>
  BY DEF RebuildComplete
<1>4. TypeOK'
  BY <1>2, <1>3 DEF Inv, TypeOK
<1>5. GoodStore(obj)' /\ GoodRequests(req, obj)' /\ (\A f \in Files : GoodFile(disk[f]))'
      /\ (\A d \in Dirs : GoodTableFile(tfile[d]))'
  BY <1>3 DEF Inv
<1> QED BY <1>2, <1>4, <1>5 DEF Inv

\* Only what the process remembers of its own progress changes.
LEMMA ProgressInv ==
    ASSUME Inv, Start \/ Validated \/ UNCHANGED vars
    PROVE  Inv'
<1>1. /\ UNCHANGED <<obj, req, table, tfile, map, disk, slog, torn, kills>>
      /\ proc' \in {"down", "rebuilding", "validating", "up"}
      /\ nlog' \subseteq LogRecord /\ todo' \subseteq LogRecord
  BY DEF Inv, TypeOK, Start, Validated, vars
<1>2. TypeOK'
  BY <1>1 DEF Inv, TypeOK
<1>3. GoodStore(obj)' /\ GoodRequests(req, obj)' /\ (\A f \in Files : GoodFile(disk[f]))'
      /\ (\A d \in Dirs : GoodTableFile(tfile[d]))' /\ GoodTable(table)'
  BY <1>1 DEF Inv
<1> QED BY <1>2, <1>3 DEF Inv

\* Every step preserves Inv.
LEMMA NextInv == Inv /\ [Next]_vars => Inv'
<1> SUFFICES ASSUME Inv, [Next]_vars PROVE Inv'
  OBVIOUS
<1>1. ASSUME NEW r \in Requests, ClientStep(r) PROVE Inv'
  <2>1. ASSUME NEW k \in Keys, RequestHit(r, k) PROVE Inv'
    BY <2>1, RequestHitInv
  <2>2. ASSUME NEW k \in Keys, NEW n \in Entries, RequestMiss(r, k, n) PROVE Inv'
    BY <2>2, RequestMissInv
  <2>3. ASSUME NEW k \in Keys, LookupCrash(r, k) PROVE Inv'
    BY <2>3, DieInv DEF LookupCrash
  <2>4. CASE CacheHit(r)
    BY <2>4, CacheHitInv
  <2>5. ASSUME NEW n \in Entries, CacheMiss(r, n) PROVE Inv'
    BY <2>5, CacheMissInv
  <2>6. CASE ClientDone(r)
    BY <2>6, ClientDoneInv
  <2> QED BY <1>1, <2>1, <2>2, <2>3, <2>4, <2>5, <2>6 DEF ClientStep
<1>2. ASSUME NEW e \in Entries, EntryStep(e) PROVE Inv'
  <2>1. ASSUME NEW kind \in Replies, NEW expired \in BOOLEAN, ReplyHeader(e, kind, expired)
        PROVE  Inv'
    BY <2>1, ReplyHeaderInv
  <2>2. CASE Append4K(e)
    BY <2>2, Append4KInv
  <2>3. ASSUME NEW validLength \in BOOLEAN, Complete(e, validLength) PROVE Inv'
    BY <2>3, CompleteInv
  <2>4. CASE RequestFailed(e)
    BY <2>4, RequestFailedInv
  <2>5. CASE ServerAborted(e)
    BY <2>5, ServerAbortedInv
  <2>6. CASE SwapOutFileClosed(e)
    BY <2>6, SwapOutFileClosedInv
  <2>7. CASE SwapOutFileError(e)
    BY <2>7, SwapOutFileErrorInv
  <2>8. CASE TrimMemory(e)
    BY <2>8, TrimMemoryInv
  <2>9. CASE PurgeMem(e)
    BY <2>9, PurgeMemInv
  <2>10. CASE Evict(e)
    BY <2>10, EvictInv
  <2>11. CASE LateRelease(e)
    BY <2>11, LateReleaseInv
  <2>12. CASE DieInFileClosed(e)
    BY <2>12, DieInFileClosedInv
  <2>13. CASE Validate(e)
    BY <2>13, ValidateInv
  <2>14. ASSUME NEW f \in Files, CreateFails(e, f) PROVE Inv'
    BY <2>14, CreateFailsInv
  <2> QED BY <1>2, <2>1, <2>2, <2>3, <2>4, <2>5, <2>6, <2>7, <2>8, <2>9, <2>10, <2>11, <2>12,
             <2>13, <2>14 DEF EntryStep
<1>3. CASE ProcessStep
  <2>1. CASE Kill
    BY <2>1, DieInv DEF Kill
  <2>2. CASE Start \/ Validated
    BY <2>2, ProgressInv
  <2>3. ASSUME NEW l \in todo, NEW n \in Entries, RebuildLoad(l, n) PROVE Inv'
    BY <2>3, RebuildLoadInv
  <2>4. ASSUME NEW misread, RebuildComplete(misread) PROVE Inv'
    BY <2>4, RebuildCompleteInv
  <2> QED BY <1>3, <2>1, <2>2, <2>3, <2>4 DEF ProcessStep
<1>4. CASE UNCHANGED vars
  BY <1>4, ProgressInv
<1> QED BY <1>1, <1>2, <1>3, <1>4 DEF Next

\* Inv is an invariant of the store.
THEOREM Invariant == Spec => []Inv
BY InitInv, NextInv, PTL DEF Spec

\* Every variable keeps its type.
THEOREM TypeCorrect == Spec => []TypeOK
<1>1. Inv => TypeOK
  BY DEF Inv
<1> QED BY <1>1, Invariant, PTL

\* What a hit sends was fetched for a URL of the chunk the client asked for,
\* through every interleaving of clients, servers, swapout, eviction, deaths of
\* the process and rebuilds, and with any rows of the table file misread, as long
\* as no misread row spells a range that a client asks for.
THEOREM HitsAnswerSameChunk == Spec => []AnswerSameChunk
<1>1. Inv => AnswerSameChunk
  BY DEF Inv, GoodRequests, GoodRequest, AnswerSameChunk, SameChunk, Kin
<1> QED BY <1>1, Invariant, PTL

\* An entry is never freed under a client that works with it.
THEOREM ClientsKeepEntries == Spec => []ClientsHoldEntries
<1>1. Inv => ClientsHoldEntries
  BY ConstantsAssumption DEF Inv, GoodRequests, GoodRequest, ClientsHoldEntries
<1> QED BY <1>1, Invariant, PTL
=============================================================================
