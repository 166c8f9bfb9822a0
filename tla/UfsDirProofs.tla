---------------------------- MODULE UfsDirProofs ----------------------------
(***************************************************************************)
(* Proofs about one ufs cache_dir (UfsDir): the index, the bitmap of file  *)
(* numbers and the removal policy stay in step through every release,      *)
(* error, crash, rotation and rebuild; the swap log replays to the index;  *)
(* and the file of an object is its own.                                   *)
(***************************************************************************)
EXTENDS UfsDir, SequenceTheorems, FiniteSetTheorems, WellFoundedInduction, TLAPS

\* What the variables hold at time t.
RecordsAt(t) == [op : {"ADD", "DEL", "FILE"}, key : Keys, file : Files, ref : 0..t, ts : 0..t]
EntriesAt(t) == [key : Keys, file : Files, ref : 0..t, ts : 0..t, st : {"writing", "done"},
                 pub : BOOLEAN, held : BOOLEAN]
ContentsAt(t) == {Gone} \cup [key : Keys, ref : 0..t, whole : BOOLEAN]

LogsOK ==
    /\ log \in Seq(RecordsAt(now)) /\ newlog \in Seq(RecordsAt(now))
    /\ todo \in Seq(RecordsAt(now))

\* The books of a cache_dir with entries E, marked numbers B, policy nodes N and
\* lost numbers L at time t: a file has one entry, a key one public entry, and
\* the map and the policy say the same as the index.
Books(E, B, N, L, t) ==
    /\ E \subseteq EntriesAt(t) /\ N \subseteq Keys \X Files /\ L \subseteq Files
    /\ \A e, x \in E : e.file = x.file => e = x
    /\ \A e, x \in E : e.pub /\ x.pub /\ e.key = x.key => e = x
    /\ B = {e.file : e \in E} \cup L
    /\ \A e \in E : e.file \notin L
    /\ \A e \in E : <<e.key, e.file>> \in N
    /\ \A n \in N : (\E e \in E : n = <<e.key, e.file>>) \/ (n[2] = 0 /\ 0 \in L)

DiskOK ==
    /\ proc \in {"down", "rebuilding", "up"} /\ now \in Nat
    /\ disk \in [Files -> ContentsAt(now)] /\ unlinkd \in Seq(Files)
    /\ proc = "down" => ents = {} /\ bits = {}

\* The inductive invariant.
IInv == DiskOK /\ LogsOK /\ Books(ents, bits, nodes, lost, now)
-----------------------------------------------------------------------------
(***************************************************************************)
(* Sequences made of sets.                                                 *)
(***************************************************************************)

\* SetToSeq lists the elements of a finite set.
LEMMA SetToSeqType ==
    ASSUME NEW S, IsFiniteSet(S)
    PROVE  /\ Cardinality(S) \in Nat
           /\ SetToSeq(S) \in [1..Cardinality(S) -> S]
           /\ SetToSeq(S) \in Seq(S)
<1>1. Cardinality(S) \in Nat /\ ExistsBijection(1..Cardinality(S), S)
  BY FS_CardinalityType
<1>2. \E f \in [1..Cardinality(S) -> S] : IsInjective(f)
  BY <1>1, Zenon DEF ExistsBijection, Bijection, Injection
<1>3. SetToSeq(S) \in [1..Cardinality(S) -> S]
  BY <1>2, Zenon DEF SetToSeq
<1>4. SetToSeq(S) \in Seq(S)
  BY <1>1, <1>3, IsASeq
<1> QED
  BY <1>1, <1>3, <1>4

\* Entries that share no file are finitely many.
LEMMA FilesFinite ==
    ASSUME NEW E, \A e \in E : e.file \in Files, \A e, x \in E : e.file = x.file => e = x
    PROVE  IsFiniteSet(E)
<1> DEFINE g == [e \in E |-> e.file]
<1>1. g \in Injection(E, Files)
  BY DEF Injection, IsInjective
<1>2. IsFiniteSet(Files)
  BY UfsDirAssumption
<1> QED
  BY <1>1, <1>2, FS_Injection, Zenon DEF ExistsInjection

\* The records made of entries are records.
LEMMA RecsOfType ==
    ASSUME NEW t, NEW E, E \subseteq EntriesAt(t), IsFiniteSet(E),
           NEW op \in {"ADD", "DEL", "FILE"}
    PROVE  RecsOf(op, E) \in Seq(RecordsAt(t))
<1>1. Cardinality(E) \in Nat /\ SetToSeq(E) \in [1..Cardinality(E) -> E]
  BY SetToSeqType
<1>2. \A e \in E : RecOf(op, e) \in RecordsAt(t)
  BY DEF RecOf, RecordsAt, EntriesAt
<1>3. \A i \in 1..Cardinality(E) : RecOf(op, SetToSeq(E)[i]) \in RecordsAt(t)
  BY <1>1, <1>2
<1>4. RecsOf(op, E) \in [1..Cardinality(E) -> RecordsAt(t)]
  BY <1>3 DEF RecsOf
<1> QED
  BY <1>1, <1>4, IsASeq

\* Time only adds: what was typed stays typed.
LEMMA Later ==
    ASSUME NEW t \in Nat, NEW u \in Nat, t <= u
    PROVE  /\ RecordsAt(t) \subseteq RecordsAt(u) /\ EntriesAt(t) \subseteq EntriesAt(u)
           /\ ContentsAt(t) \subseteq ContentsAt(u)
           /\ \A s \in Seq(RecordsAt(t)) : s \in Seq(RecordsAt(u))
<1>1. 0..t \subseteq 0..u
  OBVIOUS
<1>2. /\ RecordsAt(t) \subseteq RecordsAt(u) /\ EntriesAt(t) \subseteq EntriesAt(u)
      /\ ContentsAt(t) \subseteq ContentsAt(u)
  BY <1>1 DEF RecordsAt, EntriesAt, ContentsAt
<1>3. ASSUME NEW s \in Seq(RecordsAt(t)) PROVE s \in Seq(RecordsAt(u))
  <2> HIDE DEF RecordsAt
  <2> QED BY <1>2, <1>3
<1> QED
  BY <1>2, <1>3
-----------------------------------------------------------------------------
(***************************************************************************)
(* What keeps the books.                                                   *)
(***************************************************************************)

\* An entry that keeps its key and file, and is made no more public.
LEMMA BooksChange ==
    ASSUME NEW E, NEW B, NEW N, NEW L, NEW t, Books(E, B, N, L, t),
           NEW e \in E, NEW x \in EntriesAt(t),
           x.key = e.key, x.file = e.file, x.pub => e.pub
    PROVE  Books((E \ {e}) \cup {x}, B, N, L, t)
BY DEF Books

\* An entry whose number and node go with it.
LEMMA BooksDrop ==
    ASSUME NEW E, NEW B, NEW N, NEW L, NEW t, Books(E, B, N, L, t), NEW e \in E
    PROVE  Books(E \ {e}, B \ {e.file}, {n \in N : n[2] # e.file}, L, t)
BY DEF Books

\* The node of an entry is the only one for its number.
LEMMA BooksDropNode ==
    ASSUME NEW E, NEW B, NEW N, NEW L, NEW t, Books(E, B, N, L, t), NEW e \in E
    PROVE  Books(E \ {e}, B \ {e.file}, N \ {<<e.key, e.file>>}, L, t)
BY DEF Books

\* A new entry with a free number, whose key is not public.
LEMMA BooksAdd ==
    ASSUME NEW E, NEW B, NEW N, NEW L, NEW t, Books(E, B, N, L, t),
           NEW x \in EntriesAt(t), x.file \notin B, \A e \in E : e.pub => e.key # x.key
    PROVE  Books(E \cup {x}, B \cup {x.file}, N \cup {<<x.key, x.file>>}, L, t)
<1>1. x.key \in Keys /\ x.file \in Files
  BY DEF EntriesAt
<1> HIDE DEF EntriesAt
<1> QED
  BY <1>1 DEF Books

\* A number that is marked and lost.
LEMMA BooksLose ==
    ASSUME NEW E, NEW B, NEW N, NEW L, NEW t, Books(E, B, N, L, t), NEW f \in Files, f \notin B
    PROVE  Books(E, B \cup {f}, N, L \cup {f}, t)
BY DEF Books

\* An entry with number 0 that goes and leaves its number behind.
LEMMA BooksOrphan ==
    ASSUME NEW E, NEW B, NEW N, NEW L, NEW t, Books(E, B, N, L, t), NEW e \in E, e.file = 0
    PROVE  Books(E \ {e}, B, N, L \cup {0}, t)
<1>1. e.file \in Files
  BY DEF Books, EntriesAt
<1> QED
  BY <1>1 DEF Books

\* Time passes.
LEMMA BooksLater ==
    ASSUME NEW E, NEW B, NEW N, NEW L, NEW t \in Nat, NEW u \in Nat, t <= u, Books(E, B, N, L, t)
    PROVE  Books(E, B, N, L, u)
BY Later DEF Books

\* Empty books.
LEMMA BooksEmpty ==
    ASSUME NEW t
    PROVE  Books({}, {}, {}, {}, t)
BY DEF Books

\* An invariant state has finitely many entries.
LEMMA EntsFinite ==
    ASSUME NEW E, NEW B, NEW N, NEW L, NEW t, Books(E, B, N, L, t)
    PROVE  IsFiniteSet(E) /\ \A F \in SUBSET E : IsFiniteSet(F)
<1>1. \A F \in SUBSET E : /\ \A e \in F : e.file \in Files
                          /\ \A e, x \in F : e.file = x.file => e = x
  BY DEF Books, EntriesAt
<1>2. \A F \in SUBSET E : IsFiniteSet(F)
  BY <1>1, FilesFinite
<1> QED
  BY <1>2

\* The public entries of a key are none or one.
LEMMA PublicOne ==
    ASSUME IInv, NEW k
    PROVE  /\ Public(k) \subseteq ents /\ \A e \in Public(k) : e.pub /\ e.key = k
           /\ Public(k) = {} \/ \E o \in ents : o.pub /\ o.key = k /\ Public(k) = {o}
BY DEF IInv, Books, Public

\* The books are the two properties.
LEMMA IInvMeans == IInv => TypeOK /\ NumbersAccounted
<1> SUFFICES ASSUME IInv PROVE TypeOK /\ NumbersAccounted
  OBVIOUS
<1>1. NumbersAccounted
  BY DEF IInv, Books, NumbersAccounted
<1>2. ASSUME NEW k \in Keys PROVE Cardinality(Public(k)) <= 1
  <2>1. CASE Public(k) = {}
    BY <2>1, FS_EmptySet
  <2>2. CASE \E o \in ents : Public(k) = {o}
    <3>1. PICK o \in ents : Public(k) = {o}
      BY <2>2
    <3>2. Cardinality({o}) = 1
      BY FS_Singleton
    <3> QED
      BY <3>1, <3>2
  <2> QED
    BY <2>1, <2>2, PublicOne
<1>3. \A e \in ents : e.key \in Keys /\ e.file \in Files /\ e.ref <= now
  BY DEF IInv, Books, DiskOK, EntriesAt
<1>4. bits \subseteq Files /\ lost \subseteq bits
  BY <1>3 DEF IInv, Books
<1> QED
  BY <1>1, <1>2, <1>3, <1>4 DEF TypeOK, IInv, DiskOK
-----------------------------------------------------------------------------
(***************************************************************************)
(* Every step keeps the invariant.                                         *)
(***************************************************************************)

\* The invariant holds at the first start.
LEMMA InitIInv == Init => IInv
<1> SUFFICES ASSUME Init PROVE IInv
  OBVIOUS
<1>1. Books(ents, bits, nodes, lost, now)
  BY BooksEmpty DEF Init
<1>2. <<>> \in Seq(RecordsAt(now)) /\ <<>> \in Seq(Files)
  OBVIOUS
<1>3. disk \in [Files -> ContentsAt(now)]
  BY DEF Init, ContentsAt
<1> QED
  BY <1>1, <1>2, <1>3 DEF Init, IInv, DiskOK, LogsOK

\* Records added to the open log.
LEMMA LoggedOK ==
    ASSUME LogsOK, NEW recs \in Seq(RecordsAt(now)), Logged(recs), UNCHANGED <<todo, now>>
    PROVE  LogsOK'
<1> HIDE DEF RecordsAt
<1>1. log \o recs \in Seq(RecordsAt(now)) /\ newlog \o recs \in Seq(RecordsAt(now))
  BY ConcatProperties DEF LogsOK
<1>2. RecordsAt(now)' = RecordsAt(now)
  BY DEF RecordsAt
<1> QED
  BY <1>1, <1>2 DEF LogsOK, Logged

\* Logs that are left alone.
LEMMA LogsKept == LogsOK /\ UNCHANGED <<log, newlog, todo, now>> => LogsOK'
BY DEF LogsOK, RecordsAt

\* Paths sent to unlinkd.
LEMMA UnlinkdOK ==
    ASSUME NEW q \in Seq(Files), NEW fs \in SUBSET Files
    PROVE  q \o SetToSeq(fs) \in Seq(Files)
<1>1. IsFiniteSet(fs)
  BY UfsDirAssumption, FS_Subset
<1>2. SetToSeq(fs) \in Seq(fs)
  BY <1>1, SetToSeqType
<1>3. SetToSeq(fs) \in Seq(Files)
  BY <1>2
<1> QED
  BY <1>3, ConcatProperties

\* A record of an entry, a path of an entry.
LEMMA EntryOK ==
    ASSUME IInv, NEW e \in ents
    PROVE  /\ e \in EntriesAt(now) /\ e.file \in Files /\ e.key \in Keys
           /\ \A op \in {"ADD", "DEL"} : <<RecOf(op, e)>> \in Seq(RecordsAt(now))
           /\ unlinkd \o SetToSeq({e.file}) \in Seq(Files)
           /\ [e EXCEPT !.pub = FALSE] \in EntriesAt(now)
           /\ [e EXCEPT !.st = "done"] \in EntriesAt(now)
           /\ [e EXCEPT !.held = FALSE] \in EntriesAt(now)
<1>1. e \in EntriesAt(now)
  BY DEF IInv, Books
<1>2. e.file \in Files /\ e.key \in Keys
  BY <1>1 DEF EntriesAt
<1>3. \A op \in {"ADD", "DEL"} : RecOf(op, e) \in RecordsAt(now)
  BY <1>1 DEF EntriesAt, RecordsAt, RecOf
<1>4. unlinkd \o SetToSeq({e.file}) \in Seq(Files)
  BY <1>2, UnlinkdOK DEF IInv, DiskOK
<1>5. /\ [e EXCEPT !.pub = FALSE] \in EntriesAt(now)
      /\ [e EXCEPT !.st = "done"] \in EntriesAt(now)
      /\ [e EXCEPT !.held = FALSE] \in EntriesAt(now)
  BY <1>1 DEF EntriesAt
<1>6. \A op \in {"ADD", "DEL"} : <<RecOf(op, e)>> \in Seq(RecordsAt(now))
  <2> HIDE DEF RecordsAt, RecOf
  <2> QED BY <1>3
<1> QED
  BY <1>1, <1>2, <1>4, <1>5, <1>6

\* The records of some entries of the index.
LEMMA EntsRecs ==
    ASSUME IInv, NEW F \in SUBSET ents, NEW op \in {"ADD", "DEL"}
    PROVE  RecsOf(op, F) \in Seq(RecordsAt(now))
<1>1. Books(ents, bits, nodes, lost, now)
  BY DEF IInv
<1>2. IsFiniteSet(F)
  BY <1>1, EntsFinite
<1>3. F \subseteq EntriesAt(now)
  BY <1>1 DEF Books
<1> QED
  BY <1>2, <1>3, RecsOfType

\* Releasing the public entries of a key keeps the books and leaves none public.
LEMMA ReleasedBooks ==
    ASSUME IInv, proc # "down", NEW E, E = {} \/ \E o \in ents : o.pub /\ E = {o}
    PROVE  /\ FreedBy(E) \in SUBSET Files
           /\ Books(ReleasedAll(E), bits \ FreedBy(E), {n \in nodes : n[2] \notin FreedBy(E)},
                    lost, now)
           /\ \A x \in ReleasedAll(E) : x.pub => x \in ents \ E
<1> DEFINE R == Books(ReleasedAll(E), bits \ FreedBy(E),
                      {n \in nodes : n[2] \notin FreedBy(E)}, lost, now)
<1>b. Books(ents, bits, nodes, lost, now)
  BY DEF IInv
<1>1. ASSUME E = {} 
      PROVE FreedBy(E) = {} /\ ReleasedAll(E) = ents
  BY <1>1 DEF FreedBy, ReleasedAll
<1>2. ASSUME NEW o \in ents, o.pub, E = {o}, Locked(o) \/ proc = "rebuilding"
      PROVE  /\ FreedBy(E) = {} /\ ReleasedAll(E) = (ents \ {o}) \cup {[o EXCEPT !.pub = FALSE]}
             /\ Books(ReleasedAll(E), bits, nodes, lost, now)
  <2>1. FreedBy(E) = {} /\ ReleasedAll(E) = (ents \ {o}) \cup {[o EXCEPT !.pub = FALSE]}
    <3> HIDE DEF Locked
    <3> QED BY <1>2 DEF FreedBy, ReleasedAll
  <2>2. /\ [o EXCEPT !.pub = FALSE] \in EntriesAt(now)
        /\ [o EXCEPT !.pub = FALSE].key = o.key /\ [o EXCEPT !.pub = FALSE].file = o.file
        /\ ~[o EXCEPT !.pub = FALSE].pub
    <3>1. o \in EntriesAt(now)
      BY <1>b DEF Books
    <3> QED BY <3>1 DEF EntriesAt
  <2> DEFINE x == [o EXCEPT !.pub = FALSE]
  <2>3. x \in EntriesAt(now) /\ x.key = o.key /\ x.file = o.file /\ (x.pub => o.pub)
    BY <2>2
  <2> HIDE DEF x
  <2>4. Books((ents \ {o}) \cup {x}, bits, nodes, lost, now)
    BY <2>3, <1>b, BooksChange
  <2> QED
    BY <2>1, <2>4 DEF x
<1>3. ASSUME NEW o \in ents, o.pub, E = {o}, ~Locked(o), proc # "rebuilding"
      PROVE  FreedBy(E) = {o.file} /\ ReleasedAll(E) = ents \ {o}
  <2> HIDE DEF Locked
  <2> QED BY <1>3 DEF FreedBy, ReleasedAll
<1>4. ASSUME FreedBy(E) = {}, Books(ReleasedAll(E), bits, nodes, lost, now) PROVE R
  <2>1. bits \ FreedBy(E) = bits /\ {n \in nodes : n[2] \notin FreedBy(E)} = nodes
    BY <1>4
  <2> QED BY <1>4, <2>1
<1>5. CASE E = {}
  BY <1>5, <1>1, <1>4, <1>b
<1>6. ASSUME NEW o \in ents, o.pub, E = {o}, Locked(o) \/ proc = "rebuilding"
      PROVE  FreedBy(E) \in SUBSET Files /\ R /\ \A x \in ReleasedAll(E) : x.pub => x \in ents \ E
  <2>1. ~[o EXCEPT !.pub = FALSE].pub
    <3>1. o \in EntriesAt(now)
      BY <1>b DEF Books
    <3> QED BY <3>1 DEF EntriesAt
  <2> QED
    BY <1>6, <1>2, <1>4, <2>1
<1>7. ASSUME NEW o \in ents, o.pub, E = {o}, ~Locked(o), proc # "rebuilding"
      PROVE  FreedBy(E) \in SUBSET Files /\ R /\ \A x \in ReleasedAll(E) : x.pub => x \in ents \ E
  <2>1. FreedBy(E) = {o.file} /\ ReleasedAll(E) = ents \ {o}
    BY <1>7, <1>3
  <2>2. Books(ents \ {o}, bits \ {o.file}, {n \in nodes : n[2] # o.file}, lost, now)
    BY <1>b, BooksDrop
  <2>3. {n \in nodes : n[2] \notin FreedBy(E)} = {n \in nodes : n[2] # o.file}
    BY <2>1
  <2>4. o.file \in Files
    BY EntryOK
  <2> QED
    BY <1>7, <2>1, <2>2, <2>3, <2>4
<1> HIDE DEF R
<1>8. CASE \E o \in ents : o.pub /\ E = {o}
  BY <1>8, <1>6, <1>7 DEF R
<1> QED
  BY <1>5, <1>8 DEF R

\* What does not touch the disk keeps it.
LEMMA DiskKept ==
    ASSUME DiskOK, UNCHANGED <<disk, now, proc>>, unlinkd' \in Seq(Files), proc # "down"
    PROVE  DiskOK'
BY DEF DiskOK, ContentsAt, Gone

\* storeRelease
LEMMA ReleaseKeeps ==
    ASSUME IInv, NEW e \in ents, Release(e)
    PROVE  IInv'
<1>1. /\ FreedBy({e}) \in SUBSET Files
      /\ Books(ReleasedAll({e}), bits \ FreedBy({e}), {n \in nodes : n[2] \notin FreedBy({e})},
               lost, now)
  BY ReleasedBooks DEF Release
<1>2. Books(ents, bits, nodes, lost, now)'
  BY <1>1 DEF Release, Unlinked, Books, EntriesAt
<1>3. LogsOK'
  BY EntryOK, LoggedOK DEF Release, IInv
<1>4. unlinkd' \in Seq(Files)
  BY <1>1, UnlinkdOK DEF Release, Unlinked, IInv, DiskOK
<1> QED
  BY <1>2, <1>3, <1>4, DiskKept DEF Release, IInv

\* storeUfsCreate
LEMMA CreateKeeps ==
    ASSUME IInv, NEW k \in Keys, NEW f \in Files, Create(k, f)
    PROVE  IInv'
<1> DEFINE old == Public(k)
           x == Entry(k, f, now, now, "writing")
           E == ReleasedAll(old)
           fs == FreedBy(old)
           N == {n \in nodes : n[2] \notin fs}
<1>0. /\ proc # "down" /\ f \notin bits /\ UNCHANGED <<proc, todo, lost, now>>
      /\ ents' = E \cup {x} /\ Logged(RecsOf("DEL", old))
      /\ bits' = (bits \ fs) \cup {f} /\ nodes' = N \cup {<<k, f>>}
      /\ unlinkd' = unlinkd \o SetToSeq(fs)
      /\ disk' = [disk EXCEPT ![f] = [key |-> k, ref |-> now, whole |-> FALSE]]
  BY DEF Create
<1>1. old \subseteq ents /\ (old = {} \/ \E o \in ents : o.pub /\ old = {o})
      /\ \A e \in ents \ old : e.pub => e.key # k
  BY PublicOne DEF Public
<1>2. /\ fs \in SUBSET Files /\ Books(E, bits \ fs, N, lost, now)
      /\ \A e \in E : e.pub => e.key # k
  BY <1>0, <1>1, ReleasedBooks
<1>3. x \in EntriesAt(now) /\ x.key = k /\ x.file = f /\ f \notin bits \ fs
  BY <1>0 DEF Entry, EntriesAt, IInv, DiskOK
<1>4. Books(ents, bits, nodes, lost, now)'
  <2> HIDE DEF x, E, fs, N
  <2>1. Books(E \cup {x}, (bits \ fs) \cup {x.file}, N \cup {<<x.key, x.file>>}, lost, now)
    BY <1>2, <1>3, BooksAdd
  <2> QED
    BY <1>0, <1>3, <2>1 DEF Books, EntriesAt
<1>5. LogsOK'
  <2>2. RecsOf("DEL", old) \in Seq(RecordsAt(now))
    BY <1>1, EntsRecs
  <2> QED
    BY <1>0, <2>2, LoggedOK DEF IInv
<1>6. unlinkd' \in Seq(Files)
  BY <1>0, <1>2, UnlinkdOK DEF IInv, DiskOK
<1>7. disk' \in [Files -> ContentsAt(now)]
  BY <1>0 DEF IInv, DiskOK, ContentsAt
<1>8. DiskOK'
  BY <1>0, <1>6, <1>7 DEF IInv, DiskOK, ContentsAt, Gone
<1> QED
  BY <1>4, <1>5, <1>8 DEF IInv

\* A step that changes one entry and keeps its key, its file and the books.
LEMMA ChangeKeeps ==
    ASSUME IInv, NEW e \in ents, NEW x \in EntriesAt(now), x.key = e.key, x.file = e.file,
           x.pub => e.pub, ents' = (ents \ {e}) \cup {x}, UNCHANGED <<bits, nodes, lost, now>>
    PROVE  Books(ents, bits, nodes, lost, now)'
<1>1. Books((ents \ {e}) \cup {x}, bits, nodes, lost, now)
  BY BooksChange DEF IInv
<1> QED
  BY <1>1 DEF Books, EntriesAt

\* A step that drops an entry with its number and its node.
LEMMA DropKeeps ==
    ASSUME IInv, NEW e \in ents, ents' = ents \ {e}, Unlinked({e.file}), UNCHANGED <<lost, now>>
    PROVE  Books(ents, bits, nodes, lost, now)' /\ unlinkd' \in Seq(Files)
<1>1. Books(ents \ {e}, bits \ {e.file}, {n \in nodes : n[2] # e.file}, lost, now)
  BY BooksDrop DEF IInv
<1>2. bits' = bits \ {e.file} /\ nodes' = {n \in nodes : n[2] # e.file}
  BY DEF Unlinked
<1>3. unlinkd' \in Seq(Files)
  BY EntryOK DEF Unlinked
<1> QED
  BY <1>1, <1>2, <1>3 DEF Books, EntriesAt

\* An entry in the index means that the process runs.
LEMMA EntryMeansRunning == ASSUME IInv, NEW e \in ents PROVE proc # "down"
BY DEF IInv, DiskOK

\* The file that is gone, when its last byte is said to be written.
LEMMA GoneWhole ==
    /\ \A v : [Gone EXCEPT !.whole = v] = [key |-> "none", ref |-> 0, whole |-> v]
    /\ [Gone EXCEPT !.whole = FALSE] = Gone
<1>1. \A v : [Gone EXCEPT !.whole = v] = [key |-> "none", ref |-> 0, whole |-> v]
  BY DEF Gone
<1>2. [Gone EXCEPT !.whole = FALSE] = Gone
  BY <1>1, Zenon DEF Gone
<1> QED
  BY <1>1, <1>2

\* storeSwapOutFileClosed
LEMMA SwapOutDoneKeeps ==
    ASSUME IInv, NEW e \in ents, SwapOutDone(e)
    PROVE  IInv'
<1> DEFINE x == [e EXCEPT !.st = "done"]
<1>0. /\ e.st = "writing" /\ UNCHANGED <<proc, todo, lost, now>>
      /\ disk' = [disk EXCEPT ![e.file].whole = disk[e.file].key = e.key]
      /\ \/ /\ e.pub /\ ents' = (ents \ {e}) \cup {x} /\ Logged(<<RecOf("ADD", e)>>)
            /\ UNCHANGED <<bits, nodes, unlinkd>>
         \/ /\ ents' = (ents \ {e}) \cup {x} /\ UNCHANGED <<bits, nodes, unlinkd, log, newlog>>
         \/ ents' = ents \ {e} /\ Unlinked({e.file}) /\ UNCHANGED <<log, newlog>>
  BY DEF SwapOutDone
<1>1. e \in EntriesAt(now) /\ x \in EntriesAt(now) /\ e.file \in Files /\ e.key \in Keys
  BY EntryOK
<1>2. x.key = e.key /\ x.file = e.file /\ (x.pub => e.pub)
  BY <1>1 DEF EntriesAt
<1>3. disk' \in [Files -> ContentsAt(now)]
  <2>1. disk \in [Files -> ContentsAt(now)] /\ now \in Nat
    BY DEF IInv, DiskOK
  <2> DEFINE d == disk[e.file]
             b == d.key = e.key
  <2>2. [d EXCEPT !.whole = b] \in ContentsAt(now)
    <3>1. b \in BOOLEAN /\ (b <=> d.key = e.key) /\ d \in ContentsAt(now)
      BY <1>1, <2>1
    <3> HIDE DEF b, d
    <3>2. CASE d \in [key : Keys, ref : 0..now, whole : BOOLEAN]
      <4>1. [d EXCEPT !.whole = b] \in [key : Keys, ref : 0..now, whole : BOOLEAN]
        BY <3>1, <3>2
      <4> QED BY <4>1 DEF ContentsAt
    <3>3. CASE d = Gone /\ ~b
      <4>1. b = FALSE
        BY <3>1, <3>3
      <4>2. [d EXCEPT !.whole = b] = Gone
        BY <3>3, <4>1, GoneWhole, Zenon
      <4> QED BY <4>2 DEF ContentsAt
    <3>4. CASE d = Gone /\ b
      <4>1. [d EXCEPT !.whole = b] = [key |-> "none", ref |-> 0, whole |-> b]
        BY <3>4, GoneWhole, Zenon
      <4>2. "none" \in Keys /\ 0 \in 0..now
        BY <3>1, <3>4, <1>1, <2>1 DEF Gone
      <4>3. [key |-> "none", ref |-> 0, whole |-> b] \in [key : Keys, ref : 0..now, whole : BOOLEAN]
        BY <3>1, <4>2
      <4> QED BY <4>1, <4>3 DEF ContentsAt
    <3> QED BY <3>1, <3>2, <3>3, <3>4 DEF ContentsAt
  <2> QED
    BY <1>0, <1>1, <2>1, <2>2
<1> HIDE DEF x
<1>4. Books(ents, bits, nodes, lost, now)' /\ unlinkd' \in Seq(Files)
  <2>1. CASE ents' = (ents \ {e}) \cup {x} /\ UNCHANGED <<bits, nodes, unlinkd>>
    <3>1. Books(ents, bits, nodes, lost, now)'
      BY <1>0, <1>1, <1>2, <2>1, ChangeKeeps
    <3>2. unlinkd' \in Seq(Files)
      BY <2>1 DEF IInv, DiskOK
    <3> QED BY <3>1, <3>2
  <2>2. CASE ents' = ents \ {e} /\ Unlinked({e.file})
    BY <1>0, <2>2, DropKeeps
  <2> QED
    BY <1>0, <2>1, <2>2
<1>5. LogsOK'
  <2>1. <<RecOf("ADD", e)>> \in Seq(RecordsAt(now))
    BY EntryOK
  <2>2. CASE Logged(<<RecOf("ADD", e)>>)
    BY <1>0, <2>1, <2>2, LoggedOK DEF IInv
  <2>3. CASE UNCHANGED <<log, newlog>>
    BY <1>0, <2>3, LogsKept DEF IInv
  <2> QED
    BY <1>0, <2>2, <2>3
<1>6. DiskOK'
  BY <1>0, <1>3, <1>4, EntryMeansRunning DEF IInv, DiskOK, ContentsAt, Gone
<1> QED
  BY <1>4, <1>5, <1>6 DEF IInv

\* storeSwapOutFileClosed with an error
LEMMA ErrorKeeps ==
    ASSUME IInv, NEW e \in ents, WriteError(e)
    PROVE  IInv'
<1>0. ents' = ents \ {e} /\ UNCHANGED <<proc, log, newlog, todo, disk, now>>
  BY DEF WriteError
<1>1. CASE e.file > 0 /\ Unlinked({e.file}) /\ UNCHANGED lost
  <2>1. Books(ents, bits, nodes, lost, now)' /\ unlinkd' \in Seq(Files)
    BY <1>0, <1>1, DropKeeps
  <2> QED
    BY <1>0, <2>1, LogsKept, DiskKept, EntryMeansRunning DEF IInv
<1>2. CASE e.file = 0 /\ lost' = lost \cup {0} /\ UNCHANGED <<bits, nodes, unlinkd>>
  <2>1. Books(ents \ {e}, bits, nodes, lost \cup {0}, now)
    BY <1>2, BooksOrphan DEF IInv
  <2>2. Books(ents, bits, nodes, lost, now)'
    BY <1>0, <1>2, <2>1 DEF Books, EntriesAt
  <2>3. unlinkd' \in Seq(Files)
    BY <1>2 DEF IInv, DiskOK
  <2> QED
    BY <1>0, <2>2, <2>3, LogsKept, DiskKept, EntryMeansRunning DEF IInv
<1> QED
  BY <1>1, <1>2 DEF WriteError

\* An entry that was hit at time t.
LEMMA HitEntry ==
    ASSUME NEW t \in Nat, NEW e \in EntriesAt(t)
    PROVE  LET x == [e EXCEPT !.held = TRUE, !.ref = t]
           IN  x \in EntriesAt(t) /\ x.key = e.key /\ x.file = e.file /\ (x.pub => e.pub)
<1> DEFINE x == [e EXCEPT !.held = TRUE, !.ref = t]
<1>1. t \in 0..t
  OBVIOUS
<1>2. x \in EntriesAt(t)
  BY <1>1 DEF EntriesAt
<1>3. x.key = e.key /\ x.file = e.file
  BY DEF EntriesAt
<1>4. x.pub = e.pub
  BY DEF EntriesAt
<1> QED
  BY <1>2, <1>3, <1>4

\* storeLockObject by a hit; the only step but a start in which time passes.
LEMMA HitKeeps ==
    ASSUME IInv, NEW e \in ents, Hit(e)
    PROVE  IInv'
<1> DEFINE x == [e EXCEPT !.held = TRUE, !.ref = now']
<1>0. /\ now' \in {now} \cup {now + 1} /\ ents' = (ents \ {e}) \cup {x}
      /\ UNCHANGED <<proc, bits, nodes, log, newlog, todo, disk, unlinkd, lost>>
  BY DEF Hit
<1>1. now \in Nat /\ now' \in Nat /\ now <= now'
  BY <1>0 DEF IInv, DiskOK
<1>2. Books(ents, bits, nodes, lost, now')
  BY <1>1, BooksLater DEF IInv
<1>3. e \in EntriesAt(now')
  BY <1>2 DEF Books
<1>4. x \in EntriesAt(now') /\ x.key = e.key /\ x.file = e.file /\ (x.pub => e.pub)
  BY <1>1, <1>3, HitEntry
<1>5. Books(ents, bits, nodes, lost, now)'
  <2> HIDE DEF x
  <2>1. Books((ents \ {e}) \cup {x}, bits, nodes, lost, now')
    BY <1>2, <1>4, BooksChange
  <2> QED
    BY <1>0, <2>1 DEF Books, EntriesAt
<1>6. LogsOK'
  <2>1. /\ log \in Seq(RecordsAt(now')) /\ newlog \in Seq(RecordsAt(now'))
        /\ todo \in Seq(RecordsAt(now'))
    BY <1>1, Later DEF IInv, LogsOK
  <2> QED BY <1>0, <2>1 DEF LogsOK, RecordsAt
<1>7. DiskOK'
  <2>1. disk \in [Files -> ContentsAt(now')]
    BY <1>1, Later DEF IInv, DiskOK
  <2> QED
    BY <1>0, <1>1, <2>1, EntryMeansRunning DEF IInv, DiskOK, ContentsAt, Gone
<1> QED
  BY <1>5, <1>6, <1>7 DEF IInv

\* storeUnlockObject and storeLateRelease
LEMMA UnlockKeeps ==
    ASSUME IInv, NEW e \in ents, Unlock(e) \/ LateRelease(e)
    PROVE  IInv'
<1> DEFINE x == [e EXCEPT !.held = FALSE]
<1>0. /\ UNCHANGED <<proc, log, newlog, todo, disk, lost, now>>
      /\ \/ ents' = (ents \ {e}) \cup {x} /\ UNCHANGED <<bits, nodes, unlinkd>>
         \/ ents' = ents \ {e} /\ Unlinked({e.file})
  BY DEF Unlock, LateRelease
<1>1. x \in EntriesAt(now) /\ e \in EntriesAt(now)
  BY EntryOK
<1>2. x.key = e.key /\ x.file = e.file /\ (x.pub => e.pub)
  BY <1>1 DEF EntriesAt
<1> HIDE DEF x
<1>3. CASE ents' = (ents \ {e}) \cup {x} /\ UNCHANGED <<bits, nodes, unlinkd>>
  <2>1. Books(ents, bits, nodes, lost, now)'
    BY <1>0, <1>1, <1>2, <1>3, ChangeKeeps
  <2>2. unlinkd' \in Seq(Files)
    BY <1>3 DEF IInv, DiskOK
  <2> QED
    BY <1>0, <2>1, <2>2, LogsKept, DiskKept, EntryMeansRunning DEF IInv
<1>4. CASE ents' = ents \ {e} /\ Unlinked({e.file})
  <2>1. Books(ents, bits, nodes, lost, now)' /\ unlinkd' \in Seq(Files)
    BY <1>0, <1>4, DropKeeps
  <2> QED
    BY <1>0, <2>1, LogsKept, DiskKept, EntryMeansRunning DEF IInv
<1> QED
  BY <1>0, <1>3, <1>4

\* storeUfsCreate that fails
LEMMA CreateFailsKeeps ==
    ASSUME IInv, NEW f \in Files, CreateFails(f)
    PROVE  IInv'
<1>0. /\ proc # "down" /\ f \notin bits /\ bits' = bits \cup {f} /\ lost' = lost \cup {f}
      /\ UNCHANGED <<proc, ents, nodes, log, newlog, todo, disk, unlinkd, now>>
  BY DEF CreateFails
<1>1. Books(ents, bits \cup {f}, nodes, lost \cup {f}, now)
  BY <1>0, BooksLose DEF IInv
<1>2. Books(ents, bits, nodes, lost, now)'
  BY <1>0, <1>1 DEF Books, EntriesAt
<1>3. unlinkd' \in Seq(Files)
  BY <1>0 DEF IInv, DiskOK
<1> QED
  BY <1>0, <1>2, <1>3, LogsKept, DiskKept DEF IInv

\* Books that nothing touches.
LEMMA BooksKept ==
    Books(ents, bits, nodes, lost, now) /\ UNCHANGED <<ents, bits, nodes, lost, now>>
        => Books(ents, bits, nodes, lost, now)'
BY DEF Books, EntriesAt

\* unlinkd and storeUfsDirClean remove a file.
LEMMA FileGoneKeeps ==
    ASSUME IInv, UnlinkdRuns \/ \E f \in Files : DirClean(f)
    PROVE  IInv'
<1>0. /\ UNCHANGED <<proc, ents, bits, nodes, log, newlog, todo, lost, now>>
      /\ \/ unlinkd # <<>> /\ unlinkd' = Tail(unlinkd)
         \/ UNCHANGED unlinkd
      /\ \E g : disk' = [disk EXCEPT ![g] = Gone]
  BY DEF UnlinkdRuns, DirClean
<1>1. unlinkd' \in Seq(Files)
  BY <1>0, HeadTailProperties DEF IInv, DiskOK
<1>2. disk' \in [Files -> ContentsAt(now)]
  BY <1>0 DEF IInv, DiskOK, ContentsAt
<1>3. DiskOK'
  BY <1>0, <1>1, <1>2 DEF IInv, DiskOK, ContentsAt, Gone
<1> QED
  BY <1>0, <1>3, BooksKept, LogsKept DEF IInv

\* The clean log is made of records.
LEMMA CleanLogType == IInv => CleanLog \in Seq(RecordsAt(now))
<1> DEFINE keep == {e \in ents : e.pub /\ e.st = "done"}
<1>1. keep \in SUBSET ents
  OBVIOUS
<1> HIDE DEF keep
<1>2. IInv => RecsOf("ADD", keep) \in Seq(RecordsAt(now))
  BY <1>1, EntsRecs
<1> QED
  BY <1>2 DEF CleanLog, keep

\* storeDirWriteCleanLogs at a rotation, and the end of a rebuild
LEMMA LogStepKeeps ==
    ASSUME IInv, Rotate \/ RebuildComplete
    PROVE  IInv'
<1>0. /\ UNCHANGED <<ents, bits, nodes, todo, disk, unlinkd, lost, now>>
      /\ proc # "down" /\ proc' = "up"
      /\ \/ log' = CleanLog /\ UNCHANGED newlog
         \/ log' = newlog /\ newlog' = <<>>
  BY DEF Rotate, RebuildComplete
<1>1. CleanLog \in Seq(RecordsAt(now)) /\ <<>> \in Seq(RecordsAt(now))
  BY CleanLogType
<1>2. LogsOK'
  <2>1. log' \in Seq(RecordsAt(now)) /\ newlog' \in Seq(RecordsAt(now))
        /\ todo' \in Seq(RecordsAt(now))
    BY <1>0, <1>1 DEF IInv, LogsOK
  <2> QED BY <1>0, <2>1 DEF LogsOK, RecordsAt
<1>3. DiskOK'
  BY <1>0 DEF IInv, DiskOK, ContentsAt, Gone
<1> QED
  BY <1>0, <1>2, <1>3, BooksKept DEF IInv

\* A crash or a shutdown
LEMMA DownKeeps ==
    ASSUME IInv, Crash \/ Shutdown
    PROVE  IInv'
<1>0. /\ proc' = "down" /\ ents' = {} /\ bits' = {} /\ nodes' = {} /\ newlog' = <<>>
      /\ todo' = <<>> /\ lost' = {} /\ UNCHANGED <<disk, unlinkd, now>>
      /\ log' = log \/ log' = CleanLog
  BY DEF Crash, Shutdown, Down
<1>1. LogsOK'
  <2>1. log' \in Seq(RecordsAt(now)) /\ <<>> \in Seq(RecordsAt(now))
    BY <1>0, CleanLogType DEF IInv, LogsOK
  <2> QED BY <1>0, <2>1 DEF LogsOK, RecordsAt
<1>2. DiskOK'
  BY <1>0 DEF IInv, DiskOK, ContentsAt, Gone
<1>3. Books(ents, bits, nodes, lost, now)'
  BY <1>0, BooksEmpty DEF Books, EntriesAt
<1> QED
  BY <1>1, <1>2, <1>3 DEF IInv

\* A file that is there is read as an object that is whole.
LEMMA ScannedType ==
    ASSUME IInv
    PROVE  RecsOf("FILE", {Entry(disk[f].key, f, disk[f].ref, disk[f].ref, "done") :
                              f \in {g \in Files : disk[g] # Gone}}) \in Seq(RecordsAt(now))
<1> DEFINE F == {g \in Files : disk[g] # Gone}
           E == {Entry(disk[f].key, f, disk[f].ref, disk[f].ref, "done") : f \in F}
<1>1. \A f \in F : disk[f] \in [key : Keys, ref : 0..now, whole : BOOLEAN]
  BY DEF IInv, DiskOK, ContentsAt
<1>2. \A f \in F : /\ Entry(disk[f].key, f, disk[f].ref, disk[f].ref, "done") \in EntriesAt(now)
                   /\ Entry(disk[f].key, f, disk[f].ref, disk[f].ref, "done").file = f
  BY <1>1 DEF Entry, EntriesAt
<1> HIDE DEF F
<1>3. E \subseteq EntriesAt(now) /\ \A e, x \in E : e.file = x.file => e = x
  BY <1>2
<1>4. \A e \in E : e.file \in Files
  BY <1>3 DEF EntriesAt
<1> HIDE DEF E
<1>5. IsFiniteSet(E)
  BY <1>3, <1>4, FilesFinite
<1>6. RecsOf("FILE", E) \in Seq(RecordsAt(now))
  BY <1>3, <1>5, RecsOfType
<1> QED
  BY <1>6 DEF E, F

\* storeUfsDirRebuild
LEMMA StartKeeps ==
    ASSUME IInv, NEW scan \in BOOLEAN, Start(scan)
    PROVE  IInv'
<1> DEFINE scanned == RecsOf("FILE", {Entry(disk[f].key, f, disk[f].ref, disk[f].ref, "done") :
                                        f \in {g \in Files : disk[g] # Gone}})
<1>0. /\ proc' = "rebuilding" /\ now' = now + 1 /\ (todo' = scanned \/ todo' = log)
      /\ UNCHANGED <<ents, bits, nodes, log, newlog, disk, unlinkd, lost>>
  BY DEF Start
<1>1. now \in Nat /\ now' \in Nat /\ now <= now'
  BY <1>0 DEF IInv, DiskOK
<1>2. Books(ents, bits, nodes, lost, now)'
  <2>1. Books(ents, bits, nodes, lost, now')
    BY <1>1, BooksLater DEF IInv
  <2> QED BY <1>0, <2>1 DEF Books, EntriesAt
<1>3. LogsOK'
  <2>1. scanned \in Seq(RecordsAt(now))
    BY ScannedType
  <2> HIDE DEF scanned
  <2>2. /\ log' \in Seq(RecordsAt(now')) /\ newlog' \in Seq(RecordsAt(now'))
        /\ todo' \in Seq(RecordsAt(now'))
    BY <1>0, <1>1, <2>1, Later DEF IInv, LogsOK
  <2> QED BY <2>2 DEF LogsOK, RecordsAt
<1>4. DiskOK'
  <2>1. disk \in [Files -> ContentsAt(now')]
    BY <1>1, Later DEF IInv, DiskOK
  <2> QED BY <1>0, <1>1, <2>1 DEF IInv, DiskOK, ContentsAt, Gone
<1> QED
  BY <1>2, <1>3, <1>4 DEF IInv

\* What a decision implies, for the entry of the record's key, if there is one.
LEMMA DecisionCases ==
    ASSUME NEW rec, NEW cur, NEW used \in BOOLEAN, rec.op \in {"ADD", "DEL"},
           NEW d, d = Decision(rec, cur, used)
    PROVE  \/ d = "skip"
           \/ d \in {"recycle", "update"} /\ cur # {}
           \/ d = "replace" /\ ~used /\ cur # {}
           \/ d = "load" /\ ~used /\ cur = {}
<1>1. CASE rec.op = "DEL"
  <2>1. d = IF cur # {} /\ \E e \in cur : rec.ref >= e.ref THEN "recycle" ELSE "skip"
    BY <1>1, Zenon DEF Decision
  <2> QED BY <2>1
<1>2. CASE rec.op = "ADD"
  <2> DEFINE newer == \E e \in cur : rec.ref > e.ref
             same == \E e \in cur : e.file = rec.file
  <2>1. d = CASE used /\ newer /\ same -> "update"
              [] used /\ ~(newer /\ same) -> "skip"
              [] ~used /\ cur # {} /\ ~newer -> "skip"
              [] ~used /\ cur # {} /\ newer -> "replace"
              [] ~used /\ cur = {} -> "load"
    BY <1>2 DEF Decision
  <2>2. newer => cur # {}
    OBVIOUS
  <2> HIDE DEF newer, same
  <2> QED BY <2>1, <2>2
<1> QED
  BY <1>1, <1>2

\* storeRecycle keeps the books and leaves no public entry of the key.
LEMMA RecycledBooks ==
    ASSUME IInv, NEW o \in ents, o.pub
    PROVE  LET free == Recycled({o})
               E == (ents \ {o}) \cup {[e EXCEPT !.pub = FALSE] : e \in {o} \ free}
           IN  /\ Books(E, bits \ {e.file : e \in free},
                        nodes \ {<<e.key, e.file>> : e \in free}, lost, now)
               /\ \A e \in E : e.pub => e \in ents \ {o}
<1> DEFINE free == Recycled({o})
           x == [o EXCEPT !.pub = FALSE]
<1>b. Books(ents, bits, nodes, lost, now)
  BY DEF IInv
<1>1. o \in EntriesAt(now)
  BY EntryOK
<1>2. x \in EntriesAt(now) /\ x.key = o.key /\ x.file = o.file /\ ~x.pub
  BY <1>1 DEF EntriesAt
<1>3. CASE Locked(o)
  <2>1. free = {} 
    BY <1>3 DEF Recycled
  <2>2. {[e EXCEPT !.pub = FALSE] : e \in {o} \ free} = {x}
    BY <2>1
  <2>3. bits \ {e.file : e \in free} = bits /\ nodes \ {<<e.key, e.file>> : e \in free} = nodes
    BY <2>1
  <2> HIDE DEF x, free
  <2>4. Books((ents \ {o}) \cup {x}, bits, nodes, lost, now)
    BY <1>b, <1>2, BooksChange
  <2>5. \A e \in (ents \ {o}) \cup {x} : e.pub => e \in ents \ {o}
    BY <1>2
  <2> QED
    BY <2>2, <2>3, <2>4, <2>5 DEF free
<1>4. CASE ~Locked(o)
  <2>1. free = {o}
    BY <1>4 DEF Recycled
  <2>2. (ents \ {o}) \cup {[e EXCEPT !.pub = FALSE] : e \in {o} \ free} = ents \ {o}
    BY <2>1
  <2>3. /\ bits \ {e.file : e \in free} = bits \ {o.file}
        /\ nodes \ {<<e.key, e.file>> : e \in free} = nodes \ {<<o.key, o.file>>}
    BY <2>1
  <2> HIDE DEF free
  <2>4. Books(ents \ {o}, bits \ {o.file}, nodes \ {<<o.key, o.file>>}, lost, now)
    BY <1>b, BooksDropNode
  <2> QED
    BY <2>2, <2>3, <2>4 DEF free
<1> QED
  BY <1>3, <1>4

\* storeUfsDirRebuildFromSwapLog
LEMMA RebuildRecordKeeps ==
    ASSUME IInv, RebuildRecord
    PROVE  IInv'
<1> DEFINE rec == Head(todo)
           cur == Public(rec.key)
           d == Decision(rec, cur, rec.file \in bits)
           load == d \in {"load", "replace"}
           out == IF d \in {"recycle", "replace"} THEN cur ELSE {}
           free == Recycled(out)
           x == Entry(rec.key, rec.file, rec.ref, rec.ts, "done")
           new == IF load THEN {x}
                  ELSE IF d = "update" THEN {[e EXCEPT !.ref = rec.ts, !.ts = rec.ts] : e \in cur}
                  ELSE cur \ out
           E == (ents \ cur) \cup {[e EXCEPT !.pub = FALSE] : e \in out \ free}
           B == bits \ {e.file : e \in free}
           N == nodes \ {<<e.key, e.file>> : e \in free}
<1>0. /\ proc = "rebuilding" /\ todo # <<>> /\ rec.op # "FILE" /\ todo' = Tail(todo)
      /\ ents' = E \cup new /\ bits' = B \cup {e.file : e \in new}
      /\ nodes' = N \cup {<<e.key, e.file>> : e \in new}
      /\ newlog' = newlog \o RecsOf("DEL", out) \o (IF load THEN <<rec>> ELSE <<>>)
      /\ UNCHANGED <<proc, log, disk, unlinkd, lost, now>>
  BY DEF RebuildRecord
<1>b. Books(ents, bits, nodes, lost, now)
  BY DEF IInv
<1>1. rec \in RecordsAt(now) /\ Tail(todo) \in Seq(RecordsAt(now))
  BY <1>0, HeadTailProperties DEF IInv, LogsOK
<1>2. x \in EntriesAt(now) /\ x.key = rec.key /\ x.file = rec.file
  BY <1>1 DEF RecordsAt, EntriesAt, Entry
<1>3. \/ d = "skip"
      \/ d \in {"recycle", "update"} /\ cur # {}
      \/ d = "replace" /\ rec.file \notin bits /\ cur # {}
      \/ d = "load" /\ rec.file \notin bits /\ cur = {}
  <2>1. rec.op \in {"ADD", "DEL"}
    BY <1>0, <1>1 DEF RecordsAt
  <2> HIDE DEF rec, cur
  <2>2. (rec.file \in bits) \in BOOLEAN
    OBVIOUS
  <2> QED BY ZenonT(60), <2>1, <2>2, DecisionCases
<1>4. /\ cur \subseteq ents /\ \A e \in ents \ cur : e.pub => e.key # rec.key
      /\ cur = {} \/ \E o \in ents : o.pub /\ o.key = rec.key /\ cur = {o}
  BY PublicOne DEF Public
<1>5. LogsOK'
  <2>1. RecsOf("DEL", out) \in Seq(RecordsAt(now))
    <3>1. out \in SUBSET ents
      BY <1>4
    <3> QED BY <3>1, EntsRecs
  <2>2. (IF load THEN <<rec>> ELSE <<>>) \in Seq(RecordsAt(now))
    <3> HIDE DEF rec, load
    <3> QED BY <1>1
  <2> HIDE DEF out, load
  <2>3. newlog' \in Seq(RecordsAt(now))
    BY <1>0, <2>1, <2>2, ConcatProperties DEF IInv, LogsOK
  <2> QED
    BY <1>0, <1>1, <2>3 DEF IInv, LogsOK, RecordsAt
<1>6. DiskOK'
  BY <1>0 DEF IInv, DiskOK, ContentsAt, Gone
<1>7. Books(E \cup new, B \cup {e.file : e \in new}, N \cup {<<e.key, e.file>> : e \in new},
            lost, now)
  <2> DEFINE Goal == Books(E \cup new, B \cup {e.file : e \in new},
                           N \cup {<<e.key, e.file>> : e \in new}, lost, now)
  <2>1. ASSUME d = "skip" PROVE Goal
    <3>1. out = {} /\ new = cur
      BY <2>1
    <3>2. free = {}
      BY <3>1 DEF Recycled
    <3> HIDE DEF out, new, cur, free
    <3>3. E \cup new = ents
      BY <3>1, <3>2, <1>4
    <3>4. B \cup {e.file : e \in new} = bits /\ N \cup {<<e.key, e.file>> : e \in new} = nodes
      BY <3>1, <3>2, <1>4, <1>b DEF Books
    <3> QED BY <3>3, <3>4, <1>b
  <2>2. ASSUME d \in {"recycle", "replace"}, cur # {}
        PROVE  Books(E, B, N, lost, now) /\ \A e \in E : e.pub => e.key # rec.key
    <3>1. PICK o \in ents : o.pub /\ o.key = rec.key /\ cur = {o}
      BY <2>2, <1>4
    <3>2. out = {o} /\ free = Recycled({o})
      BY <2>2, <3>1
    <3> HIDE DEF out, free, cur
    <3>3. /\ Books((ents \ {o}) \cup {[e EXCEPT !.pub = FALSE] : e \in {o} \ Recycled({o})},
                   bits \ {e.file : e \in Recycled({o})},
                   nodes \ {<<e.key, e.file>> : e \in Recycled({o})}, lost, now)
          /\ \A e \in (ents \ {o}) \cup {[e EXCEPT !.pub = FALSE] : e \in {o} \ Recycled({o})} :
                e.pub => e \in ents \ {o}
      BY <3>1, RecycledBooks
    <3> QED
      BY <3>1, <3>2, <3>3, <1>4
  <2>3. ASSUME d = "recycle", cur # {} PROVE Goal
    <3>1. new = {}
      BY <2>3
    <3>2. Books(E, B, N, lost, now)
      BY <2>2, <2>3
    <3> HIDE DEF new, E, B, N
    <3>3. E \cup new = E /\ B \cup {e.file : e \in new} = B
          /\ N \cup {<<e.key, e.file>> : e \in new} = N
      BY <3>1
    <3> QED BY <3>2, <3>3
  <2>4. ASSUME load, rec.file \notin bits, Books(E, B, N, lost, now),
               \A e \in E : e.pub => e.key # rec.key
        PROVE  Goal
    <3>1. new = {x} /\ x.file \notin B
      BY <2>4, <1>2
    <3> HIDE DEF new, E, B, N, x
    <3>2. Books(E \cup {x}, B \cup {x.file}, N \cup {<<x.key, x.file>>}, lost, now)
      BY <2>4, <3>1, <1>2, BooksAdd
    <3>3. {e.file : e \in new} = {x.file} /\ {<<e.key, e.file>> : e \in new} = {<<x.key, x.file>>}
      BY <3>1
    <3> QED BY <3>1, <3>2, <3>3
  <2>5. ASSUME d = "load", rec.file \notin bits, cur = {} PROVE Goal
    <3>1. out = {} /\ load
      BY <2>5
    <3>2. free = {}
      BY <3>1 DEF Recycled
    <3>3. E = ents /\ B = bits /\ N = nodes
      <4> HIDE DEF out, free, cur
      <4> QED BY <3>1, <3>2, <2>5
    <3> HIDE DEF E, B, N, cur, Goal, load
    <3>4. \A e \in E : e.pub => e.key # rec.key
      BY <3>3, <1>4, <2>5
    <3> QED BY <3>1, <3>3, <3>4, <2>5, <2>4, <1>b
  <2>6. ASSUME d = "replace", rec.file \notin bits, cur # {} PROVE Goal
    <3>1. load
      BY <2>6
    <3>2. Books(E, B, N, lost, now) /\ \A e \in E : e.pub => e.key # rec.key
      BY <2>6, <2>2
    <3> HIDE DEF E, B, N, Goal, load
    <3> QED BY <3>1, <3>2, <2>6, <2>4
  <2>7. ASSUME d = "update", cur # {} PROVE Goal
    <3>1. PICK o \in ents : o.pub /\ o.key = rec.key /\ cur = {o}
      BY <2>7, <1>4
    <3> DEFINE y == [o EXCEPT !.ref = rec.ts, !.ts = rec.ts]
    <3>2. out = {} /\ new = {y}
      BY <2>7, <3>1
    <3>3. free = {}
      BY <3>2 DEF Recycled
    <3>4. y \in EntriesAt(now) /\ y.key = o.key /\ y.file = o.file /\ (y.pub => o.pub)
      <4>1. o \in EntriesAt(now) /\ rec.ts \in 0..now
        BY EntryOK, <1>1 DEF RecordsAt
      <4>2. y \in EntriesAt(now)
        BY <4>1 DEF EntriesAt
      <4>3. y.key = o.key /\ y.file = o.file
        BY <4>1 DEF EntriesAt
      <4>4. y.pub = o.pub
        BY <4>1 DEF EntriesAt
      <4> QED BY <4>2, <4>3, <4>4
    <3> HIDE DEF out, new, cur, free, y
    <3>5. Books((ents \ {o}) \cup {y}, bits, nodes, lost, now)
      BY <3>4, <1>b, BooksChange
    <3>6. E \cup new = (ents \ {o}) \cup {y} /\ B = bits /\ N = nodes
      BY <3>1, <3>2, <3>3
    <3>7. {e.file : e \in new} = {o.file} /\ {<<e.key, e.file>> : e \in new} = {<<o.key, o.file>>}
      BY <3>2, <3>4
    <3>8. o.file \in bits /\ <<o.key, o.file>> \in nodes
      BY <1>b DEF Books
    <3>9. bits \cup {o.file} = bits /\ nodes \cup {<<o.key, o.file>>} = nodes
      BY <3>8
    <3> QED BY <3>5, <3>6, <3>7, <3>9
  <2> HIDE DEF Goal
  <2>8. Goal
    BY <1>3, <2>1, <2>3, <2>5, <2>6, <2>7
  <2> QED BY <2>8 DEF Goal
<1>8. Books(ents, bits, nodes, lost, now)'
  <2> HIDE DEF E, B, N, new
  <2> QED BY <1>0, <1>7 DEF Books, EntriesAt
<1> QED
  BY <1>5, <1>6, <1>8 DEF IInv

\* storeUfsDirRebuildFromDirectory
LEMMA RebuildFileKeeps ==
    ASSUME IInv, RebuildFile
    PROVE  IInv'
<1> DEFINE rec == Head(todo)
           cur == Public(rec.key)
           x == Entry(rec.key, rec.file, rec.ref, rec.ts, "done")
           E == ReleasedAll(cur)
<1>0. /\ proc = "rebuilding" /\ todo # <<>> /\ todo' = Tail(todo)
      /\ \/ UNCHANGED <<ents, bits, nodes, newlog>>
         \/ /\ rec.file \notin bits /\ ents' = E \cup {x} /\ bits' = bits \cup {rec.file}
            /\ nodes' = nodes \cup {<<rec.key, rec.file>>}
            /\ newlog' = newlog \o RecsOf("DEL", cur) \o <<[rec EXCEPT !.op = "ADD"]>>
      /\ UNCHANGED <<proc, log, disk, unlinkd, lost, now>>
  BY DEF RebuildFile
<1>1. rec \in RecordsAt(now) /\ Tail(todo) \in Seq(RecordsAt(now))
  BY <1>0, HeadTailProperties DEF IInv, LogsOK
<1>2. DiskOK'
  BY <1>0 DEF IInv, DiskOK, ContentsAt, Gone
<1>3. CASE UNCHANGED <<ents, bits, nodes, newlog>>
  <2>1. LogsOK'
    BY <1>0, <1>1, <1>3 DEF IInv, LogsOK, RecordsAt
  <2> QED
    BY <1>0, <1>2, <1>3, <2>1, BooksKept DEF IInv
<1>4. CASE /\ rec.file \notin bits /\ ents' = E \cup {x} /\ bits' = bits \cup {rec.file}
           /\ nodes' = nodes \cup {<<rec.key, rec.file>>}
           /\ newlog' = newlog \o RecsOf("DEL", cur) \o <<[rec EXCEPT !.op = "ADD"]>>
  <2>1. /\ cur \subseteq ents /\ \A e \in ents \ cur : e.pub => e.key # rec.key
        /\ cur = {} \/ \E o \in ents : o.pub /\ cur = {o}
    BY PublicOne DEF Public
  <2>2. x \in EntriesAt(now) /\ x.key = rec.key /\ x.file = rec.file
        /\ [rec EXCEPT !.op = "ADD"] \in RecordsAt(now)
    BY <1>1 DEF RecordsAt, EntriesAt, Entry
  <2>3. LogsOK'
    <3>1. RecsOf("DEL", cur) \in Seq(RecordsAt(now))
      BY <2>1, EntsRecs
    <3> DEFINE r == [rec EXCEPT !.op = "ADD"]
    <3>2. <<r>> \in Seq(RecordsAt(now))
      <4> HIDE DEF r
      <4> QED BY <2>2 DEF r
    <3> HIDE DEF cur, r
    <3>3. newlog' \in Seq(RecordsAt(now))
      BY <1>4, <3>1, <3>2, ConcatProperties DEF IInv, LogsOK, r
    <3> QED
      BY <1>0, <1>1, <3>3 DEF IInv, LogsOK, RecordsAt
  <2>4. FreedBy(cur) = {}
    BY <1>0 DEF FreedBy
  <2>5. Books(E, bits, nodes, lost, now) /\ \A e \in E : e.pub => e \in ents \ cur
    <3> HIDE DEF cur
    <3>1. /\ Books(E, bits \ FreedBy(cur), {n \in nodes : n[2] \notin FreedBy(cur)}, lost, now)
          /\ \A e \in E : e.pub => e \in ents \ cur
      BY <1>0, <2>1, ReleasedBooks
    <3>2. bits \ FreedBy(cur) = bits /\ {n \in nodes : n[2] \notin FreedBy(cur)} = nodes
      BY <2>4
    <3> QED BY <3>1, <3>2
  <2> HIDE DEF cur, E, x
  <2>6. Books(E \cup {x}, bits \cup {x.file}, nodes \cup {<<x.key, x.file>>}, lost, now)
    BY <1>4, <2>1, <2>2, <2>5, BooksAdd
  <2>7. Books(ents, bits, nodes, lost, now)'
    BY <1>0, <1>4, <2>2, <2>6 DEF Books, EntriesAt
  <2> QED
    BY <1>2, <2>3, <2>7 DEF IInv
<1> QED
  BY <1>0, <1>3, <1>4
-----------------------------------------------------------------------------
(***************************************************************************)
(* The theorems.                                                           *)
(***************************************************************************)

\* Every action of the cache_dir keeps the invariant.
LEMMA NextIInv == IInv /\ [Next]_vars => IInv'
<1> SUFFICES ASSUME IInv, [Next]_vars PROVE IInv'
  OBVIOUS
<1>1. CASE UNCHANGED vars
  BY <1>1, BooksKept DEF vars, IInv, DiskOK, LogsOK, RecordsAt, ContentsAt, Gone
<1>2. CASE \E k \in Keys, f \in Files : Create(k, f)
  BY <1>2, CreateKeeps
<1>3. CASE \E f \in Files : CreateFails(f)
  BY <1>3, CreateFailsKeeps
<1>4. CASE UnlinkdRuns \/ \E f \in Files : DirClean(f)
  BY <1>4, FileGoneKeeps
<1>5. CASE \E e \in ents : Release(e) \/ SwapOutDone(e) \/ WriteError(e)
  BY <1>5, ReleaseKeeps, SwapOutDoneKeeps, ErrorKeeps
<1>6. CASE \E e \in ents : Hit(e) \/ Unlock(e) \/ LateRelease(e)
  BY <1>6, HitKeeps, UnlockKeeps
<1>7. CASE Rotate \/ RebuildComplete
  BY <1>7, LogStepKeeps
<1>8. CASE Crash \/ Shutdown
  BY <1>8, DownKeeps
<1>9. CASE \E scan \in BOOLEAN : Start(scan)
  BY <1>9, StartKeeps
<1>10. CASE RebuildRecord \/ RebuildFile
  BY <1>10, RebuildRecordKeeps, RebuildFileKeeps
<1> QED
  BY <1>1, <1>2, <1>3, <1>4, <1>5, <1>6, <1>7, <1>8, <1>9, <1>10 DEF Next

\* The index, the map of file numbers, the removal policy, the swap logs and
\* the files keep their inductive invariant in every run of the cache_dir.
THEOREM CacheDirInvariant == Spec => []IInv
<1>1. Init => IInv
  BY InitIInv
<1>2. IInv /\ [Next]_vars => IInv'
  BY NextIInv
<1> QED
  BY <1>1, <1>2, PTL DEF Spec

\* No entry is newer than the clock, a process that is down has neither entries
\* nor bits, and a key is public once (storeHashInsert), whatever is loaded.
THEOREM CacheDirTypes == Spec => []TypeOK
BY CacheDirInvariant, IInvMeans, PTL

\* A file number has one entry, and the map (storeUfsDirMapBitSet/Reset) and the
\* removal policy say the same as the index; what is marked and held by nobody
\* was lost to a failed create or is number 0 after a write error.
THEOREM NumbersStayAccounted == Spec => []NumbersAccounted
BY CacheDirInvariant, IInvMeans, PTL
-----------------------------------------------------------------------------
(***************************************************************************)
(* The swap log against the index.                                         *)
(***************************************************************************)

\* The objects that are on disk and can be found.
Stored(E) == {e \in E : e.pub /\ e.st = "done"}

\* A record or an entry r of the same object as e, and no newer.
Matches(r, e) == r.key = e.key /\ r.file = e.file /\ r.ref \in 0..e.ref

\* Record j deletes an entry of key k that was last used at time t.
Deletes(rec, k, t) == rec.op = "DEL" /\ rec.key = k /\ rec.ref >= t

Undone(l, i) == \E j \in DOMAIN l : j > i /\ Deletes(l[j], l[i].key, l[i].ref)

\* Before a key is added again it has been deleted.
Ordered(l) ==
    \A i, m \in DOMAIN l :
        i < m /\ l[i].op # "DEL" /\ l[m].op = "ADD" /\ l[i].key = l[m].key =>
            \E j \in DOMAIN l : i < j /\ j < m /\ Deletes(l[j], l[i].key, l[i].ref)

Plain(l) == \A i \in DOMAIN l : l[i].op # "FILE"

\* A log says of an index what is stored: every record that was not undone is of
\* an object stored, and what a rebuild makes of the log is what is stored.
Worth(l, E) ==
    /\ Ordered(l) /\ Plain(l)
    /\ \A i \in DOMAIN l : l[i].op # "DEL" => Undone(l, i) \/ \E e \in Stored(E) : Matches(l[i], e)
    /\ \A r \in Replay(l) : \E e \in Stored(E) : Matches(r, e)
    /\ \A e \in Stored(E) : \E r \in Replay(l) : Matches(r, e)

\* No record still to be read is newer than the entry of its key, unless that
\* entry is deleted first.
Ahead(l, E) ==
    \A i \in DOMAIN l, e \in E :
        l[i].op = "ADD" /\ e.pub /\ e.key = l[i].key =>
            e.ref >= l[i].ref \/ \E j \in DOMAIN l : j < i /\ Deletes(l[j], e.key, e.ref)

\* The log that is open for appending.
OpenLog == IF proc = "rebuilding" THEN newlog ELSE log

LogInv ==
    /\ Ordered(log) /\ Plain(log) /\ Ordered(todo)
    /\ proc # "down" => Worth(OpenLog, ents)
    /\ proc = "rebuilding" => Ahead(todo, ents)
    /\ proc # "rebuilding" => newlog = <<>>
-----------------------------------------------------------------------------
(***************************************************************************)
(* The replay of a log is a recursive function; that there is one, and     *)
(* what it makes of a longer log, is shown by the least record for which   *)
(* it fails.                                                               *)
(***************************************************************************)

\* What holds at 0 and goes on holding, holds for every number.
LEMMA NoLeast ==
    ASSUME NEW T, T \subseteq Nat, T # {}
    PROVE  \E n \in T : n = 0 \/ (n - 1 \in Nat /\ n - 1 \notin T)
<1> DEFINE R == OpToRel(<, Nat)
<1>0. IsWellFoundedOn(R, Nat)
  BY NatLessThanWellFounded
<1>1. \A x, y \in Nat : <<y, x>> \in R <=> y < x
  BY DEF OpToRel
<1> HIDE DEF R
<1>p. PICK n \in T : \A y \in T : ~(<<y, n>> \in R)
  BY <1>0, WFMin
<1>q. \A y \in T : y \in Nat /\ n \in Nat /\ ~(y < n)
  BY <1>1, <1>p
<1>2. n \in T /\ n \in Nat /\ \A y \in T : y \in Nat /\ n <= y
  BY <1>q
<1>3. CASE n # 0
  <2>1. n - 1 \in Nat /\ ~(n <= n - 1)
    BY <1>2, <1>3
  <2> QED BY <1>2, <2>1
<1> QED BY <1>2, <1>3

\* f[n] is the index after n records.
Replays(f, l, n) ==
    f = [i \in 0..n |-> IF i = 0 THEN {} ELSE ReplayRecord(f[i - 1], l[i])]

LEMMA ReplaysParts ==
    ASSUME NEW f, NEW l, NEW n \in Nat, Replays(f, l, n)
    PROVE  DOMAIN f = 0..n /\ f[0] = {} /\ \A i \in 1..n : f[i] = ReplayRecord(f[i - 1], l[i])
<1> DEFINE h == [i \in 0..n |-> IF i = 0 THEN {} ELSE ReplayRecord(f[i - 1], l[i])]
<1>1. f = h
  BY DEF Replays
<1>2. DOMAIN h = 0..n /\ h[0] = {} /\ \A i \in 1..n : h[i] = ReplayRecord(f[i - 1], l[i])
  OBVIOUS
<1> HIDE DEF h
<1> QED BY <1>1, <1>2

\* One record more.
LEMMA OneMoreRecord ==
    ASSUME NEW l, NEW n \in Nat, NEW f, Replays(f, l, n)
    PROVE  \E g : Replays(g, l, n + 1)
<1> DEFINE g == [i \in 0..(n + 1) |-> IF i = n + 1 THEN ReplayRecord(f[n], l[n + 1]) ELSE f[i]]
<1>1. DOMAIN f = 0..n /\ f[0] = {} /\ \A i \in 1..n : f[i] = ReplayRecord(f[i - 1], l[i])
  BY ReplaysParts
<1>2. /\ DOMAIN g = 0..(n + 1) /\ g[0] = {}
      /\ \A i \in 1..n : g[i] = ReplayRecord(g[i - 1], l[i])
      /\ g[n + 1] = ReplayRecord(g[n], l[n + 1])
  BY <1>1
<1>3. g = [i \in 0..(n + 1) |-> g[i]]
  OBVIOUS
<1> HIDE DEF g
<1>4. ASSUME NEW i \in 0..(n + 1)
      PROVE  g[i] = IF i = 0 THEN {} ELSE ReplayRecord(g[i - 1], l[i])
  <2>1. i = 0 \/ i \in 1..n \/ i = n + 1
    OBVIOUS
  <2>2. n + 1 - 1 = n
    OBVIOUS
  <2> QED BY <1>2, <2>1, <2>2
<1>5. Replays(g, l, n + 1)
  BY <1>3, <1>4 DEF Replays
<1> QED BY <1>5

LEMMA ReplaysExist ==
    ASSUME NEW l
    PROVE  \A n \in Nat : \E f : Replays(f, l, n)
<1> DEFINE T == {n \in Nat : ~\E f : Replays(f, l, n)}
<1> SUFFICES ASSUME T # {} PROVE FALSE
  OBVIOUS
<1>1. T \subseteq Nat
  OBVIOUS
<1>2. PICK n \in T : n = 0 \/ (n - 1 \in Nat /\ n - 1 \notin T)
  <2> HIDE DEF T
  <2> QED BY <1>1, NoLeast
<1>3. CASE n = 0
  <2> DEFINE f == [i \in 0..0 |-> {}]
  <2>1. f = [i \in 0..0 |-> IF i = 0 THEN {} ELSE ReplayRecord(f[i - 1], l[i])]
    OBVIOUS
  <2>2. Replays(f, l, 0)
    BY <2>1 DEF Replays
  <2> HIDE DEF f
  <2> QED BY <1>3, <2>2
<1>4. CASE n # 0
  <2>1. n - 1 \in Nat /\ \E f : Replays(f, l, n - 1)
    BY <1>2, <1>4
  <2>2. PICK f : Replays(f, l, n - 1)
    BY <2>1
  <2>3. \E g : Replays(g, l, n - 1 + 1)
    BY <2>1, <2>2, OneMoreRecord
  <2>4. n - 1 + 1 = n
    BY <1>1
  <2> QED BY <2>3, <2>4
<1> QED BY <1>3, <1>4

LEMMA ReplayRounds ==
    ASSUME NEW l, Len(l) \in Nat
    PROVE  \E f : Replays(f, l, Len(l)) /\ Replay(l) = f[Len(l)]
<1>1. \E f : Replays(f, l, Len(l))
  BY ReplaysExist
<1> QED BY <1>1, Zenon DEF Replay, Replays

\* The rounds of two logs that begin alike are alike.
LEMMA ReplaysAlike ==
    ASSUME NEW l, NEW m, NEW n \in Nat, NEW f, NEW g, Replays(f, l, n),
           NEW p \in Nat, Replays(g, m, p), n <= p, \A i \in 1..n : m[i] = l[i]
    PROVE  \A i \in 0..n : g[i] = f[i]
<1> DEFINE T == {i \in 0..n : g[i] # f[i]}
<1> SUFFICES ASSUME T # {} PROVE FALSE
  OBVIOUS
<1>1. T \subseteq Nat
  OBVIOUS
<1>2. PICK i \in T : i = 0 \/ (i - 1 \in Nat /\ i - 1 \notin T)
  <2> HIDE DEF T
  <2> QED BY <1>1, NoLeast
<1>3. /\ f[0] = {} /\ \A j \in 1..n : f[j] = ReplayRecord(f[j - 1], l[j])
      /\ g[0] = {} /\ \A j \in 1..p : g[j] = ReplayRecord(g[j - 1], m[j])
  BY ReplaysParts
<1>4. i \in 0..n /\ g[i] # f[i]
  BY <1>2
<1>5. i # 0
  BY <1>3, <1>4
<1>6. i - 1 \in 0..n /\ i \in 1..n /\ i \in 1..p
  BY <1>4, <1>5
<1>7. g[i - 1] = f[i - 1]
  BY <1>2, <1>5, <1>6
<1> QED BY <1>3, <1>4, <1>6, <1>7

\* A log of no records.
LEMMA ReplayEmpty == Replay(<<>>) = {}
<1> DEFINE l == <<>>
<1>1. Len(l) = 0
  OBVIOUS
<1> HIDE DEF l
<1>2. PICK f : Replays(f, l, 0) /\ Replay(l) = f[0]
  BY <1>1, ReplayRounds
<1>3. f[0] = {}
  BY <1>2, ReplaysParts
<1> QED BY <1>2, <1>3 DEF l

\* A log with one record more.
LEMMA ReplayAppend ==
    ASSUME NEW S, NEW l \in Seq(S), NEW r \in S
    PROVE  Replay(l \o <<r>>) = ReplayRecord(Replay(l), r)
<1> DEFINE m == l \o <<r>>
           n == Len(l)
<1>1. /\ n \in Nat /\ Len(m) = n + 1 /\ m[n + 1] = r /\ \A i \in 1..n : m[i] = l[i]
  OBVIOUS
<1> HIDE DEF m, n
<1>2. PICK f : Replays(f, l, n) /\ Replay(l) = f[n]
  BY <1>1, ReplayRounds DEF n
<1>3. PICK g : Replays(g, m, n + 1) /\ Replay(m) = g[n + 1]
  BY <1>1, ReplayRounds
<1>4. \A i \in 0..n : g[i] = f[i]
  BY <1>1, <1>2, <1>3, ReplaysAlike
<1>5. g[n] = f[n]
  BY <1>1, <1>4
<1>6. \A i \in 1..(n + 1) : g[i] = ReplayRecord(g[i - 1], m[i])
  BY <1>1, <1>3, ReplaysParts
<1>7. g[n + 1] = ReplayRecord(g[n], m[n + 1])
  <2> DEFINE k == n + 1
  <2>1. k \in 1..k /\ k - 1 = n /\ \A i \in 1..k : g[i] = ReplayRecord(g[i - 1], m[i])
    BY <1>1, <1>6
  <2> HIDE DEF k
  <2>2. g[k] = ReplayRecord(g[n], m[k])
    BY <2>1
  <2> QED BY <2>2 DEF k
<1> QED BY <1>1, <1>2, <1>3, <1>5, <1>7 DEF m
-----------------------------------------------------------------------------
(***************************************************************************)
(* What one record more makes of a log.                                    *)
(***************************************************************************)

\* storeUfsDirRebuildFromSwapLog, a deletion that is not too old
LEMMA ReplayDel ==
    ASSUME NEW R, NEW rec, rec.op = "DEL", \A x \in R : x.key = rec.key => rec.ref >= x.ref
    PROVE  ReplayRecord(R, rec) = {x \in R : x.key # rec.key}
<1> DEFINE cur == {e \in R : e.key = rec.key}
           used == \E e \in R : e.file = rec.file
           d == Decision(rec, cur, used)
<1>1. d = IF cur # {} /\ \E e \in cur : rec.ref >= e.ref THEN "recycle" ELSE "skip"
  BY Zenon DEF Decision
<1>2. ReplayRecord(R, rec) =
         CASE d = "skip" -> R
           [] d = "update" -> (R \ cur) \cup {[e EXCEPT !.ref = rec.ts, !.ts = rec.ts] : e \in cur}
           [] d = "recycle" -> R \ cur
           [] OTHER -> (R \ cur) \cup {Entry(rec.key, rec.file, rec.ref, rec.ts, "done")}
  BY Zenon DEF ReplayRecord
<1>3. R \ cur = {x \in R : x.key # rec.key} /\ (cur = {} => R = R \ cur)
  OBVIOUS
<1>4. cur # {} => \E e \in cur : rec.ref >= e.ref
  OBVIOUS
<1> HIDE DEF cur, d, used
<1>5. CASE cur = {}
  BY <1>1, <1>2, <1>3, <1>5
<1>6. CASE cur # {}
  BY <1>1, <1>2, <1>3, <1>4, <1>6
<1> QED BY <1>5, <1>6

\* storeUfsDirRebuildFromSwapLog, an object whose key and file are both new
LEMMA ReplayAdd ==
    ASSUME NEW R, NEW rec, rec.op = "ADD",
           \A x \in R : x.key # rec.key /\ x.file # rec.file
    PROVE  ReplayRecord(R, rec) = R \cup {Entry(rec.key, rec.file, rec.ref, rec.ts, "done")}
<1> DEFINE cur == {e \in R : e.key = rec.key}
           used == \E e \in R : e.file = rec.file
           d == Decision(rec, cur, used)
           x == Entry(rec.key, rec.file, rec.ref, rec.ts, "done")
<1>1. cur = {} /\ used = FALSE /\ R \ cur = R
  OBVIOUS
<1>2. ReplayRecord(R, rec) =
         CASE d = "skip" -> R
           [] d = "update" -> (R \ cur) \cup {[e EXCEPT !.ref = rec.ts, !.ts = rec.ts] : e \in cur}
           [] d = "recycle" -> R \ cur
           [] OTHER -> (R \ cur) \cup {x}
  BY Zenon DEF ReplayRecord
<1>3. d = "load"
  <2>1. Decision(rec, {}, FALSE) = "load"
    BY DEF Decision
  <2> HIDE DEF cur, used
  <2> QED BY <1>1, <2>1
<1> HIDE DEF cur, d, used, x
<1>4. ReplayRecord(R, rec) = R \cup {x}
  BY <1>1, <1>2, <1>3
<1> QED BY <1>4 DEF x

\* The indices of a longer log.
LEMMA OneMoreIndex ==
    ASSUME NEW S, NEW l \in Seq(S), NEW r \in S, NEW m, m = l \o <<r>>
    PROVE  /\ m \in Seq(S) /\ Len(l) \in Nat /\ DOMAIN l = 1..Len(l) /\ DOMAIN m = 1..(Len(l) + 1)
           /\ m[Len(l) + 1] = r
           /\ \A i \in DOMAIN l : i \in DOMAIN m /\ m[i] = l[i]
OBVIOUS

\* The log's worth is a matter of what is stored.
LEMMA WorthSame ==
    ASSUME NEW l, NEW E, NEW F, Worth(l, E),
           \A e \in Stored(E) : \E x \in Stored(F) : Matches(e, x),
           \A x \in Stored(F) : x.ref \in Nat /\ \E e \in Stored(E) : Matches(e, x)
    PROVE  Worth(l, F)
<1>1. ASSUME NEW r, NEW e, NEW x, Matches(r, e), Matches(e, x), x.ref \in Nat
      PROVE  Matches(r, x)
  BY <1>1 DEF Matches
<1>2. \A r : (\E e \in Stored(E) : Matches(r, e)) => \E x \in Stored(F) : Matches(r, x)
  BY <1>1
<1>3. \A x \in Stored(F) : \E r \in Replay(l) : Matches(r, x)
  BY <1>1 DEF Worth
<1> QED BY <1>2, <1>3 DEF Worth

\* The record of a release (storeSetPrivateKey)
LEMMA WorthDel ==
    ASSUME NEW S, NEW l \in Seq(S), NEW rec \in S, NEW E, NEW F, NEW o, Worth(l, E),
           rec.op = "DEL", rec.key = o.key, rec.ref = o.ref, o.ref \in Nat,
           \A e \in Stored(E) : e.key = o.key => e = o,
           Stored(F) = {e \in Stored(E) : e.key # o.key}
    PROVE  Worth(l \o <<rec>>, F)
<1> DEFINE m == l \o <<rec>>
           n == Len(l)
<1>1. /\ m \in Seq(S) /\ n \in Nat /\ DOMAIN l = 1..n /\ DOMAIN m = 1..(n + 1) /\ m[n + 1] = rec
      /\ \A i \in DOMAIN l : i \in DOMAIN m /\ m[i] = l[i]
  BY OneMoreIndex
<1>2. Replay(m) = ReplayRecord(Replay(l), rec)
  BY ReplayAppend
<1> HIDE DEF m, n
<1>3. \A x : (\E e \in Stored(E) : Matches(x, e)) /\ x.key = o.key => rec.ref >= x.ref /\ x.ref \in Nat
  <2> SUFFICES ASSUME NEW x, NEW e \in Stored(E), Matches(x, e), x.key = o.key
               PROVE  rec.ref >= x.ref /\ x.ref \in Nat
    OBVIOUS
  <2>1. e = o
    BY DEF Matches
  <2>2. x.ref \in 0..o.ref
    BY <2>1 DEF Matches
  <2> QED BY <2>2
<1>4. Replay(m) = {x \in Replay(l) : x.key # rec.key}
  BY <1>2, <1>3, ReplayDel DEF Worth
<1>5. Ordered(m) /\ Plain(m)
  <2>1. Plain(m)
    BY <1>1 DEF Worth, Plain
  <2>2. ASSUME NEW i \in DOMAIN m, NEW p \in DOMAIN m, i < p, m[i].op # "DEL", m[p].op = "ADD",
               m[i].key = m[p].key
        PROVE  \E j \in DOMAIN m : i < j /\ j < p /\ Deletes(m[j], m[i].key, m[i].ref)
    <3>1. p # n + 1
      BY <1>1, <2>2
    <3>2. p \in DOMAIN l /\ i \in DOMAIN l
      BY <1>1, <2>2, <3>1
    <3>3. PICK j \in DOMAIN l : i < j /\ j < p /\ Deletes(l[j], l[i].key, l[i].ref)
      BY <1>1, <2>2, <3>2 DEF Worth, Ordered
    <3> QED BY <1>1, <3>2, <3>3
  <2> QED BY <2>1, <2>2 DEF Ordered
<1>6. ASSUME NEW i \in DOMAIN m, m[i].op # "DEL"
      PROVE  Undone(m, i) \/ \E e \in Stored(F) : Matches(m[i], e)
  <2>1. i # n + 1
    BY <1>1, <1>6
  <2>2. i \in DOMAIN l /\ m[i] = l[i] /\ i < n + 1 /\ n + 1 \in DOMAIN m
    BY <1>1, <2>1
  <2>3. CASE Undone(l, i)
    BY <1>1, <2>2, <2>3 DEF Undone
  <2>4. CASE \E e \in Stored(E) : Matches(l[i], e)
    <3>1. PICK e \in Stored(E) : Matches(l[i], e)
      BY <2>4
    <3>2. CASE e.key = o.key
      <4>1. Deletes(m[n + 1], m[i].key, m[i].ref)
        BY <1>1, <1>3, <2>2, <3>1, <3>2 DEF Deletes, Matches
      <4> QED BY <2>2, <4>1 DEF Undone
    <3>3. CASE e.key # o.key
      BY <2>2, <3>1, <3>3
    <3> QED BY <3>2, <3>3
  <2> QED BY <1>6, <2>2, <2>3, <2>4 DEF Worth
<1>7. \A r \in Replay(m) : \E e \in Stored(F) : Matches(r, e)
  BY <1>4 DEF Worth, Matches
<1>8. \A e \in Stored(F) : \E r \in Replay(m) : Matches(r, e)
  BY <1>4 DEF Worth, Matches
<1>9. Worth(m, F)
  BY <1>5, <1>6, <1>7, <1>8 DEF Worth
<1> QED BY <1>9 DEF m

\* The record of an object that is now stored
LEMMA WorthAdd ==
    ASSUME NEW S, NEW l \in Seq(S), NEW rec \in S, NEW E, NEW F, NEW x, Worth(l, E),
           rec.op = "ADD", \A e \in Stored(E) : e.key # rec.key /\ e.file # rec.file,
           rec.ref \in Nat, x.ref = rec.ref, x.key = rec.key, x.file = rec.file,
           Stored(F) = Stored(E) \cup {x}
    PROVE  Worth(l \o <<rec>>, F)
<1> DEFINE m == l \o <<rec>>
           n == Len(l)
           y == Entry(rec.key, rec.file, rec.ref, rec.ts, "done")
<1>1. /\ m \in Seq(S) /\ n \in Nat /\ DOMAIN l = 1..n /\ DOMAIN m = 1..(n + 1) /\ m[n + 1] = rec
      /\ \A i \in DOMAIN l : i \in DOMAIN m /\ m[i] = l[i]
  BY OneMoreIndex
<1>2. Replay(m) = ReplayRecord(Replay(l), rec)
  BY ReplayAppend
<1>m. Matches(rec, x) /\ Matches(y, x)
  BY DEF Matches, Entry
<1> HIDE DEF m, n, y
<1>3. \A r : (\E e \in Stored(E) : Matches(r, e)) => r.key # rec.key /\ r.file # rec.file
  BY DEF Matches
<1>4. Replay(m) = Replay(l) \cup {y}
  BY <1>2, <1>3, ReplayAdd DEF Worth, y
<1>5. Plain(m)
  BY <1>1 DEF Worth, Plain
<1>6. ASSUME NEW i \in DOMAIN m, m[i].op # "DEL"
      PROVE  Undone(m, i) \/ \E e \in Stored(F) : Matches(m[i], e)
  <2>1. CASE i = n + 1
    BY <1>1, <1>m, <2>1
  <2>2. CASE i # n + 1
    <3>1. i \in DOMAIN l /\ m[i] = l[i]
      BY <1>1, <2>2
    <3>2. Undone(l, i) => Undone(m, i)
      BY <1>1, <3>1 DEF Undone
    <3> QED BY <1>6, <3>1, <3>2 DEF Worth
  <2> QED BY <2>1, <2>2
<1>7. ASSUME NEW i \in DOMAIN m, NEW p \in DOMAIN m, i < p, m[i].op # "DEL", m[p].op = "ADD",
             m[i].key = m[p].key
      PROVE  \E j \in DOMAIN m : i < j /\ j < p /\ Deletes(m[j], m[i].key, m[i].ref)
  <2>1. i \in DOMAIN l /\ m[i] = l[i] /\ i \in Int /\ p \in Int
    BY <1>1, <1>7
  <2>2. CASE p = n + 1
    <3>1. l[i].key = rec.key
      BY <1>1, <1>7, <2>1, <2>2
    <3>2. ~\E e \in Stored(E) : Matches(l[i], e)
      BY <1>3, <3>1
    <3>3. Undone(l, i)
      BY <1>7, <2>1, <3>2 DEF Worth
    <3>4. PICK j \in DOMAIN l : j > i /\ Deletes(l[j], l[i].key, l[i].ref)
      BY <3>3 DEF Undone
    <3>5. j \in DOMAIN m /\ m[j] = l[j] /\ i < j /\ j < p
      BY <1>1, <2>1, <2>2, <3>4
    <3> QED BY <2>1, <3>4, <3>5
  <2>3. CASE p # n + 1
    <3>1. p \in DOMAIN l
      BY <1>1, <2>3
    <3>2. PICK j \in DOMAIN l : i < j /\ j < p /\ Deletes(l[j], l[i].key, l[i].ref)
      BY <1>1, <1>7, <2>1, <3>1 DEF Worth, Ordered
    <3> QED BY <1>1, <2>1, <3>2
  <2> QED BY <2>2, <2>3
<1>8. Ordered(m)
  BY <1>7 DEF Ordered
<1>9. /\ \A r \in Replay(m) : \E e \in Stored(F) : Matches(r, e)
      /\ \A e \in Stored(F) : \E r \in Replay(m) : Matches(r, e)
  BY <1>4, <1>m DEF Worth
<1>10. Worth(m, F)
  BY <1>5, <1>6, <1>8, <1>9 DEF Worth
<1> QED BY <1>10 DEF m
-----------------------------------------------------------------------------
(***************************************************************************)
(* The records of some entries.                                            *)
(***************************************************************************)

\* SetToSeq lists every element of a finite set, and once.
LEMMA SetToSeqAll ==
    ASSUME NEW S, IsFiniteSet(S), NEW s, s = SetToSeq(S), NEW n, n = Cardinality(S)
    PROVE  /\ n \in Nat /\ \A i \in 1..n : s[i] \in S
           /\ \A i, j \in 1..n : s[i] = s[j] => i = j
           /\ \A x \in S : \E i \in 1..n : s[i] = x
<1>1. n \in Nat /\ ExistsBijection(1..n, S)
  BY FS_CardinalityType
<1>2. PICK h : h \in [1..n -> S] /\ IsInjective(h)
  BY <1>1 DEF ExistsBijection, Bijection, Injection, IsInjective
<1>3. s \in [1..n -> S] /\ IsInjective(s)
  BY <1>2, Zenon DEF SetToSeq
<1>4. \A i, j \in 1..n : s[i] = s[j] => i = j
  BY <1>3 DEF IsInjective
<1>5. s \in Injection(1..n, S)
  BY <1>3, <1>4 DEF Injection, IsInjective
<1>6. Cardinality(1..n) = n
  BY <1>1, FS_Interval
<1>7. s \in Surjection(1..n, S)
  BY <1>5, <1>6, FS_Injection
<1>8. \A x \in S : \E i \in 1..n : s[i] = x
  BY <1>7 DEF Surjection
<1> QED BY <1>1, <1>3, <1>4, <1>8

\* The n records l are those of the entries E in the order s.
Lists(l, op, E, n, s) ==
    /\ DOMAIN l = 1..n
    /\ \A i \in 1..n : s[i] \in E /\ l[i] = RecOf(op, s[i])
    /\ \A i, j \in 1..n : s[i] = s[j] => i = j
    /\ \A x \in E : \E i \in 1..n : s[i] = x

\* A record per entry.
LEMMA RecsParts ==
    ASSUME NEW E, IsFiniteSet(E), NEW op
    PROVE  \E n \in Nat : \E s : Lists(RecsOf(op, E), op, E, n, s)
<1> DEFINE n == Cardinality(E)
           s == SetToSeq(E)
<1>1. /\ n \in Nat /\ \A i \in 1..n : s[i] \in E
      /\ \A i, j \in 1..n : s[i] = s[j] => i = j
      /\ \A x \in E : \E i \in 1..n : s[i] = x
  BY SetToSeqAll
<1>2. RecsOf(op, E) = [i \in 1..n |-> RecOf(op, s[i])]
  BY DEF RecsOf
<1> HIDE DEF n, s, RecsOf, RecOf
<1>3. DOMAIN RecsOf(op, E) = 1..n /\ \A i \in 1..n : RecsOf(op, E)[i] = RecOf(op, s[i])
  BY <1>2
<1>4. Lists(RecsOf(op, E), op, E, n, s)
  BY <1>1, <1>3 DEF Lists
<1> QED BY <1>1, <1>4

LEMMA RecsNone == ASSUME NEW op PROVE RecsOf(op, {}) = <<>>
<1>1. Cardinality({}) = 0
  BY FS_EmptySet
<1>2. 1..0 = {}
  OBVIOUS
<1>3. RecsOf(op, {}) = [i \in {} |-> RecOf(op, SetToSeq({})[i])]
  BY <1>1, <1>2 DEF RecsOf
<1> QED BY <1>3

LEMMA RecsOne == ASSUME NEW op, NEW e PROVE RecsOf(op, {e}) = <<RecOf(op, e)>>
<1> DEFINE s == SetToSeq({e})
<1>1. Cardinality({e}) = 1 /\ IsFiniteSet({e})
  BY FS_Singleton
<1>2. s[1] = e
  <2>1. \A i \in 1..1 : s[i] \in {e}
    BY <1>1, SetToSeqAll
  <2> HIDE DEF s
  <2> QED BY <2>1
<1>3. RecsOf(op, {e}) = [i \in 1..1 |-> RecOf(op, s[i])]
  BY <1>1 DEF RecsOf
<1> HIDE DEF s, RecOf
<1> QED BY <1>2, <1>3

\* A log without records is worth an index without objects.
LEMMA WorthEmpty == Worth(<<>>, {})
<1>1. DOMAIN <<>> = {}
  OBVIOUS
<1>2. Ordered(<<>>) /\ Plain(<<>>)
  BY <1>1 DEF Ordered, Plain
<1> QED BY <1>1, <1>2, ReplayEmpty DEF Worth, Stored

\* storeDirWriteCleanLogs writes a log that is worth the index.
LEMMA CleanWorth == IInv => Worth(CleanLog, ents)
<1> SUFFICES ASSUME IInv PROVE Worth(CleanLog, ents)
  OBVIOUS
<1> DEFINE D == Stored(ents)
           c == RecsOf("ADD", D)
<1>b. Books(ents, bits, nodes, lost, now)
  BY DEF IInv
<1>1. /\ CleanLog = c /\ D \subseteq ents /\ IsFiniteSet(D)
      /\ \A e \in D : e \in EntriesAt(now) /\ e.pub /\ e.st = "done"
      /\ \A e, x \in D : e.key = x.key \/ e.file = x.file => e = x
  <2>1. CleanLog = c
    BY DEF CleanLog, Stored
  <2>2. D \subseteq ents /\ \A e \in D : e \in ents /\ e.pub /\ e.st = "done"
    BY DEF Stored
  <2> HIDE DEF D
  <2>3. IsFiniteSet(D)
    BY <1>b, <2>2, EntsFinite
  <2> QED BY <1>b, <2>1, <2>2, <2>3 DEF Books
<1> HIDE DEF c, D
<1>k. PICK n \in Nat : \E s : Lists(c, "ADD", D, n, s)
  <2>1. \E k \in Nat : \E t : Lists(RecsOf("ADD", D), "ADD", D, k, t)
    BY <1>1, RecsParts
  <2> QED BY <2>1 DEF c
<1>l. PICK s : Lists(c, "ADD", D, n, s)
  BY <1>k
<1>2. /\ DOMAIN c = 1..n /\ \A i \in 1..n : s[i] \in D /\ c[i] = RecOf("ADD", s[i])
      /\ \A i, j \in 1..n : s[i] = s[j] => i = j
      /\ \A x \in D : \E i \in 1..n : s[i] = x
  BY <1>l DEF Lists
<1>3. c \in Seq(RecordsAt(now)) /\ Len(c) = n
  <2>1. c \in Seq(RecordsAt(now))
    BY <1>1, CleanLogType
  <2> HIDE DEF RecordsAt
  <2> QED BY <2>1, <1>2
<1> DEFINE Pre(k) == SubSeq(c, 1, k)
           F(k) == {s[i] : i \in 1..k}
           T == {k \in 0..n : ~Worth(Pre(k), F(k))}
<1>4. ASSUME T # {} PROVE FALSE
  <2>1. T \subseteq Nat
    OBVIOUS
  <2>2. PICK k \in T : k = 0 \/ (k - 1 \in Nat /\ k - 1 \notin T)
    <3> HIDE DEF T
    <3> QED BY <1>4, <2>1, NoLeast
  <2>3. k \in 0..n /\ ~Worth(Pre(k), F(k))
    BY <2>2
  <2>4. CASE k = 0
    <3>1. Pre(0) = <<>> /\ F(0) = {}
      BY <1>3
    <3> QED BY <2>3, <2>4, <3>1, WorthEmpty
  <2>5. CASE k # 0
    <3>1. k - 1 \in 0..n /\ Worth(Pre(k - 1), F(k - 1)) /\ k \in 1..n
      BY <2>2, <2>3, <2>5
    <3>2. /\ Pre(k - 1) \in Seq(RecordsAt(now)) /\ c[k] \in RecordsAt(now)
          /\ Pre(k) = Pre(k - 1) \o <<c[k]>>
      <4> HIDE DEF RecordsAt
      <4>1. Pre(k - 1) \in Seq(RecordsAt(now)) /\ c[k] \in RecordsAt(now)
            /\ Pre(k) \in Seq(RecordsAt(now)) /\ Len(Pre(k)) = k /\ Len(Pre(k - 1)) = k - 1
        BY <1>3, <3>1
      <4>2. Pre(k - 1) \o <<c[k]>> \in Seq(RecordsAt(now)) /\ Len(Pre(k - 1) \o <<c[k]>>) = k
        BY <4>1, <3>1
      <4>3. \A i \in 1..k : Pre(k)[i] = (Pre(k - 1) \o <<c[k]>>)[i]
        BY <4>1, <3>1, <1>3
      <4> HIDE DEF Pre
      <4> QED BY <4>1, <4>2, <4>3, SeqEqual
    <3>3. F(k) = F(k - 1) \cup {s[k]}
      <4>1. 1..k = 1..(k - 1) \cup {k}
        BY <3>1
      <4> QED BY <4>1
    <3>4. s[k] \in D /\ s[k] \in EntriesAt(now) /\ c[k] = RecOf("ADD", s[k])
      BY <1>1, <1>2, <3>1
    <3>5. c[k].op = "ADD" /\ c[k].key = s[k].key /\ c[k].file = s[k].file /\ c[k].ref = s[k].ref
          /\ c[k].ref \in Nat
      BY <3>4 DEF RecOf, EntriesAt
    <3>6. F(k - 1) \subseteq D /\ F(k) \subseteq D /\ s[k] \notin F(k - 1)
      <4>1. \A i \in 1..(k - 1) : i \in 1..n /\ i # k
        BY <3>1
      <4>2. \A i \in 1..k : i \in 1..n
        BY <3>1
      <4> QED BY <4>1, <4>2, <1>2, <3>1
    <3> HIDE DEF F, Pre, D
    <3>7. Stored(F(k - 1)) = F(k - 1) /\ Stored(F(k)) = F(k)
      BY <3>6, <1>1 DEF Stored
    <3>8. \A e \in Stored(F(k - 1)) : e.key # c[k].key /\ e.file # c[k].file
      BY <1>1, <3>4, <3>5, <3>6, <3>7
    <3>9. Worth(Pre(k - 1) \o <<c[k]>>, F(k))
      <4> DEFINE l == Pre(k - 1)
                 r == c[k]
                 x == s[k]
                 G == F(k - 1)
                 H == F(k)
      <4>1. l \in Seq(RecordsAt(now)) /\ r \in RecordsAt(now) /\ Worth(l, G)
        BY <3>1, <3>2
      <4>2. r.op = "ADD" /\ r.ref \in Nat /\ x.ref = r.ref /\ x.key = r.key /\ x.file = r.file
        BY <3>5
      <4>3. (\A e \in Stored(G) : e.key # r.key /\ e.file # r.file)
            /\ Stored(H) = Stored(G) \cup {x}
        BY <3>3, <3>7, <3>8
      <4> HIDE DEF l, r, x, G, H, RecordsAt
      <4>4. Worth(l \o <<r>>, H)
        BY <4>1, <4>2, <4>3, WorthAdd
      <4> QED BY <4>4 DEF l, r, H
    <3> QED BY <2>3, <3>2, <3>9
  <2> QED BY <2>4, <2>5
<1>5. Worth(Pre(n), F(n))
  BY <1>4
<1>6. Pre(n) = c
  <2> HIDE DEF RecordsAt
  <2> QED BY <1>3
<1>7. F(n) = D
  BY <1>2
<1>8. Stored(D) = D
  BY <1>1 DEF Stored
<1>9. Worth(c, ents)
  <2> HIDE DEF Pre, F
  <2>1. Worth(c, D)
    BY <1>5, <1>6, <1>7
  <2>2. Stored(ents) = D
    BY DEF D
  <2> QED BY <2>1, <2>2, <1>8 DEF Worth
<1> QED BY <1>1, <1>9
-----------------------------------------------------------------------------
(***************************************************************************)
(* Every step keeps the log in order.                                      *)
(***************************************************************************)

\* What the books say of the objects stored.
LEMMA StoredParts ==
    ASSUME IInv
    PROVE  /\ now \in Nat
           /\ \A e \in ents : e.ref \in Nat /\ e.ref <= now
           /\ \A e \in Stored(ents) : e \in ents /\ e.pub /\ e.st = "done"
           /\ \A e, x \in ents : e.file = x.file \/ (e.pub /\ x.pub /\ e.key = x.key) => e = x
           /\ \A e \in ents : e.file \in bits
           /\ log \in Seq(RecordsAt(now)) /\ newlog \in Seq(RecordsAt(now))
           /\ todo \in Seq(RecordsAt(now)) /\ OpenLog \in Seq(RecordsAt(now))
<1>1. now \in Nat /\ \A e \in ents : e.ref \in Nat /\ e.ref <= now
  BY DEF IInv, DiskOK, Books, EntriesAt
<1>2. /\ \A e, x \in ents : e.file = x.file \/ (e.pub /\ x.pub /\ e.key = x.key) => e = x
      /\ \A e \in ents : e.file \in bits
  BY DEF IInv, Books
<1>3. \A e \in Stored(ents) : e \in ents /\ e.pub /\ e.st = "done"
  BY DEF Stored
<1>4. /\ log \in Seq(RecordsAt(now)) /\ newlog \in Seq(RecordsAt(now))
      /\ todo \in Seq(RecordsAt(now)) /\ OpenLog \in Seq(RecordsAt(now))
  BY DEF IInv, LogsOK, OpenLog
<1> QED BY <1>1, <1>2, <1>3, <1>4

LEMMA WorthStored ==
    ASSUME NEW l, NEW E, NEW F, Worth(l, E), Stored(F) = Stored(E)
    PROVE  Worth(l, F)
BY DEF Worth

\* Entries that were there before, or are newer than every record.
LEMMA AheadKept ==
    ASSUME NEW t \in Nat, NEW l \in Seq(RecordsAt(t)), NEW E, NEW F, Ahead(l, E),
           \A x \in F : x.pub => \/ x.ref \in Nat /\ x.ref >= t
                                 \/ \E e \in E : e.pub /\ e.key = x.key /\ e.ref = x.ref
    PROVE  Ahead(l, F)
<1>1. \A i \in DOMAIN l : l[i].ref \in Nat /\ l[i].ref <= t
  <2>1. \A r \in RecordsAt(t) : r.ref \in Nat /\ r.ref <= t
    BY DEF RecordsAt
  <2> HIDE DEF RecordsAt
  <2> QED BY <2>1
<1> HIDE DEF RecordsAt
<1> SUFFICES ASSUME NEW i \in DOMAIN l, NEW x \in F, l[i].op = "ADD", x.pub, x.key = l[i].key
             PROVE  x.ref >= l[i].ref
                    \/ \E j \in DOMAIN l : j < i /\ Deletes(l[j], x.key, x.ref)
  BY DEF Ahead
<1>2. CASE x.ref \in Nat /\ x.ref >= t
  BY <1>1, <1>2
<1>3. CASE \E e \in E : e.pub /\ e.key = x.key /\ e.ref = x.ref
  BY <1>3 DEF Ahead
<1> QED BY <1>2, <1>3

\* A step that reads no record: what it appends goes to the open log.
LEMMA StepLogInv ==
    ASSUME LogInv, proc # "down", UNCHANGED <<proc, todo>>, Worth(OpenLog', ents'),
           proc = "rebuilding" => UNCHANGED log /\ Ahead(todo, ents'),
           proc # "rebuilding" => UNCHANGED newlog
    PROVE  LogInv'
<1>1. CASE proc = "rebuilding"
  BY <1>1 DEF LogInv, OpenLog
<1>2. CASE proc # "rebuilding"
  <2>1. OpenLog' = log'
    BY <1>2 DEF OpenLog
  <2>2. Ordered(log') /\ Plain(log')
    BY <2>1 DEF Worth
  <2> QED BY <1>2, <2>1, <2>2 DEF LogInv
<1> QED BY <1>1, <1>2

\* file_write on the open log
LEMMA LoggedOpen ==
    ASSUME NEW recs, Logged(recs), UNCHANGED proc
    PROVE  /\ OpenLog' = OpenLog \o recs
           /\ proc = "rebuilding" => UNCHANGED log
           /\ proc # "rebuilding" => UNCHANGED newlog
BY DEF Logged, OpenLog

\* storeRelease and its records
LEMMA ReleasedLog ==
    ASSUME IInv, LogInv, proc # "down", NEW E, E = {} \/ \E o \in ents : o.pub /\ E = {o}
    PROVE  /\ Worth(OpenLog \o RecsOf("DEL", E), ReleasedAll(E))
           /\ \A x \in ReleasedAll(E) : x.pub => x \in ents
<1>1. \A x \in ReleasedAll(E) : x.pub => x \in ents \ E
  BY ReleasedBooks
<1>2. ents \ E \subseteq ReleasedAll(E)
  BY DEF ReleasedAll
<1>3. Stored(ReleasedAll(E)) = Stored(ents) \ E
  BY <1>1, <1>2 DEF Stored
<1>4. Worth(OpenLog, ents)
  BY DEF LogInv
<1>5. CASE E = {}
  <2>1. OpenLog \o <<>> = OpenLog
    BY StoredParts
  <2>2. RecsOf("DEL", E) = <<>>
    BY <1>5, RecsNone
  <2>3. Worth(OpenLog, ReleasedAll(E))
    BY <1>3, <1>4, <1>5, WorthStored
  <2> QED BY <1>1, <2>1, <2>2, <2>3
<1>6. CASE \E o \in ents : o.pub /\ E = {o}
  <2>1. PICK o \in ents : o.pub /\ E = {o}
    BY <1>6
  <2> DEFINE r == RecOf("DEL", o)
             F == ReleasedAll(E)
  <2>2. RecsOf("DEL", E) = <<r>>
    BY <2>1, RecsOne
  <2>3. r \in RecordsAt(now)
    <3>1. o \in EntriesAt(now)
      BY EntryOK
    <3> QED BY <3>1 DEF RecOf, RecordsAt, EntriesAt
  <2>4. r.op = "DEL" /\ r.key = o.key /\ r.ref = o.ref
    BY DEF RecOf
  <2> HIDE DEF r, F
  <2>5. o.ref \in Nat /\ \A e \in Stored(ents) : e.key = o.key => e = o
    BY <2>1, StoredParts
  <2>6. Stored(F) = {e \in Stored(ents) : e.key # o.key}
    BY <1>3, <2>1, <2>5 DEF F
  <2>7. OpenLog \in Seq(RecordsAt(now))
    BY StoredParts
  <2>8. Worth(OpenLog \o <<r>>, F)
    BY <1>4, <2>3, <2>4, <2>5, <2>6, <2>7, WorthDel
  <2> QED BY <1>1, <2>2, <2>8 DEF F
<1> QED BY <1>5, <1>6

\* storeRelease
LEMMA ReleaseLog ==
    ASSUME IInv, LogInv, NEW e \in ents, Release(e)
    PROVE  LogInv'
<1>0. /\ proc # "down" /\ e.pub /\ ents' = ReleasedAll({e}) /\ Logged(<<RecOf("DEL", e)>>)
      /\ UNCHANGED <<proc, todo>>
  BY DEF Release
<1>1. /\ Worth(OpenLog \o RecsOf("DEL", {e}), ReleasedAll({e}))
      /\ \A x \in ReleasedAll({e}) : x.pub => x \in ents
  BY <1>0, ReleasedLog
<1>2. Worth(OpenLog', ents')
  BY <1>0, <1>1, RecsOne, LoggedOpen
<1>3. proc = "rebuilding" => Ahead(todo, ents')
  BY <1>0, <1>1, StoredParts, AheadKept DEF LogInv
<1> QED BY <1>0, <1>2, <1>3, LoggedOpen, StepLogInv

\* storeUfsCreate
LEMMA CreateLog ==
    ASSUME IInv, LogInv, NEW k \in Keys, NEW f \in Files, Create(k, f)
    PROVE  LogInv'
<1> DEFINE old == Public(k)
           E == ReleasedAll(old)
           x == Entry(k, f, now, now, "writing")
<1>0. /\ proc # "down" /\ UNCHANGED <<proc, todo>>
      /\ ents' = E \cup {x} /\ Logged(RecsOf("DEL", old))
  BY DEF Create
<1>1. old = {} \/ \E o \in ents : o.pub /\ old = {o}
  BY PublicOne
<1> HIDE DEF old
<1>2. Worth(OpenLog \o RecsOf("DEL", old), E) /\ \A y \in E : y.pub => y \in ents
  BY <1>0, <1>1, ReleasedLog
<1>3. x.st = "writing" /\ x.ref = now
  BY DEF Entry
<1> HIDE DEF E, x
<1>4. Stored(E \cup {x}) = Stored(E)
  BY <1>3 DEF Stored
<1>5. Worth(OpenLog', ents')
  BY <1>0, <1>2, <1>4, WorthStored, LoggedOpen
<1>6. now \in Nat /\ now >= now /\ todo \in Seq(RecordsAt(now))
  BY StoredParts
<1>7. proc = "rebuilding" => Ahead(todo, ents')
  BY <1>0, <1>2, <1>3, <1>6, AheadKept DEF LogInv
<1> QED BY <1>0, <1>5, <1>7, LoggedOpen, StepLogInv

\* A step that logs nothing and stores nothing.
LEMMA SameLog ==
    ASSUME IInv, LogInv, proc # "down", UNCHANGED <<proc, todo, log, newlog>>,
           \A e \in Stored(ents) : \E x \in Stored(ents') : Matches(e, x),
           \A x \in Stored(ents') : x.ref \in Nat /\ \E e \in Stored(ents) : Matches(e, x),
           \A x \in ents' : x.pub => \/ x.ref \in Nat /\ x.ref >= now
                                     \/ \E e \in ents : e.pub /\ e.key = x.key /\ e.ref = x.ref
    PROVE  LogInv'
<1>1. OpenLog' = OpenLog
  BY DEF OpenLog
<1>2. Worth(OpenLog, ents')
  BY WorthSame DEF LogInv
<1>3. now \in Nat /\ todo \in Seq(RecordsAt(now))
  BY StoredParts
<1>4. proc = "rebuilding" => Ahead(todo, ents')
  BY <1>3, AheadKept DEF LogInv
<1> QED BY <1>1, <1>2, <1>4, StepLogInv

\* An entry is the same object as itself.
LEMMA MatchesSelf == ASSUME IInv PROVE \A e \in ents : Matches(e, e)
BY StoredParts DEF Matches

\* A step that changes one entry and keeps its key and its file.
LEMMA ChangeLog ==
    ASSUME IInv, LogInv, proc # "down", UNCHANGED <<proc, todo, log, newlog>>,
           NEW e \in ents, NEW x, ents' = (ents \ {e}) \cup {x},
           x.key = e.key, x.file = e.file, x.pub => e.pub, e.pub => x.pub /\ x.st = e.st,
           x.ref = e.ref \/ (x.ref \in Nat /\ x.ref >= now)
    PROVE  LogInv'
<1>1. x.ref \in Nat /\ e.ref \in Nat /\ e.ref <= x.ref
  BY StoredParts
<1>2. Matches(e, x)
  BY <1>1 DEF Matches
<1>3. x \in Stored(ents') <=> e \in Stored(ents)
  BY DEF Stored
<1>4. \A y : y # x /\ y \in Stored(ents') => y \in Stored(ents)
  BY DEF Stored
<1>5. \A y : y # e /\ y \in Stored(ents) => y \in Stored(ents')
  BY DEF Stored
<1>6. \A y \in Stored(ents) : \E z \in Stored(ents') : Matches(y, z)
  BY <1>2, <1>3, <1>5, MatchesSelf DEF Stored
<1>7. \A y \in Stored(ents') : y.ref \in Nat /\ \E z \in Stored(ents) : Matches(z, y)
  BY <1>1, <1>2, <1>3, <1>4, MatchesSelf, StoredParts
<1>8. \A y \in ents' : y.pub => \/ y.ref \in Nat /\ y.ref >= now
                                \/ \E z \in ents : z.pub /\ z.key = y.key /\ z.ref = y.ref
  OBVIOUS
<1> QED BY <1>6, <1>7, <1>8, SameLog

\* A step that drops an entry that is not stored.
LEMMA DropLog ==
    ASSUME IInv, LogInv, proc # "down", UNCHANGED <<proc, todo, log, newlog>>,
           NEW e \in ents, ents' = ents \ {e}, ~e.pub \/ e.st # "done"
    PROVE  LogInv'
<1>1. Stored(ents') = Stored(ents)
  BY DEF Stored
<1>2. \A y \in Stored(ents) : Matches(y, y) /\ y.ref \in Nat
  BY MatchesSelf, StoredParts
<1>3. \A x \in ents' : x.pub => \/ x.ref \in Nat /\ x.ref >= now
                                \/ \E z \in ents : z.pub /\ z.key = x.key /\ z.ref = x.ref
  OBVIOUS
<1> QED BY <1>1, <1>2, <1>3, SameLog
\* storeSwapOutFileClosed
LEMMA SwapOutDoneLog ==
    ASSUME IInv, LogInv, NEW e \in ents, SwapOutDone(e)
    PROVE  LogInv'
<1> DEFINE x == [e EXCEPT !.st = "done"]
           r == RecOf("ADD", e)
<1>0. /\ proc # "down" /\ e.st = "writing" /\ UNCHANGED <<proc, todo>>
      /\ \/ e.pub /\ ents' = (ents \ {e}) \cup {x} /\ Logged(<<r>>)
         \/ ~e.pub /\ ents' = (ents \ {e}) \cup {x} /\ UNCHANGED <<log, newlog>>
         \/ ~e.pub /\ ents' = ents \ {e} /\ UNCHANGED <<log, newlog>>
  BY EntryMeansRunning DEF SwapOutDone
<1>1. e \in EntriesAt(now)
  BY EntryOK
<1>2. x.key = e.key /\ x.file = e.file /\ x.ref = e.ref /\ x.st = "done"
  BY <1>1 DEF EntriesAt
<1>3. x.pub = e.pub
  BY <1>1 DEF EntriesAt
<1>4. r \in RecordsAt(now) /\ r.op = "ADD" /\ r.key = e.key /\ r.file = e.file /\ r.ref = e.ref
  BY <1>1 DEF EntriesAt, RecordsAt, RecOf
<1> HIDE DEF x, r
<1>5. CASE ~e.pub
  <2>1. CASE ents' = (ents \ {e}) \cup {x} /\ UNCHANGED <<log, newlog>>
    <3>1. ~x.pub
      BY <1>3, <1>5
    <3> QED BY <1>0, <1>2, <1>5, <2>1, <3>1, ChangeLog
  <2>2. CASE ents' = ents \ {e} /\ UNCHANGED <<log, newlog>>
    BY <1>0, <1>5, <2>2, DropLog
  <2> QED BY <1>0, <1>5, <2>1, <2>2
<1>6. CASE e.pub /\ ents' = (ents \ {e}) \cup {x} /\ Logged(<<r>>)
  <2>1. x.pub
    BY <1>3, <1>6
  <2>2. Stored(ents') = Stored(ents) \cup {x}
    BY <1>0, <1>2, <1>6, <2>1 DEF Stored
  <2>3. \A y \in Stored(ents) : y.key # r.key /\ y.file # r.file
    BY <1>0, <1>4, <1>6, StoredParts
  <2>4. /\ OpenLog \in Seq(RecordsAt(now)) /\ Worth(OpenLog, ents) /\ e.ref \in Nat
        /\ now \in Nat /\ todo \in Seq(RecordsAt(now))
    BY <1>0, StoredParts DEF LogInv
  <2>5. Worth(OpenLog \o <<r>>, ents')
    BY <1>2, <1>4, <2>2, <2>3, <2>4, WorthAdd
  <2>6. \A y \in ents' : y.pub => \E z \in ents : z.pub /\ z.key = y.key /\ z.ref = y.ref
    BY <1>2, <1>6
  <2>7. proc = "rebuilding" => Ahead(todo, ents')
    BY <2>4, <2>6, AheadKept DEF LogInv
  <2> QED BY <1>0, <1>6, <2>5, <2>7, LoggedOpen, StepLogInv
<1> QED BY <1>0, <1>5, <1>6

\* storeSwapOutFileClosed with an error
LEMMA ErrorLog ==
    ASSUME IInv, LogInv, NEW e \in ents, WriteError(e)
    PROVE  LogInv'
<1>1. /\ proc # "down" /\ e.st = "writing" /\ ents' = ents \ {e}
      /\ UNCHANGED <<proc, todo, log, newlog>>
  BY EntryMeansRunning DEF WriteError
<1> QED BY <1>1, DropLog

\* storeLockObject by a hit
LEMMA HitLog ==
    ASSUME IInv, LogInv, NEW e \in ents, Hit(e)
    PROVE  LogInv'
<1> DEFINE x == [e EXCEPT !.held = TRUE, !.ref = now']
<1>0. /\ proc # "down" /\ e.st = "done" /\ now' \in {now} \cup {now + 1}
      /\ ents' = (ents \ {e}) \cup {x} /\ UNCHANGED <<proc, log, newlog, todo>>
  BY EntryMeansRunning DEF Hit
<1>1. e \in EntriesAt(now) /\ now \in Nat
  BY EntryOK, StoredParts
<1>2. x.key = e.key /\ x.file = e.file /\ x.ref = now' /\ x.st = e.st
  BY <1>1 DEF EntriesAt
<1>3. x.pub = e.pub
  BY <1>1 DEF EntriesAt
<1>4. now' \in Nat /\ now' >= now
  BY <1>0, <1>1
<1> HIDE DEF x
<1>5. (x.pub => e.pub) /\ (e.pub => x.pub /\ x.st = e.st)
  BY <1>2, <1>3
<1> QED BY <1>0, <1>2, <1>4, <1>5, ChangeLog

\* storeUnlockObject and storeLateRelease
LEMMA UnlockLog ==
    ASSUME IInv, LogInv, NEW e \in ents, Unlock(e) \/ LateRelease(e)
    PROVE  LogInv'
<1> DEFINE x == [e EXCEPT !.held = FALSE]
<1>0. /\ proc # "down" /\ UNCHANGED <<proc, log, newlog, todo>>
      /\ \/ ents' = (ents \ {e}) \cup {x}
         \/ ~e.pub /\ ents' = ents \ {e}
  BY EntryMeansRunning DEF Unlock, LateRelease
<1>1. e \in EntriesAt(now)
  BY EntryOK
<1>2. x.key = e.key /\ x.file = e.file /\ x.ref = e.ref /\ x.st = e.st
  BY <1>1 DEF EntriesAt
<1>3. x.pub = e.pub
  BY <1>1 DEF EntriesAt
<1> HIDE DEF x
<1>4. (x.pub => e.pub) /\ (e.pub => x.pub /\ x.st = e.st)
  BY <1>2, <1>3
<1>5. CASE ents' = (ents \ {e}) \cup {x}
  BY <1>0, <1>2, <1>4, <1>5, ChangeLog
<1>6. CASE ~e.pub /\ ents' = ents \ {e}
  BY <1>0, <1>6, DropLog
<1> QED BY <1>0, <1>5, <1>6

\* What leaves the index and the logs alone keeps them.
LEMMA LogInvKept == LogInv /\ UNCHANGED <<proc, ents, log, newlog, todo>> => LogInv'
BY DEF LogInv, OpenLog

\* storeDirWriteCleanLogs at a rotation, and the end of a rebuild
LEMMA LogStepLog ==
    ASSUME IInv, LogInv, Rotate \/ RebuildComplete
    PROVE  LogInv'
<1>1. CASE Rotate
  <2>1. proc = "up" /\ log' = CleanLog /\ UNCHANGED <<proc, ents, todo, newlog>>
    BY <1>1 DEF Rotate
  <2>2. OpenLog' = CleanLog
    BY <2>1 DEF OpenLog
  <2> QED BY <2>1, <2>2, CleanWorth, StepLogInv
<1>2. CASE RebuildComplete
  <2>1. proc = "rebuilding" /\ proc' = "up" /\ log' = newlog /\ newlog' = <<>>
        /\ UNCHANGED <<ents, todo>>
    BY <1>2 DEF RebuildComplete
  <2>2. OpenLog' = newlog /\ OpenLog = newlog
    BY <2>1 DEF OpenLog
  <2>3. Worth(newlog, ents)
    BY <2>1, <2>2 DEF LogInv
  <2> QED BY <2>1, <2>2, <2>3 DEF LogInv, Worth
<1> QED BY <1>1, <1>2

\* A crash or a shutdown
LEMMA DownLog ==
    ASSUME IInv, LogInv, Crash \/ Shutdown
    PROVE  LogInv'
<1>1. /\ proc' = "down" /\ newlog' = <<>> /\ todo' = <<>>
      /\ log' = log \/ log' = CleanLog
  BY DEF Crash, Shutdown, Down
<1>2. Ordered(log') /\ Plain(log')
  BY <1>1, CleanWorth DEF LogInv, Worth
<1>3. Ordered(<<>>)
  BY WorthEmpty DEF Worth
<1> QED BY <1>1, <1>2, <1>3 DEF LogInv

\* The files of a directory are no log.
LEMMA ScannedOrdered ==
    ASSUME NEW E, IsFiniteSet(E)
    PROVE  Ordered(RecsOf("FILE", E))
<1> DEFINE l == RecsOf("FILE", E)
<1>0. PICK n \in Nat : \E s : Lists(l, "FILE", E, n, s)
  BY RecsParts
<1>1. PICK s : Lists(l, "FILE", E, n, s)
  BY <1>0
<1> HIDE DEF l
<1>2. \A i \in DOMAIN l : l[i].op = "FILE"
  BY <1>1 DEF Lists, RecOf
<1> QED BY <1>2 DEF Ordered, l

\* storeUfsDirRebuild
LEMMA StartLog ==
    ASSUME IInv, LogInv, NEW scan \in BOOLEAN, Start(scan)
    PROVE  LogInv'
<1> DEFINE F == {g \in Files : disk[g] # Gone}
           E == {Entry(disk[f].key, f, disk[f].ref, disk[f].ref, "done") : f \in F}
<1>0. /\ proc = "down" /\ proc' = "rebuilding" /\ UNCHANGED <<ents, log, newlog>>
      /\ todo' = RecsOf("FILE", E) \/ todo' = log
  BY DEF Start
<1>1. ents = {} /\ newlog = <<>>
  BY <1>0 DEF IInv, DiskOK, LogInv
<1>2. IsFiniteSet(E)
  <2>1. F \subseteq Files
    OBVIOUS
  <2>2. \A f : Entry(disk[f].key, f, disk[f].ref, disk[f].ref, "done").file = f
    BY DEF Entry
  <2> HIDE DEF F
  <2>3. (\A e \in E : e.file \in Files) /\ \A e, x \in E : e.file = x.file => e = x
    BY <2>1, <2>2
  <2> HIDE DEF E
  <2> QED BY <2>3, FilesFinite
<1> HIDE DEF E
<1>3. Ordered(todo')
  BY <1>0, <1>2, ScannedOrdered DEF LogInv
<1>4. OpenLog' = <<>>
  BY <1>0, <1>1 DEF OpenLog
<1>5. Worth(OpenLog', ents') /\ Ahead(todo', ents')
  BY <1>0, <1>1, <1>4, WorthEmpty DEF Ahead
<1> QED BY <1>0, <1>3, <1>5 DEF LogInv
-----------------------------------------------------------------------------
(***************************************************************************)
(* A record that is read while rebuilding.                                 *)
(***************************************************************************)

LEMMA TailIndex ==
    ASSUME NEW S, NEW l \in Seq(S), l # <<>>, NEW m, m = Tail(l)
    PROVE  /\ m \in Seq(S) /\ Len(l) \in Nat /\ Len(l) >= 1 /\ DOMAIN l = 1..Len(l)
           /\ DOMAIN m = 1..(Len(l) - 1) /\ Head(l) = l[1]
           /\ \A i \in DOMAIN m : i \in Nat /\ i + 1 \in DOMAIN l /\ m[i] = l[i + 1]
           /\ \A i \in DOMAIN l : i > 1 => i - 1 \in DOMAIN m /\ m[i - 1] = l[i]
OBVIOUS

\* What is left to read keeps its order.
LEMMA OrderedTail ==
    ASSUME NEW S, NEW l \in Seq(S), l # <<>>, Ordered(l)
    PROVE  Ordered(Tail(l))
<1> DEFINE m == Tail(l)
<1>1. /\ Len(l) \in Nat /\ Len(l) >= 1 /\ DOMAIN l = 1..Len(l) /\ DOMAIN m = 1..(Len(l) - 1)
      /\ \A i \in DOMAIN m : i \in Nat /\ i + 1 \in DOMAIN l /\ m[i] = l[i + 1]
      /\ \A i \in DOMAIN l : i > 1 => i - 1 \in DOMAIN m /\ m[i - 1] = l[i]
  BY TailIndex
<1> HIDE DEF m
<1>2. ASSUME NEW i \in DOMAIN m, NEW p \in DOMAIN m, i < p, m[i].op # "DEL", m[p].op = "ADD",
             m[i].key = m[p].key
      PROVE  \E j \in DOMAIN m : i < j /\ j < p /\ Deletes(m[j], m[i].key, m[i].ref)
  <2> DEFINE a == i + 1
             b == p + 1
  <2>1. a \in DOMAIN l /\ b \in DOMAIN l /\ a < b /\ m[i] = l[a] /\ m[p] = l[b] /\ i \in Nat /\ p \in Nat
    BY <1>1, <1>2
  <2> HIDE DEF a, b
  <2>2. PICK j \in DOMAIN l : a < j /\ j < b /\ Deletes(l[j], l[a].key, l[a].ref)
    BY <1>2, <2>1 DEF Ordered
  <2>3. j > 1 /\ i < j - 1 /\ j - 1 < p
    BY <1>1, <2>1, <2>2 DEF a, b
  <2>4. j - 1 \in DOMAIN m /\ m[j - 1] = l[j]
    BY <1>1, <2>3
  <2> QED BY <2>1, <2>2, <2>3, <2>4
<1>3. Ordered(m)
  BY <1>2 DEF Ordered
<1> QED BY <1>3 DEF m

\* What is left to read is no newer than the index.
LEMMA AheadTail ==
    ASSUME NEW S, NEW l \in Seq(S), l # <<>>, NEW E, NEW F, Ordered(l), Ahead(l, E),
           \A x \in F : x.pub =>
              \/ \E e \in E : /\ e.pub /\ e.key = x.key /\ e.ref = x.ref
                              /\ ~Deletes(Head(l), e.key, e.ref)
              \/ Head(l).op # "DEL" /\ x.key = Head(l).key /\ x.ref = Head(l).ref
    PROVE  Ahead(Tail(l), F)
<1> DEFINE m == Tail(l)
<1>1. /\ Len(l) \in Nat /\ Len(l) >= 1 /\ DOMAIN l = 1..Len(l) /\ DOMAIN m = 1..(Len(l) - 1)
      /\ Head(l) = l[1]
      /\ \A i \in DOMAIN m : i \in Nat /\ i + 1 \in DOMAIN l /\ m[i] = l[i + 1]
      /\ \A i \in DOMAIN l : i > 1 => i - 1 \in DOMAIN m /\ m[i - 1] = l[i]
  BY TailIndex
<1> HIDE DEF m
<1>2. ASSUME NEW i \in DOMAIN m, NEW x \in F, m[i].op = "ADD", x.pub, x.key = m[i].key
      PROVE  x.ref >= m[i].ref \/ \E j \in DOMAIN m : j < i /\ Deletes(m[j], x.key, x.ref)
  <2> DEFINE p == i + 1
  <2>1. p \in DOMAIN l /\ m[i] = l[p] /\ 1 < p /\ 1 \in DOMAIN l /\ i \in Nat
    BY <1>1, <1>2
  <2> HIDE DEF p
  <2>2. ASSUME NEW j \in DOMAIN l, 1 < j, j < p, Deletes(l[j], x.key, x.ref)
        PROVE  \E k \in DOMAIN m : k < i /\ Deletes(m[k], x.key, x.ref)
    <3>1. j - 1 \in DOMAIN m /\ m[j - 1] = l[j] /\ j - 1 < i
      BY <1>1, <2>1, <2>2 DEF p
    <3> QED BY <2>2, <3>1
  <2>3. ASSUME NEW e \in E, e.pub, e.key = x.key, e.ref = x.ref, ~Deletes(Head(l), e.key, e.ref)
        PROVE  x.ref >= m[i].ref \/ \E j \in DOMAIN m : j < i /\ Deletes(m[j], x.key, x.ref)
    <3>1. e.ref >= l[p].ref \/ \E j \in DOMAIN l : j < p /\ Deletes(l[j], e.key, e.ref)
      BY <1>2, <2>1, <2>3 DEF Ahead
    <3>2. CASE e.ref >= l[p].ref
      BY <2>1, <2>3, <3>2
    <3>3. CASE \E j \in DOMAIN l : j < p /\ Deletes(l[j], e.key, e.ref)
      <4>1. PICK j \in DOMAIN l : j < p /\ Deletes(l[j], e.key, e.ref)
        BY <3>3
      <4>2. j # 1
        BY <1>1, <2>3, <4>1
      <4>3. 1 < j
        BY <1>1, <4>2
      <4> QED BY <2>2, <2>3, <4>1, <4>3
    <3> QED BY <3>1, <3>2, <3>3
  <2>4. CASE Head(l).op # "DEL" /\ x.key = Head(l).key /\ x.ref = Head(l).ref
    <3>1. PICK j \in DOMAIN l : 1 < j /\ j < p /\ Deletes(l[j], l[1].key, l[1].ref)
      BY <1>1, <1>2, <2>1, <2>4 DEF Ordered
    <3> QED BY <1>1, <2>2, <2>4, <3>1
  <2> QED BY <1>2, <2>3, <2>4
<1>3. Ahead(m, F)
  BY <1>2 DEF Ahead
<1> QED BY <1>3 DEF m

\* A decision, for a record that is no newer than the entry of its key.
LEMMA DecisionMeans ==
    ASSUME NEW rec, NEW cur, NEW used \in BOOLEAN, rec.op \in {"ADD", "DEL"},
           rec.op = "ADD" => \A e \in cur : ~(rec.ref > e.ref),
           NEW d, d = Decision(rec, cur, used)
    PROVE  \/ d = "skip" /\ (rec.op = "DEL" => \A e \in cur : ~(rec.ref >= e.ref))
           \/ d = "recycle" /\ rec.op = "DEL" /\ \E e \in cur : rec.ref >= e.ref
           \/ d = "load" /\ rec.op = "ADD" /\ ~used /\ cur = {}
<1>1. CASE rec.op = "DEL"
  <2>1. d = IF cur # {} /\ \E e \in cur : rec.ref >= e.ref THEN "recycle" ELSE "skip"
    BY <1>1, Zenon DEF Decision
  <2>2. (\E e \in cur : rec.ref >= e.ref) => cur # {}
    OBVIOUS
  <2>3. (~\E e \in cur : rec.ref >= e.ref) => \A e \in cur : ~(rec.ref >= e.ref)
    OBVIOUS
  <2> QED BY <1>1, <2>1, <2>2, <2>3
<1>2. CASE rec.op = "ADD"
  <2> DEFINE newer == \E e \in cur : rec.ref > e.ref
             same == \E e \in cur : e.file = rec.file
  <2>1. d = CASE used /\ newer /\ same -> "update"
              [] used /\ ~(newer /\ same) -> "skip"
              [] ~used /\ cur # {} /\ ~newer -> "skip"
              [] ~used /\ cur # {} /\ newer -> "replace"
              [] ~used /\ cur = {} -> "load"
    BY <1>2 DEF Decision
  <2>2. newer = FALSE
    BY <1>2
  <2> HIDE DEF newer, same
  <2>3. (d = "skip") \/ (d = "load" /\ ~used /\ cur = {})
    BY <2>1, <2>2
  <2> QED BY <1>2, <2>3
<1> QED
  BY <1>1, <1>2

\* storeUfsDirRebuildFromSwapLog skips a record, forgets the entry o it deletes,
\* or loads an object x.
Skipped(rec) ==
    /\ UNCHANGED <<ents, newlog>>
    /\ rec.op = "DEL" => \A e \in Public(rec.key) : ~(rec.ref >= e.ref)

Forgotten(rec, o) ==
    /\ rec.op = "DEL" /\ o \in ents /\ o.pub /\ o.key = rec.key /\ rec.ref >= o.ref
    /\ newlog' = newlog \o RecsOf("DEL", {o})
    /\ \/ Locked(o) /\ ents' = (ents \ {o}) \cup {[o EXCEPT !.pub = FALSE]}
       \/ ~Locked(o) /\ ents' = ents \ {o}

Loaded(rec, x) ==
    /\ rec.op = "ADD" /\ rec.file \notin bits /\ Public(rec.key) = {}
    /\ x = Entry(rec.key, rec.file, rec.ref, rec.ts, "done")
    /\ ents' = ents \cup {x} /\ newlog' = newlog \o <<rec>>

\* The record that is read next.
LEMMA HeadParts ==
    ASSUME IInv, todo # <<>>
    PROVE  /\ Head(todo) \in RecordsAt(now) /\ Head(todo) = todo[1] /\ 1 \in DOMAIN todo
           /\ Tail(todo) \in Seq(RecordsAt(now)) /\ \A j \in DOMAIN todo : ~(j < 1)
           /\ Head(todo).op \in {"ADD", "DEL", "FILE"} /\ Head(todo).ref \in Nat
<1>1. todo \in Seq(RecordsAt(now)) /\ now \in Nat
  BY StoredParts
<1>2. \A r \in RecordsAt(now) : r.op \in {"ADD", "DEL", "FILE"} /\ r.ref \in Nat
  BY <1>1 DEF RecordsAt
<1> HIDE DEF RecordsAt
<1>3. /\ Tail(todo) \in Seq(RecordsAt(now)) /\ DOMAIN todo = 1..Len(todo) /\ Len(todo) \in Nat
      /\ Len(todo) >= 1 /\ Head(todo) = todo[1]
  BY <1>1, TailIndex
<1>4. todo[1] \in RecordsAt(now)
  BY <1>1, <1>3
<1> QED BY <1>2, <1>3, <1>4

LEMMA RecordMeans ==
    ASSUME IInv, LogInv, RebuildRecord
    PROVE  \/ Skipped(Head(todo))
           \/ \E o : Forgotten(Head(todo), o)
           \/ \E x : Loaded(Head(todo), x)
<1> DEFINE rec == Head(todo)
           cur == Public(rec.key)
           used == rec.file \in bits
           d == Decision(rec, cur, used)
           load == d \in {"load", "replace"}
           out == IF d \in {"recycle", "replace"} THEN cur ELSE {}
           free == Recycled(out)
           x == Entry(rec.key, rec.file, rec.ref, rec.ts, "done")
           new == IF load THEN {x}
                  ELSE IF d = "update" THEN {[e EXCEPT !.ref = rec.ts, !.ts = rec.ts] : e \in cur}
                  ELSE cur \ out
<1>0. /\ proc = "rebuilding" /\ todo # <<>> /\ rec.op # "FILE"
      /\ ents' = (ents \ cur) \cup {[e EXCEPT !.pub = FALSE] : e \in out \ free} \cup new
      /\ newlog' = newlog \o RecsOf("DEL", out) \o (IF load THEN <<rec>> ELSE <<>>)
  BY DEF RebuildRecord
<1>1. /\ rec \in RecordsAt(now) /\ rec = todo[1] /\ 1 \in DOMAIN todo
      /\ \A j \in DOMAIN todo : ~(j < 1)
  BY <1>0, HeadParts
<1>2. rec.op \in {"ADD", "DEL"} /\ rec.ref \in Nat
  BY <1>0, HeadParts
<1>3. /\ cur \subseteq ents /\ \A e \in cur : e.pub /\ e.key = rec.key /\ e.ref \in Nat
      /\ cur = {} \/ \E o \in ents : o.pub /\ o.key = rec.key /\ cur = {o}
  BY PublicOne, StoredParts
<1>4. rec.op = "ADD" => \A e \in cur : e.ref >= rec.ref
  BY <1>0, <1>1, <1>3 DEF LogInv, Ahead
<1>5. rec.op = "ADD" => \A e \in cur : ~(rec.ref > e.ref)
  BY <1>2, <1>3, <1>4
<1>n. newlog \in Seq(RecordsAt(now))
  BY StoredParts
<1>6. \/ d = "skip" /\ (rec.op = "DEL" => \A e \in cur : ~(rec.ref >= e.ref))
      \/ d = "recycle" /\ rec.op = "DEL" /\ \E e \in cur : rec.ref >= e.ref
      \/ d = "load" /\ rec.op = "ADD" /\ ~used /\ cur = {}
  <2>1. used \in BOOLEAN
    OBVIOUS
  <2> HIDE DEF rec, cur, used
  <2> QED BY <1>2, <1>5, <2>1, DecisionMeans
<1>7. CASE d = "skip" /\ (rec.op = "DEL" => \A e \in cur : ~(rec.ref >= e.ref))
  <2>1. out = {} /\ new = cur /\ ~load
    BY <1>7
  <2> HIDE DEF out, new, load, cur, rec
  <2>2. ents' = ents
    BY <1>0, <1>3, <2>1
  <2>3. newlog' = newlog
    <3>1. RecsOf("DEL", out) = <<>>
      BY <2>1, RecsNone
    <3>2. newlog' = newlog \o <<>> \o <<>>
      BY <1>0, <2>1, <3>1
    <3> QED BY <3>2, <1>n
  <2> QED BY <1>7, <2>2, <2>3 DEF Skipped, cur, rec
<1>8. CASE d = "recycle" /\ rec.op = "DEL" /\ \E e \in cur : rec.ref >= e.ref
  <2>1. out = cur /\ new = {} /\ ~load
    BY <1>8
  <2>2. PICK o \in ents : o.pub /\ o.key = rec.key /\ cur = {o}
    BY <1>3, <1>8
  <2> HIDE DEF out, new, load, cur, rec
  <2>3. newlog' = newlog \o RecsOf("DEL", {o})
    <3>1. newlog' = newlog \o RecsOf("DEL", {o}) \o <<>>
      BY <1>0, <2>1, <2>2
    <3>2. RecsOf("DEL", {o}) \in Seq(RecordsAt(now))
      BY EntsRecs
    <3>3. newlog \o RecsOf("DEL", {o}) \in Seq(RecordsAt(now))
      BY <1>n, <3>2, ConcatProperties
    <3> QED BY <3>1, <3>3
  <2>4. CASE Locked(o)
    <3>1. free = {}
      BY <2>1, <2>2, <2>4 DEF Recycled
    <3>2. ents' = (ents \ {o}) \cup {[o EXCEPT !.pub = FALSE]}
      <4> HIDE DEF free
      <4> QED BY <1>0, <2>1, <2>2, <3>1
    <3> QED BY <1>8, <2>2, <2>3, <2>4, <3>2 DEF Forgotten, rec
  <2>5. CASE ~Locked(o)
    <3>1. free = {o}
      BY <2>1, <2>2, <2>5 DEF Recycled
    <3>2. ents' = ents \ {o}
      <4> HIDE DEF free
      <4> QED BY <1>0, <2>1, <2>2, <3>1
    <3> QED BY <1>8, <2>2, <2>3, <2>5, <3>2 DEF Forgotten, rec
  <2> QED BY <2>4, <2>5
<1>9. CASE d = "load" /\ rec.op = "ADD" /\ ~used /\ cur = {}
  <2>1. out = {} /\ new = {x} /\ load
    BY <1>9
  <2> HIDE DEF out, new, load, x, rec, cur
  <2>2. ents' = ents \cup {x}
    BY <1>0, <1>9, <2>1
  <2>3. newlog' = newlog \o <<rec>>
    <3>1. RecsOf("DEL", out) = <<>>
      BY <2>1, RecsNone
    <3>2. newlog' = newlog \o <<>> \o <<rec>>
      BY <1>0, <2>1, <3>1
    <3> QED BY <3>2, <1>n
  <2>4. Loaded(rec, x)
    BY <1>9, <2>2, <2>3 DEF Loaded, x, cur
  <2> QED BY <2>4 DEF rec
<1> QED BY <1>6, <1>7, <1>8, <1>9
\* A step that reads a record.
LEMMA ReadLogInv ==
    ASSUME IInv, LogInv, proc = "rebuilding", todo # <<>>, todo' = Tail(todo),
           UNCHANGED <<proc, log>>, Worth(newlog', ents'), Ahead(Tail(todo), ents')
    PROVE  LogInv'
<1>1. Ordered(Tail(todo))
  BY StoredParts, OrderedTail DEF LogInv
<1>2. OpenLog' = newlog'
  BY DEF OpenLog
<1> QED BY <1>1, <1>2 DEF LogInv

\* storeUfsDirRebuildFromSwapLog
LEMMA RebuildRecordLog ==
    ASSUME IInv, LogInv, RebuildRecord
    PROVE  LogInv'
<1> DEFINE rec == Head(todo)
<1>0. proc = "rebuilding" /\ todo # <<>> /\ todo' = Tail(todo) /\ UNCHANGED <<proc, log>>
  BY DEF RebuildRecord
<1>1. /\ Worth(newlog, ents) /\ Ahead(todo, ents) /\ Ordered(todo)
      /\ newlog \in Seq(RecordsAt(now)) /\ todo \in Seq(RecordsAt(now))
  BY <1>0, StoredParts DEF LogInv, OpenLog
<1>2. rec \in RecordsAt(now) /\ rec.ref \in Nat
  BY <1>0, HeadParts
<1>3. CASE Skipped(rec)
  <2>1. UNCHANGED <<ents, newlog>>
    BY <1>3 DEF Skipped
  <2>2. \A x \in ents : x.pub => ~Deletes(rec, x.key, x.ref)
    BY <1>3 DEF Skipped, Deletes, Public
  <2> HIDE DEF rec
  <2>3. Ahead(Tail(todo), ents)
    BY <1>0, <1>1, <2>2, AheadTail DEF rec
  <2> QED BY <1>0, <1>1, <2>1, <2>3, ReadLogInv
<1>4. CASE \E o : Forgotten(rec, o)
  <2>1. PICK o : Forgotten(rec, o)
    BY <1>4
  <2> DEFINE r == RecOf("DEL", o)
             y == [o EXCEPT !.pub = FALSE]
  <2>2. /\ o \in ents /\ o.pub /\ o.key = rec.key /\ rec.op = "DEL" /\ newlog' = newlog \o <<r>>
        /\ ents' = (ents \ {o}) \cup {y} \/ ents' = ents \ {o}
    BY <2>1, RecsOne DEF Forgotten
  <2>3. o \in EntriesAt(now)
    BY <2>2, EntryOK
  <2>4. ~y.pub
    BY <2>3 DEF EntriesAt
  <2>5. r \in RecordsAt(now) /\ r.op = "DEL" /\ r.key = o.key /\ r.ref = o.ref
    BY <2>3 DEF RecOf, RecordsAt, EntriesAt
  <2> HIDE DEF r, y, rec
  <2>6. \A e \in ents : e.pub /\ e.key = o.key => e = o
    BY <2>2, StoredParts
  <2>7. Stored(ents') = {e \in Stored(ents) : e.key # o.key}
    BY <2>2, <2>4, <2>6 DEF Stored
  <2>8. Worth(newlog', ents')
    <3>1. o.ref \in Nat /\ \A e \in Stored(ents) : e.key = o.key => e = o
      BY <2>2, <2>6, StoredParts
    <3>2. Worth(newlog \o <<r>>, ents')
      BY <1>1, <2>5, <2>7, <3>1, WorthDel
    <3> QED BY <2>2, <3>2
  <2>9. \A x \in ents' : x.pub => x \in ents /\ ~Deletes(rec, x.key, x.ref)
    BY <2>2, <2>4, <2>6 DEF Deletes
  <2>10. Ahead(Tail(todo), ents')
    BY <1>0, <1>1, <2>9, AheadTail DEF rec
  <2> QED BY <1>0, <2>8, <2>10, ReadLogInv
<1>5. CASE \E x : Loaded(rec, x)
  <2>1. PICK x : Loaded(rec, x)
    BY <1>5
  <2>2. /\ rec.op = "ADD" /\ rec.file \notin bits /\ Public(rec.key) = {}
        /\ ents' = ents \cup {x} /\ newlog' = newlog \o <<rec>>
    BY <2>1 DEF Loaded
  <2>3. x.pub = TRUE /\ x.st = "done" /\ x.key = rec.key /\ x.file = rec.file /\ x.ref = rec.ref
    BY <2>1 DEF Loaded, Entry
  <2> HIDE DEF rec
  <2>4. Stored(ents') = Stored(ents) \cup {x}
    BY <2>2, <2>3 DEF Stored
  <2>5. \A e \in Stored(ents) : e.key # rec.key /\ e.file # rec.file
    BY <2>2, StoredParts DEF Stored, Public
  <2>6. Worth(newlog \o <<rec>>, ents')
    BY <1>1, <1>2, <2>2, <2>3, <2>4, <2>5, WorthAdd
  <2>7. \A e \in ents : ~Deletes(rec, e.key, e.ref)
    BY <2>2 DEF Deletes
  <2>8. Ahead(Tail(todo), ents')
    BY <1>0, <1>1, <2>2, <2>3, <2>7, AheadTail DEF rec
  <2> QED BY <1>0, <2>2, <2>6, <2>8, ReadLogInv
<1> QED BY <1>3, <1>4, <1>5, RecordMeans

\* storeUfsDirRebuildFromDirectory
LEMMA RebuildFileLog ==
    ASSUME IInv, LogInv, RebuildFile
    PROVE  LogInv'
<1> DEFINE rec == Head(todo)
           cur == Public(rec.key)
           x == Entry(rec.key, rec.file, rec.ref, rec.ts, "done")
           r == [rec EXCEPT !.op = "ADD"]
           E == ReleasedAll(cur)
<1>0. /\ proc = "rebuilding" /\ todo # <<>> /\ rec.op = "FILE" /\ todo' = Tail(todo)
      /\ \/ UNCHANGED <<ents, newlog>>
         \/ /\ rec.file \notin bits /\ ents' = E \cup {x}
            /\ newlog' = newlog \o RecsOf("DEL", cur) \o <<r>>
      /\ UNCHANGED <<proc, log>>
  BY DEF RebuildFile
<1>1. /\ Worth(newlog, ents) /\ Ahead(todo, ents) /\ Ordered(todo) /\ OpenLog = newlog
      /\ newlog \in Seq(RecordsAt(now)) /\ todo \in Seq(RecordsAt(now))
  BY <1>0, StoredParts DEF LogInv, OpenLog
<1>2. rec \in RecordsAt(now) /\ rec.ref \in Nat
  BY <1>0, HeadParts
<1>3. \A e \in ents : ~Deletes(rec, e.key, e.ref)
  BY <1>0 DEF Deletes
<1>4. CASE UNCHANGED <<ents, newlog>>
  <2> HIDE DEF rec
  <2>1. Ahead(Tail(todo), ents)
    BY <1>0, <1>1, <1>3, AheadTail DEF rec
  <2> QED BY <1>0, <1>1, <1>4, <2>1, ReadLogInv
<1>5. CASE /\ rec.file \notin bits /\ ents' = E \cup {x}
           /\ newlog' = newlog \o RecsOf("DEL", cur) \o <<r>>
  <2>1. x.pub = TRUE /\ x.st = "done" /\ x.key = rec.key /\ x.file = rec.file /\ x.ref = rec.ref
    BY DEF Entry
  <2>2. /\ r \in RecordsAt(now) /\ r.op = "ADD" /\ r.key = rec.key /\ r.file = rec.file
        /\ r.ref = rec.ref
    <3> HIDE DEF rec
    <3> QED BY <1>2 DEF RecordsAt
  <2>3. /\ cur \subseteq ents
        /\ cur = {} \/ \E o \in ents : o.pub /\ cur = {o}
        /\ \A e \in ents \ cur : e.pub => e.key # rec.key
    BY PublicOne DEF Public
  <2> HIDE DEF rec, cur, x, r
  <2>4. Worth(newlog \o RecsOf("DEL", cur), E) /\ \A y \in E : y.pub => y \in ents
    BY <1>0, <1>1, <2>3, ReleasedLog
  <2>5. \A y \in E : y.pub => y \in ents \ cur
    BY <1>0, <2>3, ReleasedBooks
  <2> HIDE DEF E
  <2>6. Stored(E \cup {x}) = Stored(E) \cup {x}
    BY <2>1 DEF Stored
  <2>7. \A e \in Stored(E) : e.key # r.key /\ e.file # r.file
    BY <1>5, <2>2, <2>3, <2>5, StoredParts DEF Stored
  <2> DEFINE l == newlog \o RecsOf("DEL", cur)
  <2>8. l \in Seq(RecordsAt(now))
    <3>1. RecsOf("DEL", cur) \in Seq(RecordsAt(now))
      BY <2>3, EntsRecs
    <3> QED BY <1>1, <3>1, ConcatProperties
  <2>9. Worth(l \o <<r>>, E \cup {x})
    <3> DEFINE H == E \cup {x}
    <3>1. Stored(H) = Stored(E) \cup {x} /\ Worth(l, E)
      BY <2>6, <2>4
    <3> HIDE DEF l, H
    <3>2. Worth(l \o <<r>>, H)
      BY <1>2, <2>1, <2>2, <2>7, <2>8, <3>1, WorthAdd
    <3> QED BY <3>2 DEF H
  <2>10. Ahead(Tail(todo), ents')
    <3>1. \A y \in ents' : y.pub => y \in ents \/ y = x
      BY <1>5, <2>4
    <3> QED BY <1>0, <1>1, <1>3, <2>1, <3>1, AheadTail DEF rec
  <2> QED BY <1>0, <1>5, <2>9, <2>10, ReadLogInv
<1> QED BY <1>0, <1>4, <1>5

\* Every action keeps the log in order.
LEMMA NextLogInv == IInv /\ LogInv /\ [Next]_vars => LogInv'
<1> SUFFICES ASSUME IInv, LogInv, [Next]_vars PROVE LogInv'
  OBVIOUS
<1>1. CASE UNCHANGED vars
  BY <1>1, LogInvKept DEF vars
<1>2. CASE \E k \in Keys, f \in Files : Create(k, f)
  BY <1>2, CreateLog
<1>3. CASE \E f \in Files : CreateFails(f)
  BY <1>3, LogInvKept DEF CreateFails
<1>4. CASE UnlinkdRuns \/ \E f \in Files : DirClean(f)
  BY <1>4, LogInvKept DEF UnlinkdRuns, DirClean
<1>5. CASE \E e \in ents : Release(e) \/ SwapOutDone(e) \/ WriteError(e)
  BY <1>5, ReleaseLog, SwapOutDoneLog, ErrorLog
<1>6. CASE \E e \in ents : Hit(e) \/ Unlock(e) \/ LateRelease(e)
  BY <1>6, HitLog, UnlockLog
<1>7. CASE Rotate \/ RebuildComplete
  BY <1>7, LogStepLog
<1>8. CASE Crash \/ Shutdown
  BY <1>8, DownLog
<1>9. CASE \E scan \in BOOLEAN : Start(scan)
  BY <1>9, StartLog
<1>10. CASE RebuildRecord \/ RebuildFile
  BY <1>10, RebuildRecordLog, RebuildFileLog
<1> QED
  BY <1>1, <1>2, <1>3, <1>4, <1>5, <1>6, <1>7, <1>8, <1>9, <1>10 DEF Next

\* At the first start there is nothing to be read.
LEMMA InitLogInv == Init => LogInv
<1>1. Ordered(<<>>) /\ Plain(<<>>)
  BY WorthEmpty DEF Worth
<1> QED BY <1>1 DEF Init, LogInv

\* The log in order is the two properties.
LEMMA LogInvMeans == IInv /\ LogInv => LogReplaysIndex /\ NoNewerRecord
<1> SUFFICES ASSUME IInv, LogInv PROVE LogReplaysIndex /\ NoNewerRecord
  OBVIOUS
<1>1. LogReplaysIndex
  <2> SUFFICES ASSUME proc = "up"
               PROVE  {<<e.key, e.file>> : e \in Replay(log)}
                         = {<<e.key, e.file>> : e \in {x \in ents : x.pub /\ x.st = "done"}}
    BY DEF LogReplaysIndex
  <2>1. Worth(log, ents)
    BY DEF LogInv, OpenLog
  <2>2. /\ \A r \in Replay(log) : \E e \in Stored(ents) : r.key = e.key /\ r.file = e.file
        /\ \A e \in Stored(ents) : \E r \in Replay(log) : r.key = e.key /\ r.file = e.file
    BY <2>1 DEF Worth, Matches
  <2>3. {<<e.key, e.file>> : e \in Replay(log)} = {<<e.key, e.file>> : e \in Stored(ents)}
    BY <2>2
  <2> QED BY <2>3 DEF Stored
<1>2. NoNewerRecord
  <2> SUFFICES ASSUME proc = "rebuilding", todo # <<>>, Head(todo).op = "ADD",
                      NEW e \in Public(Head(todo).key)
               PROVE  e.ref >= Head(todo).ref
    BY DEF NoNewerRecord
  <2>1. e \in ents /\ e.pub /\ e.key = Head(todo).key
    BY DEF Public
  <2> QED BY <2>1, HeadParts DEF LogInv, Ahead
<1> QED BY <1>1, <1>2

\* swap.state is worth the index, in every run of the cache_dir.
THEOREM LogInvariant == Spec => [](IInv /\ LogInv)
<1>1. Init => LogInv
  BY InitLogInv
<1>2. IInv /\ LogInv /\ [Next]_vars => LogInv'
  BY NextLogInv
<1> QED
  BY <1>1, <1>2, CacheDirInvariant, PTL DEF Spec

\* Whenever the process dies outside a rebuild, what storeUfsDirRebuildFromSwapLog
\* makes of swap.state is every public object that was on disk, with its file,
\* and no other: after any releases, rotations, crashes and rebuilds before.
THEOREM LogAlwaysReplays == Spec => []LogReplaysIndex
BY LogInvariant, LogInvMeans, PTL

\* An ADD record that is read is never newer than the entry its key already has:
\* the branches "newer swaplog entry" and "update meta" of
\* storeUfsDirRebuildFromSwapLog are not taken.
THEOREM RecordsNeverNewer == Spec => []NoNewerRecord
BY LogInvariant, LogInvMeans, PTL
-----------------------------------------------------------------------------
(***************************************************************************)
(* The files of the objects stored.                                        *)
(***************************************************************************)

\* File f of disk d is gone, or holds the whole object of key k.
Own(d, k, f) == d[f] = Gone \/ (d[f].key = k /\ d[f].whole)

\* Entry e was made or used in this life of the process, not in that of the log l.
Newer(l, e) == \A i \in DOMAIN l : l[i].ref < e.ref

\* The number of a file still named in the log is in use again.
Taken(l, E, f) == \E e \in E : e.file = f /\ (e.pub => Newer(l, e))

Doomed(l, k, t) == \E j \in DOMAIN l : Deletes(l[j], k, t)

\* A file that is being written belongs to its writer.
Writers(E, d) == \A e \in E : e.st = "writing" => d[e.file] = Gone \/ d[e.file].key = e.key

\* With the records l still to be read: an object stored has its file or is
\* going to be deleted, and a record names a file with its object, is undone
\* later on, or names a file that an entry of this life holds.
Sound(l, E, d, t) ==
    /\ Plain(l) /\ \A i \in DOMAIN l : l[i].ref < t
    /\ \A e \in E : e.pub /\ e.st = "writing" => Newer(l, e)
    /\ \A e \in Stored(E) : Own(d, e.key, e.file) \/ Doomed(l, e.key, e.ref)
    /\ \A i \in DOMAIN l : l[i].op = "ADD" =>
          Own(d, l[i].key, l[i].file) \/ Undone(l, i) \/ Taken(l, E, l[i].file)

\* A log that was left behind.
Lasting(l, d) ==
    \A i \in DOMAIN l : l[i].op = "ADD" => Own(d, l[i].key, l[i].file) \/ Undone(l, i)

FileInv ==
    /\ Writers(ents, disk)
    /\ proc = "up" => todo = <<>>
    /\ ~rough => /\ proc = "down" => Lasting(log, disk)
                 /\ proc # "down" => Sound(todo, ents, disk, now)

\* A step that reads no record.
LEMMA SoundKept ==
    ASSUME NEW l, NEW E, NEW F, NEW d, NEW c, NEW t \in Nat, NEW u \in Nat, t <= u,
           l \in Seq(RecordsAt(t)), Sound(l, E, d, t),
           \A x \in F : x.pub /\ x.st = "writing" => Newer(l, x),
           \A x \in Stored(F) : Own(c, x.key, x.file) \/ Doomed(l, x.key, x.ref),
           \A i \in DOMAIN l : l[i].op = "ADD" =>
              /\ Own(d, l[i].key, l[i].file) =>
                    Own(c, l[i].key, l[i].file) \/ Taken(l, F, l[i].file)
              /\ Taken(l, E, l[i].file) => Taken(l, F, l[i].file)
    PROVE  Sound(l, F, c, u)
<1>1. \A i \in DOMAIN l : l[i].ref \in Int
  <2>1. \A r \in RecordsAt(t) : r.ref \in Int
    BY DEF RecordsAt
  <2> HIDE DEF RecordsAt
  <2> QED BY <2>1
<1>2. \A i \in DOMAIN l : l[i].ref < u
  <2>1. \A i \in DOMAIN l : l[i].ref < t
    BY DEF Sound
  <2> QED BY <1>1, <2>1
<1> QED BY <1>2 DEF Sound

\* A record is read.
LEMMA SoundTail ==
    ASSUME NEW S, NEW l \in Seq(S), l # <<>>, NEW E, NEW F, NEW d, NEW t, Sound(l, E, d, t),
           \A x \in F : x.pub /\ x.st = "writing" => x \in E,
           \A x \in Stored(F) :
              \/ x \in E /\ ~Deletes(Head(l), x.key, x.ref)
              \/ /\ Head(l).op = "ADD" /\ x.key = Head(l).key /\ x.file = Head(l).file
                 /\ x.ref = Head(l).ref /\ ~Taken(l, E, x.file),
           \A e \in E : (e.pub => Newer(l, e)) => e \in F
    PROVE  Sound(Tail(l), F, d, t)
<1> DEFINE m == Tail(l)
<1>1. /\ Len(l) \in Nat /\ Len(l) >= 1 /\ DOMAIN l = 1..Len(l) /\ DOMAIN m = 1..(Len(l) - 1)
      /\ Head(l) = l[1]
      /\ \A i \in DOMAIN m : i \in Nat /\ i + 1 \in DOMAIN l /\ m[i] = l[i + 1]
      /\ \A i \in DOMAIN l : i > 1 => i - 1 \in DOMAIN m /\ m[i - 1] = l[i]
  BY TailIndex
<1> HIDE DEF m
<1>2. 1 \in DOMAIN l
  BY <1>1
<1>3. \A e : Newer(l, e) => Newer(m, e)
  BY <1>1 DEF Newer
<1>4. Plain(m) /\ \A i \in DOMAIN m : m[i].ref < t
  BY <1>1 DEF Sound, Plain
<1>5. \A e \in F : e.pub /\ e.st = "writing" => Newer(m, e)
  BY <1>3 DEF Sound
<1>6. ASSUME NEW j \in DOMAIN l, j > 1, NEW k, NEW s, Deletes(l[j], k, s)
      PROVE  Doomed(m, k, s)
  BY <1>1, <1>6 DEF Doomed
<1>7. ASSUME NEW x \in Stored(F) PROVE Own(d, x.key, x.file) \/ Doomed(m, x.key, x.ref)
  <2>1. CASE x \in E /\ ~Deletes(Head(l), x.key, x.ref)
    <3>1. x \in Stored(E)
      BY <2>1, <1>7 DEF Stored
    <3>2. CASE Doomed(l, x.key, x.ref)
      <4>1. PICK j \in DOMAIN l : Deletes(l[j], x.key, x.ref)
        BY <3>2 DEF Doomed
      <4>2. j > 1
        BY <1>1, <2>1, <4>1
      <4> QED BY <1>6, <4>1, <4>2
    <3> QED BY <3>1, <3>2 DEF Sound
  <2>2. CASE /\ Head(l).op = "ADD" /\ x.key = Head(l).key /\ x.file = Head(l).file
             /\ x.ref = Head(l).ref /\ ~Taken(l, E, x.file)
    <3>1. Own(d, x.key, x.file) \/ Undone(l, 1)
      BY <1>1, <1>2, <2>2 DEF Sound
    <3>2. CASE Undone(l, 1)
      <4>1. PICK j \in DOMAIN l : j > 1 /\ Deletes(l[j], l[1].key, l[1].ref)
        BY <3>2 DEF Undone
      <4> QED BY <1>1, <1>6, <2>2, <4>1
    <3> QED BY <3>1, <3>2
  <2> QED BY <1>7, <2>1, <2>2
<1>8. ASSUME NEW i \in DOMAIN m, m[i].op = "ADD"
      PROVE  Own(d, m[i].key, m[i].file) \/ Undone(m, i) \/ Taken(m, F, m[i].file)
  <2> DEFINE p == i + 1
  <2>1. p \in DOMAIN l /\ m[i] = l[p] /\ i \in Nat
    BY <1>1
  <2>2. CASE Undone(l, p)
    <3>1. PICK j \in DOMAIN l : j > p /\ Deletes(l[j], l[p].key, l[p].ref)
      BY <2>2 DEF Undone
    <3>2. j - 1 \in DOMAIN m /\ m[j - 1] = l[j] /\ j - 1 > i
      BY <1>1, <2>1, <3>1
    <3> QED BY <2>1, <3>1, <3>2 DEF Undone
  <2> HIDE DEF p
  <2>3. CASE Taken(l, E, l[p].file)
    <3>1. PICK e \in E : e.file = l[p].file /\ (e.pub => Newer(l, e))
      BY <2>3 DEF Taken
    <3>2. e \in F /\ (e.pub => Newer(m, e))
      BY <1>3, <3>1
    <3> QED BY <2>1, <3>1, <3>2 DEF Taken
  <2> QED BY <1>8, <2>1, <2>2, <2>3 DEF Sound
<1>9. Sound(m, F, d, t)
  BY <1>4, <1>5, <1>7, <1>8 DEF Sound
<1> QED BY <1>9 DEF m

\* A log that is worth the index, whose objects have their files, lasts.
LEMMA WorthLasts ==
    ASSUME NEW l, NEW E, NEW d, Worth(l, E), \A e \in Stored(E) : Own(d, e.key, e.file)
    PROVE  Lasting(l, d)
<1> SUFFICES ASSUME NEW i \in DOMAIN l, l[i].op = "ADD", ~Undone(l, i)
             PROVE  Own(d, l[i].key, l[i].file)
  BY DEF Lasting
<1>1. PICK e \in Stored(E) : Matches(l[i], e)
  BY DEF Worth
<1> QED BY <1>1 DEF Matches

\* A file whose contents are the same.
LEMMA OwnOther ==
    ASSUME NEW c, NEW d, NEW k, NEW f, c[f] = d[f]
    PROVE  Own(d, k, f) => Own(c, k, f)
BY Zenon DEF Own
-----------------------------------------------------------------------------
(***************************************************************************)
(* Every step keeps the files.                                             *)
(***************************************************************************)

\* Once the process is up nothing is left to read.
LEMMA NothingLeft ==
    ASSUME IInv, FileInv, proc # "down", proc # "rebuilding"
    PROVE  proc = "up" /\ todo = <<>> /\ DOMAIN todo = {}
<1>1. proc = "up"
  BY DEF IInv, DiskOK
<1> QED BY <1>1 DEF FileInv

\* A step of a process that runs on and reads no record.
LEMMA StepFileInv ==
    ASSUME IInv, FileInv, proc # "down", UNCHANGED <<proc, todo>>, ~rough' => ~rough,
           now' \in Nat, now <= now', Writers(ents', disk'),
           ~rough' =>
              /\ \A x \in ents' : x.pub /\ x.st = "writing" => Newer(todo, x)
              /\ \A x \in Stored(ents') : Own(disk', x.key, x.file) \/ Doomed(todo, x.key, x.ref)
              /\ \A i \in DOMAIN todo : todo[i].op = "ADD" =>
                    /\ Own(disk, todo[i].key, todo[i].file) =>
                          Own(disk', todo[i].key, todo[i].file) \/ Taken(todo, ents', todo[i].file)
                    /\ Taken(todo, ents, todo[i].file) => Taken(todo, ents', todo[i].file)
    PROVE  FileInv'
<1>1. ASSUME ~rough' PROVE Sound(todo, ents', disk', now')
  <2>1. Sound(todo, ents, disk, now)
    BY <1>1 DEF FileInv
  <2>2. now \in Nat /\ todo \in Seq(RecordsAt(now))
    BY StoredParts
  <2>3. /\ \A x \in ents' : x.pub /\ x.st = "writing" => Newer(todo, x)
        /\ \A x \in Stored(ents') : Own(disk', x.key, x.file) \/ Doomed(todo, x.key, x.ref)
        /\ \A i \in DOMAIN todo : todo[i].op = "ADD" =>
              /\ Own(disk, todo[i].key, todo[i].file) =>
                    Own(disk', todo[i].key, todo[i].file) \/ Taken(todo, ents', todo[i].file)
              /\ Taken(todo, ents, todo[i].file) => Taken(todo, ents', todo[i].file)
    BY <1>1
  <2> QED BY <2>1, <2>2, <2>3, SoundKept
<1> QED BY <1>1 DEF FileInv

\* What Sound says, at hand.
LEMMA SoundParts ==
    ASSUME IInv, FileInv, proc # "down", ~rough
    PROVE  /\ Sound(todo, ents, disk, now) /\ \A i \in DOMAIN todo : todo[i].ref < now
           /\ \A e \in ents : e.pub /\ e.st = "writing" => Newer(todo, e)
           /\ \A e \in Stored(ents) : Own(disk, e.key, e.file) \/ Doomed(todo, e.key, e.ref)
BY DEF FileInv, Sound

\* An entry of the present is newer than what is left to read.
LEMMA NowNewer ==
    ASSUME IInv, FileInv, proc # "down", ~rough, NEW x, x.ref \in Nat, x.ref >= now
    PROVE  Newer(todo, x)
<1>1. \A i \in DOMAIN todo : todo[i].ref < now /\ todo[i].ref \in Nat
  <2>1. todo \in Seq(RecordsAt(now)) /\ now \in Nat
    BY StoredParts
  <2>2. \A r \in RecordsAt(now) : r.ref \in Nat
    BY <2>1 DEF RecordsAt
  <2> HIDE DEF RecordsAt
  <2> QED BY <2>1, <2>2, SoundParts
<1>2. now \in Nat
  BY StoredParts
<1> QED BY <1>1, <1>2 DEF Newer

\* A step that changes one entry, keeps its key, file and reference, and no file.
LEMMA ChangeFile ==
    ASSUME IInv, FileInv, proc # "down", UNCHANGED <<proc, todo, disk, now>>, ~rough' => ~rough,
           NEW e \in ents, NEW x, ents' = (ents \ {e}) \cup {x},
           x.key = e.key, x.file = e.file, x.ref = e.ref, x.st = e.st, x.pub => e.pub
    PROVE  FileInv'
<1>1. Writers(ents', disk')
  BY DEF FileInv, Writers
<1>2. ASSUME ~rough'
      PROVE  /\ \A y \in ents' : y.pub /\ y.st = "writing" => Newer(todo, y)
             /\ \A y \in Stored(ents') : Own(disk', y.key, y.file) \/ Doomed(todo, y.key, y.ref)
  <2>1. Newer(todo, x) <=> Newer(todo, e)
    BY DEF Newer
  <2>2. x \in Stored(ents') => e \in Stored(ents)
    BY DEF Stored
  <2>3. \A y : y # x /\ y \in Stored(ents') => y \in Stored(ents)
    BY DEF Stored
  <2>4. \A y \in Stored(ents) : Own(disk, y.key, y.file) \/ Doomed(todo, y.key, y.ref)
    BY <1>2, SoundParts
  <2>5. \A y \in ents' : y.pub /\ y.st = "writing" => Newer(todo, y)
    BY <1>2, <2>1, SoundParts
  <2> QED BY <2>2, <2>3, <2>4, <2>5
<1>3. \A i \in DOMAIN todo : \A f : Taken(todo, ents, f) => Taken(todo, ents', f)
  <2>1. Newer(todo, e) => Newer(todo, x)
    BY DEF Newer
  <2> QED BY <2>1 DEF Taken
<1>4. now' \in Nat /\ now <= now'
  BY StoredParts
<1> QED BY <1>1, <1>2, <1>3, <1>4, StepFileInv

\* A step that drops an entry while nothing is left to read.
LEMMA DropFile ==
    ASSUME IInv, FileInv, proc # "down", proc # "rebuilding", UNCHANGED <<proc, todo, disk, now>>,
           ~rough' => ~rough, ents' \subseteq ents
    PROVE  FileInv'
<1>1. Writers(ents', disk')
  BY DEF FileInv, Writers
<1>2. ASSUME ~rough'
      PROVE  /\ \A y \in ents' : y.pub /\ y.st = "writing" => Newer(todo, y)
             /\ \A y \in Stored(ents') : Own(disk', y.key, y.file) \/ Doomed(todo, y.key, y.ref)
  BY <1>2, SoundParts DEF Stored
<1>3. DOMAIN todo = {}
  BY NothingLeft
<1>4. now' \in Nat /\ now <= now'
  BY StoredParts
<1> QED BY <1>1, <1>2, <1>3, <1>4, StepFileInv

\* storeUnlockObject and storeLateRelease
LEMMA UnlockFile ==
    ASSUME IInv, FileInv, NEW e \in ents, Unlock(e) \/ LateRelease(e)
    PROVE  FileInv'
<1> DEFINE x == [e EXCEPT !.held = FALSE]
<1>0. /\ proc # "down" /\ UNCHANGED <<proc, todo, disk, now, rough>>
      /\ \/ ents' = (ents \ {e}) \cup {x}
         \/ proc # "rebuilding" /\ ents' = ents \ {e}
  BY EntryMeansRunning DEF Unlock, LateRelease
<1>1. e \in EntriesAt(now)
  BY EntryOK
<1>2. x.key = e.key /\ x.file = e.file /\ x.ref = e.ref /\ x.st = e.st
  BY <1>1 DEF EntriesAt
<1>3. x.pub = e.pub
  BY <1>1 DEF EntriesAt
<1> HIDE DEF x
<1>4. x.pub => e.pub
  BY <1>3
<1>5. CASE ents' = (ents \ {e}) \cup {x}
  BY <1>0, <1>2, <1>4, <1>5, ChangeFile
<1>6. CASE proc # "rebuilding" /\ ents' = ents \ {e}
  BY <1>0, <1>6, DropFile
<1> QED BY <1>0, <1>5, <1>6

\* storeSwapOutFileClosed with an error
LEMMA ErrorFile ==
    ASSUME IInv, FileInv, NEW e \in ents, WriteError(e)
    PROVE  FileInv'
<1>1. /\ proc # "down" /\ ents' = ents \ {e} /\ UNCHANGED <<proc, todo, disk, now>>
  BY EntryMeansRunning DEF WriteError
<1>2. (~rough' => ~rough) /\ (proc = "rebuilding" => rough')
  BY Zenon DEF WriteError
<1>3. CASE proc = "rebuilding"
  BY <1>1, <1>2, <1>3 DEF FileInv, Writers
<1>4. CASE proc # "rebuilding"
  BY <1>1, <1>2, <1>4, DropFile
<1> QED BY <1>3, <1>4

\* storeLockObject by a hit
LEMMA HitFile ==
    ASSUME IInv, FileInv, NEW e \in ents, Hit(e)
    PROVE  FileInv'
<1> DEFINE x == [e EXCEPT !.held = TRUE, !.ref = now']
<1>0. /\ proc # "down" /\ e.st = "done" /\ e.pub /\ now' \in {now} \cup {now + 1}
      /\ ents' = (ents \ {e}) \cup {x} /\ UNCHANGED <<proc, todo, disk>>
  BY EntryMeansRunning DEF Hit
<1>r. /\ ~rough' => ~rough
      /\ ~rough' => ~\E i \in DOMAIN todo : todo[i].op = "DEL" /\ todo[i].key = e.key
  BY Zenon DEF Hit
<1>1. e \in EntriesAt(now) /\ now \in Nat
  BY EntryOK, StoredParts
<1>2. x.key = e.key /\ x.file = e.file /\ x.ref = now' /\ x.st = "done"
  BY <1>0, <1>1 DEF EntriesAt
<1>4. now' \in Nat /\ now <= now'
  BY <1>0, <1>1
<1> HIDE DEF x
<1>5. Writers(ents', disk')
  BY <1>0, <1>2 DEF FileInv, Writers
<1>6. ASSUME ~rough'
      PROVE  /\ \A y \in ents' : y.pub /\ y.st = "writing" => Newer(todo, y)
             /\ \A y \in Stored(ents') : Own(disk', y.key, y.file) \/ Doomed(todo, y.key, y.ref)
             /\ \A i \in DOMAIN todo : \A f : Taken(todo, ents, f) => Taken(todo, ents', f)
  <2>1. ~rough
    BY <1>r, <1>6
  <2>2. \A y \in ents' : y.pub /\ y.st = "writing" => Newer(todo, y)
    BY <1>0, <1>2, <2>1, SoundParts
  <2>3. e \in Stored(ents)
    BY <1>0 DEF Stored
  <2>4. Own(disk, e.key, e.file)
    <3>1. ~Doomed(todo, e.key, e.ref)
      BY <1>r, <1>6 DEF Doomed, Deletes
    <3> QED BY <1>0, <2>1, <2>3, <3>1, SoundParts
  <2>5. \A y : y # x /\ y \in Stored(ents') => y \in Stored(ents)
    BY <1>0 DEF Stored
  <2>6. \A y \in Stored(ents') : Own(disk', y.key, y.file) \/ Doomed(todo, y.key, y.ref)
    BY <1>0, <1>2, <2>1, <2>4, <2>5, SoundParts
  <2>7. Newer(todo, x)
    BY <1>0, <1>2, <1>4, <2>1, NowNewer
  <2>8. \A i \in DOMAIN todo : \A f : Taken(todo, ents, f) => Taken(todo, ents', f)
    BY <1>0, <1>2, <2>7 DEF Taken
  <2> QED BY <2>2, <2>6, <2>8
<1> QED BY <1>0, <1>r, <1>4, <1>5, <1>6, StepFileInv
\* storeRelease leaves every entry as it is, makes it private, or drops it; it
\* drops none while rebuilding.
LEMMA ReleasedFiles ==
    ASSUME IInv, proc # "down", NEW E, E \subseteq ents
    PROVE  /\ \A x \in ReleasedAll(E) :
                 \/ x \in ents
                 \/ ~x.pub /\ \E e \in ents : x.file = e.file /\ x.key = e.key /\ x.st = e.st
           /\ proc = "rebuilding" =>
                 \A e \in ents : \E x \in ReleasedAll(E) : x.file = e.file /\ (x = e \/ ~x.pub)
<1> DEFINE y(e) == [e EXCEPT !.pub = FALSE]
           wait == {e \in E : Locked(e) \/ proc = "rebuilding"}
<1>1. \A e \in ents : y(e).file = e.file /\ y(e).key = e.key /\ y(e).st = e.st /\ ~y(e).pub
  <2> SUFFICES ASSUME NEW e \in ents
               PROVE  y(e).file = e.file /\ y(e).key = e.key /\ y(e).st = e.st /\ ~y(e).pub
    OBVIOUS
  <2>1. e \in EntriesAt(now)
    BY EntryOK
  <2>2. y(e).file = e.file /\ y(e).key = e.key /\ y(e).st = e.st
    BY <2>1 DEF EntriesAt
  <2>3. ~y(e).pub
    BY <2>1 DEF EntriesAt
  <2> QED BY <2>2, <2>3
<1>2. ReleasedAll(E) = (ents \ E) \cup {y(e) : e \in wait}
  BY DEF ReleasedAll
<1>3. wait \subseteq ents /\ (proc = "rebuilding" => wait = E)
  OBVIOUS
<1> HIDE DEF y, wait
<1> QED BY <1>1, <1>2, <1>3

\* storeRelease of the public entries of a key, whatever file is then created.
LEMMA ReleasedSound ==
    ASSUME IInv, FileInv, proc # "down", NEW E, E \subseteq ents, ~rough
    PROVE  /\ \A x \in ReleasedAll(E) : x.pub /\ x.st = "writing" => Newer(todo, x)
           /\ \A x \in Stored(ReleasedAll(E)) :
                 x \in ents /\ (Own(disk, x.key, x.file) \/ Doomed(todo, x.key, x.ref))
           /\ \A i \in DOMAIN todo : \A f : Taken(todo, ents, f) => Taken(todo, ReleasedAll(E), f)
<1>1. \A x \in ReleasedAll(E) : x.pub => x \in ents
  BY ReleasedFiles
<1>2. \A x \in ReleasedAll(E) : x.pub /\ x.st = "writing" => Newer(todo, x)
  BY <1>1, SoundParts
<1>3. \A x \in Stored(ReleasedAll(E)) : x \in Stored(ents) /\ x \in ents
  BY <1>1 DEF Stored
<1>4. \A x \in Stored(ReleasedAll(E)) :
         x \in ents /\ (Own(disk, x.key, x.file) \/ Doomed(todo, x.key, x.ref))
  BY <1>3, SoundParts
<1>5. ASSUME NEW i \in DOMAIN todo, NEW f, Taken(todo, ents, f)
      PROVE  Taken(todo, ReleasedAll(E), f)
  <2>1. proc = "rebuilding"
    BY NothingLeft
  <2>2. PICK e \in ents : e.file = f /\ (e.pub => Newer(todo, e))
    BY <1>5 DEF Taken
  <2>3. PICK x \in ReleasedAll(E) : x.file = e.file /\ (x = e \/ ~x.pub)
    BY <2>1, ReleasedFiles
  <2> QED BY <2>2, <2>3 DEF Taken
<1> QED BY <1>2, <1>4, <1>5

\* storeRelease
LEMMA ReleaseFile ==
    ASSUME IInv, FileInv, NEW e \in ents, Release(e)
    PROVE  FileInv'
<1>0. /\ proc # "down" /\ ents' = ReleasedAll({e}) /\ UNCHANGED <<proc, todo, disk, now, rough>>
  BY DEF Release
<1>1. Writers(ents', disk')
  BY <1>0, ReleasedFiles DEF FileInv, Writers
<1>2. now' \in Nat /\ now <= now'
  BY <1>0, StoredParts
<1>3. ASSUME ~rough
      PROVE  /\ \A x \in ents' : x.pub /\ x.st = "writing" => Newer(todo, x)
             /\ \A x \in Stored(ents') : Own(disk, x.key, x.file) \/ Doomed(todo, x.key, x.ref)
             /\ \A i \in DOMAIN todo : \A f : Taken(todo, ents, f) => Taken(todo, ents', f)
  BY <1>0, <1>3, ReleasedSound
<1> QED BY <1>0, <1>1, <1>2, <1>3, StepFileInv

\* storeUfsCreate
LEMMA CreateFile ==
    ASSUME IInv, FileInv, NEW k \in Keys, NEW f \in Files, Create(k, f)
    PROVE  FileInv'
<1> DEFINE old == Public(k)
           E == ReleasedAll(old)
           x == Entry(k, f, now, now, "writing")
<1>0. /\ proc # "down" /\ f \notin bits /\ ents' = E \cup {x}
      /\ disk' = [disk EXCEPT ![f] = [key |-> k, ref |-> now, whole |-> FALSE]]
      /\ UNCHANGED <<proc, todo, now, rough>>
  BY DEF Create
<1>1. old \subseteq ents
  BY DEF Public
<1>2. x.st = "writing" /\ x.ref = now /\ x.file = f /\ x.key = k
  BY DEF Entry
<1>3. disk \in [Files -> ContentsAt(now)] /\ now \in Nat
  BY DEF IInv, DiskOK
<1>4. disk'[f].key = k /\ \A g \in Files : g # f => disk'[g] = disk[g]
  BY <1>0, <1>3
<1>5. \A e \in ents : e.file \in Files /\ e.file # f
  BY <1>0, EntryOK, StoredParts
<1> HIDE DEF x, old
<1>6. Writers(ents', disk')
  <2>1. ASSUME NEW y \in E, y.st = "writing" PROVE disk'[y.file] = Gone \/ disk'[y.file].key = y.key
    <3>1. PICK e \in ents : y.file = e.file /\ y.key = e.key /\ y.st = e.st
      BY <1>0, <1>1, ReleasedFiles
    <3> QED BY <1>4, <1>5, <2>1, <3>1 DEF FileInv, Writers
  <2> QED BY <1>0, <1>2, <1>4, <2>1 DEF Writers
<1>7. now' \in Nat /\ now <= now' /\ now >= now
  BY <1>0, <1>3
<1>8. ASSUME ~rough
      PROVE  /\ \A y \in ents' : y.pub /\ y.st = "writing" => Newer(todo, y)
             /\ \A y \in Stored(ents') : Own(disk', y.key, y.file) \/ Doomed(todo, y.key, y.ref)
             /\ \A i \in DOMAIN todo : todo[i].op = "ADD" =>
                   /\ Own(disk, todo[i].key, todo[i].file) =>
                         Own(disk', todo[i].key, todo[i].file) \/ Taken(todo, ents', todo[i].file)
                   /\ Taken(todo, ents, todo[i].file) => Taken(todo, ents', todo[i].file)
  <2>1. /\ \A y \in E : y.pub /\ y.st = "writing" => Newer(todo, y)
        /\ \A y \in Stored(E) :
              y \in ents /\ (Own(disk, y.key, y.file) \/ Doomed(todo, y.key, y.ref))
        /\ \A i \in DOMAIN todo : \A g : Taken(todo, ents, g) => Taken(todo, E, g)
    BY <1>0, <1>1, <1>8, ReleasedSound
  <2>2. Newer(todo, x)
    BY <1>0, <1>2, <1>3, <1>7, <1>8, NowNewer
  <2> HIDE DEF E
  <2>3. Stored(ents') = Stored(E)
    BY <1>0, <1>2 DEF Stored
  <2>4. \A y \in Stored(ents') : Own(disk', y.key, y.file) \/ Doomed(todo, y.key, y.ref)
    BY <1>4, <1>5, <2>1, <2>3, OwnOther
  <2>5. Taken(todo, ents', f) /\ \A i \in DOMAIN todo : \A g : Taken(todo, E, g) => Taken(todo, ents', g)
    BY <1>0, <1>2, <2>2 DEF Taken
  <2>6. \A i \in DOMAIN todo : todo[i].file \in Files
    <3>1. todo \in Seq(RecordsAt(now))
      BY StoredParts
    <3>2. \A r \in RecordsAt(now) : r.file \in Files
      BY DEF RecordsAt
    <3> HIDE DEF RecordsAt
    <3> QED BY <3>1, <3>2
  <2>7. \A i \in DOMAIN todo : Own(disk, todo[i].key, todo[i].file) =>
           Own(disk', todo[i].key, todo[i].file) \/ Taken(todo, ents', todo[i].file)
    BY <1>4, <2>5, <2>6, OwnOther
  <2>8. \A y \in ents' : y.pub /\ y.st = "writing" => Newer(todo, y)
    BY <1>0, <2>1, <2>2
  <2> QED BY <2>1, <2>4, <2>5, <2>7, <2>8
<1> QED BY <1>0, <1>6, <1>7, <1>8, StepFileInv

\* The file that storeSwapOutFileClosed finds is complete.
LEMMA OwnWhole ==
    ASSUME NEW d \in [Files -> ContentsAt(now)], NEW f \in Files, NEW k,
           d[f] = Gone \/ d[f].key = k,
           NEW c, c = [d EXCEPT ![f].whole = d[f].key = k]
    PROVE  Own(c, k, f) /\ \A g \in Files : g # f => c[g] = d[g]
<1> DEFINE b == d[f].key = k
<1>1. b \in BOOLEAN /\ (b <=> d[f].key = k)
  OBVIOUS
<1>2. c[f] = [d[f] EXCEPT !.whole = b] /\ \A g \in Files : g # f => c[g] = d[g]
  OBVIOUS
<1> HIDE DEF b
<1>3. CASE d[f] = Gone /\ ~b
  <2>1. b = FALSE
    BY <1>1, <1>3
  <2>2. c[f] = Gone
    BY <1>2, <1>3, <2>1, GoneWhole, Zenon
  <2> QED BY <1>2, <2>2 DEF Own
<1>4. CASE b
  <2>1. b = TRUE
    BY <1>1, <1>4
  <2>2. c[f].key = k /\ c[f].whole = TRUE
    <3>1. CASE d[f] = Gone
      <4>1. c[f] = [key |-> "none", ref |-> 0, whole |-> TRUE]
        BY <1>2, <2>1, <3>1, GoneWhole, Zenon
      <4>2. k = "none"
        BY <1>1, <1>4, <3>1 DEF Gone
      <4> QED BY <4>1, <4>2
    <3>2. CASE d[f] \in [key : Keys, ref : 0..now, whole : BOOLEAN]
      <4>1. [d[f] EXCEPT !.whole = TRUE].key = d[f].key /\ [d[f] EXCEPT !.whole = TRUE].whole = TRUE
        BY <3>2
      <4> QED BY <1>1, <1>2, <1>4, <2>1, <4>1
    <3> QED BY <3>1, <3>2 DEF ContentsAt
  <2> QED BY <1>2, <2>2, Zenon DEF Own
<1> QED BY <1>1, <1>3, <1>4
\* storeSwapOutFileClosed
LEMMA SwapOutDoneFile ==
    ASSUME IInv, FileInv, NEW e \in ents, SwapOutDone(e)
    PROVE  FileInv'
<1> DEFINE x == [e EXCEPT !.st = "done"]
<1>0. /\ proc # "down" /\ e.st = "writing" /\ UNCHANGED <<proc, todo, now, rough>>
      /\ disk' = [disk EXCEPT ![e.file].whole = disk[e.file].key = e.key]
      /\ \/ ents' = (ents \ {e}) \cup {x}
         \/ proc # "rebuilding" /\ ents' = ents \ {e}
  BY EntryMeansRunning DEF SwapOutDone
<1>1. e \in EntriesAt(now) /\ e.file \in Files
  BY EntryOK
<1>2. x.key = e.key /\ x.file = e.file /\ x.ref = e.ref /\ x.st = "done"
  BY <1>1 DEF EntriesAt
<1>3. x.pub = e.pub
  BY <1>1 DEF EntriesAt
<1>4. x.pub => e.pub
  BY <1>3
<1> HIDE DEF x
<1>5. Own(disk', e.key, e.file) /\ \A g \in Files : g # e.file => disk'[g] = disk[g]
  <2>1. disk \in [Files -> ContentsAt(now)]
    BY DEF IInv, DiskOK
  <2>2. disk[e.file] = Gone \/ disk[e.file].key = e.key
    BY <1>0 DEF FileInv, Writers
  <2> QED BY <1>0, <1>1, <2>1, <2>2, OwnWhole
<1>6. \A y \in ents : y # e => y.file \in Files /\ y.file # e.file
  BY EntryOK, StoredParts
<1>7. \A y \in ents' : y = x \/ (y \in ents /\ y # e)
  BY <1>0
<1>8. Writers(ents', disk')
  BY <1>2, <1>5, <1>6, <1>7 DEF FileInv, Writers
<1>9. now' \in Nat /\ now <= now'
  BY <1>0, StoredParts
<1>10. ASSUME ~rough
       PROVE  /\ \A y \in ents' : y.pub /\ y.st = "writing" => Newer(todo, y)
              /\ \A y \in Stored(ents') : Own(disk', y.key, y.file) \/ Doomed(todo, y.key, y.ref)
              /\ \A i \in DOMAIN todo : todo[i].op = "ADD" =>
                    /\ Own(disk, todo[i].key, todo[i].file) =>
                          Own(disk', todo[i].key, todo[i].file) \/ Taken(todo, ents', todo[i].file)
                    /\ Taken(todo, ents, todo[i].file) => Taken(todo, ents', todo[i].file)
  <2>1. \A y \in ents' : y.pub /\ y.st = "writing" => Newer(todo, y)
    BY <1>0, <1>2, <1>7, <1>10, SoundParts
  <2>2. \A y \in Stored(ents') : y = x \/ (y \in Stored(ents) /\ y # e /\ y \in ents)
    BY <1>7 DEF Stored
  <2>3. \A y \in Stored(ents') : Own(disk', y.key, y.file) \/ Doomed(todo, y.key, y.ref)
    BY <1>0, <1>2, <1>5, <1>6, <1>10, <2>2, SoundParts, OwnOther
  <2>4. ASSUME NEW i \in DOMAIN todo
        PROVE  /\ Own(disk, todo[i].key, todo[i].file) =>
                     Own(disk', todo[i].key, todo[i].file) \/ Taken(todo, ents', todo[i].file)
               /\ Taken(todo, ents, todo[i].file) => Taken(todo, ents', todo[i].file)
    <3>1. proc = "rebuilding"
      BY <1>0, <2>4, NothingLeft
    <3>2. ents' = (ents \ {e}) \cup {x}
      BY <1>0, <3>1
    <3>3. x.pub => Newer(todo, x)
      BY <1>0, <1>2, <1>4, <1>10, SoundParts DEF Newer
    <3>4. Taken(todo, ents', e.file)
      BY <1>2, <3>2, <3>3 DEF Taken
    <3>5. \A f : f # e.file /\ Taken(todo, ents, f) => Taken(todo, ents', f)
      BY <3>2 DEF Taken
    <3>6. todo[i].file \in Files
      <4>1. todo \in Seq(RecordsAt(now))
        BY StoredParts
      <4>2. \A r \in RecordsAt(now) : r.file \in Files
        BY DEF RecordsAt
      <4> HIDE DEF RecordsAt
      <4> QED BY <2>4, <4>1, <4>2
    <3> QED BY <1>5, <3>4, <3>5, <3>6, OwnOther
  <2> QED BY <2>1, <2>3, <2>4
<1> QED BY <1>0, <1>8, <1>9, <1>10, StepFileInv

\* unlinkd and storeUfsDirClean remove a file.
LEMMA FileGoneFile ==
    ASSUME IInv, FileInv, UnlinkdRuns \/ \E f \in Files : DirClean(f)
    PROVE  FileInv'
<1>0. /\ UNCHANGED <<proc, ents, log, todo, now, rough>>
      /\ \E g : disk' = [disk EXCEPT ![g] = Gone]
  BY DEF UnlinkdRuns, DirClean
<1>1. disk \in [Files -> ContentsAt(now)] /\ now \in Nat
  BY DEF IInv, DiskOK
<1>2. \A k, f : f \in Files => /\ Own(disk, k, f) => Own(disk', k, f)
                               /\ disk'[f] = Gone \/ disk'[f] = disk[f]
  <2> PICK g : disk' = [disk EXCEPT ![g] = Gone]
    BY <1>0
  <2>1. \A f \in Files : disk'[f] = Gone \/ disk'[f] = disk[f]
    BY <1>1
  <2>2. ASSUME NEW k, NEW f \in Files, Own(disk, k, f) PROVE Own(disk', k, f)
    <3>1. disk'[f] = Gone \/ disk'[f] = disk[f]
      BY <2>1
    <3> QED BY <2>2, <3>1, Zenon DEF Own
  <2> QED BY <2>1, <2>2, Zenon
<1>3. Writers(ents', disk')
  BY <1>0, <1>2, EntryOK DEF FileInv, Writers
<1>4. \A r \in RecordsAt(now) : r.file \in Files
  BY DEF RecordsAt
<1>5. /\ \A i \in DOMAIN log : log[i].file \in Files
      /\ \A i \in DOMAIN todo : todo[i].file \in Files
  <2>1. log \in Seq(RecordsAt(now)) /\ todo \in Seq(RecordsAt(now))
    BY StoredParts
  <2> HIDE DEF RecordsAt
  <2> QED BY <1>4, <2>1
<1>6. CASE proc = "down"
  <2>1. Lasting(log, disk) => Lasting(log, disk')
    BY <1>2, <1>5 DEF Lasting
  <2> QED BY <1>0, <1>3, <1>6, <2>1 DEF FileInv
<1>7. CASE proc # "down"
  <2>1. ~rough => /\ \A x \in ents : x.pub /\ x.st = "writing" => Newer(todo, x)
                  /\ \A x \in Stored(ents) : Own(disk', x.key, x.file) \/ Doomed(todo, x.key, x.ref)
    BY <1>2, <1>7, SoundParts, StoredParts, EntryOK
  <2>2. ~rough' =>
          /\ \A x \in ents' : x.pub /\ x.st = "writing" => Newer(todo, x)
          /\ \A x \in Stored(ents') : Own(disk', x.key, x.file) \/ Doomed(todo, x.key, x.ref)
    BY <1>0, <2>1
  <2>3. \A i \in DOMAIN todo : todo[i].op = "ADD" =>
          /\ Own(disk, todo[i].key, todo[i].file) =>
                Own(disk', todo[i].key, todo[i].file) \/ Taken(todo, ents', todo[i].file)
          /\ Taken(todo, ents, todo[i].file) => Taken(todo, ents', todo[i].file)
    <3>1. ents' = ents
      BY <1>0
    <3> QED BY <3>1, <1>2, <1>5
  <2>4. /\ UNCHANGED <<proc, todo>> /\ (~rough' => ~rough) /\ now' \in Nat /\ now <= now'
    BY <1>0, <1>1
  <2> QED BY <1>3, <1>7, <2>2, <2>3, <2>4, StepFileInv
<1> QED BY <1>6, <1>7

\* What leaves the index, the log and the files alone keeps them.
LEMMA FileInvKept == FileInv /\ UNCHANGED <<proc, ents, log, todo, disk, now, rough>> => FileInv'
BY DEF FileInv

\* storeDirWriteCleanLogs at a rotation, and the end of a rebuild
LEMMA LogStepFile ==
    ASSUME IInv, FileInv, Rotate \/ RebuildComplete
    PROVE  FileInv'
<1>1. /\ proc # "down" /\ proc' = "up" /\ (proc = "up" \/ todo = <<>>)
      /\ UNCHANGED <<ents, todo, disk, now, rough>>
  BY DEF Rotate, RebuildComplete
<1> QED BY <1>1 DEF FileInv

\* A crash or a shutdown
LEMMA DownFile ==
    ASSUME IInv, LogInv, FileInv, Crash \/ Shutdown
    PROVE  FileInv'
<1>1. /\ proc # "down" /\ proc' = "down" /\ ents' = {} /\ UNCHANGED disk
      /\ log' = log \/ log' = CleanLog
  BY DEF Crash, Shutdown, Down
<1>2. (~rough' => ~rough) /\ (proc = "rebuilding" => rough')
  BY Zenon DEF Crash, Shutdown, Down
<1>3. Writers(ents', disk')
  BY <1>1 DEF Writers
<1>4. ASSUME ~rough' PROVE Lasting(log', disk')
  <2>1. proc = "up" /\ DOMAIN todo = {} /\ ~rough
    BY <1>1, <1>2, <1>4, NothingLeft
  <2>2. Worth(log, ents) /\ Worth(CleanLog, ents)
    BY <2>1, CleanWorth DEF LogInv, OpenLog
  <2>3. \A e \in Stored(ents) : Own(disk, e.key, e.file)
    BY <1>1, <2>1, SoundParts DEF Doomed
  <2> QED BY <1>1, <2>2, <2>3, WorthLasts
<1> QED BY <1>1, <1>3, <1>4 DEF FileInv

\* storeUfsDirRebuild
LEMMA StartFile ==
    ASSUME IInv, LogInv, FileInv, NEW scan \in BOOLEAN, Start(scan)
    PROVE  FileInv'
<1>1. /\ proc = "down" /\ proc' = "rebuilding" /\ now' = now + 1 /\ UNCHANGED <<ents, disk>>
      /\ ~scan => todo' = log
  BY DEF Start
<1>2. ~rough' => ~rough /\ ~scan
  BY Zenon DEF Start
<1>3. ents = {} /\ now \in Nat
  BY <1>1 DEF IInv, DiskOK
<1>4. Writers(ents', disk')
  BY <1>1, <1>3 DEF Writers
<1>5. ASSUME ~rough' PROVE Sound(todo', ents', disk', now')
  <2>1. todo' = log /\ Lasting(log, disk) /\ Plain(log)
    BY <1>1, <1>2, <1>5 DEF FileInv, LogInv
  <2>2. \A i \in DOMAIN log : log[i].ref < now + 1
    <3>1. log \in Seq(RecordsAt(now))
      BY StoredParts
    <3>2. \A r \in RecordsAt(now) : r.ref < now + 1
      BY <1>3 DEF RecordsAt
    <3> HIDE DEF RecordsAt
    <3> QED BY <3>1, <3>2
  <2> QED BY <1>1, <1>3, <2>1, <2>2 DEF Sound, Lasting, Stored
<1> QED BY <1>1, <1>4, <1>5 DEF FileInv

\* A step that reads a record.
LEMMA ReadFileInv ==
    ASSUME IInv, FileInv, proc = "rebuilding", todo # <<>>, todo' = Tail(todo),
           UNCHANGED <<proc, disk, now, rough>>,
           \A x \in ents' : x.st = "writing" =>
              \E e \in ents : e.st = "writing" /\ x.file = e.file /\ x.key = e.key,
           \A x \in ents' : x.pub /\ x.st = "writing" => x \in ents,
           ~rough => /\ \A x \in Stored(ents') :
                           \/ x \in ents /\ ~Deletes(Head(todo), x.key, x.ref)
                           \/ /\ Head(todo).op = "ADD" /\ x.key = Head(todo).key
                              /\ x.file = Head(todo).file /\ x.ref = Head(todo).ref
                              /\ ~Taken(todo, ents, x.file)
                     /\ \A e \in ents : (e.pub => Newer(todo, e)) => e \in ents'
    PROVE  FileInv'
<1>1. Writers(ents', disk')
  BY DEF FileInv, Writers
<1>2. ASSUME ~rough PROVE Sound(todo', ents', disk', now')
  <2>1. Sound(todo, ents, disk, now)
    BY <1>2 DEF FileInv
  <2>2. todo \in Seq(RecordsAt(now))
    BY StoredParts
  <2>3. /\ \A x \in Stored(ents') :
              \/ x \in ents /\ ~Deletes(Head(todo), x.key, x.ref)
              \/ /\ Head(todo).op = "ADD" /\ x.key = Head(todo).key
                 /\ x.file = Head(todo).file /\ x.ref = Head(todo).ref
                 /\ ~Taken(todo, ents, x.file)
        /\ \A e \in ents : (e.pub => Newer(todo, e)) => e \in ents'
    BY <1>2
  <2>4. Sound(Tail(todo), ents', disk, now)
    BY <2>1, <2>2, <2>3, SoundTail
  <2> QED BY <2>4
<1> QED BY <1>1, <1>2 DEF FileInv

\* storeUfsDirRebuildFromSwapLog
LEMMA RebuildRecordFile ==
    ASSUME IInv, LogInv, FileInv, RebuildRecord
    PROVE  FileInv'
<1> DEFINE rec == Head(todo)
<1>0. /\ proc = "rebuilding" /\ todo # <<>> /\ todo' = Tail(todo)
      /\ UNCHANGED <<proc, disk, now, rough>>
  BY DEF RebuildRecord
<1>1. rec = todo[1] /\ 1 \in DOMAIN todo /\ rec.ref \in Nat
  BY <1>0, HeadParts
<1>2. \A x \in Stored(ents') : x \in ents' /\ x.pub
  BY DEF Stored
<1>3. CASE Skipped(rec)
  <2>1. ents' = ents
    BY <1>3 DEF Skipped
  <2>2. \A x \in ents : x.pub => ~Deletes(rec, x.key, x.ref)
    BY <1>3 DEF Skipped, Deletes, Public
  <2> QED BY <1>0, <1>2, <2>1, <2>2, ReadFileInv
<1>4. CASE \E o : Forgotten(rec, o)
  <2>1. PICK o : Forgotten(rec, o)
    BY <1>4
  <2> DEFINE y == [o EXCEPT !.pub = FALSE]
  <2>2. /\ o \in ents /\ o.pub /\ o.key = rec.key /\ rec.op = "DEL" /\ rec.ref >= o.ref
        /\ ents' = (ents \ {o}) \cup {y} \/ ents' = ents \ {o}
    BY <2>1 DEF Forgotten
  <2>3. o \in EntriesAt(now) /\ o.ref \in Nat
    BY <2>2, EntryOK, StoredParts
  <2>4. y.file = o.file /\ y.key = o.key /\ y.st = o.st
    BY <2>3 DEF EntriesAt
  <2>5. ~y.pub
    BY <2>3 DEF EntriesAt
  <2> HIDE DEF y, rec
  <2>6. \A e \in ents : e.pub /\ e.key = o.key => e = o
    BY <2>2, StoredParts
  <2>7. \A x \in Stored(ents') : x \in ents /\ ~Deletes(rec, x.key, x.ref)
    BY <1>2, <2>2, <2>5, <2>6 DEF Deletes
  <2>8. ~Newer(todo, o)
    BY <1>1, <2>2, <2>3 DEF Newer
  <2>9. \A e \in ents : (e.pub => Newer(todo, e)) => e \in ents'
    BY <2>2, <2>8
  <2>10. \A x \in ents' : x.st = "writing" =>
            \E e \in ents : e.st = "writing" /\ x.file = e.file /\ x.key = e.key
    BY <2>2, <2>4
  <2>11. \A x \in ents' : x.pub /\ x.st = "writing" => x \in ents
    BY <2>2, <2>5
  <2> QED BY <1>0, <2>7, <2>9, <2>10, <2>11, ReadFileInv DEF rec
<1>5. CASE \E x : Loaded(rec, x)
  <2>1. PICK x : Loaded(rec, x)
    BY <1>5
  <2>2. rec.op = "ADD" /\ rec.file \notin bits /\ ents' = ents \cup {x}
    BY <2>1 DEF Loaded
  <2>3. x.st = "done" /\ x.key = rec.key /\ x.file = rec.file /\ x.ref = rec.ref
    BY <2>1 DEF Loaded, Entry
  <2> HIDE DEF rec
  <2>4. ~Taken(todo, ents, x.file)
    BY <2>2, <2>3, StoredParts DEF Taken
  <2>5. \A e \in ents : ~Deletes(rec, e.key, e.ref)
    BY <2>2 DEF Deletes
  <2>6. \A y \in Stored(ents') : \/ y \in ents /\ ~Deletes(rec, y.key, y.ref)
                                 \/ /\ rec.op = "ADD" /\ y.key = rec.key /\ y.file = rec.file
                                    /\ y.ref = rec.ref /\ ~Taken(todo, ents, y.file)
    BY <1>2, <2>2, <2>3, <2>4, <2>5
  <2>7. \A y \in ents' : y.st = "writing" => y \in ents
    BY <2>2, <2>3
  <2> QED BY <1>0, <2>2, <2>6, <2>7, ReadFileInv DEF rec
<1> QED BY <1>3, <1>4, <1>5, RecordMeans

\* storeUfsDirRebuildFromDirectory
LEMMA RebuildFileFile ==
    ASSUME IInv, FileInv, RebuildFile
    PROVE  FileInv'
<1> DEFINE rec == Head(todo)
           cur == Public(rec.key)
           x == Entry(rec.key, rec.file, rec.ref, rec.ts, "done")
<1>0. /\ proc = "rebuilding" /\ todo # <<>> /\ rec.op = "FILE" /\ todo' = Tail(todo)
      /\ ents' = ents \/ ents' = ReleasedAll(cur) \cup {x}
      /\ UNCHANGED <<proc, disk, now, rough>>
  BY DEF RebuildFile
<1>1. rough
  <2>1. rec = todo[1] /\ 1 \in DOMAIN todo
    BY <1>0, HeadParts
  <2>2. ~rough => todo[1].op # "FILE"
    BY <1>0, <2>1 DEF FileInv, Sound, Plain
  <2> QED BY <1>0, <2>1, <2>2
<1>2. Writers(ents', disk')
  <2>1. x.st = "done"
    BY DEF Entry
  <2>2. cur \subseteq ents
    BY DEF Public
  <2> HIDE DEF x, cur
  <2>3. \A y \in ReleasedAll(cur) :
           \E e \in ents : y.file = e.file /\ y.key = e.key /\ y.st = e.st
    BY <1>0, <2>2, ReleasedFiles
  <2>4. \A y \in ents' : y.st = "writing" =>
           \E e \in ents : y.file = e.file /\ y.key = e.key /\ e.st = "writing"
    BY <1>0, <2>1, <2>3
  <2> QED BY <1>0, <2>4 DEF FileInv, Writers
<1> QED BY <1>0, <1>1, <1>2 DEF FileInv

\* Every action keeps the files.
LEMMA NextFileInv == IInv /\ LogInv /\ FileInv /\ [Next]_vars => FileInv'
<1> SUFFICES ASSUME IInv, LogInv, FileInv, [Next]_vars PROVE FileInv'
  OBVIOUS
<1>1. CASE UNCHANGED vars
  BY <1>1, FileInvKept DEF vars
<1>2. CASE \E k \in Keys, f \in Files : Create(k, f)
  BY <1>2, CreateFile
<1>3. CASE \E f \in Files : CreateFails(f)
  BY <1>3, FileInvKept DEF CreateFails
<1>4. CASE UnlinkdRuns \/ \E f \in Files : DirClean(f)
  BY <1>4, FileGoneFile
<1>5. CASE \E e \in ents : Release(e) \/ SwapOutDone(e) \/ WriteError(e)
  BY <1>5, ReleaseFile, SwapOutDoneFile, ErrorFile
<1>6. CASE \E e \in ents : Hit(e) \/ Unlock(e) \/ LateRelease(e)
  BY <1>6, HitFile, UnlockFile
<1>7. CASE Rotate \/ RebuildComplete
  BY <1>7, LogStepFile
<1>8. CASE Crash \/ Shutdown
  BY <1>8, DownFile
<1>9. CASE \E scan \in BOOLEAN : Start(scan)
  BY <1>9, StartFile
<1>10. CASE RebuildRecord \/ RebuildFile
  BY <1>10, RebuildRecordFile, RebuildFileFile
<1> QED
  BY <1>1, <1>2, <1>3, <1>4, <1>5, <1>6, <1>7, <1>8, <1>9, <1>10 DEF Next

\* At the first start there are no files.
LEMMA InitFileInv == Init => FileInv
BY DEF Init, FileInv, Writers, Lasting

\* The files kept are the property.
LEMMA FileInvMeans == IInv /\ FileInv => OwnFile
<1> SUFFICES ASSUME IInv, FileInv, proc = "up", ~rough, NEW e \in ents, e.pub, e.st = "done"
             PROVE  disk[e.file] = Gone \/ (disk[e.file].key = e.key /\ disk[e.file].whole)
  BY DEF OwnFile
<1>1. e \in Stored(ents)
  BY DEF Stored
<1>2. DOMAIN todo = {}
  BY NothingLeft
<1>3. Own(disk, e.key, e.file)
  BY <1>1, <1>2, SoundParts DEF Doomed
<1> QED BY <1>3, Zenon DEF Own

\* Once a rebuild that met nothing unusual is over, the file of an object in the
\* index holds that object whole or is gone, through all crashes and restarts:
\* with the numbers of files handed out again while the old log is still read.
THEOREM FilesStayOwn == Spec => []OwnFile
<1>1. Init => FileInv
  BY InitFileInv
<1>2. IInv /\ LogInv /\ FileInv /\ [Next]_vars => FileInv'
  BY NextFileInv
<1>3. Spec => []FileInv
  BY <1>1, <1>2, LogInvariant, PTL DEF Spec
<1> QED
  BY <1>3, CacheDirInvariant, FileInvMeans, PTL
=============================================================================
