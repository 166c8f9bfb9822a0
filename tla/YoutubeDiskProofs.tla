-------------------------- MODULE YoutubeDiskProofs --------------------------
(***************************************************************************)
(* Theorems about what YoutubeStore keeps on disk: the chunk table with its  *)
(* file, and the index with public keys, swap file numbers, swap.state and   *)
(* the swap files, for every set of URLs, requests, entries and files.       *)
(*                                                                         *)
(* That the row answering for a chunk is stable needs nothing but the type   *)
(* of the table.  That the table in memory is the one in the file, and that  *)
(* both implement ChunkMap, holds under TableFormat: the reader of           *)
(* youtubetable.state takes every record for one with a 16 character lmt,    *)
(* trusts the stack bytes after temp[], and looks at swapDirs[0] alone.      *)
(* Its inductive invariant adds FileLaidOut, where the records lie.          *)
(***************************************************************************)
EXTENDS YoutubeStoreProofs, SequenceTheorems

\* what readChunkFromTableFile takes for granted
TableFormat ==
    /\ \A c \in Chunks : LmtLen[c] = 16
    /\ TempClean
    /\ Dirs = {Dir0}

\* the records of the table file follow each other in units of 116 bytes
FileLaidOut ==
    LET f == tfile[Dir0]
    IN  /\ f.len = Unit * Len(f.recs)
        /\ \A i \in DOMAIN f.recs : f.recs[i].off = Unit * (i - 1)

TableInv == Inv /\ FileLaidOut /\ TableMirrorsFile

RowOf(k) == [chunk |-> ChunkOf[k[2]], key |-> k]
Loaded == proc \in {"validating", "up"}
-----------------------------------------------------------------------------
(***************************************************************************)
(* The four things a step can do to the table.                              *)
(***************************************************************************)
TableUntouched == UNCHANGED <<table, tfile>> /\ (Loaded' <=> Loaded)

RowAppended(k, d) ==
    /\ table' = Append(table, RowOf(k))
    /\ tfile' = [tfile EXCEPT ![d] = appendChunkToTableFile(@, RowOf(k))]
    /\ UNCHANGED proc

TableLost == table' = <<>> /\ UNCHANGED tfile /\ proc' = "down"

TableRead(misread) ==
    /\ proc = "rebuilding" /\ proc' = "validating"
    /\ TempClean => misread = {}
    /\ table' = readChunkFromTableFile(tfile[Dir0], misread)
    /\ UNCHANGED tfile

TableStep ==
    \/ TableUntouched
    \/ \E k \in Keys, d \in Dirs : IsYouTubeUrl(k[2]) /\ RowAppended(k, d)
    \/ TableLost
    \/ \E misread : TableRead(misread)

\* storeSwapOutFileClosed appends the entry's own row, or none.
LEMMA FileClosedTable ==
    ASSUME Inv, NEW e \in Entries, SwapOutFileClosed(e)
    PROVE  TableStep
<1> DEFINE x == [obj EXCEPT ![e].swap = "done"][e]
           d == DirOf[x.filen]
<1>1. obj[e] \in Entry /\ GoodEntry(obj[e]) /\ obj[e].swap = "writing" /\ obj[e].st = "ok"
  BY DEF Inv, GoodStore, SwapOutFileClosed
<1>2. obj[e].key \in Keys /\ obj[e].filen \in Files
  BY <1>1 DEF GoodEntry, Entry
<1>3. x.key = obj[e].key /\ x.filen = obj[e].filen
  BY <1>1 DEF Inv, GoodStore, Entry
<1>4. d \in Dirs
  BY <1>2, <1>3, ConstantsAssumption
<1>5. CASE storeCheckCachable(x) /\ IsYouTubeUrl(x.key[2])
  <2>1. RowAppended(x.key, d)
    BY <1>5 DEF SwapOutFileClosed, RowAppended, RowOf
  <2> HIDE DEF x
  <2> QED BY <1>2, <1>3, <1>4, <1>5, <2>1 DEF TableStep
<1>6. CASE ~(storeCheckCachable(x) /\ IsYouTubeUrl(x.key[2]))
  <2>1. UNCHANGED <<table, tfile, proc>>
    BY <1>6 DEF SwapOutFileClosed
  <2> QED BY <2>1 DEF TableStep, TableUntouched, Loaded
<1> QED BY <1>5, <1>6

\* Every step does one of the four.
LEMMA TableSteps ==
    ASSUME Inv, [Next]_vars
    PROVE  TableStep
<1>1. ASSUME UNCHANGED <<table, tfile, proc>> PROVE TableStep
  BY <1>1 DEF TableStep, TableUntouched, Loaded
<1>2. ASSUME Die, UNCHANGED tfile PROVE TableStep
  BY <1>2 DEF TableStep, TableLost, Die
<1>3. ASSUME NEW r \in Requests, ClientStep(r) PROVE TableStep
  <2>1. ASSUME NEW k \in Keys, RequestHit(r, k) PROVE TableStep
    BY <1>1, <2>1 DEF RequestHit
  <2>2. ASSUME NEW k \in Keys, NEW n \in Entries, RequestMiss(r, k, n) PROVE TableStep
    BY <1>1, <2>2 DEF RequestMiss
  <2>3. ASSUME NEW k \in Keys, LookupCrash(r, k) PROVE TableStep
    BY <1>2, <2>3 DEF LookupCrash
  <2>4. CASE CacheHit(r)
    BY <1>1, <2>4 DEF CacheHit
  <2>5. ASSUME NEW n \in Entries, CacheMiss(r, n) PROVE TableStep
    BY <1>1, <2>5 DEF CacheMiss
  <2>6. CASE ClientDone(r)
    BY <1>1, <2>6 DEF ClientDone
  <2> QED BY <1>3, <2>1, <2>2, <2>3, <2>4, <2>5, <2>6 DEF ClientStep
<1>4. ASSUME NEW e \in Entries, EntryStep(e) PROVE TableStep
  <2>1. ASSUME NEW kind \in Replies, NEW expired \in BOOLEAN, ReplyHeader(e, kind, expired)
        PROVE  TableStep
    BY <1>1, <2>1 DEF ReplyHeader
  <2>2. CASE Append4K(e)
    BY <1>1, <2>2 DEF Append4K
  <2>3. ASSUME NEW validLength \in BOOLEAN, Complete(e, validLength) PROVE TableStep
    BY <1>1, <2>3 DEF Complete
  <2>4. CASE RequestFailed(e)
    BY <1>1, <2>4 DEF RequestFailed
  <2>5. CASE ServerAborted(e)
    BY <1>1, <2>5 DEF ServerAborted
  <2>6. CASE SwapOutFileClosed(e)
    BY <2>6, FileClosedTable
  <2>7. CASE SwapOutFileError(e)
    BY <1>1, <2>7 DEF SwapOutFileError
  <2>8. CASE TrimMemory(e)
    BY <1>1, <2>8 DEF TrimMemory
  <2>9. CASE PurgeMem(e)
    BY <1>1, <2>9 DEF PurgeMem
  <2>10. CASE Evict(e)
    BY <1>1, <2>10 DEF Evict
  <2>11. CASE LateRelease(e)
    BY <1>1, <2>11 DEF LateRelease
  <2>12. CASE DieInFileClosed(e)
    BY <1>2, <2>12 DEF DieInFileClosed
  <2>13. CASE Validate(e)
    BY <1>1, <2>13 DEF Validate
  <2>14. ASSUME NEW f \in Files, CreateFails(e, f) PROVE TableStep
    BY <1>1, <2>14 DEF CreateFails
  <2> QED BY <1>4, <2>1, <2>2, <2>3, <2>4, <2>5, <2>6, <2>7, <2>8, <2>9, <2>10, <2>11, <2>12,
             <2>13, <2>14 DEF EntryStep
<1>5. CASE ProcessStep
  <2>1. CASE Kill
    BY <1>2, <2>1 DEF Kill
  <2>2. CASE Start \/ Validated
    BY <2>2 DEF Start, Validated, TableStep, TableUntouched, Loaded
  <2>3. ASSUME NEW l \in todo, NEW n \in Entries, RebuildLoad(l, n) PROVE TableStep
    BY <1>1, <2>3 DEF RebuildLoad
  <2>4. ASSUME NEW misread, RebuildComplete(misread) PROVE TableStep
    <3>1. TableRead(misread)
      BY <2>4 DEF RebuildComplete, TableRead
    <3> QED BY <3>1 DEF TableStep
  <2> QED BY <1>5, <2>1, <2>2, <2>3, <2>4 DEF ProcessStep
<1>6. CASE UNCHANGED vars
  BY <1>1, <1>6 DEF vars
<1> QED BY <1>3, <1>4, <1>5, <1>6 DEF Next
-----------------------------------------------------------------------------
(***************************************************************************)
(* The row that answers for a chunk.                                        *)
(***************************************************************************)
\* A chunk has no row exactly if no key is found for it.
LEMMA NoRowNoKey ==
    ASSUME NEW tab \in Seq(TableRow), NEW c \in Chunks
    PROVE  getMatchedSwapoutKey(tab, c) = None <=> Matching(tab, c) = {}
<1>1. ASSUME Matching(tab, c) # {} PROVE getMatchedSwapoutKey(tab, c) # None
  <2>1. PICK i \in Matching(tab, c) : getMatchedSwapoutKey(tab, c) = tab[i].key
    BY <1>1, FirstMatch
  <2>2. i \in DOMAIN tab /\ tab[i].chunk = c /\ tab[i] \in TableRow
    BY DEF Matching
  <2>3. tab[i] \in Row
    BY <2>2, ConstantsAssumption DEF TableRow, Garbage
  <2> QED BY <2>1, <2>3, KeyParts DEF Row
<1> QED BY <1>1 DEF getMatchedSwapoutKey

\* A row at the end of the table answers only for a chunk that had none.
LEMMA AppendedMatch ==
    ASSUME NEW tab \in Seq(TableRow), NEW w \in Row, NEW c \in Chunks
    PROVE  getMatchedSwapoutKey(Append(tab, w), c) =
              IF getMatchedSwapoutKey(tab, c) # None THEN getMatchedSwapoutKey(tab, c)
              ELSE IF w.chunk = c THEN w.key ELSE None
<1> DEFINE t == Append(tab, w)
           n == Len(tab)
<1>1. /\ n \in Nat /\ t \in Seq(TableRow) /\ w \in TableRow
      /\ DOMAIN tab = 1 .. n /\ DOMAIN t = 1 .. n + 1
      /\ t[n + 1] = w /\ \A i \in 1 .. n : t[i] = tab[i]
  BY DEF TableRow
<1> HIDE DEF t, n
<1>2. Matching(t, c) = Matching(tab, c) \cup (IF w.chunk = c THEN {n + 1} ELSE {})
  BY <1>1 DEF Matching
<1>3. CASE Matching(tab, c) # {}
  <2>1. PICK i \in Matching(tab, c) : /\ \A j \in Matching(tab, c) : i <= j
                                      /\ getMatchedSwapoutKey(tab, c) = tab[i].key
    BY <1>3, FirstMatch
  <2>2. PICK a \in Matching(t, c) : /\ \A j \in Matching(t, c) : a <= j
                                    /\ getMatchedSwapoutKey(t, c) = t[a].key
    BY <1>1, <1>2, <1>3, FirstMatch
  <2>3. i \in 1 .. n /\ a \in 1 .. n + 1 /\ i \in Matching(t, c)
    BY <1>1, <1>2 DEF Matching
  <2>4. a <= i
    BY <2>2, <2>3
  <2>5. a \in Matching(tab, c)
    BY <1>1, <1>2, <2>3, <2>4
  <2>6. a = i
    BY <1>1, <2>1, <2>3, <2>4, <2>5
  <2> QED BY <1>1, <1>3, <2>1, <2>2, <2>3, <2>6, NoRowNoKey DEF t
<1>4. CASE Matching(tab, c) = {} /\ w.chunk = c
  <2>1. Matching(t, c) = {n + 1}
    BY <1>2, <1>4
  <2>2. getMatchedSwapoutKey(t, c) = t[n + 1].key
    BY <1>1, <2>1, FirstMatch
  <2> QED BY <1>1, <1>4, <2>2, NoRowNoKey DEF t
<1>5. CASE Matching(tab, c) = {} /\ w.chunk # c
  BY <1>1, <1>2, <1>5, NoRowNoKey DEF t
<1> QED BY <1>3, <1>4, <1>5

\* The row of a YouTube key is a row.
LEMMA RowOfKey ==
    ASSUME NEW k \in Keys, IsYouTubeUrl(k[2])
    PROVE  RowOf(k) \in Row /\ RowOf(k).chunk = ChunkOf[k[2]] /\ RowOf(k).key = k
BY DEF RowOf, Row, IsYouTubeUrl

\* One step leaves the row that answers for a chunk alone.
StableStep ==
    (proc \in {"validating", "up"} /\ proc' # "down") =>
        \A c \in Chunks : getMatchedSwapoutKey(table, c) # None =>
            getMatchedSwapoutKey(table', c) = getMatchedSwapoutKey(table, c)

LEMMA StepIsStable ==
    ASSUME Inv, [Next]_vars
    PROVE  StableStep
<1>1. table \in Seq(TableRow)
  BY DEF Inv, TypeOK
<1>2. CASE TableUntouched
  BY <1>2 DEF TableUntouched, StableStep
<1>3. ASSUME NEW k \in Keys, NEW d \in Dirs, IsYouTubeUrl(k[2]), RowAppended(k, d)
      PROVE  StableStep
  <2>1. table' = Append(table, RowOf(k)) /\ RowOf(k) \in Row
    BY <1>3, RowOfKey DEF RowAppended
  <2>2. \A c \in Chunks : getMatchedSwapoutKey(table, c) # None =>
            getMatchedSwapoutKey(table', c) = getMatchedSwapoutKey(table, c)
    BY <1>1, <2>1, AppendedMatch
  <2> QED BY <2>2 DEF StableStep
<1>4. CASE TableLost
  BY <1>4 DEF TableLost, StableStep
<1>5. ASSUME NEW misread, TableRead(misread) PROVE StableStep
  BY <1>5 DEF TableRead, StableStep
<1> QED BY <1>2, <1>3, <1>4, <1>5, TableSteps DEF TableStep

\* Once the rebuild is over the row that answers for a chunk never changes until
\* the process dies, whatever is swapped out, released, evicted or fetched again.
THEOREM FirstMatchKept == Spec => FirstMatchStable
<1>1. Inv /\ [Next]_vars => [StableStep]_vars
  BY StepIsStable
<1>2. FirstMatchStable <=> [][StableStep]_vars
  BY DEF FirstMatchStable, StableStep
<1> QED BY <1>1, <1>2, Invariant, PTL DEF Spec
-----------------------------------------------------------------------------
(***************************************************************************)
(* The table file.                                                          *)
(***************************************************************************)
\* The file as the proofs below use it.
LEMMA FileParts ==
    ASSUME Inv
    PROVE  LET f == tfile[Dir0]
           IN  /\ f \in TableFile /\ f.len \in Nat /\ Len(f.recs) \in Nat
               /\ f.recs \in Seq([off : Nat, row : Row]) /\ DOMAIN f.recs = 1 .. Len(f.recs)
               /\ \A i \in 1 .. Len(f.recs) : f.recs[i].row \in Row
<1> DEFINE f == tfile[Dir0]
           Rec == [off : Nat, row : Row]
<1>1. f \in TableFile
  BY ConstantsAssumption DEF Inv, TypeOK
<1>2. f.len \in Nat /\ f.recs \in Seq(Rec)
  BY <1>1 DEF TableFile
<1>3. Len(f.recs) \in Nat /\ DOMAIN f.recs = 1 .. Len(f.recs) /\ \A i \in 1 .. Len(f.recs) : f.recs[i] \in Rec
  <2> DEFINE s == f.recs
  <2> HIDE DEF Rec, s
  <2>1. s \in Seq(Rec)
    BY <1>2 DEF s
  <2>2. Len(s) \in Nat /\ DOMAIN s = 1 .. Len(s) /\ \A i \in 1 .. Len(s) : s[i] \in Rec
    BY <2>1
  <2> QED BY <2>2 DEF s
<1>4. ASSUME NEW i \in 1 .. Len(f.recs) PROVE f.recs[i].row \in Row
  BY <1>3
<1> QED BY <1>1, <1>2, <1>3, <1>4

\* The rows of the file are a table.
LEMMA FileRowsSeq == ASSUME Inv PROVE FileRows(tfile[Dir0]) \in Seq(TableRow)
<1> DEFINE f == tfile[Dir0]
           n == Len(f.recs)
           s == FileRows(f)
<1>1. n \in Nat /\ DOMAIN f.recs = 1 .. n /\ \A i \in 1 .. n : f.recs[i].row \in Row
  BY FileParts
<1>2. s = [i \in 1 .. n |-> f.recs[i].row]
  BY <1>1 DEF FileRows
<1> HIDE DEF n, f
<1>3. s \in [1 .. n -> TableRow]
  BY <1>1, <1>2 DEF TableRow
<1> HIDE DEF s
<1>4. s \in Seq(TableRow)
  BY <1>1, <1>3
<1> QED BY <1>4 DEF s, f

\* A record appended to the file is a row appended to its rows, and the layout
\* is kept if the record has the length the reader expects.
LEMMA AppendedFile ==
    ASSUME Inv, NEW w \in Row
    PROVE  LET f == tfile[Dir0]
               g == appendChunkToTableFile(f, w)
           IN  /\ FileRows(g) = Append(FileRows(f), w)
               /\ FileLaidOut /\ LmtLen[w.chunk] = 16 =>
                    /\ g.len = Unit * Len(g.recs)
                    /\ \A i \in DOMAIN g.recs : g.recs[i].off = Unit * (i - 1)
<1> DEFINE f == tfile[Dir0]
           n == Len(f.recs)
           rec == [off |-> f.len, row |-> w]
           s == Append(f.recs, rec)
           g == appendChunkToTableFile(f, w)
           L == RecordLen(w.chunk)
<1>1. /\ n \in Nat /\ f.len \in Nat /\ f.recs \in Seq([off : Nat, row : Row])
      /\ DOMAIN f.recs = 1 .. n /\ \A i \in 1 .. n : f.recs[i].row \in Row
  BY FileParts
<1>2. rec \in [off : Nat, row : Row] /\ rec.off = f.len /\ rec.row = w
  BY <1>1
<1>3. g.recs = s /\ g.len = f.len + L
  BY DEF appendChunkToTableFile
<1>4. FileLaidOut => f.len = Unit * n /\ \A i \in 1 .. n : f.recs[i].off = Unit * (i - 1)
  BY <1>1 DEF FileLaidOut
<1>5. LmtLen[w.chunk] = 16 => L = 116
  BY DEF RecordLen
<1> HIDE DEF f, g, rec, n, L
<1>6. /\ Len(s) = n + 1 /\ DOMAIN s = 1 .. n + 1 /\ s[n + 1] = rec
      /\ \A i \in 1 .. n : s[i] = f.recs[i]
  BY <1>1, <1>2 DEF n
<1> HIDE DEF s
<1>7. FileRows(g) = Append(FileRows(f), w)
  <2> DEFINE t == FileRows(f)
             u == FileRows(g)
  <2>1. t = [i \in 1 .. n |-> f.recs[i].row]
    BY <1>1 DEF FileRows
  <2>2. t \in [1 .. n -> Row]
    BY <1>1, <2>1
  <2>3. u = [i \in 1 .. n + 1 |-> s[i].row]
    BY <1>3, <1>6 DEF FileRows
  <2> HIDE DEF t, u
  <2>4. t \in Seq(Row) /\ Len(t) = n
    BY <1>1, <2>2
  <2>5. /\ DOMAIN Append(t, w) = 1 .. n + 1 /\ Append(t, w)[n + 1] = w
        /\ \A i \in 1 .. n : Append(t, w)[i] = t[i]
    BY <1>1, <2>4
  <2>6. \A i \in 1 .. n + 1 : u[i] = Append(t, w)[i]
    BY <1>1, <1>2, <1>6, <2>1, <2>3, <2>5
  <2>7. Append(t, w) \in [1 .. n + 1 -> Row]
    <3>1. Append(t, w) \in Seq(Row) /\ Len(Append(t, w)) = n + 1
      BY <1>1, <2>4
    <3> QED BY <3>1, LenProperties
  <2>8. Append(t, w) = [i \in 1 .. n + 1 |-> Append(t, w)[i]]
    BY <2>7
  <2> QED BY <2>3, <2>6, <2>8 DEF t, u
<1>8. ASSUME FileLaidOut, LmtLen[w.chunk] = 16
      PROVE  g.len = Unit * Len(g.recs) /\ \A i \in DOMAIN g.recs : g.recs[i].off = Unit * (i - 1)
  <2>1. g.len = Unit * Len(g.recs)
    BY <1>1, <1>3, <1>4, <1>5, <1>6, <1>8 DEF Unit
  <2>2. ASSUME NEW i \in DOMAIN g.recs PROVE g.recs[i].off = Unit * (i - 1)
    <3>1. CASE i \in 1 .. n
      BY <1>3, <1>4, <1>6, <1>8, <3>1
    <3>2. CASE i = n + 1
      BY <1>1, <1>2, <1>3, <1>4, <1>6, <1>8, <3>2 DEF Unit
    <3> QED BY <1>1, <1>3, <1>6, <2>2, <3>1, <3>2
  <2> QED BY <2>1, <2>2
<1> QED BY <1>7, <1>8 DEF f, g

\* A file in the format the reader expects is read back as it was written.
LEMMA ReadBack ==
    ASSUME Inv, FileLaidOut, TableFormat
    PROVE  readChunkFromTableFile(tfile[Dir0], {}) = FileRows(tfile[Dir0])
<1> DEFINE f == tfile[Dir0]
           n == Len(f.recs)
           At(i, j) == f.recs[i].off = Unit * (j - 1) /\ LmtLen[f.recs[i].row.chunk] = 16
           Ok(j) == \E i \in DOMAIN f.recs : At(i, j)
           Found(j) == CHOOSE i \in DOMAIN f.recs : At(i, j)
           tab == [j \in 1 .. (f.len + Unit - 1) \div Unit |->
                     IF Ok(j) THEN f.recs[Found(j)].row ELSE Garbage]
<1>1. n \in Nat /\ f.len \in Nat /\ DOMAIN f.recs = 1 .. n /\ \A i \in 1 .. n : f.recs[i].row \in Row
  BY FileParts
<1>2. f.len = 116 * n /\ \A i \in 1 .. n : f.recs[i].off = 116 * (i - 1)
  BY <1>1 DEF FileLaidOut, Unit
<1>3. (f.len + Unit - 1) \div Unit = n
  <2>1. \A m \in Nat : (116 * m + 116 - 1) \div 116 = m
    OBVIOUS
  <2> QED BY <1>1, <1>2, <2>1 DEF Unit
<1>4. readChunkFromTableFile(f, {}) = tab
  BY DEF readChunkFromTableFile
<1>5. ASSUME NEW j \in 1 .. n, NEW i \in 1 .. n PROVE At(i, j) <=> i = j
  <2>1. LmtLen[f.recs[i].row.chunk] = 16
    BY <1>1 DEF TableFormat, Row
  <2>2. f.recs[i].off = 116 * (i - 1)
    BY <1>2
  <2> HIDE DEF f, n
  <2>3. i \in Nat /\ j \in Nat
    BY <1>1
  <2>4. 116 * (i - 1) = 116 * (j - 1) <=> i = j
    BY <2>3
  <2> QED BY <2>1, <2>2, <2>4 DEF Unit
<1> HIDE DEF At
<1>6. ASSUME NEW j \in 1 .. n PROVE Ok(j) /\ Found(j) = j
  BY <1>1, <1>5
<1> HIDE DEF Ok, Found
<1>7. tab = [j \in 1 .. n |-> f.recs[j].row]
  BY <1>3, <1>6
<1> QED BY <1>1, <1>4, <1>7 DEF FileRows
-----------------------------------------------------------------------------
(***************************************************************************)
(* The table in memory is the file.                                         *)
(***************************************************************************)
\* The first start finds an empty file.
LEMMA InitTable == Init => FileLaidOut /\ TableMirrorsFile
<1> SUFFICES ASSUME Init PROVE FileLaidOut /\ TableMirrorsFile
  OBVIOUS
<1>1. tfile[Dir0] = [recs |-> <<>>, len |-> 0] /\ proc = "down"
  BY ConstantsAssumption DEF Init
<1> QED BY <1>1 DEF FileLaidOut, TableMirrorsFile, Unit

\* Every step keeps the layout of the file and the table equal to it.
LEMMA NextTable ==
    ASSUME TableFormat, TableInv, [Next]_vars
    PROVE  TableInv'
<1>1. Inv /\ Inv' /\ FileLaidOut /\ TableMirrorsFile
  BY NextInv DEF TableInv
<1>2. CASE TableUntouched
  BY <1>1, <1>2 DEF TableUntouched, Loaded, FileLaidOut, TableMirrorsFile, TableInv
<1>3. ASSUME NEW k \in Keys, NEW d \in Dirs, IsYouTubeUrl(k[2]), RowAppended(k, d)
      PROVE  TableInv'
  <2> DEFINE f == tfile[Dir0]
             w == RowOf(k)
             g == appendChunkToTableFile(f, w)
  <2>1. w \in Row /\ w.chunk \in Chunks
    BY <1>3, RowOfKey DEF IsYouTubeUrl
  <2>2. d = Dir0 /\ LmtLen[w.chunk] = 16
    BY <2>1 DEF TableFormat
  <2>3. tfile'[Dir0] = g /\ table' = Append(table, w) /\ proc' = proc
    BY <1>1, <1>3, <2>2 DEF RowAppended, Inv, TypeOK
  <2>4. FileRows(g) = Append(FileRows(f), w)
    BY <1>1, <2>1, AppendedFile
  <2>5. g.len = Unit * Len(g.recs) /\ \A i \in DOMAIN g.recs : g.recs[i].off = Unit * (i - 1)
    BY <1>1, <2>1, <2>2, AppendedFile
  <2> HIDE DEF g, f, w
  <2>6. FileLaidOut'
    BY <2>3, <2>5 DEF FileLaidOut
  <2>7. TableMirrorsFile'
    BY <1>1, <2>3, <2>4 DEF TableMirrorsFile, f
  <2> QED BY <1>1, <2>6, <2>7 DEF TableInv
<1>4. CASE TableLost
  BY <1>1, <1>4 DEF TableLost, FileLaidOut, TableMirrorsFile, TableInv
<1>5. ASSUME NEW misread, TableRead(misread) PROVE TableInv'
  <2>1. tfile' = tfile /\ table' = FileRows(tfile[Dir0])
    BY <1>1, <1>5, ReadBack DEF TableRead, TableFormat
  <2> QED BY <1>1, <2>1 DEF FileLaidOut, TableMirrorsFile, TableInv
<1> QED BY <1>2, <1>3, <1>4, <1>5, <1>1, TableSteps DEF TableStep

\* The layout of the file and its equality with the table are inductive.
THEOREM TableInvariant == ASSUME TableFormat PROVE Spec => []TableInv
<1>1. Init => TableInv
  BY InitInv, InitTable DEF TableInv
<1>2. TableInv /\ [Next]_vars => TableInv'
  BY NextTable
<1> QED BY <1>1, <1>2, PTL DEF Spec

\* Once the rebuild is over, the table in memory is the table file, through
\* every death of the process and every swapout during a rebuild.
THEOREM TableMirrors == ASSUME TableFormat PROVE Spec => []TableMirrorsFile
<1>1. TableInv => TableMirrorsFile
  BY DEF TableInv
<1> QED BY <1>1, TableInvariant, PTL
-----------------------------------------------------------------------------
(***************************************************************************)
(* The refinement of ChunkMap.                                              *)
(***************************************************************************)
\* The map before the first start is empty.
LEMMA InitMap == Init => CM!Init
<1> SUFFICES ASSUME Init PROVE CM!Init
  OBVIOUS
<1>1. tfile[Dir0] = [recs |-> <<>>, len |-> 0] /\ proc = "down" /\ table = <<>>
  BY ConstantsAssumption DEF Init
<1>2. FileRows(tfile[Dir0]) = [i \in {} |-> <<>>[i].row]
  BY <1>1 DEF FileRows
<1>3. \A c \in Chunks : getMatchedSwapoutKey(table, c) = None
  BY <1>1 DEF getMatchedSwapoutKey, Matching
<1>4. \A c \in Chunks : getMatchedSwapoutKey(FileRows(tfile[Dir0]), c) = None
  BY <1>2 DEF getMatchedSwapoutKey, Matching
<1> QED BY <1>1, <1>3, <1>4 DEF CM!Init, CM!Empty, chunkMap, savedMap

\* The map of a table with one more row.
LEMMA RecordedMap ==
    ASSUME NEW tab \in Seq(TableRow), NEW w \in Row
    PROVE  [c \in Chunks |-> getMatchedSwapoutKey(Append(tab, w), c)] =
              CM!With([c \in Chunks |-> getMatchedSwapoutKey(tab, c)], w.chunk, w.key)
<1> DEFINE m == [c \in Chunks |-> getMatchedSwapoutKey(tab, c)]
           m2 == [c \in Chunks |-> getMatchedSwapoutKey(Append(tab, w), c)]
<1>1. w.chunk \in Chunks
  BY DEF Row
<1>2. \A c \in Chunks : m2[c] = IF m[c] # None THEN m[c]
                                ELSE IF w.chunk = c THEN w.key ELSE None
  BY AppendedMatch
<1>3. DOMAIN m = Chunks /\ m2 = [c \in Chunks |-> m2[c]] /\ m = [c \in Chunks |-> m[c]]
  OBVIOUS
<1> HIDE DEF m, m2
<1>4. m2 = IF m[w.chunk] = None THEN [m EXCEPT ![w.chunk] = w.key] ELSE m
  <2>1. CASE m[w.chunk] = None
    BY <1>1, <1>2, <1>3, <2>1
  <2>2. CASE m[w.chunk] # None
    BY <1>1, <1>2, <1>3, <2>2
  <2> QED BY <2>1, <2>2
<1> QED BY <1>4 DEF CM!With, m, m2

\* Every step of the store is a step of the map or leaves it alone.
LEMMA NextMap ==
    ASSUME TableFormat, TableInv, [Next]_vars
    PROVE  [CM!Next]_CM!mapVars
<1>1. Inv /\ FileLaidOut /\ table \in Seq(TableRow)
  BY DEF TableInv, Inv, TypeOK
<1>2. CASE TableUntouched
  <2>1. chunkMap' = chunkMap /\ savedMap' = savedMap
    BY <1>2 DEF TableUntouched, chunkMap, savedMap
  <2>2. (proc \in {"validating", "up"})' = (proc \in {"validating", "up"})
    BY <1>2 DEF TableUntouched, Loaded
  <2> QED BY <2>1, <2>2 DEF CM!mapVars
<1>3. ASSUME NEW k \in Keys, NEW d \in Dirs, IsYouTubeUrl(k[2]), RowAppended(k, d)
      PROVE  CM!Next
  <2> DEFINE f == tfile[Dir0]
             w == RowOf(k)
             g == appendChunkToTableFile(f, w)
  <2>1. w \in Row /\ w.chunk \in Chunks /\ w.key = k
    BY <1>3, RowOfKey DEF IsYouTubeUrl
  <2>2. d = Dir0
    BY DEF TableFormat
  <2>3. tfile'[Dir0] = g /\ table' = Append(table, w) /\ proc' = proc
    BY <1>1, <1>3, <2>2 DEF RowAppended, Inv, TypeOK
  <2>4. FileRows(g) = Append(FileRows(f), w) /\ FileRows(f) \in Seq(TableRow)
    BY <1>1, <2>1, AppendedFile, FileRowsSeq
  <2> HIDE DEF g, f, w
  <2>5. chunkMap' = CM!With(chunkMap, w.chunk, w.key)
    BY <1>1, <2>1, <2>3, RecordedMap DEF chunkMap
  <2>6. savedMap' = CM!With(savedMap, w.chunk, w.key)
    BY <2>1, <2>3, <2>4, RecordedMap DEF savedMap, f
  <2>7. CM!Record(w.chunk, k)
    BY <2>1, <2>3, <2>5, <2>6 DEF CM!Record
  <2> QED BY <2>1, <2>7 DEF CM!Next
<1>4. CASE TableLost
  <2>1. \A c : getMatchedSwapoutKey(<<>>, c) = None
    BY DEF getMatchedSwapoutKey, Matching
  <2>2. chunkMap' = CM!Empty
    BY <1>4, <2>1 DEF TableLost, chunkMap, CM!Empty
  <2>3. CM!Forget
    BY <1>4, <2>2 DEF TableLost, CM!Forget, savedMap
  <2> QED BY <2>3 DEF CM!Next
<1>5. ASSUME NEW misread, TableRead(misread) PROVE CM!Next
  <2>1. tfile' = tfile /\ table' = FileRows(tfile[Dir0])
    BY <1>1, <1>5, ReadBack DEF TableRead, TableFormat
  <2>2. chunkMap' = savedMap /\ savedMap' = savedMap
    BY <2>1 DEF chunkMap, savedMap
  <2>3. CM!Restore
    BY <1>5, <2>2 DEF TableRead, CM!Restore
  <2> QED BY <2>3 DEF CM!Next
<1> QED BY <1>2, <1>3, <1>4, <1>5, <1>1, TableSteps DEF TableStep

\* The list with duplicate rows, its append-only file, the deaths of the process
\* and the rebuild implement a write-once persistent map from chunks to keys.
THEOREM TableImplementsMap == ASSUME TableFormat PROVE Spec => ImplementsChunkMap
<1>1. Init => CM!Init
  BY InitMap
<1>2. TableInv /\ [Next]_vars => [CM!Next]_CM!mapVars
  BY NextMap
<1> QED BY <1>1, <1>2, TableInvariant, PTL DEF Spec, ImplementsChunkMap, CM!Spec
-----------------------------------------------------------------------------
(***************************************************************************)
(* The index.                                                              *)
(***************************************************************************)
\* a released entry is private, and an entry is on disk only once it is complete
Sober(x) == (x.rel => ~x.pub) /\ (x.st = "pending" => x.swap # "done")

\* x becomes y without being published
Quieter(x, y) == (y.pub => x.pub /\ y.key = x.key) /\ (Sober(x) => Sober(y))
-----------------------------------------------------------------------------
(***************************************************************************)
(* The operations on one entry.                                             *)
(***************************************************************************)
\* An address without an entry is private and off the disk.
LEMMA FreeIsSober == ~Free.pub /\ Sober(Free)
BY DEF Free, Sober

\* Becoming less public twice is becoming less public.
LEMMA QuieterTransitive ==
    ASSUME NEW x, NEW y, NEW z, Quieter(x, y), Quieter(y, z) PROVE Quieter(x, z)
BY DEF Quieter

\* storeReleaseRequest makes an entry private.
LEMMA ReleaseRequestQuieter ==
    ASSUME NEW x, GoodEntry(x)
    PROVE  Quieter(x, storeReleaseRequest(x))
<1>1. CASE x.rel
  BY <1>1 DEF storeReleaseRequest, Quieter
<1>2. CASE ~x.rel
  <2> DEFINE z == [x EXCEPT !.rel = TRUE, !.pub = FALSE]
  <2>1. z = storeReleaseRequest(x)
    BY <1>2 DEF storeReleaseRequest
  <2>2. ~z.pub /\ z.st = x.st /\ z.swap = x.swap
    BY DEF GoodEntry, Entry
  <2> HIDE DEF z
  <2> QED BY <2>1, <2>2 DEF Quieter, Sober
<1> QED BY <1>1, <1>2

\* So does storeRelease, whatever it finds.
LEMMA ReleaseQuieter ==
    ASSUME NEW x, GoodEntry(x), NEW lock
    PROVE  Quieter(x, storeRelease(x, lock))
<1>1. CASE storeEntryLocked(x, lock)
  BY <1>1, ReleaseRequestQuieter DEF storeRelease
<1>2. CASE ~storeEntryLocked(x, lock) /\ Rebuilding /\ x.filen # None
  <2> DEFINE z == [x EXCEPT !.pub = FALSE, !.murl = None, !.data = FALSE, !.late = TRUE, !.rel = TRUE]
  <2>1. z = storeRelease(x, lock)
    BY <1>2 DEF storeRelease
  <2>2. ~z.pub /\ z.st = x.st /\ z.swap = x.swap
    BY DEF GoodEntry, Entry
  <2> HIDE DEF z
  <2> QED BY <2>1, <2>2 DEF Quieter, Sober
<1>3. CASE ~storeEntryLocked(x, lock) /\ ~(Rebuilding /\ x.filen # None)
  BY <1>3, FreeIsSober DEF storeRelease, Quieter
<1> QED BY <1>1, <1>2, <1>3

\* An entry without its memory object is as public as before.
LEMMA NoMemQuieter ==
    ASSUME NEW x, GoodEntry(x)
    PROVE  Quieter(x, [x EXCEPT !.murl = None])
<1> DEFINE z == [x EXCEPT !.murl = None]
<1>1. z.pub = x.pub /\ z.key = x.key /\ z.rel = x.rel /\ z.st = x.st /\ z.swap = x.swap
  BY DEF GoodEntry, Entry
<1> QED BY <1>1 DEF Quieter, Sober

\* The last holder lets go.
LEMMA UnlockQuieter ==
    ASSUME NEW x, GoodEntry(x), NEW lock
    PROVE  Quieter(x, storeUnlockObject(x, lock))
<1> DEFINE y == [x EXCEPT !.murl = None]
<1>1. Quieter(x, x)
  BY DEF Quieter
<1>2. Quieter(x, y)
  BY NoMemQuieter
<1>3. CASE storeEntryLocked(x, lock) \/ x.rel \/ x.data \/ x.swap = "done"
  BY <1>1, <1>2, <1>3, ReleaseQuieter DEF storeUnlockObject
<1>4. CASE ~storeEntryLocked(x, lock) /\ ~x.rel /\ ~x.data /\ x.swap # "done"
  <2>1. y.filen = x.filen /\ y.st = x.st /\ y.srv = x.srv /\ y.late = x.late /\ y.swap = x.swap
    BY DEF GoodEntry, Entry
  <2>2. x.filen = None
    BY <1>4 DEF GoodEntry, Entry, storeEntryLocked
  <2>3. storeRelease(y, FALSE) = Free
    BY <1>4, <2>1, <2>2 DEF storeRelease, storeEntryLocked
  <2>4. storeUnlockObject(x, lock) = Free
    BY <1>4, <2>3 DEF storeUnlockObject
  <2> QED BY <2>4, FreeIsSober DEF Quieter
<1> QED BY <1>3, <1>4

\* storeSwapOut may start to write a file that nobody has.
LEMMA SwapOutQuieter ==
    ASSUME NEW x, GoodEntry(x), NEW y \in storeSwapOut(x)
    PROVE  /\ Quieter(x, y)
           /\ SameSwap(x, y) \/ (y.swap = "writing" /\ UnusedFile(y.filen))
<1>1. CASE y = x
  BY <1>1 DEF Quieter, SameSwap
<1>2. CASE y = storeReleaseRequest(x)
  <2>1. SameSwap(x, y)
    BY <1>2 DEF storeReleaseRequest, SameSwap, GoodEntry, Entry
  <2> QED BY <1>2, <2>1, ReleaseRequestQuieter
<1>3. CASE \E f \in Files : UnusedFile(f) /\ y = [x EXCEPT !.swap = "writing", !.filen = f]
  <2>1. PICK f \in Files : UnusedFile(f) /\ y = [x EXCEPT !.swap = "writing", !.filen = f]
    BY <1>3
  <2>2. /\ y.pub = x.pub /\ y.key = x.key /\ y.rel = x.rel /\ y.st = x.st
        /\ y.swap = "writing" /\ y.filen = f
    BY <2>1 DEF GoodEntry, Entry
  <2> QED BY <2>1, <2>2 DEF Quieter, Sober
<1> QED BY <1>1, <1>2, <1>3 DEF storeSwapOut

\* storeAbort makes an entry private.
LEMMA AbortQuieter ==
    ASSUME NEW x, GoodEntry(x), x.st # "free"
    PROVE  Quieter(x, storeAbort(x))
<1> DEFINE w == storeReleaseRequest(x)
           z == [w EXCEPT !.aborted = TRUE, !.st = "ok"]
<1>1. Quieter(x, w) /\ GoodEntry(w)
  BY ReleaseRequestQuieter, ReleaseRequestKeeps
<1>2. storeAbort(x) = z
  BY DEF storeAbort
<1> HIDE DEF w
<1>3. z.pub = w.pub /\ z.key = w.key /\ z.rel = w.rel /\ z.st = "ok" /\ z.swap = w.swap
  BY <1>1 DEF GoodEntry, Entry
<1>4. Quieter(w, z)
  BY <1>3 DEF Quieter, Sober
<1> QED BY <1>1, <1>2, <1>4, QuieterTransitive

\* what an operation that publishes nothing may make of an entry
Changes(x, y) ==
    /\ Quieter(x, y)
    /\ SameSwap(x, y) \/ (y.swap = "writing" /\ UnusedFile(y.filen))

\* A change followed by one that takes no file is a change.
LEMMA ChangesThen ==
    ASSUME NEW x, NEW y, NEW z, Changes(x, y), Quieter(y, z), SameSwap(y, z)
    PROVE  Changes(x, z)
BY QuieterTransitive DEF Changes, SameSwap

\* A client leaves.
LEMMA UnregisterChanges ==
    ASSUME NEW x, GoodEntry(x), x.st # "free", NEW others \in BOOLEAN,
           NEW z \in storeClientUnregister(x, others)
    PROVE  Changes(x, z)
<1>1. PICK y : /\ z = storeUnlockObject(y, others)
               /\ y \in storeSwapOut(x) \/ y = storeAbort(x) \/ y = x
  BY DEF storeClientUnregister
<1>2. Changes(x, y)
  BY <1>1, SwapOutQuieter, AbortQuieter, AbortGood DEF Changes, Quieter, SameSwap
<1>3. GoodEntry(y) /\ y.st # "free"
  BY <1>1, SwapOutGood, AbortGood DEF Kept
<1>4. Quieter(y, z) /\ SameSwap(y, z)
  BY <1>1, <1>3, UnlockQuieter, UnlockGood
<1> QED BY <1>2, <1>4, ChangesThen
-----------------------------------------------------------------------------
(***************************************************************************)
(* The steps that change entries.                                           *)
(***************************************************************************)
KeysUnique(ob) ==
    \A d, e \in Entries : ob[d].pub /\ ob[e].pub /\ ob[d].key = ob[e].key => d = e

FilesDistinct(ob) ==
    \A d, e \in Entries : ob[d].filen # None /\ ob[d].filen = ob[e].filen => d = e

SoberStore(ob) == \A e \in Entries : Sober(ob[e])

\* the key has a record in some table file
RecordedIn(tf, k) == \E d \in Dirs : \E i \in DOMAIN tf[d].recs : tf[d].recs[i].row.key = k

\* ob becomes ob2: one entry at most takes a file, and one that nobody had
Moves(ob, ob2) ==
    /\ \E d \in Entries : \A e \in Entries : e # d => ob2[e].filen \in {None, ob[e].filen}
    /\ \A e \in Entries : ob2[e].filen \in {None, ob[e].filen} \/ UnusedFile(ob2[e].filen)
    /\ \A e \in Entries : ob2[e].swap = "done" => ob2[e].filen = ob[e].filen
    /\ \A e \in Entries : ob2[e].pub => ob2[e].key = ob[e].key
    /\ KeysUnique(ob2) /\ SoberStore(ob2)

\* what is logged from now on is in a table file, what is no longer torn too
NewLogsRecorded ==
    /\ \A e \in Entries :
          Logged(obj'[e]) /\ ~Logged(obj[e]) /\ IsYouTubeUrl(obj'[e].key[2])
          => RecordedIn(tfile', obj'[e].key)
    /\ \A k \in torn : k \notin torn' => RecordedIn(tfile', k)

\* the entries change and the disk follows
EntriesStep ==
    /\ SetEntries(obj') /\ Moves(obj, obj') /\ NewLogsRecorded
    /\ UNCHANGED <<proc, todo, kills>>

\* nothing that the disk knows of an entry changes
Silent(x, y) ==
    /\ y.filen = x.filen /\ y.swap = x.swap /\ y.pub = x.pub
    /\ x.pub => y.key = x.key
    /\ Sober(x) => Sober(y)

MemoryStep ==
    /\ \A e \in Entries : Silent(obj[e], obj'[e])
    /\ map \subseteq map'
    /\ UNCHANGED <<proc, disk, slog, nlog, tfile, todo, torn, kills>>

IndexBase == Inv /\ KeysUnique(obj) /\ SoberStore(obj)

\* One or two entries change without being published.
LEMMA ChangesMove ==
    ASSUME IndexBase, Inv', SetEntries(obj'), NEW c \in Entries, Changes(obj[c], obj'[c]),
           \A e \in Entries : e # c => Quieter(obj[e], obj'[e]) /\ SameSwap(obj[e], obj'[e]),
           UNCHANGED <<proc, table, tfile, todo, torn, kills>>
    PROVE  EntriesStep
<1> DEFINE ob2 == obj'
<1>1. \A e \in Entries : Quieter(obj[e], ob2[e]) /\ GoodEntry(ob2[e])
  BY DEF Changes, Inv, GoodStore
<1>2. \A e \in Entries : e # c => ob2[e].filen \in {None, obj[e].filen}
  BY DEF SameSwap
<1>3. \A e \in Entries : SameSwap(obj[e], ob2[e]) \/ (ob2[e].swap = "writing" /\ UnusedFile(ob2[e].filen))
  BY DEF Changes
<1>4. \A e \in Entries : ob2[e].swap = "done" => ob2[e].filen = obj[e].filen /\ obj[e].swap = "done"
  BY <1>1, <1>3 DEF SameSwap, GoodEntry
<1>5. \A e \in Entries : ob2[e].filen \in {None, obj[e].filen} \/ UnusedFile(ob2[e].filen)
  BY <1>3 DEF SameSwap
<1>6. \A e \in Entries : ob2[e].pub => obj[e].pub /\ ob2[e].key = obj[e].key
  BY <1>1 DEF Quieter
<1>7. KeysUnique(ob2)
  BY <1>6 DEF KeysUnique, IndexBase
<1>8. SoberStore(ob2)
  BY <1>1 DEF Quieter, SoberStore, IndexBase
<1>9. Moves(obj, ob2)
  BY <1>2, <1>4, <1>5, <1>6, <1>7, <1>8 DEF Moves
<1>10. \A e \in Entries : Logged(ob2[e]) => Logged(obj[e])
  BY <1>4, <1>6 DEF Logged
<1>11. NewLogsRecorded
  BY <1>10 DEF NewLogsRecorded
<1> QED BY <1>9, <1>11 DEF EntriesStep

\* One entry changes without being published.
LEMMA OneChanges ==
    ASSUME IndexBase, Inv', NEW e \in Entries, NEW y, Changes(obj[e], y),
           SetEntries([obj EXCEPT ![e] = y]),
           UNCHANGED <<proc, table, tfile, todo, torn, kills>>
    PROVE  EntriesStep
<1>1. obj \in [Entries -> Entry]
  BY DEF IndexBase, Inv, GoodStore
<1>2. obj' = [obj EXCEPT ![e] = y]
  BY DEF SetEntries
<1>3. SetEntries(obj')
  BY <1>2
<1>4. obj'[e] = y /\ \A d \in Entries : d # e => obj'[d] = obj[d]
  BY <1>1, <1>2
<1>5. \A d \in Entries : d # e => Quieter(obj[d], obj'[d]) /\ SameSwap(obj[d], obj'[d])
  BY <1>4 DEF Quieter, SameSwap
<1> QED BY <1>3, <1>4, <1>5, ChangesMove

\* what the index knows of an entry stays, and it may become complete
Tweaked(x, y) ==
    /\ y.pub = x.pub /\ y.key = x.key /\ y.rel = x.rel
    /\ y.swap = x.swap /\ y.filen = x.filen
    /\ y.st \in {x.st, "ok"}

\* Such a change publishes nothing and takes no file.
LEMMA TweakedQuieter ==
    ASSUME NEW x, NEW y, Tweaked(x, y) PROVE Quieter(x, y) /\ SameSwap(x, y) /\ Changes(x, y)
BY DEF Tweaked, Quieter, SameSwap, Sober, Changes

\* The server side lets go of an entry.
LEMMA ServerUnlockQuieter ==
    ASSUME NEW x, GoodEntry(x), x.st # "free", NEW lock \in BOOLEAN
    PROVE  LET z == fwdStateFree(x, lock) IN Quieter(x, z) /\ SameSwap(x, z)
<1> DEFINE y == [x EXCEPT !.srv = FALSE]
<1>1. GoodEntry(y)
  BY DEF GoodEntry, Entry
<1>2. Tweaked(x, y)
  BY DEF GoodEntry, Entry, Tweaked
<1> HIDE DEF y
<1>3. Quieter(y, storeUnlockObject(y, lock))
  BY <1>1, UnlockQuieter
<1>4. fwdStateFree(x, lock) = storeUnlockObject(y, lock)
  BY DEF fwdStateFree, y
<1> QED BY <1>2, <1>3, <1>4, TweakedQuieter, QuieterTransitive, ServerUnlockGood

\* The server side adds to an entry, completes it, or gives it up.
LEMMA ServerSteps ==
    ASSUME IndexBase, Inv', NEW e \in Entries,
           \/ Append4K(e)
           \/ \E validLength \in BOOLEAN : Complete(e, validLength)
           \/ RequestFailed(e)
           \/ ServerAborted(e)
    PROVE  EntriesStep
<1> DEFINE x == obj[e]
           lock == Users(e) # {}
<1>1. GoodEntry(x) /\ Inv /\ lock \in BOOLEAN
  BY DEF IndexBase, Inv, GoodStore
<1> HIDE DEF lock
<1>2. CASE Append4K(e)
  <2>1. PICK y \in storeSwapOut(x) : SetEntries([obj EXCEPT ![e] = y])
    BY <1>2 DEF Append4K
  <2>2. Changes(x, y)
    BY <1>1, <2>1, SwapOutQuieter DEF Changes
  <2>3. UNCHANGED <<proc, table, tfile, todo, torn, kills>>
    BY <1>2 DEF Append4K
  <2> QED BY <2>1, <2>2, <2>3, OneChanges
<1>3. ASSUME NEW validLength \in BOOLEAN, Complete(e, validLength) PROVE EntriesStep
  <2> DEFINE v == [x EXCEPT !.st = "ok"]
             w == IF validLength THEN v ELSE storeReleaseRequest(v)
  <2>1. x.st = "pending" /\ UNCHANGED <<proc, table, tfile, todo, torn, kills>>
    BY <1>3 DEF Complete
  <2>2. GoodEntry(v) /\ v.st # "free"
    BY <1>1, <2>1 DEF GoodEntry, Entry
  <2>3. Tweaked(x, v)
    BY <1>1 DEF GoodEntry, Entry, Tweaked
  <2>4. PICK y \in storeSwapOut(w) : SetEntries([obj EXCEPT ![e] = fwdStateFree(y, lock)])
    BY <1>3 DEF Complete, storeComplete, lock
  <2> HIDE DEF v
  <2>5. GoodEntry(w) /\ w.st # "free" /\ Quieter(v, w) /\ SameSwap(v, w)
    BY <2>2, ReleaseRequestKeeps, ReleaseRequestQuieter DEF Quieter, SameSwap
  <2> HIDE DEF w
  <2>6. Changes(w, y) /\ GoodEntry(y) /\ y.st # "free"
    BY <2>5, SwapOutQuieter, SwapOutGood DEF Changes
  <2>7. Changes(x, y)
    BY <2>3, <2>5, <2>6, QuieterTransitive DEF Changes, SameSwap, Tweaked, Quieter, Sober
  <2>8. Changes(x, fwdStateFree(y, lock))
    BY <1>1, <2>6, <2>7, ServerUnlockQuieter, ChangesThen
  <2> QED BY <2>1, <2>4, <2>8, OneChanges
<1>4. CASE RequestFailed(e)
  <2> DEFINE y == storeRequestFailed(x)
             w == storeReleaseRequest(x)
  <2>1. x.st = "pending" /\ UNCHANGED <<proc, table, tfile, todo, torn, kills>>
    BY <1>4 DEF RequestFailed
  <2>2. SetEntries([obj EXCEPT ![e] = fwdStateFree(y, lock)])
    BY <1>4, <1>1 DEF RequestFailed, lock, Inv, TypeOK
  <2>3. GoodEntry(y) /\ y.st # "free" /\ Changes(x, y)
    <3>1. CASE x.hdr
      BY <1>1, <2>1, <3>1, AbortQuieter, AbortGood DEF storeRequestFailed, Changes, Kept
    <3>2. CASE ~x.hdr
      <4>1. GoodEntry(w) /\ w.st # "free" /\ Quieter(x, w) /\ SameSwap(x, w)
        BY <1>1, <2>1, ReleaseRequestKeeps, ReleaseRequestQuieter
      <4>2. y = [w EXCEPT !.st = "ok", !.hdr = TRUE, !.data = TRUE, !.body = "error"]
        BY <3>2 DEF storeRequestFailed
      <4> HIDE DEF w, y
      <4>3. GoodEntry(y) /\ y.st # "free" /\ Tweaked(w, y)
        BY <4>1, <4>2 DEF GoodEntry, Entry, Bodies, Tweaked
      <4>4. Changes(x, w)
        BY <4>1 DEF Changes
      <4> QED BY <4>3, <4>4, TweakedQuieter, ChangesThen
    <3> QED BY <3>1, <3>2
  <2> HIDE DEF y
  <2>4. Changes(x, fwdStateFree(y, lock))
    BY <1>1, <2>3, ServerUnlockQuieter, ChangesThen
  <2> QED BY <2>1, <2>2, <2>4, OneChanges
<1>5. CASE ServerAborted(e)
  <2>1. SetEntries([obj EXCEPT ![e] = fwdStateFree(x, lock)])
        /\ UNCHANGED <<proc, table, tfile, todo, torn, kills>>
    BY <1>1, <1>5 DEF ServerAborted, lock, Inv, TypeOK
  <2>2. x.st # "free"
    BY <1>1, <1>5 DEF ServerAborted, GoodEntry, Free
  <2>3. Changes(x, fwdStateFree(x, lock))
    BY <1>1, <2>2, ServerUnlockQuieter DEF Changes
  <2> QED BY <2>1, <2>3, OneChanges
<1> QED BY <1>2, <1>3, <1>4, <1>5

\* Swapout, memory and disk space take things from an entry.
LEMMA StorageSteps ==
    ASSUME IndexBase, Inv', NEW e \in Entries,
           SwapOutFileError(e) \/ PurgeMem(e) \/ Evict(e) \/ LateRelease(e) \/ Validate(e)
    PROVE  EntriesStep
<1> DEFINE x == obj[e]
           lock == Users(e) # {}
<1>1. GoodEntry(x) /\ Inv /\ lock \in BOOLEAN /\ obj \in [Entries -> Entry]
  BY DEF IndexBase, Inv, GoodStore
<1>2. lock => x.st # "free"
  BY <1>1, UsedEntries DEF UsersInUse
<1> HIDE DEF lock
<1>3. CASE SwapOutFileError(e)
  <2> DEFINE w == storeReleaseRequest(x)
             y == [w EXCEPT !.swap = "none", !.filen = None]
             z == storeUnlockObject(y, lock)
  <2>1. x.st # "free" /\ x.swap = "writing" /\ UNCHANGED <<proc, table, tfile, todo, torn, kills>>
    BY <1>1, <1>3 DEF SwapOutFileError, GoodEntry, Free
  <2>2. SetEntries([obj EXCEPT ![e] = z])
    BY <1>1, <1>3 DEF SwapOutFileError, lock
  <2>3. GoodEntry(w) /\ w.st # "free" /\ Quieter(x, w)
    BY <1>1, <2>1, ReleaseRequestKeeps, ReleaseRequestQuieter
  <2>4. w.swap # "done"
    BY <1>1, <2>1 DEF storeReleaseRequest, GoodEntry, Entry
  <2> HIDE DEF w
  <2>5. /\ y \in Entry /\ y.st = w.st /\ y.key = w.key /\ y.murl = w.murl /\ y.pub = w.pub
        /\ y.rel = w.rel /\ y.swap = "none" /\ y.filen = None
    BY <2>3 DEF GoodEntry, Entry
  <2> HIDE DEF y
  <2>6. GoodEntry(y) /\ y.st # "free"
    BY <2>3, <2>4, <2>5 DEF GoodEntry
  <2>7. Quieter(w, y) /\ SameSwap(x, y)
    BY <2>5 DEF Quieter, Sober, SameSwap
  <2>8. Changes(x, y)
    BY <2>3, <2>7, QuieterTransitive DEF Changes
  <2>9. Changes(x, z)
    BY <1>1, <2>6, <2>8, UnlockQuieter, UnlockGood, ChangesThen
  <2> QED BY <2>1, <2>2, <2>9, OneChanges
<1>4. CASE PurgeMem(e)
  <2> DEFINE y == [x EXCEPT !.data = FALSE, !.murl = None]
             z == IF y.swap = "done" THEN y ELSE storeRelease(y, FALSE)
  <2>1. [obj EXCEPT ![e].data = FALSE, ![e].murl = None][e] = y
    BY <1>1
  <2>2. SetEntries([obj EXCEPT ![e] = z]) /\ UNCHANGED <<proc, table, tfile, todo, torn, kills>>
    <3> HIDE DEF y
    <3> QED BY <1>4, <2>1 DEF PurgeMem
  <2>3. Tweaked(x, y)
    BY <1>1 DEF GoodEntry, Entry, Tweaked
  <2>4. ~storeEntryLocked(x, lock) /\ x.st = "ok"
    BY <1>4 DEF PurgeMem, lock
  <2>5. y.filen = x.filen /\ y.st = x.st /\ y.srv = x.srv /\ y.late = x.late /\ y.swap = x.swap
    BY <1>1 DEF GoodEntry, Entry
  <2> HIDE DEF y
  <2>6. y.swap # "done" => z = Free
    <3> SUFFICES ASSUME y.swap # "done" PROVE z = Free
      OBVIOUS
    <3>1. x.filen = None
      BY <1>1, <2>4, <2>5 DEF storeEntryLocked, GoodEntry, Entry
    <3> QED BY <2>4, <2>5, <3>1 DEF storeRelease, storeEntryLocked
  <2>7. Changes(x, Free)
    BY FreeIsSober DEF Changes, Quieter, SameSwap, Free
  <2>8. Changes(x, z)
    BY <2>3, <2>6, <2>7, TweakedQuieter
  <2> QED BY <2>2, <2>8, OneChanges
<1>5. CASE Evict(e)
  <2>1. SetEntries([obj EXCEPT ![e] = storeRelease(x, lock)])
        /\ UNCHANGED <<proc, table, tfile, todo, torn, kills>>
    BY <1>1, <1>5 DEF Evict, ReleaseIn, lock
  <2>2. Changes(x, storeRelease(x, lock))
    BY <1>1, <1>2, ReleaseQuieter, ReleaseGood DEF Changes
  <2> QED BY <2>1, <2>2, OneChanges
<1>6. CASE LateRelease(e)
  <2> DEFINE y == [x EXCEPT !.late = FALSE]
             z == storeUnlockObject(y, lock)
  <2>1. x.st # "free"
    BY <1>1, <1>6 DEF LateRelease, GoodEntry, Free
  <2>2. SetEntries([obj EXCEPT ![e] = z]) /\ UNCHANGED <<proc, table, tfile, todo, torn, kills>>
    BY <1>1, <1>6 DEF LateRelease, lock
  <2>3. GoodEntry(y) /\ y.st # "free" /\ Tweaked(x, y)
    BY <1>1, <2>1 DEF GoodEntry, Entry, Tweaked
  <2> HIDE DEF y
  <2>4. Changes(x, z)
    BY <1>1, <2>3, TweakedQuieter, UnlockQuieter, UnlockGood, ChangesThen
  <2> QED BY <2>2, <2>4, OneChanges
<1>7. CASE Validate(e)
  <2> DEFINE y == [x EXCEPT !.valid = TRUE]
             z == IF y.pub THEN y ELSE storeRelease(y, lock)
  <2>1. [obj EXCEPT ![e].valid = TRUE][e] = y /\ x.st # "free"
    BY <1>1, <1>7 DEF Validate
  <2>2. SetEntries([obj EXCEPT ![e] = z]) /\ UNCHANGED <<proc, table, tfile, todo, torn, kills>>
    <3> HIDE DEF y
    <3> QED BY <1>7, <2>1 DEF Validate, lock
  <2>3. GoodEntry(y) /\ y.st # "free" /\ Tweaked(x, y)
    BY <1>1, <2>1 DEF GoodEntry, Entry, Tweaked
  <2> HIDE DEF y
  <2>4. Changes(x, z)
    BY <1>1, <2>3, TweakedQuieter, ReleaseQuieter, ReleaseGood, ChangesThen
  <2> QED BY <2>2, <2>4, OneChanges
<1> QED BY <1>3, <1>4, <1>5, <1>6, <1>7

\* A client leaves an entry, and perhaps starts another one.
LEMMA ClientSteps ==
    ASSUME IndexBase, Inv', NEW r \in Requests,
           ClientDone(r) \/ \E n \in Entries : CacheMiss(r, n)
    PROVE  EntriesStep
<1> DEFINE e == req[r].e
           x == obj[e]
           others == Users(e) # {r}
<1>1. Inv /\ obj \in [Entries -> Entry] /\ others \in BOOLEAN
  BY DEF IndexBase, Inv, GoodStore
<1>2. req[r].ph # "idle"
  BY DEF ClientDone, CacheMiss
<1>3. e \in Entries /\ GoodEntry(x) /\ x.st # "free" /\ req[r].key \in Keys
  BY <1>1, <1>2 DEF Inv, GoodRequests, GoodRequest, GoodStore
<1> HIDE DEF others
<1>4. CASE ClientDone(r)
  <2>1. PICK y \in storeClientUnregister(x, others) : SetEntries([obj EXCEPT ![e] = y])
    BY <1>4 DEF ClientDone, others
  <2>2. UNCHANGED <<proc, table, tfile, todo, torn, kills>>
    BY <1>4 DEF ClientDone
  <2> HIDE DEF e
  <2>3. Changes(x, y)
    BY <1>1, <1>3, <2>1, UnregisterChanges
  <2> QED BY <1>3, <2>1, <2>2, <2>3, OneChanges
<1>5. ASSUME NEW n \in Entries, CacheMiss(r, n) PROVE EntriesStep
  <2> DEFINE z == storeCreateEntry(req[r].key)
  <2>1. PICK y \in storeClientUnregister(x, others) : SetEntries([obj EXCEPT ![e] = y, ![n] = z])
    BY <1>5 DEF CacheMiss, others
  <2>2. UNCHANGED <<proc, table, tfile, todo, torn, kills>> /\ obj[n] = Free
    BY <1>5 DEF CacheMiss
  <2>3. e # n
    BY <1>3, <2>2 DEF Free
  <2> HIDE DEF e
  <2>4. Changes(x, y)
    BY <1>1, <1>3, <2>1, UnregisterChanges
  <2>5. ~z.pub /\ z.filen = None /\ z.swap = "none"
    BY DEF storeCreateEntry, Free
  <2> HIDE DEF z
  <2>6. obj' = [obj EXCEPT ![e] = y, ![n] = z]
    BY <2>1 DEF SetEntries
  <2>7. /\ obj'[e] = y /\ obj'[n] = z
        /\ \A d \in Entries : d # e /\ d # n => obj'[d] = obj[d]
    BY <1>1, <1>3, <2>3, <2>6
  <2>8. SetEntries(obj')
    BY <2>1, <2>6
  <2>9. Quieter(Free, z) /\ SameSwap(Free, z)
    BY <2>5 DEF Quieter, SameSwap, Sober
  <2>10. ASSUME NEW d \in Entries, d # e PROVE Quieter(obj[d], obj'[d]) /\ SameSwap(obj[d], obj'[d])
    <3>1. CASE d = n
      BY <2>2, <2>7, <2>9, <3>1
    <3>2. CASE d # n
      BY <2>7, <2>10, <3>2 DEF Quieter, SameSwap
    <3> QED BY <3>1, <3>2
  <2> QED BY <1>3, <2>2, <2>4, <2>7, <2>8, <2>10, ChangesMove
<1> QED BY <1>4, <1>5

\* Requests that find an entry, ask for one or are answered leave the disk alone,
\* and so does a create that fails.
LEMMA MemorySteps ==
    ASSUME IndexBase,
           \/ \E r \in Requests, k \in Keys : RequestHit(r, k)
           \/ \E r \in Requests, k \in Keys, n \in Entries : RequestMiss(r, k, n)
           \/ \E r \in Requests : CacheHit(r)
           \/ \E e \in Entries : TrimMemory(e)
           \/ \E e \in Entries, f \in Files : CreateFails(e, f)
    PROVE  MemoryStep
<1>1. obj \in [Entries -> Entry] /\ Inv
  BY DEF IndexBase, Inv, GoodStore
<1>2. ASSUME NEW e \in Entries, NEW y, obj' = [obj EXCEPT ![e] = y], Silent(obj[e], y),
             DiskUnchanged, UNCHANGED <<proc, tfile, todo, torn, kills>>
      PROVE  MemoryStep
  <2>1. obj'[e] = y /\ \A d \in Entries : d # e => obj'[d] = obj[d]
    BY <1>1, <1>2
  <2>2. \A d \in Entries : Silent(obj[d], obj'[d])
    BY <1>2, <2>1 DEF Silent
  <2> QED BY <1>2, <2>2 DEF MemoryStep, DiskUnchanged
<1>3. ASSUME NEW r \in Requests, NEW k \in Keys, RequestHit(r, k) PROVE MemoryStep
  <2> DEFINE e == storeGetPublicByRequest(obj, k)
             y == [obj[e] EXCEPT !.murl = IF @ = None THEN k[2] ELSE @]
  <2>1. e \in Entries
    BY <1>1, <1>3, LookupFinds DEF RequestHit
  <2>2. /\ obj' = [obj EXCEPT ![e] = y] /\ DiskUnchanged
        /\ UNCHANGED <<proc, tfile, todo, torn, kills>>
    BY <1>1, <1>3, <2>1 DEF RequestHit
  <2> HIDE DEF e
  <2>3. /\ y.filen = obj[e].filen /\ y.swap = obj[e].swap /\ y.pub = obj[e].pub
        /\ y.key = obj[e].key /\ y.rel = obj[e].rel /\ y.st = obj[e].st
    BY <1>1, <2>1 DEF Entry
  <2> HIDE DEF y
  <2>4. Silent(obj[e], y)
    BY <2>3 DEF Silent, Sober
  <2> QED BY <1>2, <2>1, <2>2, <2>4
<1>4. ASSUME NEW r \in Requests, NEW k \in Keys, NEW n \in Entries, RequestMiss(r, k, n)
      PROVE  MemoryStep
  <2> DEFINE z == storeCreateEntry(k)
  <2>1. obj' = [obj EXCEPT ![n] = z] /\ obj[n] = Free /\ DiskUnchanged
        /\ UNCHANGED <<proc, tfile, todo, torn, kills>>
    BY <1>4 DEF RequestMiss
  <2>2. z.pub = FALSE /\ z.filen = None /\ z.swap = "none" /\ z.rel = FALSE
    BY DEF storeCreateEntry, Free
  <2>3. Free.pub = FALSE /\ Free.filen = None /\ Free.swap = "none"
    BY DEF Free
  <2> HIDE DEF z
  <2>4. Silent(Free, z)
    BY <2>2, <2>3 DEF Silent, Sober
  <2> QED BY <1>2, <2>1, <2>4
<1>5. ASSUME NEW r \in Requests, CacheHit(r) PROVE MemoryStep
  <2>1. UNCHANGED <<proc, obj, map, disk, slog, nlog, tfile, todo, torn, kills>>
    BY <1>5 DEF CacheHit, DiskUnchanged
  <2> QED BY <2>1 DEF MemoryStep, Silent
<1>6. ASSUME NEW e \in Entries, TrimMemory(e) PROVE MemoryStep
  <2> DEFINE y == [obj[e] EXCEPT !.data = FALSE]
  <2>1. obj' = [obj EXCEPT ![e] = y] /\ DiskUnchanged
        /\ UNCHANGED <<proc, tfile, todo, torn, kills>>
    BY <1>1, <1>6 DEF TrimMemory
  <2>2. /\ y.filen = obj[e].filen /\ y.swap = obj[e].swap /\ y.pub = obj[e].pub
        /\ y.key = obj[e].key /\ y.rel = obj[e].rel /\ y.st = obj[e].st
    BY <1>1 DEF Entry
  <2> HIDE DEF y
  <2>3. Silent(obj[e], y)
    BY <2>2 DEF Silent, Sober
  <2> QED BY <1>2, <2>1, <2>3
<1>7. ASSUME NEW e \in Entries, NEW f \in Files, CreateFails(e, f) PROVE MemoryStep
  <2>1. /\ map \subseteq map'
        /\ UNCHANGED <<proc, obj, disk, slog, nlog, tfile, todo, torn, kills>>
    BY <1>7 DEF CreateFails
  <2> QED BY <2>1 DEF MemoryStep, Silent
<1> QED BY <1>3, <1>4, <1>5, <1>6, <1>7
-----------------------------------------------------------------------------
(***************************************************************************)
(* The reply headers: the only step that publishes an entry.                *)
(***************************************************************************)
\* nobody but e is published on the way from ob to ob2, and no two get one key
Stage(ob, ob2, e) ==
    /\ \A d \in Entries : d # e => Quieter(ob[d], ob2[d])
    /\ Sober(ob[e]) => Sober(ob2[e])
    /\ KeysUnique(ob) => KeysUnique(ob2)

\* Two stages make one.
LEMMA StageTransitive ==
    ASSUME NEW ob, NEW ob1, NEW ob2, NEW e, Stage(ob, ob1, e), Stage(ob1, ob2, e)
    PROVE  Stage(ob, ob2, e)
BY QuieterTransitive DEF Stage

\* If no entry is published at all, public keys stay unique.
LEMMA QuietStage ==
    ASSUME NEW ob, NEW ob2, NEW e \in Entries, \A d \in Entries : Quieter(ob[d], ob2[d])
    PROVE  Stage(ob, ob2, e)
<1>1. KeysUnique(ob) => KeysUnique(ob2)
  BY DEF KeysUnique, Quieter
<1> QED BY <1>1 DEF Stage, Quieter

\* One entry becomes less public.
LEMMA UpdateStage ==
    ASSUME NEW ob, GoodStore(ob), NEW p \in Entries, NEW z, Quieter(ob[p], z), NEW e \in Entries
    PROVE  Stage(ob, [ob EXCEPT ![p] = z], e)
<1> DEFINE ob2 == [ob EXCEPT ![p] = z]
<1>1. ob2[p] = z /\ \A d \in Entries : d # p => ob2[d] = ob[d]
  BY DEF GoodStore
<1> HIDE DEF ob2
<1>2. \A d \in Entries : Quieter(ob[d], ob2[d])
  BY <1>1 DEF Quieter
<1> QED BY <1>2, QuietStage DEF ob2

\* Releasing an entry publishes nothing.
LEMMA ReleaseStage ==
    ASSUME NEW ob, GoodStore(ob), NEW p \in Entries, NEW e \in Entries
    PROVE  Stage(ob, ReleaseIn(ob, p), e)
<1> DEFINE z == storeRelease(ob[p], Users(p) # {})
<1>1. Quieter(ob[p], z)
  BY ReleaseQuieter DEF GoodStore
<1>2. ReleaseIn(ob, p) = [ob EXCEPT ![p] = z]
  BY DEF ReleaseIn
<1>3. Stage(ob, [ob EXCEPT ![p] = z], e)
  <2> HIDE DEF z
  <2> QED BY <1>1, UpdateStage
<1> QED BY <1>2, <1>3

\* storeSetPublicKey takes the key from whoever had it.
LEMMA SetPublicKeyStage ==
    ASSUME NEW ob, GoodStore(ob), UsersInUse(ob), NEW e \in Entries, ob[e].st = "pending"
    PROVE  Stage(ob, storeSetPublicKey(ob, e), e)
<1> DEFINE k   == ob[e].key
           e2  == storeGet(ob, k)
           oba == [ob EXCEPT ![e2].pub = FALSE]
           ob1 == IF e2 = None THEN ob ELSE ReleaseIn(oba, e2)
           obz == [ob1 EXCEPT ![e].pub = TRUE]
<1>1. storeSetPublicKey(ob, e) = IF ob[e].pub \/ ob[e].rel THEN ob ELSE obz
  BY DEF storeSetPublicKey
<1>2. CASE ob[e].pub \/ ob[e].rel
  BY <1>1, <1>2 DEF Stage, Quieter
<1>3. CASE ~ob[e].pub /\ ~ob[e].rel
  <2>1. /\ GoodStore(ob1) /\ ob1[e] = ob[e]
        /\ \A d \in Entries : Quieter(ob[d], ob1[d])
        /\ KeysUnique(ob) => \A d \in Entries : ~(ob1[d].pub /\ ob1[d].key = k)
    <3>1. CASE e2 = None
      <4>1. ~ \E d \in Entries : ob[d].pub /\ ob[d].key = k
        BY <3>1, ConstantsAssumption DEF storeGet
      <4> QED BY <3>1, <4>1 DEF Quieter
    <3>2. CASE e2 # None
      <4>1. e2 \in Entries /\ ob[e2].pub /\ ob[e2].key = k
        BY <3>2, StoreGetFinds
      <4> HIDE DEF e2
      <4>2. e2 # e /\ ob[e2].st # "free"
        BY <1>3, <4>1, PublicInUse
      <4> DEFINE a == [ob[e2] EXCEPT !.pub = FALSE]
                 b == storeRelease(a, Users(e2) # {})
      <4>3. oba = [ob EXCEPT ![e2] = a] /\ ~a.pub /\ Quieter(ob[e2], a)
        <5>1. oba = [ob EXCEPT ![e2] = a]
          BY <4>1 DEF GoodStore
        <5>2. ob[e2] \in Entry
          BY <4>1 DEF GoodStore
        <5>3. ~a.pub /\ a.st = ob[e2].st /\ a.swap = ob[e2].swap
          BY <5>2 DEF Entry
        <5> HIDE DEF a
        <5> QED BY <5>1, <5>3 DEF Quieter, Sober
      <4>4. Calm(ob, oba)
        BY <4>1, <4>2, CalmPublic
      <4>5. GoodStore(oba) /\ UsersInUse(oba)
        <5> HIDE DEF oba
        <5> QED BY <4>4, CalmUsers
      <4>6. GoodEntry(a) /\ oba[e2] = a
        BY <4>1, <4>3, <4>5 DEF GoodStore
      <4>7. Quieter(a, b)
        <5> HIDE DEF a
        <5> QED BY <4>6, ReleaseQuieter
      <4>8. Calm(oba, ReleaseIn(oba, e2))
        <5> HIDE DEF oba
        <5> QED BY <4>1, <4>5, CalmRelease
      <4>9. GoodStore(ob1)
        <5> HIDE DEF oba
        <5> QED BY <3>2, <4>8, CalmUsers
      <4>10. ob1[e2] = b /\ \A d \in Entries : d # e2 => ob1[d] = ob[d]
        <5>1. ReleaseIn(oba, e2) = [oba EXCEPT ![e2] = b]
          <6> HIDE DEF oba
          <6> QED BY <4>6 DEF ReleaseIn
        <5>2. \A d \in Entries : d # e2 => oba[d] = ob[d]
          BY <4>1, <4>3 DEF GoodStore
        <5> HIDE DEF oba, b
        <5>3. oba \in [Entries -> Entry]
          BY <4>5 DEF GoodStore
        <5> QED BY <3>2, <4>1, <5>1, <5>2, <5>3
      <4> HIDE DEF ob1, a, b
      <4>11. ~b.pub /\ Quieter(ob[e2], b)
        BY <4>3, <4>7, QuieterTransitive DEF Quieter
      <4>12. \A d \in Entries : Quieter(ob[d], ob1[d])
        BY <4>10, <4>11 DEF Quieter
      <4>13. KeysUnique(ob) => \A d \in Entries : ~(ob1[d].pub /\ ob1[d].key = k)
        BY <4>1, <4>10, <4>11 DEF KeysUnique
      <4> QED BY <4>2, <4>9, <4>10, <4>12, <4>13
    <3> QED BY <3>1, <3>2
  <2> HIDE DEF ob1
  <2>2. /\ obz[e] = [ob[e] EXCEPT !.pub = TRUE]
        /\ \A d \in Entries : d # e => obz[d] = ob1[d]
    BY <2>1 DEF GoodStore
  <2>3. ob[e] \in Entry
    BY DEF GoodStore
  <2>4. obz[e].key = k /\ obz[e].rel = ob[e].rel /\ obz[e].st = ob[e].st /\ obz[e].swap = ob[e].swap
    BY <2>2, <2>3 DEF Entry
  <2> HIDE DEF obz
  <2>5. Sober(ob[e]) => Sober(obz[e])
    BY <1>3, <2>4 DEF Sober
  <2>6. KeysUnique(ob) => KeysUnique(obz)
    <3> SUFFICES ASSUME KeysUnique(ob) PROVE KeysUnique(obz)
      OBVIOUS
    <3>1. \A d \in Entries : d # e => ~(obz[d].pub /\ obz[d].key = k)
      BY <2>1, <2>2
    <3>2. \A d \in Entries : d # e /\ obz[d].pub => ob[d].pub /\ obz[d].key = ob[d].key
      BY <2>1, <2>2 DEF Quieter
    <3> QED BY <2>4, <3>1, <3>2 DEF KeysUnique
  <2>7. \A d \in Entries : d # e => Quieter(ob[d], obz[d])
    BY <2>1, <2>2
  <2> QED BY <1>1, <1>3, <2>5, <2>6, <2>7 DEF Stage
<1> QED BY <1>2, <1>3

\* httpMaybeRemovePublic only releases.
LEMMA RemovePublicStage ==
    ASSUME Inv, NEW ob, GoodStore(ob), UsersInUse(ob), NEW e \in Entries, ob[e].st = "pending"
    PROVE  Stage(ob, httpMaybeRemovePublic(ob, e), e)
<1> DEFINE k   == ob[e].key
           pe  == storeGetPublicByRequest(ob, k)
           ob1 == IF ~ob[e].pub /\ pe # None THEN ReleaseIn(ob, pe) ELSE ob
           ph  == storeGetPublicByRequestMethod(ob1, k, "HEAD")
           obz == IF ph # None /\ ph # e THEN ReleaseIn(ob1, ph) ELSE ob1
<1>1. k \in Keys
  BY DEF GoodStore, GoodEntry
<1>2. pe # None => pe \in Entries
  <2> HIDE DEF k
  <2> QED BY <1>1, LookupFinds
<1>3. Calm(ob, ob1) /\ Stage(ob, ob1, e)
  <2> HIDE DEF pe, k
  <2>1. Stage(ob, ob, e)
    BY DEF Stage, Quieter
  <2> QED BY <1>2, <2>1, CalmRelease, CalmReflexive, ReleaseStage
<1>4. GoodStore(ob1)
  <2> HIDE DEF ob1
  <2> QED BY <1>3, CalmUsers
<1>5. ph # None => ph \in Entries
  <2> HIDE DEF ob1, k
  <2> QED BY <1>1, LookupByMethod
<1>6. Stage(ob1, obz, e)
  <2> HIDE DEF ob1, ph
  <2>1. Stage(ob1, ob1, e)
    BY DEF Stage, Quieter
  <2> QED BY <1>4, <1>5, <2>1, ReleaseStage
<1>7. httpMaybeRemovePublic(ob, e) = obz
  BY DEF httpMaybeRemovePublic
<1> HIDE DEF ob1, obz
<1> QED BY <1>3, <1>6, <1>7, StageTransitive

\* Publishing, hiding or negatively caching a reply.
LEMMA ClassifiedStage ==
    ASSUME Inv, NEW e \in Entries, obj[e].st = "pending", NEW kind \in ReplyKinds,
           NEW expired \in BOOLEAN
    PROVE  Stage(obj, Classified(kind, e, expired), e)
<1> DEFINE body == CASE kind = "private" -> "data"
                     [] kind \in {"notfound", "servererror"} -> "negative"
                     [] OTHER -> kind
           got  == [obj EXCEPT ![e].hdr = TRUE, ![e].data = TRUE, ![e].body = body]
           x    == [obj[e] EXCEPT !.hdr = TRUE, !.data = TRUE, !.body = body]
           pub  == storeSetPublicKey(got, e)
           priv == [got EXCEPT ![e] = storeReleaseRequest(@)]
           gone == ReleaseIn(pub, e)
<1>1. body \in Bodies
  BY DEF ReplyKinds, Bodies
<1>2. Calm(obj, got)
  <2> HIDE DEF body
  <2> QED BY <1>1, ReplyEntryCalm
<1>3. Classified(kind, e, expired) \in {pub, priv, gone}
  BY DEF Classified
<1> HIDE DEF body
<1>4. Stage(obj, got, e)
  <2>1. GoodStore(obj) /\ obj[e] \in Entry
    BY DEF Inv, GoodStore
  <2>2. got = [obj EXCEPT ![e] = x]
    BY <2>1 DEF GoodStore, Entry
  <2>3. Tweaked(obj[e], x)
    BY <2>1 DEF Entry, Tweaked
  <2> HIDE DEF x, got
  <2> QED BY <2>1, <2>2, <2>3, TweakedQuieter, UpdateStage
<1> HIDE DEF got
<1>5. GoodStore(got) /\ UsersInUse(got) /\ got[e].st = "pending"
  BY <1>2, CalmUsers DEF Calm
<1>6. Stage(obj, pub, e) /\ GoodStore(pub)
  <2>1. Stage(got, pub, e) /\ Calm(got, pub)
    BY <1>5, SetPublicKeyStage, SetPublicKeyCalm
  <2> HIDE DEF pub
  <2> QED BY <1>4, <2>1, StageTransitive, CalmUsers
<1>7. Stage(obj, priv, e)
  <2> DEFINE z == storeReleaseRequest(got[e])
  <2>1. Quieter(got[e], z)
    BY <1>5, ReleaseRequestQuieter DEF GoodStore
  <2>2. Stage(got, [got EXCEPT ![e] = z], e)
    <3> HIDE DEF z
    <3> QED BY <1>5, <2>1, UpdateStage
  <2>3. Stage(got, priv, e)
    BY <2>2
  <2> HIDE DEF priv
  <2> QED BY <1>4, <2>3, StageTransitive
<1>8. Stage(obj, gone, e)
  <2> HIDE DEF pub
  <2>1. Stage(pub, gone, e)
    BY <1>6, ReleaseStage
  <2> HIDE DEF gone
  <2> QED BY <1>6, <2>1, StageTransitive
<1> HIDE DEF pub, priv, gone
<1> QED BY <1>3, <1>6, <1>7, <1>8

\* The reply headers arrive.
LEMMA ReplyHeaderStep ==
    ASSUME IndexBase, NEW e \in Entries, NEW kind \in Replies, NEW expired \in BOOLEAN,
           ReplyHeader(e, kind, expired)
    PROVE  EntriesStep
<1> DEFINE got == Classified(kind, e, expired)
           rem == httpMaybeRemovePublic(got, e)
           ob2 == obj'
<1>1. kind \in ReplyKinds /\ obj[e].st = "pending" /\ Inv
  BY ConstantsAssumption DEF ReplyHeader, IndexBase
<1>2. Calm(obj, got) /\ Stage(obj, got, e)
  BY <1>1, ClassifiedCalm, ClassifiedStage
<1>3. SetEntries(IF kind = "servererror" THEN got ELSE rem)
      /\ UNCHANGED <<proc, req, table, tfile, todo, torn, kills>>
  BY DEF ReplyHeader
<1> HIDE DEF got
<1>4. GoodStore(got) /\ UsersInUse(got) /\ got[e].st = "pending"
  BY <1>1, <1>2, CalmUsers DEF Calm
<1>5. Calm(got, rem) /\ Stage(got, rem, e)
  BY <1>1, <1>4, RemovePublicCalm, RemovePublicStage
<1> HIDE DEF rem
<1>6. Calm(obj, rem) /\ Stage(obj, rem, e)
  BY <1>2, <1>5, CalmTransitive, StageTransitive
<1>7. SetEntries(ob2) /\ Calm(obj, ob2) /\ Stage(obj, ob2, e)
  <2>1. ob2 = IF kind = "servererror" THEN got ELSE rem
    BY <1>3 DEF SetEntries
  <2> QED BY <1>2, <1>3, <1>6, <2>1
<1>8. KeysUnique(ob2) /\ SoberStore(ob2)
  BY <1>7 DEF Stage, IndexBase, SoberStore, Quieter
<1>9. ob2[e].key = obj[e].key /\ ob2[e].st = "pending"
  BY <1>1, <1>7 DEF Calm, Kept
<1>10. \A d \in Entries : ob2[d].filen \in {None, obj[d].filen}
  BY <1>7 DEF Calm, SameSwap
<1>11. \A d \in Entries : ob2[d].swap = "done" => ob2[d].filen = obj[d].filen /\ obj[d].swap = "done"
  BY <1>7 DEF Calm, SameSwap, GoodStore, GoodEntry
<1>12. \A d \in Entries : ob2[d].pub => ob2[d].key = obj[d].key
  BY <1>7, <1>9 DEF Stage, Quieter
<1>13. Moves(obj, ob2)
  BY <1>8, <1>10, <1>11, <1>12 DEF Moves
<1>14. \A d \in Entries : Logged(ob2[d]) => Logged(obj[d])
  <2>1. ~Logged(ob2[e])
    BY <1>8, <1>9 DEF Logged, SoberStore, Sober
  <2> QED BY <1>7, <1>11, <2>1 DEF Logged, Stage, Quieter
<1>15. NewLogsRecorded
  BY <1>3, <1>14 DEF NewLogsRecorded
<1> QED BY <1>3, <1>7, <1>13, <1>15 DEF EntriesStep

\* The swapout of an entry is over: what becomes part of the index and is
\* YouTube's has its record in a table file.
LEMMA FileClosedStep ==
    ASSUME IndexBase, Inv', NEW e \in Entries, SwapOutFileClosed(e)
    PROVE  EntriesStep
<1> DEFINE x == [obj EXCEPT ![e].swap = "done"][e]
           y == IF storeCheckCachable(x) THEN x ELSE storeReleaseRequest(x)
           lock == Users(e) # {}
           z == storeUnlockObject(y, lock)
           row == [chunk |-> ChunkOf[x.key[2]], key |-> x.key]
           c == DirOf[x.filen]
           ob2 == obj'
<1>1. GoodEntry(obj[e]) /\ obj[e].st = "ok" /\ obj[e].swap = "writing"
      /\ obj \in [Entries -> Entry] /\ Inv /\ lock \in BOOLEAN
  BY DEF IndexBase, Inv, GoodStore, SwapOutFileClosed
<1>2. x = [obj[e] EXCEPT !.swap = "done"]
  BY <1>1
<1>3. /\ GoodEntry(x) /\ x.st = "ok" /\ x.filen = obj[e].filen /\ x.key = obj[e].key
      /\ x.pub = obj[e].pub /\ x.rel = obj[e].rel /\ x.swap = "done"
  BY <1>1, <1>2 DEF GoodEntry, Entry
<1>4. SetEntries([obj EXCEPT ![e] = z]) /\ UNCHANGED <<proc, req, todo, kills>>
  BY DEF SwapOutFileClosed
<1>5. IF storeCheckCachable(x) /\ IsYouTubeUrl(x.key[2])
      THEN /\ tfile' = [tfile EXCEPT ![c] = appendChunkToTableFile(@, row)]
           /\ torn' = torn \ {x.key}
      ELSE UNCHANGED <<tfile, torn>>
  BY DEF SwapOutFileClosed
<1>6. x.key \in Keys /\ x.filen \in Files /\ c \in Dirs
  <2>1. x.key \in Keys /\ x.filen \in Files
    BY <1>1, <1>3 DEF GoodEntry, Entry
  <2> HIDE DEF x
  <2> QED BY <2>1, ConstantsAssumption
<1> HIDE DEF x
<1>7. Quieter(obj[e], x)
  BY <1>1, <1>3 DEF Quieter, Sober
<1>8. GoodEntry(y) /\ y.st # "free" /\ Quieter(x, y) /\ SameSwap(x, y)
  BY <1>3, ReleaseRequestKeeps, ReleaseRequestQuieter DEF Quieter, SameSwap
<1>9. Sober(x)
  BY <1>7 DEF IndexBase, SoberStore, Quieter
<1>10. y.pub => storeCheckCachable(x)
  <2> SUFFICES ASSUME ~storeCheckCachable(x) PROVE ~y.pub
    OBVIOUS
  <2>1. y = storeReleaseRequest(x) /\ x \in Entry
    BY <1>3 DEF GoodEntry
  <2> HIDE DEF y
  <2>2. CASE x.rel
    BY <1>9, <2>1, <2>2 DEF storeReleaseRequest, Sober
  <2>3. CASE ~x.rel
    BY <2>1, <2>3 DEF storeReleaseRequest, Entry
  <2> QED BY <2>2, <2>3
<1> HIDE DEF y, lock
<1>11. Quieter(y, z) /\ SameSwap(y, z)
  BY <1>1, <1>8, UnlockQuieter, UnlockGood
<1> HIDE DEF z
<1>12. Quieter(obj[e], z) /\ z.filen \in {None, obj[e].filen}
  BY <1>3, <1>7, <1>8, <1>11, QuieterTransitive DEF SameSwap
<1>13. ob2[e] = z /\ \A d \in Entries : d # e => ob2[d] = obj[d]
  BY <1>1, <1>4 DEF SetEntries
<1>14. SetEntries(ob2)
  BY <1>4 DEF SetEntries
<1>15. \A d \in Entries : Quieter(obj[d], ob2[d]) /\ ob2[d].filen \in {None, obj[d].filen}
  BY <1>12, <1>13 DEF Quieter
<1>16. \A d \in Entries : GoodEntry(ob2[d])
  BY DEF Inv, GoodStore
<1>17. Moves(obj, ob2)
  <2>1. KeysUnique(ob2)
    BY <1>15 DEF KeysUnique, IndexBase, Quieter
  <2>2. SoberStore(ob2)
    BY <1>15 DEF SoberStore, IndexBase, Quieter
  <2>3. \A d \in Entries : ob2[d].swap = "done" => ob2[d].filen = obj[d].filen
    BY <1>15, <1>16 DEF GoodEntry
  <2> QED BY <1>15, <2>1, <2>2, <2>3 DEF Moves, Quieter
<1>18. storeCheckCachable(x) /\ IsYouTubeUrl(x.key[2]) => RecordedIn(tfile', x.key)
  <2> SUFFICES ASSUME storeCheckCachable(x) /\ IsYouTubeUrl(x.key[2])
               PROVE  RecordedIn(tfile', x.key)
    OBVIOUS
  <2> DEFINE f == tfile[c]
             rec == [off |-> f.len, row |-> row]
             s == Append(f.recs, rec)
  <2>1. tfile \in [Dirs -> TableFile] /\ f \in TableFile
    BY <1>1, <1>6 DEF Inv, TypeOK
  <2>2. f.recs \in Seq([off : Nat, row : Row]) /\ f.len \in Nat
    BY <2>1 DEF TableFile
  <2>3. tfile'[c].recs = s
    <3>1. tfile' = [tfile EXCEPT ![c] = appendChunkToTableFile(tfile[c], row)]
      BY <1>5
    <3>2. DOMAIN tfile = Dirs
      BY <2>1
    <3> DEFINE new == appendChunkToTableFile(tfile[c], row)
    <3>3. new.recs = s
      BY DEF appendChunkToTableFile
    <3> HIDE DEF new
    <3>4. tfile'[c] = new
      BY <1>6, <3>1, <3>2 DEF new
    <3> QED BY <3>3, <3>4
  <2>4. row \in Row /\ row.key = x.key
    BY <1>6 DEF Row, IsYouTubeUrl
  <2> HIDE DEF row
  <2>5. rec \in [off : Nat, row : Row] /\ rec.row = row
    BY <2>2, <2>4
  <2> HIDE DEF rec, f
  <2>6. Len(f.recs) + 1 \in DOMAIN s /\ s[Len(f.recs) + 1] = rec
    BY <2>2, <2>5
  <2> HIDE DEF s
  <2> QED BY <1>6, <2>3, <2>4, <2>5, <2>6 DEF RecordedIn
<1>19. Logged(z) => storeCheckCachable(x) /\ z.key = x.key
  BY <1>8, <1>10, <1>11 DEF Logged, Quieter
<1>20. NewLogsRecorded
  <2>1. ASSUME NEW d \in Entries, Logged(ob2[d]), ~Logged(obj[d]), IsYouTubeUrl(ob2[d].key[2])
        PROVE  RecordedIn(tfile', ob2[d].key)
    <3>1. d = e
      BY <1>13, <2>1
    <3> QED BY <1>13, <1>18, <1>19, <2>1, <3>1
  <2>2. ASSUME NEW k \in torn, k \notin torn' PROVE RecordedIn(tfile', k)
    BY <1>5, <1>18, <2>2
  <2> QED BY <2>1, <2>2 DEF NewLogsRecorded
<1> QED BY <1>4, <1>14, <1>17, <1>20 DEF EntriesStep
-----------------------------------------------------------------------------
(***************************************************************************)
(* Every step, sorted by what it does to the index.                         *)
(***************************************************************************)
\* the process dies, perhaps between the swap log record and the table record
DeathStep ==
    \/ Die /\ UNCHANGED <<tfile, disk, slog, nlog, torn>>
    \/ \E e \in Entries : DieInFileClosed(e)

\* the process comes up, or nothing happens
ProgressStep ==
    \/ Start \/ Validated \/ UNCHANGED vars
    \/ \E misread : RebuildComplete(misread)

\* Every step is of one of the five kinds.
LEMMA IndexSteps ==
    ASSUME IndexBase, [Next]_vars
    PROVE  \/ EntriesStep \/ MemoryStep \/ DeathStep \/ ProgressStep
           \/ \E l \in todo, n \in Entries : RebuildLoad(l, n)
<1> DEFINE Goal == \/ EntriesStep \/ MemoryStep \/ DeathStep \/ ProgressStep
                   \/ \E l \in todo, n \in Entries : RebuildLoad(l, n)
<1>1. Inv /\ Inv'
  BY NextInv DEF IndexBase
<1>2. ASSUME NEW r \in Requests, ClientStep(r) PROVE Goal
  <2>1. ASSUME NEW k \in Keys, RequestHit(r, k) PROVE Goal
    BY <2>1, MemorySteps
  <2>2. ASSUME NEW k \in Keys, NEW n \in Entries, RequestMiss(r, k, n) PROVE Goal
    BY <2>2, MemorySteps
  <2>3. ASSUME NEW k \in Keys, LookupCrash(r, k) PROVE Goal
    BY <2>3 DEF LookupCrash, DeathStep
  <2>4. CASE CacheHit(r)
    BY <2>4, MemorySteps
  <2>5. ASSUME NEW n \in Entries, CacheMiss(r, n) PROVE Goal
    BY <1>1, <2>5, ClientSteps
  <2>6. CASE ClientDone(r)
    BY <1>1, <2>6, ClientSteps
  <2> HIDE DEF Goal
  <2> QED BY <1>2, <2>1, <2>2, <2>3, <2>4, <2>5, <2>6 DEF ClientStep
<1>3. ASSUME NEW e \in Entries, EntryStep(e) PROVE Goal
  <2>1. ASSUME NEW kind \in Replies, NEW expired \in BOOLEAN, ReplyHeader(e, kind, expired)
        PROVE  Goal
    BY <2>1, ReplyHeaderStep
  <2>2. CASE Append4K(e) \/ RequestFailed(e) \/ ServerAborted(e)
    BY <1>1, <2>2, ServerSteps
  <2>3. ASSUME NEW validLength \in BOOLEAN, Complete(e, validLength) PROVE Goal
    BY <1>1, <2>3, ServerSteps
  <2>4. CASE SwapOutFileClosed(e)
    BY <1>1, <2>4, FileClosedStep
  <2>5. CASE SwapOutFileError(e) \/ PurgeMem(e) \/ Evict(e) \/ LateRelease(e) \/ Validate(e)
    BY <1>1, <2>5, StorageSteps
  <2>6. CASE TrimMemory(e)
    BY <2>6, MemorySteps
  <2>7. CASE DieInFileClosed(e)
    BY <2>7 DEF DeathStep
  <2>8. ASSUME NEW f \in Files, CreateFails(e, f) PROVE Goal
    BY <2>8, MemorySteps
  <2> HIDE DEF Goal
  <2> QED BY <1>3, <2>1, <2>2, <2>3, <2>4, <2>5, <2>6, <2>7, <2>8 DEF EntryStep
<1>4. CASE ProcessStep
  <2>1. CASE Kill
    BY <2>1 DEF Kill, DeathStep
  <2>2. CASE Start \/ Validated
    BY <2>2 DEF ProgressStep
  <2>3. ASSUME NEW misread, RebuildComplete(misread) PROVE Goal
    BY <2>3 DEF ProgressStep
  <2> QED BY <1>4, <2>1, <2>2, <2>3 DEF ProcessStep
<1>5. CASE UNCHANGED vars
  BY <1>5 DEF ProgressStep
<1> QED BY <1>2, <1>3, <1>4, <1>5 DEF Next
-----------------------------------------------------------------------------
(***************************************************************************)
(* Keys, files and the swap log.                                            *)
(***************************************************************************)
\* what swap.state should list for the entries ob
LogSet(ob) == {LogOf(ob[e]) : e \in {d \in Entries : Logged(ob[d])}}

\* the bitmap marks the numbers of the entries ob
Marks(m, ob) == \A e \in Entries : ob[e].filen # None => ob[e].filen \in m

\* The inductive invariant of the index: the bitmap marks the file numbers of
\* its entries, swap.state.new mirrors it while it is being rebuilt, swap.state
\* from then on.
IndexInv ==
    /\ Inv /\ SoberStore(obj)
    /\ KeysUnique(obj) /\ FilesDistinct(obj) /\ Marks(map, obj)
    /\ proc = "down" => \A e \in Entries : obj[e] = Free
    /\ proc = "rebuilding" => nlog = LogSet(obj)
    /\ proc \in {"validating", "up"} => slog = LogSet(obj)

\* A log that mirrors the entries still does after storeDirSwapLog.
LEMMA SwapLogMirrors ==
    ASSUME NEW ob, GoodStore(ob), FilesDistinct(ob), NEW ob2,
           \A e \in Entries : Logged(ob[e]) /\ Logged(ob2[e]) => LogOf(ob2[e]) = LogOf(ob[e])
    PROVE  storeDirSwapLog(LogSet(ob), ob, ob2) = LogSet(ob2)
<1> DEFINE gone == {d \in Entries : Logged(ob[d]) /\ ~Logged(ob2[d])}
           new == {d \in Entries : Logged(ob2[d]) /\ ~Logged(ob[d])}
           Out == {LogOf(ob[e]) : e \in gone}
           In == {LogOf(ob2[e]) : e \in new}
<1>1. storeDirSwapLog(LogSet(ob), ob, ob2) = (LogSet(ob) \ Out) \cup In
  BY DEF storeDirSwapLog
<1>2. ASSUME NEW d \in Entries, NEW e \in Entries, Logged(ob[d]), Logged(ob[e]),
             LogOf(ob[d]) = LogOf(ob[e])
      PROVE  d = e
  <2>1. ob[d].filen = ob[e].filen
    BY <1>2 DEF LogOf
  <2>2. ob[d].filen # None
    BY <1>2 DEF Logged, GoodStore, GoodEntry
  <2> QED BY <2>1, <2>2 DEF FilesDistinct
<1>3. ASSUME NEW r \in (LogSet(ob) \ Out) \cup In PROVE r \in LogSet(ob2)
  <2>1. CASE r \in In
    BY <2>1 DEF LogSet
  <2>2. CASE r \in LogSet(ob) \ Out
    <3>1. PICK e \in Entries : Logged(ob[e]) /\ r = LogOf(ob[e])
      BY <2>2 DEF LogSet
    <3>2. Logged(ob2[e])
      BY <2>2, <3>1
    <3> QED BY <3>1, <3>2 DEF LogSet
  <2> QED BY <1>3, <2>1, <2>2
<1>4. ASSUME NEW r \in LogSet(ob2) PROVE r \in (LogSet(ob) \ Out) \cup In
  <2>1. PICK e \in Entries : Logged(ob2[e]) /\ r = LogOf(ob2[e])
    BY <1>4 DEF LogSet
  <2>2. CASE ~Logged(ob[e])
    BY <2>1, <2>2
  <2>3. CASE Logged(ob[e])
    <3>1. r = LogOf(ob[e]) /\ r \in LogSet(ob)
      BY <2>1, <2>3 DEF LogSet
    <3>2. r \notin Out
      BY <1>2, <2>1, <2>3, <3>1
    <3> QED BY <3>1, <3>2
  <2> QED BY <2>2, <2>3
<1> HIDE DEF Out, In
<1> QED BY <1>1, <1>3, <1>4

\* The entries change: no file number and no key is shared, and the log that is
\* being written mirrors them.
LEMMA EntriesIndex ==
    ASSUME IndexInv, Inv', proc # "down", EntriesStep
    PROVE  IndexInv'
<1> DEFINE ob2 == obj'
<1>1. Inv /\ GoodStore(obj) /\ GoodStore(ob2) /\ FilesDistinct(obj) /\ Marks(map, obj)
  BY DEF IndexInv, Inv
<1>2. SetEntries(ob2) /\ Moves(obj, ob2) /\ proc' = proc
  BY DEF EntriesStep
<1>3. SoberStore(ob2) /\ KeysUnique(ob2)
  BY <1>2 DEF Moves
<1>4. FilesDistinct(ob2)
  <2>1. PICK c \in Entries : \A e \in Entries : e # c => ob2[e].filen \in {None, obj[e].filen}
    BY <1>2 DEF Moves
  <2>2. \A e \in Entries : ob2[e].filen \in {None, obj[e].filen} \/ UnusedFile(ob2[e].filen)
    BY <1>2 DEF Moves
  <2>3. SUFFICES ASSUME NEW d \in Entries, NEW e \in Entries, d # e,
                        ob2[d].filen # None, ob2[d].filen = ob2[e].filen
                 PROVE  FALSE
    BY DEF FilesDistinct
  <2>4. ASSUME NEW f, UnusedFile(f), f # None PROVE \A x \in Entries : obj[x].filen # f
    BY <1>1, <2>4 DEF Marks, UnusedFile
  <2>5. ~UnusedFile(ob2[d].filen) \/ ~UnusedFile(ob2[e].filen) => FALSE
    BY <1>1, <2>1, <2>2, <2>3, <2>4 DEF FilesDistinct
  <2>6. UnusedFile(ob2[d].filen) /\ UnusedFile(ob2[e].filen) => FALSE
    BY <2>1, <2>3, <2>4
  <2> QED BY <2>5, <2>6
<1>5. \A e \in Entries : Logged(obj[e]) /\ Logged(ob2[e]) => LogOf(ob2[e]) = LogOf(obj[e])
  BY <1>2 DEF Moves, Logged, LogOf
<1>6. storeDirSwapLog(LogSet(obj), obj, ob2) = LogSet(ob2)
  BY <1>1, <1>5, SwapLogMirrors
<1>7. proc = "rebuilding" => nlog' = LogSet(ob2)
  BY <1>2, <1>6 DEF SetEntries, IndexInv
<1>8. proc \in {"validating", "up"} => slog' = LogSet(ob2)
  BY <1>2, <1>6 DEF SetEntries, IndexInv
<1>9. Marks(map', ob2)
  <2>1. map' = Marked(ob2)
    BY <1>2 DEF SetEntries
  <2>2. SUFFICES ASSUME NEW e \in Entries, ob2[e].filen # None PROVE ob2[e].filen \in Marked(ob2)
    BY <2>1 DEF Marks
  <2>3. CASE ob2[e].filen = obj[e].filen
    <3>1. obj[e].filen \in map
      BY <1>1, <2>2, <2>3 DEF Marks
    <3>2. \A d \in Entries : ob2[d].filen # obj[d].filen => obj[d].filen # obj[e].filen
      BY <1>1, <2>2, <2>3 DEF FilesDistinct
    <3> QED BY <2>3, <3>1, <3>2 DEF Marked
  <2>4. CASE ob2[e].filen # obj[e].filen
    BY <2>2, <2>4 DEF Marked
  <2> QED BY <2>3, <2>4
<1> QED BY <1>2, <1>3, <1>4, <1>7, <1>8, <1>9 DEF IndexInv

\* Nothing happens to the entries while the process is down.
LEMMA DownSteps ==
    ASSUME Inv, proc = "down", \A e \in Entries : obj[e] = Free, [Next]_vars
    PROVE  Start \/ UNCHANGED vars
<1>1. Free.st = "free" /\ Free.swap = "none" /\ ~Free.aborted /\ ~Free.data
  BY DEF Free
<1>2. \A r \in Requests : req[r].ph = "idle"
  BY <1>1 DEF Inv, GoodRequests, GoodRequest
<1>3. ASSUME NEW r \in Requests, ClientStep(r) PROVE FALSE
  BY <1>2, <1>3 DEF ClientStep, RequestHit, RequestMiss, LookupCrash, CacheHit, CacheMiss,
                    ClientDone, Running
<1>4. ASSUME NEW e \in Entries, EntryStep(e) PROVE FALSE
  <2>1. obj[e] = Free
    OBVIOUS
  <2> QED BY <1>1, <1>4, <2>1 DEF EntryStep, ReplyHeader, Append4K, Complete, RequestFailed,
        ServerAborted, SwapOutFileClosed, SwapOutFileError, TrimMemory, PurgeMem, Evict,
        LateRelease, DieInFileClosed, Validate, CreateFails, storeCheckCachable
<1>5. CASE ProcessStep
  BY <1>5 DEF ProcessStep, Kill, Running, RebuildLoad, RebuildComplete, Validated
<1> QED BY <1>3, <1>4, <1>5 DEF Next

\* What the disk knows of the entries stays: so do keys, files and logs.
LEMMA MemoryIndex ==
    ASSUME IndexInv, Inv', proc # "down", MemoryStep
    PROVE  IndexInv'
<1>1. /\ \A e \in Entries : Silent(obj[e], obj'[e])
      /\ proc' = proc /\ slog' = slog /\ nlog' = nlog /\ map \subseteq map'
  BY DEF MemoryStep
<1>2. \A e \in Entries : Logged(obj'[e]) <=> Logged(obj[e])
  BY <1>1 DEF Silent, Logged
<1>3. \A e \in Entries : Logged(obj[e]) => LogOf(obj'[e]) = LogOf(obj[e])
  BY <1>1 DEF Silent, Logged, LogOf
<1>4. LogSet(obj') = LogSet(obj)
  BY <1>2, <1>3 DEF LogSet
<1>5. SoberStore(obj')
  BY <1>1 DEF Silent, SoberStore, IndexInv
<1>6. KeysUnique(obj')
  BY <1>1 DEF Silent, KeysUnique, IndexInv
<1>7. FilesDistinct(obj')
  BY <1>1 DEF Silent, FilesDistinct, IndexInv
<1>8. Marks(map', obj')
  BY <1>1 DEF Silent, Marks, IndexInv
<1> QED BY <1>1, <1>4, <1>5, <1>6, <1>7, <1>8 DEF IndexInv

\* An index without entries has nothing to log.
LEMMA EmptyIndex ==
    ASSUME NEW ob, \A e \in Entries : ob[e] = Free
    PROVE  /\ SoberStore(ob) /\ KeysUnique(ob) /\ FilesDistinct(ob) /\ LogSet(ob) = {}
           /\ \A m : Marks(m, ob)
<1>1. ~Free.pub /\ Free.filen = None /\ Sober(Free)
  BY FreeIsSober DEF Free
<1>2. \A e \in Entries : ~Logged(ob[e])
  BY <1>1 DEF Logged
<1>3. LogSet(ob) = {}
  BY <1>2 DEF LogSet
<1> QED BY <1>1, <1>3 DEF SoberStore, KeysUnique, FilesDistinct, Marks

\* A dead process has no index.
LEMMA DeathIndex ==
    ASSUME Inv', DeathStep
    PROVE  IndexInv'
<1>1. proc' = "down" /\ obj' = [e \in Entries |-> Free]
  BY DEF DeathStep, Die, DieInFileClosed
<1>2. \A e \in Entries : obj'[e] = Free
  BY <1>1
<1> QED BY <1>1, <1>2, EmptyIndex DEF IndexInv

\* A record is loaded under a key and a file that nobody has, and logged.
LEMMA LoadIndex ==
    ASSUME IndexInv, Inv', NEW l \in todo, NEW n \in Entries, RebuildLoad(l, n)
    PROVE  IndexInv'
<1>1. Inv /\ proc = "rebuilding" /\ proc' = proc /\ obj \in [Entries -> Entry]
  BY DEF IndexInv, RebuildLoad, Inv, TypeOK
<1>2. CASE UNCHANGED <<obj, nlog, map>>
  BY <1>1, <1>2 DEF IndexInv
<1>3. CASE /\ UnusedFile(l.filen) /\ storeGet(obj, l.key) = None
           /\ obj[n] = Free /\ obj' = [obj EXCEPT ![n] = storeUfsDirAddDiskRestore(l)]
           /\ nlog' = nlog \cup {l} /\ map' = map \cup {l.filen}
  <2> DEFINE z == storeUfsDirAddDiskRestore(l)
             ob2 == obj'
  <2>1. l \in LogRecord
    BY <1>1 DEF Inv, TypeOK
  <2>2. z.pub /\ z.key = l.key /\ z.filen = l.filen /\ z.swap = "done" /\ z.st = "ok" /\ ~z.rel
    BY DEF storeUfsDirAddDiskRestore, Free
  <2>3. ob2[n] = z /\ \A d \in Entries : d # n => ob2[d] = obj[d]
    BY <1>1, <1>3
  <2> HIDE DEF z
  <2>4. LogOf(z) = l /\ Logged(z)
    BY <2>1, <2>2 DEF LogOf, Logged, LogRecord
  <2>5. ~Free.pub /\ Free.filen = None
    BY DEF Free
  <2>6. \A d \in Entries : ~(obj[d].pub /\ obj[d].key = l.key)
    BY <1>3, ConstantsAssumption DEF storeGet
  <2>7. SoberStore(ob2)
    BY <2>2, <2>3 DEF IndexInv, SoberStore, Sober
  <2>8. KeysUnique(ob2)
    BY <2>2, <2>3, <2>6 DEF IndexInv, KeysUnique
  <2>9. FilesDistinct(ob2)
    <3>1. Marks(map, obj) /\ FilesDistinct(obj) /\ l.filen # None
      BY <2>1, ConstantsAssumption DEF IndexInv, LogRecord
    <3>2. \A d \in Entries : obj[d].filen # l.filen
      BY <1>3, <3>1 DEF Marks, UnusedFile
    <3> QED BY <2>2, <2>3, <3>1, <3>2 DEF FilesDistinct
  <2>10. LogSet(ob2) = LogSet(obj) \cup {l}
    <3>1. ~Logged(obj[n])
      BY <1>3, <2>5 DEF Logged
    <3>2. ASSUME NEW r \in LogSet(ob2) PROVE r \in LogSet(obj) \cup {l}
      <4>1. PICK d \in Entries : Logged(ob2[d]) /\ r = LogOf(ob2[d])
        BY <3>2 DEF LogSet
      <4>2. CASE d = n
        BY <2>3, <2>4, <4>1, <4>2
      <4>3. CASE d # n
        BY <2>3, <4>1, <4>3 DEF LogSet
      <4> QED BY <4>2, <4>3
    <3>3. ASSUME NEW r \in LogSet(obj) \cup {l} PROVE r \in LogSet(ob2)
      <4>1. CASE r = l
        BY <2>3, <2>4, <4>1 DEF LogSet
      <4>2. CASE r \in LogSet(obj)
        <5>1. PICK d \in Entries : Logged(obj[d]) /\ r = LogOf(obj[d])
          BY <4>2 DEF LogSet
        <5>2. d # n /\ ob2[d] = obj[d]
          BY <2>3, <3>1, <5>1
        <5> QED BY <5>1, <5>2 DEF LogSet
      <4> QED BY <3>3, <4>1, <4>2
    <3> QED BY <3>2, <3>3
  <2>11. nlog' = LogSet(ob2)
    BY <1>1, <1>3, <2>10 DEF IndexInv
  <2>12. Marks(map', ob2)
    BY <1>3, <2>2, <2>3 DEF IndexInv, Marks
  <2> QED BY <1>1, <2>7, <2>8, <2>9, <2>11, <2>12 DEF IndexInv
<1> QED BY <1>2, <1>3 DEF RebuildLoad

\* The process comes up: swap.state.new is begun, filled and becomes swap.state.
LEMMA ProgressIndex ==
    ASSUME IndexInv, Inv', ProgressStep
    PROVE  IndexInv'
<1>1. obj' = obj /\ map' = map
  BY DEF ProgressStep, Start, Validated, RebuildComplete, vars
<1>2. CASE Start
  <2>1. proc' = "rebuilding" /\ nlog' = {} /\ LogSet(obj) = {}
    BY <1>2, EmptyIndex DEF Start, IndexInv
  <2> QED BY <1>1, <2>1 DEF IndexInv
<1>3. CASE Validated \/ UNCHANGED vars
  BY <1>1, <1>3 DEF IndexInv, Validated, vars
<1>4. ASSUME NEW misread, RebuildComplete(misread) PROVE IndexInv'
  <2>1. proc = "rebuilding" /\ proc' = "validating" /\ slog' = nlog
    BY <1>4 DEF RebuildComplete
  <2> QED BY <1>1, <2>1 DEF IndexInv
<1> QED BY <1>2, <1>3, <1>4 DEF ProgressStep

\* The invariant of the index is inductive.
LEMMA NextIndex == IndexInv /\ [Next]_vars => IndexInv'
<1> SUFFICES ASSUME IndexInv, [Next]_vars PROVE IndexInv'
  OBVIOUS
<1>1. IndexBase /\ Inv'
  BY NextInv DEF IndexInv, IndexBase
<1>2. CASE proc = "down"
  BY <1>1, <1>2, DownSteps, ProgressIndex DEF IndexInv, ProgressStep
<1>3. CASE proc # "down"
  BY <1>1, <1>3, IndexSteps, EntriesIndex, MemoryIndex, DeathIndex, LoadIndex, ProgressIndex
<1> QED BY <1>2, <1>3

\* What relates entries, keys, files and the two swap logs is invariant.
THEOREM IndexInvariant == Spec => []IndexInv
<1>1. Init => IndexInv
  <2> SUFFICES ASSUME Init PROVE IndexInv
    OBVIOUS
  <2>1. proc = "down" /\ \A e \in Entries : obj[e] = Free
    BY DEF Init
  <2> QED BY <2>1, InitInv, EmptyIndex DEF IndexInv
<1> QED BY <1>1, NextIndex, PTL DEF Spec

\* No two public entries have one key, through every order of replies, releases,
\* deaths and rebuilds.
THEOREM KeysStayUnique == Spec => []PublicKeysUnique
<1>1. IndexInv => PublicKeysUnique
  BY DEF IndexInv, KeysUnique, PublicKeysUnique
<1> QED BY <1>1, IndexInvariant, PTL

\* No two entries have one swap file: an entry's number stays marked in the bitmap
\* until the entry lets go of it, and only unmarked numbers are given out or loaded.
THEOREM FilesStayUnique == Spec => []FilesUnique
<1>1. IndexInv => FilesUnique
  BY DEF IndexInv, FilesDistinct, FilesUnique
<1> QED BY <1>1, IndexInvariant, PTL

\* Once the rebuild is over, swap.state lists exactly the public entries on disk.
THEOREM LogMirrors == Spec => []LogMirrorsIndex
<1>1. IndexInv => LogMirrorsIndex
  BY DEF IndexInv, LogSet, LogMirrorsIndex
<1> QED BY <1>1, IndexInvariant, PTL
-----------------------------------------------------------------------------
(***************************************************************************)
(* The chunk table covers the index.                                        *)
(***************************************************************************)
\* every YouTube record of the log has its record in a table file, but for the
\* keys of callbacks cut short
Covers(log) ==
    \A r \in log : IsYouTubeUrl(r.key[2]) /\ r.key \notin torn => RecordedIn(tfile, r.key)

CoverInv == IndexInv /\ Covers(slog) /\ Covers(nlog) /\ Covers(todo)

\* A record of a table file stays there.
LEMMA RecordedGrows ==
    ASSUME Inv, [Next]_vars, NEW k, RecordedIn(tfile, k)
    PROVE  RecordedIn(tfile', k)
<1>1. tfile \in [Dirs -> TableFile]
  BY DEF Inv, TypeOK
<1>2. CASE UNCHANGED tfile
  BY <1>2
<1>3. ASSUME NEW h \in Keys, NEW d \in Dirs, RowAppended(h, d) PROVE RecordedIn(tfile', k)
  <2> DEFINE rec == [off |-> tfile[d].len, row |-> RowOf(h)]
  <2>1. PICK c \in Dirs : \E i \in DOMAIN tfile[c].recs : tfile[c].recs[i].row.key = k
    BY DEF RecordedIn
  <2>2. PICK i \in DOMAIN tfile[c].recs : tfile[c].recs[i].row.key = k
    BY <2>1
  <2>3. c # d => tfile'[c] = tfile[c]
    BY <1>1, <1>3 DEF RowAppended
  <2>4. tfile'[d].recs = Append(tfile[d].recs, rec)
    BY <1>1, <1>3 DEF RowAppended, appendChunkToTableFile
  <2>5. tfile[c].recs \in Seq([off : Nat, row : Row])
    BY <1>1 DEF TableFile
  <2> HIDE DEF rec
  <2>6. i \in DOMAIN tfile'[c].recs /\ tfile'[c].recs[i] = tfile[c].recs[i]
    <3>1. CASE c # d
      BY <2>3, <3>1
    <3>2. CASE c = d
      <4> DEFINE q == tfile[c].recs
      <4>1. q \in Seq([off : Nat, row : Row]) /\ i \in DOMAIN q
        BY <2>5
      <4> HIDE DEF q
      <4>2. i \in DOMAIN Append(q, rec) /\ Append(q, rec)[i] = q[i]
        BY <4>1
      <4> QED BY <2>4, <3>2, <4>2 DEF q
    <3> QED BY <3>1, <3>2
  <2> QED BY <2>2, <2>6 DEF RecordedIn
<1> QED BY <1>2, <1>3, TableSteps DEF TableStep, TableUntouched, TableLost, TableRead

\* What storeDirSwapLog adds is the record of a newly logged entry.
LEMMA SwapLogAdds ==
    ASSUME NEW log, NEW ob, NEW ob2, NEW r \in storeDirSwapLog(log, ob, ob2), r \notin log
    PROVE  \E e \in Entries : Logged(ob2[e]) /\ ~Logged(ob[e]) /\ r = LogOf(ob2[e])
BY DEF storeDirSwapLog

\* The logs stay covered when entries change.
LEMMA EntriesCover ==
    ASSUME CoverInv, [Next]_vars, EntriesStep
    PROVE  (Covers(slog) /\ Covers(nlog) /\ Covers(todo))'
<1>1. Inv /\ NewLogsRecorded /\ todo' = todo /\ SetEntries(obj')
  BY DEF CoverInv, IndexInv, EntriesStep
<1>2. ASSUME NEW r, r \in slog \/ r \in nlog \/ r \in todo, r.key \in Keys,
             IsYouTubeUrl(r.key[2]), r.key \notin torn'
      PROVE  RecordedIn(tfile', r.key)
  <2>1. CASE r.key \in torn
    BY <1>1, <1>2, <2>1 DEF NewLogsRecorded
  <2>2. CASE r.key \notin torn
    BY <1>1, <1>2, <2>2, RecordedGrows DEF CoverInv, Covers
  <2> QED BY <2>1, <2>2
<1>3. \A r : r \in slog \/ r \in nlog \/ r \in todo => r.key \in Keys
  BY <1>1 DEF Inv, TypeOK, LogRecord
<1>4. ASSUME NEW e \in Entries, Logged(obj'[e]), ~Logged(obj[e]), NEW r, r = LogOf(obj'[e]),
             IsYouTubeUrl(r.key[2])
      PROVE  RecordedIn(tfile', r.key)
  <2>1. r.key = obj'[e].key
    BY <1>4 DEF LogOf
  <2> QED BY <1>1, <1>4, <2>1 DEF NewLogsRecorded
<1>5. ASSUME NEW r \in slog', IsYouTubeUrl(r.key[2]), r.key \notin torn' PROVE RecordedIn(tfile', r.key)
  <2>1. CASE r \in slog
    BY <1>2, <1>3, <1>5, <2>1
  <2>2. CASE r \notin slog
    <3>1. r \in storeDirSwapLog(slog, obj, obj')
      BY <1>1, <2>2 DEF SetEntries
    <3> QED BY <1>4, <1>5, <2>2, <3>1, SwapLogAdds
  <2> QED BY <2>1, <2>2
<1>6. ASSUME NEW r \in nlog', IsYouTubeUrl(r.key[2]), r.key \notin torn' PROVE RecordedIn(tfile', r.key)
  <2>1. CASE r \in nlog
    BY <1>2, <1>3, <1>6, <2>1
  <2>2. CASE r \notin nlog
    <3>1. r \in storeDirSwapLog(nlog, obj, obj')
      BY <1>1, <2>2 DEF SetEntries
    <3> QED BY <1>4, <1>6, <2>2, <3>1, SwapLogAdds
  <2> QED BY <2>1, <2>2
<1>7. ASSUME NEW r \in todo', IsYouTubeUrl(r.key[2]), r.key \notin torn' PROVE RecordedIn(tfile', r.key)
  BY <1>1, <1>2, <1>3, <1>7
<1> QED BY <1>5, <1>6, <1>7 DEF Covers

\* A death between the two records leaves its key in torn.
LEMMA DeathCover ==
    ASSUME CoverInv, DeathStep
    PROVE  (Covers(slog) /\ Covers(nlog) /\ Covers(todo))'
<1>1. CASE Die /\ UNCHANGED <<tfile, disk, slog, nlog, torn>>
  BY <1>1 DEF CoverInv, Covers, Die
<1>2. ASSUME NEW e \in Entries, DieInFileClosed(e)
      PROVE  (Covers(slog) /\ Covers(nlog) /\ Covers(todo))'
  <2> DEFINE ob2 == [obj EXCEPT ![e].swap = "done"]
  <2>1. /\ slog' = slog \/ slog' = storeDirSwapLog(slog, obj, ob2)
        /\ nlog' = nlog \/ nlog' = storeDirSwapLog(nlog, obj, ob2)
        /\ torn' = torn \cup {obj[e].key} /\ tfile' = tfile /\ todo' = {}
    BY <1>2 DEF DieInFileClosed, Die
  <2>2. obj \in [Entries -> Entry]
    BY DEF CoverInv, IndexInv, Inv, TypeOK
  <2>3. ob2[e].key = obj[e].key /\ \A d \in Entries : d # e => ob2[d] = obj[d]
    BY <2>2 DEF Entry
  <2> HIDE DEF ob2
  <2>4. ASSUME NEW d \in Entries, Logged(ob2[d]), ~Logged(obj[d]) PROVE LogOf(ob2[d]).key \in torn'
    <3>1. d = e
      BY <2>3, <2>4
    <3> QED BY <2>1, <2>3, <3>1 DEF LogOf
  <2>5. ASSUME NEW log, Covers(log),
               NEW r \in storeDirSwapLog(log, obj, ob2), IsYouTubeUrl(r.key[2]), r.key \notin torn'
        PROVE  RecordedIn(tfile', r.key)
    <3>1. r \in log
      BY <2>4, <2>5, SwapLogAdds
    <3> QED BY <2>1, <2>5, <3>1 DEF Covers
  <2>6. \A log : Covers(log) =>
           \A r \in log : IsYouTubeUrl(r.key[2]) /\ r.key \notin torn' => RecordedIn(tfile', r.key)
    BY <2>1 DEF Covers
  <2>7. \A r \in slog' : IsYouTubeUrl(r.key[2]) /\ r.key \notin torn' => RecordedIn(tfile', r.key)
    BY <2>1, <2>5, <2>6 DEF CoverInv
  <2>8. \A r \in nlog' : IsYouTubeUrl(r.key[2]) /\ r.key \notin torn' => RecordedIn(tfile', r.key)
    BY <2>1, <2>5, <2>6 DEF CoverInv
  <2> QED BY <2>1, <2>7, <2>8 DEF Covers
<1> QED BY <1>1, <1>2 DEF DeathStep

\* The cover is inductive.
LEMMA NextCover == CoverInv /\ [Next]_vars => CoverInv'
<1> SUFFICES ASSUME CoverInv, [Next]_vars PROVE CoverInv'
  OBVIOUS
<1>1. IndexInv' /\ IndexBase
  BY NextIndex DEF CoverInv, IndexInv, IndexBase
<1>2. CASE EntriesStep
  BY <1>1, <1>2, EntriesCover DEF CoverInv
<1>3. CASE MemoryStep
  BY <1>1, <1>3 DEF MemoryStep, CoverInv, Covers
<1>4. CASE DeathStep
  BY <1>1, <1>4, DeathCover DEF CoverInv
<1>5. CASE ProgressStep
  <2>1. CASE Start
    BY <1>1, <2>1 DEF Start, CoverInv, Covers
  <2>2. CASE Validated
    BY <1>1, <2>2 DEF Validated, CoverInv, Covers
  <2>3. CASE UNCHANGED vars
    BY <1>1, <2>3 DEF vars, CoverInv, Covers
  <2>4. ASSUME NEW misread, RebuildComplete(misread) PROVE CoverInv'
    BY <1>1, <2>4 DEF RebuildComplete, CoverInv, Covers
  <2> QED BY <1>5, <2>1, <2>2, <2>3, <2>4 DEF ProgressStep
<1>6. ASSUME NEW l \in todo, NEW n \in Entries, RebuildLoad(l, n) PROVE CoverInv'
  <2>1. /\ todo' \subseteq todo /\ nlog' \subseteq nlog \cup {l}
        /\ UNCHANGED <<slog, tfile, torn>>
    BY <1>6 DEF RebuildLoad
  <2> QED BY <1>1, <1>6, <2>1 DEF CoverInv, Covers
<1> QED BY <1>1, <1>2, <1>3, <1>4, <1>5, <1>6, IndexSteps

\* Whatever the format of the table files, every YouTube record of swap.state has
\* a record in one of them, unless the process died between the two.
THEOREM LogsStayCovered == Spec => []CoverInv
<1>1. Init => CoverInv
  <2> SUFFICES ASSUME Init PROVE CoverInv
    OBVIOUS
  <2>1. IndexInv
    <3>1. proc = "down" /\ \A e \in Entries : obj[e] = Free
      BY DEF Init
    <3> QED BY <3>1, InitInv, EmptyIndex DEF IndexInv
  <2> QED BY <2>1 DEF Init, CoverInv, Covers
<1> QED BY <1>1, NextCover, PTL DEF Spec

\* Every YouTube entry in the index has its row in the table in memory.
THEOREM IndexStaysCovered == ASSUME TableFormat PROVE Spec => []IndexCovered
<1>1. CoverInv /\ TableInv => IndexCovered
  <2> SUFFICES ASSUME CoverInv, TableInv, proc \in {"validating", "up"}, NEW e \in Entries,
                      Logged(obj[e]), IsYouTubeUrl(obj[e].key[2]), obj[e].key \notin torn
               PROVE  \E i \in DOMAIN table : table[i].key = obj[e].key
    BY DEF IndexCovered
  <2> DEFINE k == obj[e].key
  <2>1. LogOf(obj[e]) \in slog
    BY DEF CoverInv, IndexInv, LogSet
  <2>2. LogOf(obj[e]).key = k
    BY DEF LogOf
  <2>3. RecordedIn(tfile, k)
    BY <2>1, <2>2 DEF CoverInv, Covers
  <2>4. PICK i \in DOMAIN tfile[Dir0].recs : tfile[Dir0].recs[i].row.key = k
    BY <2>3 DEF RecordedIn, TableFormat
  <2>5. table = FileRows(tfile[Dir0])
    BY DEF TableInv, TableMirrorsFile
  <2>6. i \in DOMAIN table /\ table[i].key = k
    BY <2>4, <2>5 DEF FileRows
  <2> QED BY <2>6
<1> QED BY <1>1, LogsStayCovered, TableInvariant, PTL
-----------------------------------------------------------------------------
(***************************************************************************)
(* Hits are fed from whole files.                                           *)
(***************************************************************************)
\* the swap file is not there, or was written to its end
Sound(d) == d = NoFile \/ d.whole

EntriesSound == \A e \in Entries : obj[e].swap = "done" => Sound(disk[obj[e].filen])
LogSound == \A r \in slog : Sound(disk[r.filen])
TodoSound == \A r \in todo : Sound(disk[r.filen]) \/ HoldsFile(obj, r.filen)
ServedWhole == \A r \in Requests : req[r].ph = "serve" => req[r].whole

\* Until the second death: the files of the entries on disk and of the log a dead
\* process leaves are sound, a record still to be read names a sound file or one
\* that an entry of this run has taken, and the first run finds no log at all.
WholeInv ==
    kills < 2 =>
        /\ EntriesSound /\ ServedWhole
        /\ proc = "down" => LogSound
        /\ proc = "rebuilding" => TodoSound
        /\ kills = 0 /\ proc \in {"down", "rebuilding"} => slog = {} /\ todo = {}

\* With one holder for each file, the holder is the entry that has it.
LEMMA HolderIs ==
    ASSUME NEW ob, FilesDistinct(ob), NEW e \in Entries, ob[e].filen # None
    PROVE  HoldsFile(ob, ob[e].filen) /\ Holder(ob, ob[e].filen) = e
<1>1. HoldsFile(ob, ob[e].filen)
  BY DEF HoldsFile
<1>2. Holder(ob, ob[e].filen) \in Entries /\ ob[Holder(ob, ob[e].filen)].filen = ob[e].filen
  BY <1>1, HolderHolds
<1> QED BY <1>1, <1>2 DEF FilesDistinct

\* An entry that stays on disk, or comes to its end, has a sound file.
LEMMA StaysSound ==
    ASSUME Inv, FilesDistinct(obj), NEW ob2, GoodStore(ob2), FilesDistinct(ob2),
           NEW e \in Entries, ob2[e].swap = "done", ob2[e].filen = obj[e].filen,
           obj[e].swap = "done" => Sound(disk[obj[e].filen])
    PROVE  Sound(SwapFiles(obj, ob2)[ob2[e].filen])
<1> DEFINE f == obj[e].filen
<1>1. GoodEntry(obj[e]) /\ GoodEntry(ob2[e])
  BY DEF Inv, GoodStore
<1>2. f \in Files /\ f # None
  BY <1>1 DEF GoodEntry, Entry
<1>3. HoldsFile(obj, f) /\ Holder(obj, f) = e
  BY <1>2, HolderIs
<1>4. HoldsFile(ob2, f) /\ Holder(ob2, f) = e
  BY <1>2, HolderIs
<1>5. SwapFiles(obj, ob2)[f] =
         [disk[f] EXCEPT !.whole = disk[f].whole \/ (obj[e].swap = "writing" /\ ob2[e].swap = "done")]
  BY <1>2, <1>3, <1>4 DEF SwapFiles
<1>6. disk[f] \in SwapFile
  BY <1>2 DEF Inv, TypeOK
<1>7. obj[e].swap \in {"writing", "done"}
  BY <1>1, <1>2 DEF GoodEntry, Entry
<1> HIDE DEF f
<1>8. CASE obj[e].swap = "writing"
  <2>1. SwapFiles(obj, ob2)[f].whole
    BY <1>5, <1>6, <1>8 DEF SwapFile
  <2> QED BY <2>1 DEF Sound, f
<1>9. CASE obj[e].swap = "done"
  <2>1. SwapFiles(obj, ob2)[f] = disk[f]
    BY <1>5, <1>6, <1>9 DEF SwapFile
  <2> QED BY <1>9, <2>1 DEF f
<1> QED BY <1>7, <1>8, <1>9

\* A record still to be read names a sound file, or one that is taken.
LEMMA TodoStaysSound ==
    ASSUME NEW ob2, NEW f \in Files, Sound(disk[f]) \/ HoldsFile(obj, f)
    PROVE  Sound(SwapFiles(obj, ob2)[f]) \/ HoldsFile(ob2, f)
<1>1. CASE HoldsFile(ob2, f)
  BY <1>1
<1>2. CASE ~HoldsFile(ob2, f) /\ HoldsFile(obj, f)
  BY <1>2 DEF SwapFiles, Sound
<1>3. CASE ~HoldsFile(ob2, f) /\ ~HoldsFile(obj, f)
  BY <1>3 DEF SwapFiles
<1> QED BY <1>1, <1>2, <1>3

\* A request is served by CacheHit, and by nothing else.
LEMMA ServeSteps ==
    ASSUME Inv, [Next]_vars, NEW r \in Requests, req'[r].ph = "serve"
    PROVE  CacheHit(r) \/ (req[r].ph = "serve" /\ req'[r].whole = req[r].whole)
<1> DEFINE Same == req[r].ph = "serve" /\ req'[r].whole = req[r].whole
<1>1. req \in [Requests -> Request]
  BY DEF Inv, TypeOK
<1>2. ASSUME req' = req PROVE Same
  BY <1>2
<1>3. ASSUME NEW q \in Requests, NEW v, req' = [req EXCEPT ![q] = v], v.ph # "serve" PROVE Same
  BY <1>1, <1>3
<1>4. ASSUME req' = [i \in Requests |-> Idle] PROVE Same
  BY <1>4 DEF Idle
<1>5. ASSUME NEW q \in Requests, ClientStep(q) PROVE CacheHit(r) \/ Same
  <2>1. ASSUME NEW k \in Keys, RequestHit(q, k) PROVE Same
    <3> DEFINE e == storeGetPublicByRequest(obj, k)
               v == [Idle EXCEPT !.ph = "hit", !.key = k, !.e = e, !.typ = storeClientType(e)]
    <3>1. req' = [req EXCEPT ![q] = v]
      BY <2>1 DEF RequestHit
    <3>2. v.ph = "hit"
      BY DEF Idle
    <3> HIDE DEF v, Same
    <3> QED BY <1>3, <3>1, <3>2
  <2>2. ASSUME NEW k \in Keys, NEW n \in Entries, RequestMiss(q, k, n) PROVE Same
    <3> DEFINE v == [Idle EXCEPT !.ph = "fetch", !.key = k, !.e = n]
    <3>1. req' = [req EXCEPT ![q] = v] /\ v.ph = "fetch"
      BY <2>2 DEF RequestMiss, Idle
    <3> HIDE DEF v, Same
    <3> QED BY <1>3, <3>1
  <2>3. ASSUME NEW k \in Keys, LookupCrash(q, k) PROVE Same
    BY <1>4, <2>3 DEF LookupCrash, Die
  <2>4. CASE CacheHit(q)
    <3>1. CASE q = r
      BY <2>4, <3>1
    <3>2. CASE q # r
      BY <1>1, <2>4, <3>2 DEF CacheHit
    <3> QED BY <3>1, <3>2
  <2>5. ASSUME NEW n \in Entries, CacheMiss(q, n) PROVE Same
    <3> DEFINE v == [Idle EXCEPT !.ph = "fetch", !.key = req[q].key, !.e = n]
    <3>1. req' = [req EXCEPT ![q] = v] /\ v.ph = "fetch"
      BY <2>5 DEF CacheMiss, Idle
    <3> HIDE DEF v, Same
    <3> QED BY <1>3, <3>1
  <2>6. CASE ClientDone(q)
    <3>1. req' = [req EXCEPT ![q] = Idle] /\ Idle.ph = "idle"
      BY <2>6 DEF ClientDone, Idle
    <3> HIDE DEF Same
    <3> QED BY <1>3, <3>1
  <2> HIDE DEF Same
  <2> QED BY <1>5, <2>1, <2>2, <2>3, <2>4, <2>5, <2>6 DEF ClientStep
<1> HIDE DEF Same
<1>6. ASSUME NEW e \in Entries, EntryStep(e) PROVE Same
  <2>1. req' = req \/ DieInFileClosed(e)
    BY <1>6 DEF EntryStep, ReplyHeader, Append4K, Complete, RequestFailed, ServerAborted,
        SwapOutFileClosed, SwapOutFileError, TrimMemory, PurgeMem, Evict, LateRelease, Validate,
        CreateFails
  <2> QED BY <1>2, <1>4, <2>1 DEF DieInFileClosed, Die
<1>7. ASSUME ProcessStep PROVE Same
  <2>1. req' = req \/ Kill
    BY <1>7 DEF ProcessStep, Start, RebuildLoad, RebuildComplete, Validated
  <2>2. Kill => req' = [i \in Requests |-> Idle]
    BY DEF Kill, Die
  <2> QED BY <1>2, <1>4, <2>1, <2>2
<1>8. ASSUME UNCHANGED vars PROVE Same
  BY <1>2, <1>8 DEF vars
<1> QED BY <1>5, <1>6, <1>7, <1>8 DEF Next, Same

\* A hit sends a whole reply if the files of the entries on disk are sound.
LEMMA HitWhole ==
    ASSUME Inv, EntriesSound, NEW r \in Requests, CacheHit(r)
    PROVE  req'[r].whole
<1> DEFINE e == req[r].e
           x == obj[e]
           w == x.data \/ x.swap = "writing" \/ disk[x.filen].whole
<1>1. req[r].ph = "hit" /\ e \in Entries /\ req \in [Requests -> Request] /\ req[r] \in Request
  BY DEF CacheHit, Inv, TypeOK, GoodRequests, GoodRequest
<1>2. GoodEntry(x)
  BY <1>1 DEF Inv, GoodStore
<1>3. w
  <2>1. x.data \/ SwapInOk(x)
    BY DEF CacheHit, storeClientCopy
  <2>2. ASSUME SwapInOk(x) PROVE w
    <3>1. x.filen # None /\ disk[x.filen] # NoFile
      BY <2>2 DEF SwapInOk
    <3>2. x.swap \in {"writing", "done"}
      BY <1>2, <3>1 DEF GoodEntry, Entry
    <3> QED BY <1>1, <3>1, <3>2 DEF EntriesSound, Sound
  <2> QED BY <2>1, <2>2
<1>4. req' = [req EXCEPT ![r].ph = "serve",
                ![r].ans = IF x.data THEN x.key ELSE disk[x.filen].key, ![r].whole = w]
  BY DEF CacheHit
<1>5. req'[r].whole = w
  <2> HIDE DEF w
  <2> QED BY <1>1, <1>4 DEF Request
<1> QED BY <1>3, <1>5

\* No step takes a death back.
LEMMA KillsGrow ==
    ASSUME Inv, IndexBase, [Next]_vars
    PROVE  /\ kills \in Nat /\ kills' \in Nat /\ kills <= kills'
           /\ DeathStep => kills' = kills + 1
<1>1. kills \in Nat /\ MaxKills \in Nat
  BY ConstantsAssumption DEF Inv, TypeOK
<1>2. kills' = kills \/ DeathStep
  BY IndexSteps DEF EntriesStep, MemoryStep, ProgressStep, Start, Validated, RebuildComplete,
                    RebuildLoad, vars
<1>3. DeathStep => kills' = kills + 1
  BY DEF DeathStep, DieInFileClosed, Die
<1> QED BY <1>1, <1>2, <1>3

\* The entries change and the disk follows.
LEMMA EntriesWhole ==
    ASSUME IndexInv, IndexInv', WholeInv, kills < 2, proc # "down", EntriesStep
    PROVE  /\ EntriesSound'
           /\ proc' = "rebuilding" => TodoSound'
           /\ proc' # "down" /\ (kills' = 0 /\ proc' = "rebuilding" => slog' = {} /\ todo' = {})
<1> DEFINE ob2 == obj'
<1>1. /\ disk' = SwapFiles(obj, ob2) /\ proc' = proc /\ todo' = todo /\ kills' = kills
      /\ Moves(obj, ob2) /\ SetEntries(ob2)
  BY DEF EntriesStep, SetEntries
<1>2. GoodStore(ob2) /\ FilesDistinct(ob2) /\ FilesDistinct(obj) /\ Inv /\ EntriesSound
  BY DEF IndexInv, Inv, WholeInv
<1>3. EntriesSound'
  <2>1. ASSUME NEW e \in Entries, ob2[e].swap = "done" PROVE Sound(disk'[ob2[e].filen])
    <3>1. ob2[e].filen = obj[e].filen
      BY <1>1, <2>1 DEF Moves
    <3>2. obj[e].swap = "done" => Sound(disk[obj[e].filen])
      BY <1>2 DEF EntriesSound
    <3>3. Sound(SwapFiles(obj, ob2)[ob2[e].filen])
      BY <1>2, <2>1, <3>1, <3>2, StaysSound
    <3> QED BY <1>1, <3>3
  <2> QED BY <2>1 DEF EntriesSound
<1>4. proc' = "rebuilding" => TodoSound'
  <2> SUFFICES ASSUME proc = "rebuilding", NEW r \in todo
               PROVE  Sound(disk'[r.filen]) \/ HoldsFile(ob2, r.filen)
    BY <1>1 DEF TodoSound
  <2>1. r.filen \in Files /\ (Sound(disk[r.filen]) \/ HoldsFile(obj, r.filen))
    BY <1>2 DEF WholeInv, TodoSound, Inv, TypeOK, LogRecord
  <2>2. Sound(SwapFiles(obj, ob2)[r.filen]) \/ HoldsFile(ob2, r.filen)
    BY <2>1, TodoStaysSound
  <2> QED BY <1>1, <2>2
<1>5. proc' # "down" /\ (kills' = 0 /\ proc' = "rebuilding" => slog' = {} /\ todo' = {})
  BY <1>1 DEF WholeInv, SetEntries
<1> QED BY <1>3, <1>4, <1>5

\* The log that the first death leaves names sound files only.
LEMMA DeathWhole ==
    ASSUME IndexInv, WholeInv, kills = 0, proc # "down", DeathStep
    PROVE  LogSound'
<1>1. Inv /\ FilesDistinct(obj) /\ EntriesSound /\ (proc = "rebuilding" => slog = {})
  BY DEF IndexInv, WholeInv
<1>2. proc # "rebuilding" => slog = LogSet(obj)
  BY <1>1 DEF Inv, TypeOK, IndexInv
<1>3. CASE Die /\ UNCHANGED <<tfile, disk, slog, nlog, torn>>
  <2>1. CASE proc = "rebuilding"
    BY <1>1, <1>3, <2>1 DEF LogSound
  <2>2. CASE proc # "rebuilding"
    <3>1. ASSUME NEW r \in slog PROVE Sound(disk[r.filen])
      <4>1. PICK e \in Entries : Logged(obj[e]) /\ r = LogOf(obj[e])
        BY <1>2, <2>2 DEF LogSet
      <4> QED BY <1>1, <4>1 DEF EntriesSound, Logged, LogOf
    <3> QED BY <1>3, <3>1 DEF LogSound
  <2> QED BY <2>1, <2>2
<1>4. ASSUME NEW e \in Entries, DieInFileClosed(e) PROVE LogSound'
  <2> DEFINE ob2 == [obj EXCEPT ![e].swap = "done"]
  <2>1. /\ disk' = SwapFiles(obj, ob2) /\ obj[e].swap = "writing" /\ obj[e].st = "ok"
        /\ slog' = IF proc = "rebuilding" THEN slog ELSE storeDirSwapLog(slog, obj, ob2)
    BY <1>4 DEF DieInFileClosed
  <2>2. GoodStore(obj) /\ obj \in [Entries -> Entry]
    BY <1>1 DEF Inv, GoodStore
  <2>3. ob2 = [obj EXCEPT ![e] = [obj[e] EXCEPT !.swap = "done"]]
    BY <2>2
  <2>4. /\ ob2[e] = [obj[e] EXCEPT !.swap = "done"]
        /\ \A d \in Entries : d # e => ob2[d] = obj[d]
        /\ ob2 \in [Entries -> Entry]
    BY <2>2 DEF Entry
  <2>5. ob2[e].filen = obj[e].filen /\ ob2[e].key = obj[e].key /\ GoodEntry(ob2[e])
    BY <2>1, <2>2, <2>4 DEF GoodStore, GoodEntry, Entry
  <2> HIDE DEF ob2
  <2>6. \A d \in Entries : ob2[d].filen = obj[d].filen /\ ob2[d].key = obj[d].key
    BY <2>4, <2>5
  <2>7. GoodStore(ob2) /\ FilesDistinct(ob2)
    BY <1>1, <2>2, <2>4, <2>5, <2>6 DEF GoodStore, FilesDistinct
  <2>8. CASE proc = "rebuilding"
    BY <1>1, <2>1, <2>8 DEF LogSound
  <2>9. CASE proc # "rebuilding"
    <3>1. storeDirSwapLog(LogSet(obj), obj, ob2) = LogSet(ob2)
      <4>1. \A d \in Entries : Logged(obj[d]) /\ Logged(ob2[d]) => LogOf(ob2[d]) = LogOf(obj[d])
        BY <2>6 DEF LogOf
      <4> QED BY <1>1, <2>2, <4>1, SwapLogMirrors
    <3>2. slog' = LogSet(ob2)
      BY <1>2, <2>1, <2>9, <3>1
    <3>3. ASSUME NEW r \in slog' PROVE Sound(disk'[r.filen])
      <4>1. PICK d \in Entries : Logged(ob2[d]) /\ r = LogOf(ob2[d])
        BY <3>2 DEF LogSet
      <4>2. r.filen = ob2[d].filen /\ ob2[d].swap = "done" /\ ob2[d].filen = obj[d].filen
        BY <2>6, <4>1 DEF LogOf, Logged
      <4>3. obj[d].swap = "done" => Sound(disk[obj[d].filen])
        BY <1>1 DEF EntriesSound
      <4>4. Sound(SwapFiles(obj, ob2)[ob2[d].filen])
        BY <1>1, <2>7, <4>2, <4>3, StaysSound
      <4> QED BY <2>1, <4>2, <4>4
    <3> QED BY <3>3 DEF LogSound
  <2> QED BY <2>8, <2>9
<1> QED BY <1>3, <1>4 DEF DeathStep

\* Loading a record gives an entry its sound file.
LEMMA LoadWhole ==
    ASSUME IndexInv, WholeInv, kills < 2, NEW l \in todo, NEW n \in Entries, RebuildLoad(l, n)
    PROVE  EntriesSound' /\ TodoSound' /\ slog' = slog /\ kills # 0
<1>1. /\ proc = "rebuilding" /\ todo' \subseteq todo
      /\ UNCHANGED <<disk, slog>>
  BY DEF RebuildLoad
<1>2. Inv /\ EntriesSound /\ TodoSound /\ (kills = 0 => todo = {})
  BY <1>1 DEF IndexInv, WholeInv
<1>3. CASE UNCHANGED obj
  BY <1>1, <1>2, <1>3 DEF EntriesSound, TodoSound, HoldsFile
<1>4. CASE /\ UnusedFile(l.filen) /\ obj[n] = Free
           /\ obj' = [obj EXCEPT ![n] = storeUfsDirAddDiskRestore(l)]
  <2> DEFINE z == storeUfsDirAddDiskRestore(l)
  <2>1. z.filen = l.filen
    BY DEF storeUfsDirAddDiskRestore, Free
  <2>2. obj'[n] = z /\ \A d \in Entries : d # n => obj'[d] = obj[d]
    BY <1>2, <1>4 DEF Inv, TypeOK
  <2> HIDE DEF z
  <2>3. Sound(disk[l.filen])
    <3>1. l.filen # None /\ Marks(map, obj)
      BY <1>2, ConstantsAssumption DEF IndexInv, Inv, TypeOK, LogRecord
    <3>2. ~HoldsFile(obj, l.filen)
      BY <1>4, <3>1 DEF Marks, UnusedFile, HoldsFile
    <3> QED BY <1>2, <3>2 DEF TodoSound
  <2>4. EntriesSound'
    BY <1>1, <1>2, <2>1, <2>2, <2>3 DEF EntriesSound
  <2>5. Free.filen = None /\ \A r \in todo : r.filen # None
    BY <1>2, ConstantsAssumption DEF Free, Inv, TypeOK, LogRecord
  <2>6. \A r \in todo : HoldsFile(obj, r.filen) => HoldsFile(obj', r.filen)
    BY <1>4, <2>2, <2>5 DEF HoldsFile
  <2>7. TodoSound'
    BY <1>1, <1>2, <2>6 DEF TodoSound
  <2> QED BY <1>1, <1>2, <2>4, <2>7
<1> QED BY <1>3, <1>4 DEF RebuildLoad

\* Every step keeps WholeInv.
LEMMA NextWhole ==
    ASSUME IndexInv, WholeInv, [Next]_vars
    PROVE  WholeInv'
<1>1. IndexInv' /\ IndexBase /\ Inv
  BY NextIndex DEF IndexInv, IndexBase
<1>2. /\ kills \in Nat /\ kills' \in Nat /\ kills <= kills'
      /\ DeathStep => kills' = kills + 1
  BY <1>1, KillsGrow
<1> SUFFICES ASSUME kills' < 2
             PROVE  /\ EntriesSound' /\ ServedWhole'
                    /\ proc' = "down" => LogSound'
                    /\ proc' = "rebuilding" => TodoSound'
                    /\ kills' = 0 /\ proc' \in {"down", "rebuilding"} => slog' = {} /\ todo' = {}
  BY DEF WholeInv
<1>3. kills < 2
  BY <1>2
<1>4. EntriesSound /\ ServedWhole
  BY <1>3 DEF WholeInv
<1>5. ServedWhole'
  BY <1>1, <1>4, ServeSteps, HitWhole DEF ServedWhole
<1> DEFINE Rest == /\ EntriesSound'
                   /\ proc' = "down" => LogSound'
                   /\ proc' = "rebuilding" => TodoSound'
                   /\ kills' = 0 /\ proc' \in {"down", "rebuilding"} => slog' = {} /\ todo' = {}
<1>6. ASSUME ProgressStep PROVE Rest
  <2>1. UNCHANGED <<obj, disk, kills>>
    BY <1>6 DEF ProgressStep, Start, Validated, RebuildComplete, vars
  <2>2. EntriesSound'
    BY <1>4, <2>1 DEF EntriesSound
  <2>3. CASE Start
    BY <1>3, <2>1, <2>2, <2>3 DEF Start, WholeInv, LogSound, TodoSound
  <2>4. CASE Validated
    BY <2>2, <2>4 DEF Validated
  <2>5. CASE UNCHANGED vars
    BY <1>3, <2>1, <2>2, <2>5 DEF vars, WholeInv, LogSound, TodoSound
  <2>6. ASSUME NEW misread, RebuildComplete(misread) PROVE Rest
    BY <2>2, <2>6 DEF RebuildComplete
  <2> QED BY <1>6, <2>3, <2>4, <2>5, <2>6 DEF ProgressStep
<1>7. CASE proc = "down"
  <2>1. ProgressStep
    BY <1>1, <1>7, DownSteps DEF IndexInv, ProgressStep
  <2> QED BY <1>5, <1>6, <2>1
<1>8. CASE proc # "down"
  <2>1. ASSUME EntriesStep PROVE Rest
    BY <1>1, <1>3, <1>8, <2>1, EntriesWhole
  <2>2. ASSUME MemoryStep PROVE Rest
    <3>1. UNCHANGED <<proc, disk, slog, todo, kills>> /\ \A e \in Entries : Silent(obj[e], obj'[e])
      BY <2>2 DEF MemoryStep
    <3>2. \A e \in Entries : obj'[e].filen = obj[e].filen /\ obj'[e].swap = obj[e].swap
      BY <3>1 DEF Silent
    <3>3. EntriesSound'
      BY <1>4, <3>1, <3>2 DEF EntriesSound
    <3>4. proc = "rebuilding" => TodoSound'
      BY <1>3, <3>1, <3>2 DEF WholeInv, TodoSound, HoldsFile
    <3> QED BY <1>3, <1>8, <3>1, <3>3, <3>4 DEF WholeInv
  <2>3. ASSUME DeathStep PROVE Rest
    <3>1. proc' = "down" /\ obj' = [e \in Entries |-> Free] /\ kills' = kills + 1
      BY <1>2, <2>3 DEF DeathStep, Die, DieInFileClosed
    <3>2. kills = 0
      BY <1>2, <3>1
    <3>3. EntriesSound'
      BY <3>1 DEF EntriesSound, Free
    <3>4. LogSound'
      BY <1>8, <2>3, <3>2, DeathWhole
    <3> QED BY <3>1, <3>2, <3>3, <3>4
  <2>4. ASSUME NEW l \in todo, NEW n \in Entries, RebuildLoad(l, n) PROVE Rest
    <3>1. EntriesSound' /\ TodoSound' /\ kills # 0
      BY <1>3, <2>4, LoadWhole
    <3>2. proc' = "rebuilding" /\ kills' = kills
      BY <2>4 DEF RebuildLoad
    <3> QED BY <3>1, <3>2
  <2> HIDE DEF Rest
  <2>5. Rest
    BY <1>1, <1>6, <2>1, <2>2, <2>3, <2>4, IndexSteps
  <2> QED BY <1>5, <2>5 DEF Rest
<1> QED BY <1>7, <1>8

\* Until the second death a hit is never fed from a swap file that was only partly
\* written, whichever entries took, gave up or reloaded the file before.
THEOREM HitsStayWhole == Spec => []AnswerWhole
<1>1. Init => WholeInv
  <2> SUFFICES ASSUME Init PROVE WholeInv
    OBVIOUS
  <2>1. /\ obj = [e \in Entries |-> Free] /\ req = [r \in Requests |-> Idle]
        /\ proc = "down" /\ slog = {} /\ todo = {}
    BY DEF Init
  <2>2. EntriesSound
    BY <2>1 DEF EntriesSound, Free
  <2>3. ServedWhole
    BY <2>1 DEF ServedWhole, Idle
  <2> QED BY <2>1, <2>2, <2>3 DEF WholeInv, LogSound
<1>2. IndexInv /\ WholeInv /\ [Next]_vars => WholeInv'
  BY NextWhole
<1>3. WholeInv => AnswerWhole
  BY DEF WholeInv, ServedWhole, AnswerWhole
<1> QED BY <1>1, <1>2, <1>3, IndexInvariant, PTL DEF Spec
=============================================================================
