---------------------------- MODULE YoutubeStore ----------------------------
(***************************************************************************)
(* HappyStream's chunk cache: Squid's object store (store.c, store_client.c, *)
(* store_swapout.c, http.c, client_side.c, the ufs cache_dir) with the       *)
(* YouTube chunk table that HappyStream adds to it.                         *)
(*                                                                         *)
(* A YouTube chunk is asked for under many URLs.  A public StoreEntry is     *)
(* indexed by its key, the digest of method and URL; the chunk table maps    *)
(* the (lmt, range) triple parsed from a URL to the key of the entry that    *)
(* was swapped out for it, so that another URL of the same chunk can hit.    *)
(* The table lives in memory and in <cache_dir>/youtubetable.state; the     *)
(* store index is persisted in swap.state, rewritten through swap.state.new *)
(* while it is being rebuilt.  Squid is one event loop: every action below   *)
(* is one callback, and only the death of the process can cut one short.     *)
(***************************************************************************)
EXTENDS Naturals, Sequences, FiniteSets

CONSTANTS
    Urls,         \* request URLs
    Chunks,       \* the (lmt, startRange, endRange) triples of the YouTube URLs
    ChunkOf,      \* Urls -> Chunks \cup {NotYoutube, NoLmt}
    LmtLen,       \* Chunks -> number of characters of the lmt parameter
    NotYoutube,   \* "/videoplayback?" does not occur in the URL
    NoLmt,        \* it does, but "lmt=" does not
    Methods,      \* subset of {"GET", "HEAD"}: the cachable methods in use
    Replies,      \* the kinds of reply that origin servers give
    Requests,     \* client request slots (clientHttpRequest)
    Entries,      \* StoreEntry addresses
    Files,        \* swap file numbers above 0
    Dirs, Dir0,   \* cache_dirs, and swapDirs[0]
    DirOf,        \* Files -> Dirs
    Reload,       \* clients may send no-cache requests
    TempClean,    \* the stack bytes after temp[] never extend its digits
    MaxRows,      \* bound: rows of one table file
    MaxKills,     \* bound: deaths of the process
    None

Keys == Methods \X Urls
Bodies == {"none", "data", "gone", "negative", "error"}
ReplyKinds == {"data", "gone", "private", "notfound", "servererror"}

ASSUME ConstantsAssumption ==
    /\ ChunkOf \in [Urls -> Chunks \cup {NotYoutube, NoLmt}]
    /\ NotYoutube \notin Chunks /\ NoLmt \notin Chunks /\ NotYoutube # NoLmt
    /\ LmtLen \in [Chunks -> Nat]
    /\ Methods \subseteq {"GET", "HEAD"} /\ "GET" \in Methods
    /\ Replies \subseteq ReplyKinds
    /\ Dir0 \in Dirs /\ DirOf \in [Files -> Dirs]
    /\ Reload \in BOOLEAN /\ TempClean \in BOOLEAN
    /\ MaxRows \in Nat /\ MaxKills \in Nat
    /\ None \notin Urls /\ None \notin Entries /\ None \notin Files
    /\ None \notin Keys /\ None \notin Chunks

VARIABLES
    proc,    \* "down", "rebuilding", "validating", "up"
    obj,     \* the StoreEntry at each address
    req,     \* the clientHttpRequest in each slot
    table,   \* youtubeTable: the list of rows, head first
    tfile,   \* youtubetable.state of each cache_dir
    map,     \* the file numbers marked in the bitmaps of the cache_dirs
    disk,    \* the swap files
    slog,    \* live records of swap.state
    nlog,    \* live records of swap.state.new
    todo,    \* records of swap.state the rebuild has not read yet
    torn,    \* ghost: keys logged by a callback that died before the table append
    kills    \* deaths of the process so far

vars == <<proc, obj, req, table, tfile, map, disk, slog, nlog, todo, torn, kills>>
-----------------------------------------------------------------------------
Free == [st |-> "free", key |-> None, pub |-> FALSE, hdr |-> FALSE,
         body |-> "none", murl |-> None, data |-> FALSE, swap |-> "none",
         filen |-> None, rel |-> FALSE, aborted |-> FALSE, late |-> FALSE,
         srv |-> FALSE, valid |-> FALSE]

Entry == [st : {"free", "pending", "ok"}, key : Keys \cup {None},
          pub : BOOLEAN, hdr : BOOLEAN, body : Bodies,
          murl : Urls \cup {None}, data : BOOLEAN,
          swap : {"none", "writing", "done"}, filen : Files \cup {None},
          rel : BOOLEAN, aborted : BOOLEAN, late : BOOLEAN, srv : BOOLEAN,
          valid : BOOLEAN]

Idle == [ph |-> "idle", key |-> None, e |-> None, typ |-> "mem",
         ans |-> None, whole |-> TRUE]

Request == [ph : {"idle", "hit", "fetch", "serve"}, key : Keys \cup {None},
            e : Entries \cup {None}, typ : {"mem", "disk"},
            ans : Keys \cup {None}, whole : BOOLEAN]

Row == [chunk : Chunks, key : Keys]
Garbage == [chunk |-> None, key |-> None]   \* a misread row, assumed to be one no request asks for
LogRecord == [key : Keys, filen : Files]
SwapFile == [key : Keys \cup {None}, url : Urls \cup {None}, body : Bodies, whole : BOOLEAN]
NoFile == [key |-> None, url |-> None, body |-> "none", whole |-> FALSE]

Running == proc # "down"
Rebuilding == proc \in {"rebuilding", "validating"}   \* store_dirs_rebuilding # 0

Users(e) == {r \in Requests : req[r].e = e}
UnusedFile(f) == f \notin map

(***************************************************************************)
(* The chunk table.                                                         *)
(***************************************************************************)
IsYouTubeUrl(u) == ChunkOf[u] \in Chunks
Matching(tab, c) == {i \in DOMAIN tab : tab[i].chunk = c}

\* mutant: the last matching row instead of the first
getMatchedSwapoutKeyLast(tab, c) ==
    IF Matching(tab, c) = {} THEN None
    ELSE tab[CHOOSE i \in Matching(tab, c) : \A j \in Matching(tab, c) : j <= i].key

\* mutant: lmt compared, range not
getMatchedSwapoutKeyAnyRange(tab, c) == IF tab = <<>> THEN None ELSE tab[1].key

getMatchedSwapoutKey(tab, c) ==
    IF Matching(tab, c) = {} THEN None
    ELSE tab[CHOOSE i \in Matching(tab, c) : \A j \in Matching(tab, c) : i <= j].key

storeGet(ob, k) ==
    IF \E e \in Entries : ob[e].pub /\ ob[e].key = k
    THEN CHOOSE e \in Entries : ob[e].pub /\ ob[e].key = k
    ELSE None

\* A row that names an entry no longer stored yields no entry at all: there is
\* no second look under the URL's own key.
storeGetPublicByRequestMethod(ob, k, m) ==
    LET row == IF IsYouTubeUrl(k[2]) THEN getMatchedSwapoutKey(table, ChunkOf[k[2]]) ELSE None
    IN  IF row # None THEN storeGet(ob, row) ELSE storeGet(ob, <<m, k[2]>>)

storeGetPublicByRequest(ob, k) ==
    LET e == storeGetPublicByRequestMethod(ob, k, k[1])
    IN  IF e = None /\ k[1] = "HEAD"
        THEN storeGetPublicByRequestMethod(ob, k, "GET") ELSE e

RecordLen(c) == LmtLen[c] + 100
Unit == 116

\* mutant: the last record is not read
readChunkFromTableFileShort(f, misread) ==
    [j \in 1 .. Len(f.recs) - 1 |-> f.recs[j].row]

\* The reader takes the file in units of 116 bytes and trusts every unit to be
\* one record with a 16 character lmt.  "misread" are the units whose range
\* picked up digits from the uninitialised end of temp[].  Such a unit, or one
\* off a record's start, may spell any lmt and range; that it is none of Chunks,
\* the ones clients ask for, is an assumption of this model.
readChunkFromTableFile(f, misread) ==
    [j \in 1 .. (f.len + Unit - 1) \div Unit |->
        IF /\ j \notin misread
           /\ \E i \in DOMAIN f.recs :
                f.recs[i].off = Unit * (j - 1) /\ LmtLen[f.recs[i].row.chunk] = 16
        THEN f.recs[CHOOSE i \in DOMAIN f.recs :
                f.recs[i].off = Unit * (j - 1) /\ LmtLen[f.recs[i].row.chunk] = 16].row
        ELSE Garbage]

appendChunkToTableFile(f, row) ==
    [recs |-> Append(f.recs, [off |-> f.len, row |-> row]),
     len |-> f.len + RecordLen(row.chunk)]

\* the rows of a table file in the order they were written
FileRows(f) == [i \in DOMAIN f.recs |-> f.recs[i].row]

(***************************************************************************)
(* Store entries.  Each operator maps an entry to what the call makes of it. *)
(***************************************************************************)
storeReleaseRequest(x) ==
    IF x.rel THEN x ELSE [x EXCEPT !.rel = TRUE, !.pub = FALSE]

\* mutant: the clients' locks are not counted
storeEntryLockedByStore(x, lock) ==
    x.srv \/ x.late \/ x.swap = "writing" \/ x.st = "pending"

\* lock: a client holds the entry.  The server side, a swapout in progress and
\* the late release stack hold it through fields of its own.
storeEntryLocked(x, lock) ==
    lock \/ x.srv \/ x.late \/ x.swap = "writing" \/ x.st = "pending"

storeRelease(x, lock) ==
    IF storeEntryLocked(x, lock)
    THEN storeReleaseRequest(x)
    ELSE IF Rebuilding /\ x.filen # None
    THEN [x EXCEPT !.pub = FALSE, !.murl = None, !.data = FALSE,
                   !.late = TRUE, !.rel = TRUE]
    ELSE Free

\* the last holder of a lock lets go
storeUnlockObject(x, lock) ==
    IF storeEntryLocked(x, lock) THEN x
    ELSE IF x.rel THEN storeRelease(x, FALSE)
    ELSE IF x.data THEN x
    ELSE IF x.swap = "done" THEN [x EXCEPT !.murl = None]
    ELSE storeRelease([x EXCEPT !.murl = None], FALSE)

storeEntryValidToSend(x) == ~x.rel /\ ~x.aborted

storeCheckCachable(x) == x.pub /\ ~x.rel /\ x.body \in {"data", "gone"}

storeClientType(e) ==
    IF ~obj[e].data THEN "disk"
    ELSE IF obj[e].st = "ok" \/ Users(e) = {} \/ obj[e].swap = "none" THEN "mem"
    ELSE "disk"

\* What storeSwapOut may make of an entry: no file could be opened, too many
\* disk files are open and the entry is given up, or the swapout starts.
storeSwapOut(x) ==
    IF ~x.data \/ x.swap # "none" \/ x.aborted THEN {x}
    ELSE IF ~storeCheckCachable(x)
    THEN {IF x.body = "negative" THEN x ELSE storeReleaseRequest(x)}
    ELSE {x, storeReleaseRequest(x)} \cup
         {[x EXCEPT !.swap = "writing", !.filen = f] : f \in {g \in Files : UnusedFile(g)}}

storeCreateEntry(k) ==
    [Free EXCEPT !.st = "pending", !.key = k, !.murl = k[2], !.srv = TRUE, !.valid = TRUE]

storeAbort(x) ==
    [storeReleaseRequest(x) EXCEPT !.aborted = TRUE, !.st = "ok"]

\* A reply of the wrong length is not kept.
storeComplete(x, validLength) ==
    LET y == [x EXCEPT !.st = "ok"]
    IN  storeSwapOut(IF validLength THEN y ELSE storeReleaseRequest(y))

\* an error page if nothing had come in, else an abort
storeRequestFailed(x) ==
    IF x.hdr THEN storeAbort(x)
    ELSE [storeReleaseRequest(x) EXCEPT !.st = "ok", !.hdr = TRUE,
                                        !.data = TRUE, !.body = "error"]

\* the server side lets go of the entry
fwdStateFree(x, lock) == storeUnlockObject([x EXCEPT !.srv = FALSE], lock)

\* A client leaves: a finished object that is not on disk is offered to
\* storeSwapOut once more, the last client may abort an unfinished one.
storeClientUnregister(x, others) ==
    LET left == IF x.st = "ok" /\ x.swap # "done" THEN storeSwapOut(x)
                ELSE IF x.st = "pending" /\ ~others THEN {x, storeAbort(x)}
                ELSE {x}
    IN  {storeUnlockObject(y, others) : y \in left}

(***************************************************************************)
(* Disk effects of a change of the entries.  A swap file is created when    *)
(* the entry gets its number and unlinked when the entry lets go of it; a    *)
(* swapped out entry is logged when it is public and un-logged when it       *)
(* becomes private or is released.  The bitmap marks a number when an entry  *)
(* takes it and forgets it when an entry lets go of it, whoever else may     *)
(* have it.                                                                 *)
(***************************************************************************)
HoldsFile(ob, f) == \E e \in Entries : ob[e].filen = f
Holder(ob, f) == CHOOSE e \in Entries : ob[e].filen = f

SwapFiles(ob, ob2) ==
    [f \in Files |->
        IF HoldsFile(ob2, f)
        THEN LET x == ob2[Holder(ob2, f)]
             IN IF ~HoldsFile(ob, f)
                THEN [key |-> x.key, url |-> x.murl, body |-> x.body, whole |-> FALSE]
                ELSE [disk[f] EXCEPT !.whole =
                        @ \/ (ob[Holder(ob, f)].swap = "writing" /\ x.swap = "done")]
        ELSE IF HoldsFile(ob, f) THEN NoFile ELSE disk[f]]

\* mutant: the record is written when the swapout starts
LoggedEarly(x) == x.pub /\ x.swap \in {"writing", "done"}

Logged(x) == x.pub /\ x.swap = "done"
LogOf(x) == [key |-> x.key, filen |-> x.filen]

storeDirSwapLog(log, ob, ob2) ==
    (log \ {LogOf(ob[e]) : e \in {d \in Entries : Logged(ob[d]) /\ ~Logged(ob2[d])}})
    \cup {LogOf(ob2[e]) : e \in {d \in Entries : Logged(ob2[d]) /\ ~Logged(ob[d])}}

Marked(ob2) ==
    (map \ {obj[e].filen : e \in {d \in Entries : ob2[d].filen # obj[d].filen}})
    \cup {ob2[e].filen : e \in {d \in Entries : ob2[d].filen \notin {None, obj[d].filen}}}

\* The entries become ob2 and the disk follows.
SetEntries(ob2) ==
    /\ obj' = ob2
    /\ map' = Marked(ob2)
    /\ disk' = SwapFiles(obj, ob2)
    /\ slog' = IF proc = "rebuilding" THEN slog ELSE storeDirSwapLog(slog, obj, ob2)
    /\ nlog' = IF proc = "rebuilding" THEN storeDirSwapLog(nlog, obj, ob2) ELSE nlog
-----------------------------------------------------------------------------
(***************************************************************************)
(* Clients.                                                                 *)
(***************************************************************************)
Init ==
    /\ proc = "down"
    /\ obj = [e \in Entries |-> Free]
    /\ req = [r \in Requests |-> Idle]
    /\ table = <<>>
    /\ tfile = [d \in Dirs |-> [recs |-> <<>>, len |-> 0]]
    /\ map = {} /\ disk = [f \in Files |-> NoFile]
    /\ slog = {} /\ nlog = {} /\ todo = {} /\ torn = {}
    /\ kills = 0

DiskUnchanged == UNCHANGED <<map, disk, slog, nlog>>

\* clientProcessRequest finds an entry it may send: lock it, make sure it has
\* a memory object (named after THIS request if it had none), register.
RequestHit(r, k) ==
    LET e == storeGetPublicByRequest(obj, k)
    IN  /\ Running /\ req[r] = Idle /\ ChunkOf[k[2]] # NoLmt
        /\ e # None
        /\ storeEntryValidToSend(obj[e])
        /\ req' = [req EXCEPT ![r] = [Idle EXCEPT !.ph = "hit", !.key = k, !.e = e,
                                                  !.typ = storeClientType(e)]]
        /\ obj' = [obj EXCEPT ![e].murl = IF @ = None THEN k[2] ELSE @]
        /\ DiskUnchanged
        /\ UNCHANGED <<proc, table, tfile, todo, torn, kills>>

\* Nothing found, found but not valid to send (released, aborted, stuck, an
\* expired negative reply), or a reload: clientProcessMiss.
RequestMiss(r, k, n) ==
    LET e == storeGetPublicByRequest(obj, k)
    IN  /\ Running /\ req[r] = Idle /\ ChunkOf[k[2]] # NoLmt
        /\ e # None /\ ~Reload =>
             ~storeEntryValidToSend(obj[e]) \/ obj[e].st = "pending" \/ obj[e].body = "negative"
        /\ obj[n] = Free
        /\ req' = [req EXCEPT ![r] = [Idle EXCEPT !.ph = "fetch", !.key = k, !.e = n]]
        /\ obj' = [obj EXCEPT ![n] = storeCreateEntry(k)]
        /\ DiskUnchanged
        /\ UNCHANGED <<proc, table, tfile, todo, torn, kills>>

\* storeClientReadHeader accepts the file: it opens, carries the entry's key
\* (checked only while the entry is public) and the URL of its memory object.
SwapInOk(x) ==
    /\ x.filen # None
    /\ disk[x.filen] # NoFile
    /\ x.pub => disk[x.filen].key = x.key
    /\ disk[x.filen].url = x.murl

\* The swap file of an entry opens, unless storeCleanup has yet to validate it.
storeSwapInStart(x) == x.valid /\ x.filen # None /\ disk[x.filen] # NoFile

\* storeClientCopy gives the client of type typ the first bytes of the reply: a
\* disk client opens the file first, even if the bytes are in memory.
storeClientCopy(x, typ) ==
    /\ typ = "disk" => storeSwapInStart(x)
    /\ x.data \/ SwapInOk(x)

\* clientCacheHit: the reply headers are there and the entry is served.
CacheHit(r) ==
    LET e == req[r].e  x == obj[e]
    IN  /\ req[r].ph = "hit"
        /\ ~x.aborted
        /\ x.hdr
        /\ storeClientCopy(x, req[r].typ)
        /\ req' = [req EXCEPT ![r].ph = "serve",
                ![r].ans = IF x.data THEN x.key ELSE disk[x.filen].key,
                ![r].whole = x.data \/ x.swap = "writing" \/ disk[x.filen].whole]
        /\ DiskUnchanged
        /\ UNCHANGED <<proc, obj, table, tfile, todo, torn, kills>>

\* clientCacheHit without a usable reply (an aborted entry, a swap file that
\* cannot be opened or read or belongs to another object or URL, an expired
\* negative reply): clientProcessMiss lets go of the entry and fetches.
CacheMiss(r, n) ==
    LET e == req[r].e
    IN  /\ req[r].ph = "hit"
        /\ obj[e].aborted \/ obj[e].body = "negative" \/ ~obj[e].data
           \/ req[r].typ = "disk"
        /\ obj[n] = Free
        /\ \E y \in storeClientUnregister(obj[e], Users(e) # {r}) :
              SetEntries([obj EXCEPT ![e] = y, ![n] = storeCreateEntry(req[r].key)])
        /\ req' = [req EXCEPT ![r] = [Idle EXCEPT !.ph = "fetch",
                                                  !.key = req[r].key, !.e = n]]
        /\ UNCHANGED <<proc, table, tfile, todo, torn, kills>>

\* The reply is sent, or the client goes away: httpRequestFree.
ClientDone(r) ==
    LET e == req[r].e
    IN  /\ req[r].ph # "idle"
        /\ \E y \in storeClientUnregister(obj[e], Users(e) # {r}) :
              SetEntries([obj EXCEPT ![e] = y])
        /\ req' = [req EXCEPT ![r] = Idle]
        /\ UNCHANGED <<proc, table, tfile, todo, torn, kills>>
(***************************************************************************)
(* Server side.                                                             *)
(***************************************************************************)
ReleaseIn(ob, p) == [ob EXCEPT ![p] = storeRelease(@, Users(p) # {})]

\* mutant: the entry that had the key keeps it
storeSetPublicKeyKeepsOld(ob, e) ==
    IF ob[e].pub \/ ob[e].rel THEN ob ELSE [ob EXCEPT ![e].pub = TRUE]

storeSetPublicKey(ob, e) ==
    LET e2  == storeGet(ob, ob[e].key)
        ob1 == IF e2 = None THEN ob
               ELSE ReleaseIn([ob EXCEPT ![e2].pub = FALSE], e2)
    IN  IF ob[e].pub \/ ob[e].rel THEN ob ELSE [ob1 EXCEPT ![e].pub = TRUE]

\* Every lookup below goes through the chunk table when the URL has a row.
httpMaybeRemovePublic(ob, e) ==
    LET pe  == storeGetPublicByRequest(ob, ob[e].key)
        ob1 == IF ~ob[e].pub /\ pe # None THEN ReleaseIn(ob, pe) ELSE ob
        ph  == storeGetPublicByRequestMethod(ob1, ob[e].key, "HEAD")
    IN  IF ph # None /\ ph # e THEN ReleaseIn(ob1, ph) ELSE ob1

\* mutant: an uncachable reply is stored as a class of its own
ClassifiedPrivate(kind, e, expired) ==
    storeSetPublicKey([obj EXCEPT ![e].hdr = TRUE, ![e].data = TRUE, ![e].body = kind], e)

Classified(kind, e, expired) ==
    LET body == CASE kind = "private" -> "data"
                  [] kind \in {"notfound", "servererror"} -> "negative"
                  [] OTHER -> kind
        got  == [obj EXCEPT ![e].hdr = TRUE, ![e].data = TRUE, ![e].body = body]
    IN  CASE kind = "private" -> [got EXCEPT ![e] = storeReleaseRequest(@)]
          [] body = "negative" ->
               IF expired THEN ReleaseIn(storeSetPublicKey(got, e), e)
               ELSE storeSetPublicKey(got, e)
          [] OTHER -> storeSetPublicKey(got, e)

\* httpProcessReplyHeader
ReplyHeader(e, kind, expired) ==
    LET got == Classified(kind, e, expired)
    IN  /\ obj[e].st = "pending" /\ ~obj[e].hdr
        /\ SetEntries(IF kind = "servererror" THEN got ELSE httpMaybeRemovePublic(got, e))
        /\ UNCHANGED <<proc, req, table, tfile, todo, torn, kills>>

\* storeAppend: enough data has come in to start the swapout.
Append4K(e) ==
    /\ obj[e].st = "pending" /\ obj[e].hdr
    /\ \E y \in storeSwapOut(obj[e]) : y # obj[e] /\ SetEntries([obj EXCEPT ![e] = y])
    /\ UNCHANGED <<proc, req, table, tfile, todo, torn, kills>>

\* storeUfsCreate marks a number and cannot open the file: the number stays
\* marked.  storeSwapOut comes to it as data or the end of the reply arrives, and
\* once more for a client of a finished entry that is about to leave.
CreateFails(e, f) ==
    /\ Running
    /\ obj[e].st = "pending" \/ (obj[e].st = "ok" /\ Users(e) # {})
    /\ obj[e].data /\ obj[e].swap = "none" /\ ~obj[e].aborted /\ storeCheckCachable(obj[e])
    /\ UnusedFile(f)
    /\ map' = map \cup {f}
    /\ UNCHANGED <<proc, obj, req, table, tfile, disk, slog, nlog, todo, torn, kills>>

\* httpAppendBody reaches the end of the reply: fwdComplete.
Complete(e, validLength) ==
    /\ obj[e].st = "pending" /\ obj[e].hdr
    /\ \E y \in storeComplete(obj[e], validLength) :
          SetEntries([obj EXCEPT ![e] = fwdStateFree(y, Users(e) # {})])
    /\ UNCHANGED <<proc, req, table, tfile, todo, torn, kills>>

\* httpReadReply meets an error or a reply it cannot use: fwdFail.
RequestFailed(e) ==
    /\ obj[e].st = "pending"
    /\ SetEntries([obj EXCEPT ![e] = fwdStateFree(storeRequestFailed(@), Users(e) # {})])
    /\ UNCHANGED <<proc, req, table, tfile, todo, torn, kills>>

\* The abort callback event reaches the server side of an aborted entry.
ServerAborted(e) ==
    /\ obj[e].aborted /\ obj[e].srv
    /\ SetEntries([obj EXCEPT ![e] = fwdStateFree(@, Users(e) # {})])
    /\ UNCHANGED <<proc, req, table, tfile, todo, torn, kills>>

(***************************************************************************)
(* Swapout, memory and disk space.                                          *)
(***************************************************************************)
\* storeSwapOutFileClosed without an error.  A cachable entry is logged and, if
\* its URL is YouTube's, appended to the table and to its cache_dir's file;
\* nobody looks whether the chunk has a row already.  An entry released while
\* its reply still comes in is closed when the reply ends or is aborted, not at
\* the next append (storeSwapOutMaintainMemObject): it is not logged, no request
\* finds it, and its file goes with it either way.
SwapOutFileClosed(e) ==
    LET x == [obj EXCEPT ![e].swap = "done"][e]
        y == IF storeCheckCachable(x) THEN x ELSE storeReleaseRequest(x)
        row == [chunk |-> ChunkOf[x.key[2]], key |-> x.key]
        d == DirOf[x.filen]
    IN  /\ obj[e].swap = "writing" /\ obj[e].st = "ok"
        /\ SetEntries([obj EXCEPT ![e] = storeUnlockObject(y, Users(e) # {})])
        /\ IF storeCheckCachable(x) /\ IsYouTubeUrl(x.key[2])
           THEN /\ Len(tfile[d].recs) < MaxRows
                /\ table' = Append(table, row)
                /\ tfile' = [tfile EXCEPT ![d] = appendChunkToTableFile(@, row)]
                /\ torn' = torn \ {x.key}
           ELSE UNCHANGED <<table, tfile, torn>>
        /\ UNCHANGED <<proc, req, todo, kills>>

\* storeSwapOutFileClosed after a write error: the file goes, the entry with it.
SwapOutFileError(e) ==
    /\ obj[e].swap = "writing"
    /\ SetEntries([obj EXCEPT ![e] = storeUnlockObject(
          [storeReleaseRequest(@) EXCEPT !.swap = "none", !.filen = None],
          Users(e) # {})])
    /\ UNCHANGED <<proc, req, table, tfile, todo, torn, kills>>

\* storeSwapOutMaintainMemObject: the front of an object on its way to disk
\* leaves memory once no client has to copy it from there.
TrimMemory(e) ==
    /\ obj[e].data /\ obj[e].hdr
    /\ obj[e].swap # "none"
    /\ \A r \in Users(e) : req[r].ph = "hit" => req[r].typ = "disk" /\ obj[e].swap = "writing"
    /\ obj' = [obj EXCEPT ![e].data = FALSE]
    /\ DiskUnchanged
    /\ UNCHANGED <<proc, req, table, tfile, todo, torn, kills>>

\* storeGetMemSpace -> storePurgeMem on an entry nobody holds
PurgeMem(e) ==
    LET x == [obj EXCEPT ![e].data = FALSE, ![e].murl = None][e]
    IN  /\ obj[e].st = "ok" /\ obj[e].data /\ ~storeEntryLocked(obj[e], Users(e) # {})
        /\ SetEntries([obj EXCEPT ![e] =
              IF x.swap = "done" THEN x ELSE storeRelease(x, FALSE)])
        /\ UNCHANGED <<proc, req, table, tfile, todo, torn, kills>>

\* storeUfsDirMaintain: the replacement policy gives up an unlocked disk entry.
\* The row of the chunk table stays.
Evict(e) ==
    /\ proc = "up"
    /\ obj[e].swap = "done" /\ ~storeEntryLocked(obj[e], Users(e) # {})
    /\ SetEntries(ReleaseIn(obj, e))
    /\ UNCHANGED <<proc, req, table, tfile, todo, torn, kills>>

\* storeLateRelease: entries released during the rebuild go when it is over.
LateRelease(e) ==
    /\ proc = "up" /\ obj[e].late
    /\ SetEntries([obj EXCEPT ![e] =
          storeUnlockObject([@ EXCEPT !.late = FALSE], Users(e) # {})])
    /\ UNCHANGED <<proc, req, table, tfile, todo, torn, kills>>

(***************************************************************************)
(* The process.                                                             *)
(***************************************************************************)
Die ==
    /\ kills < MaxKills /\ kills' = kills + 1
    /\ proc' = "down"
    /\ obj' = [e \in Entries |-> Free]
    /\ req' = [r \in Requests |-> Idle]
    /\ table' = <<>> /\ todo' = {} /\ map' = {}

\* kill -9, a crash or an exit(1) between two callbacks
Kill ==
    /\ Running /\ Die
    /\ UNCHANGED <<tfile, disk, slog, nlog, torn>>

\* A YouTube URL without lmt: strcpy from NULL in storeGetPublicByRequestMethod
LookupCrash(r, k) ==
    /\ Running /\ req[r] = Idle /\ ChunkOf[k[2]] = NoLmt /\ Die
    /\ UNCHANGED <<tfile, disk, slog, nlog, torn>>

\* The process dies inside storeSwapOutFileClosed, after the swap log record
\* and before the record of the table file.
DieInFileClosed(e) ==
    LET ob2 == [obj EXCEPT ![e].swap = "done"]
    IN  /\ obj[e].swap = "writing" /\ obj[e].st = "ok"
        /\ storeCheckCachable(obj[e]) /\ IsYouTubeUrl(obj[e].key[2])
        /\ disk' = SwapFiles(obj, ob2)
        /\ slog' = IF proc = "rebuilding" THEN slog ELSE storeDirSwapLog(slog, obj, ob2)
        /\ nlog' = IF proc = "rebuilding" THEN storeDirSwapLog(nlog, obj, ob2) ELSE nlog
        /\ torn' = torn \cup {obj[e].key}
        /\ Die
        /\ UNCHANGED tfile

\* storeUfsDirRebuild: read swap.state, write a fresh swap.state.new
Start ==
    /\ proc = "down" /\ proc' = "rebuilding"
    /\ todo' = slog /\ nlog' = {}
    /\ UNCHANGED <<obj, req, table, tfile, map, disk, slog, torn, kills>>

storeUfsDirAddDiskRestore(l) ==
    [Free EXCEPT !.st = "ok", !.key = l.key, !.pub = TRUE, !.hdr = TRUE,
                 !.body = disk[l.filen].body, !.swap = "done", !.filen = l.filen]

\* mutant: the restored entry is not logged again
RebuildLoadUnlogged(l, n) ==
    /\ proc = "rebuilding" /\ l \in todo /\ obj[n] = Free
    /\ todo' = todo \ {l}
    /\ obj' = [obj EXCEPT ![n] = storeUfsDirAddDiskRestore(l)]
    /\ map' = map \cup {l.filen}
    /\ UNCHANGED <<proc, req, table, tfile, disk, slog, nlog, torn, kills>>

\* mutant: the bit of the restored entry is not set
RebuildLoadUnmarked(l, n) ==
    /\ proc = "rebuilding" /\ l \in todo
    /\ todo' = todo \ {l}
    /\ IF UnusedFile(l.filen) /\ storeGet(obj, l.key) = None
       THEN /\ obj[n] = Free
            /\ obj' = [obj EXCEPT ![n] = storeUfsDirAddDiskRestore(l)]
            /\ nlog' = nlog \cup {l}
       ELSE UNCHANGED <<obj, nlog>>
    /\ UNCHANGED <<proc, req, table, tfile, map, disk, slog, torn, kills>>

\* storeUfsDirRebuildFromSwapLog: a record whose file number is marked or whose
\* key an entry of this run has is ignored, else it is loaded.
RebuildLoad(l, n) ==
    /\ proc = "rebuilding" /\ l \in todo
    /\ todo' = todo \ {l}
    /\ IF UnusedFile(l.filen) /\ storeGet(obj, l.key) = None
       THEN /\ obj[n] = Free
            /\ obj' = [obj EXCEPT ![n] = storeUfsDirAddDiskRestore(l)]
            /\ nlog' = nlog \cup {l}
            /\ map' = map \cup {l.filen}
       ELSE UNCHANGED <<obj, nlog, map>>
    /\ UNCHANGED <<proc, req, table, tfile, disk, slog, torn, kills>>

\* mutant: the rows inserted while rebuilding are kept and read again
RebuildCompleteKeepsTable(misread) ==
    /\ proc = "rebuilding" /\ todo = {} /\ misread = {}
    /\ proc' = "validating"
    /\ slog' = nlog /\ nlog' = {}
    /\ table' = table \o readChunkFromTableFile(tfile[Dir0], misread)
    /\ UNCHANGED <<obj, req, tfile, map, disk, todo, torn, kills>>

\* storeUfsDirRebuildComplete: swap.state.new becomes swap.state, and
\* storeRebuildComplete throws the table away and reads the file of swapDirs[0].
RebuildComplete(misread) ==
    /\ proc = "rebuilding" /\ todo = {}
    /\ TempClean => misread = {}
    /\ proc' = "validating"
    /\ slog' = nlog /\ nlog' = {}
    /\ table' = readChunkFromTableFile(tfile[Dir0], misread)
    /\ UNCHANGED <<obj, req, tfile, map, disk, todo, torn, kills>>

\* storeCleanup comes to an entry of the rebuild and marks it valid; a private
\* one is released.
Validate(e) ==
    LET x == [obj EXCEPT ![e].valid = TRUE][e]
    IN  /\ proc = "validating" /\ obj[e].st # "free" /\ ~obj[e].valid
        /\ SetEntries([obj EXCEPT ![e] = IF x.pub THEN x ELSE storeRelease(x, Users(e) # {})])
        /\ UNCHANGED <<proc, req, table, tfile, todo, torn, kills>>

\* storeCleanup has walked the last bucket
Validated ==
    /\ proc = "validating" /\ proc' = "up"
    /\ \A e \in Entries : obj[e].st # "free" => obj[e].valid
    /\ UNCHANGED <<obj, req, table, tfile, map, disk, slog, nlog, todo, torn, kills>>
-----------------------------------------------------------------------------
ClientStep(r) ==
    \/ \E k \in Keys : \/ RequestHit(r, k)
                       \/ \E n \in Entries : RequestMiss(r, k, n)
                       \/ LookupCrash(r, k)
    \/ CacheHit(r)
    \/ \E n \in Entries : CacheMiss(r, n)
    \/ ClientDone(r)

EntryStep(e) ==
    \/ \E kind \in Replies, expired \in BOOLEAN : ReplyHeader(e, kind, expired)
    \/ Append4K(e)
    \/ \E f \in Files : CreateFails(e, f)
    \/ \E validLength \in BOOLEAN : Complete(e, validLength)
    \/ RequestFailed(e)
    \/ ServerAborted(e)
    \/ SwapOutFileClosed(e)
    \/ SwapOutFileError(e)
    \/ TrimMemory(e)
    \/ PurgeMem(e)
    \/ Evict(e)
    \/ LateRelease(e)
    \/ DieInFileClosed(e)
    \/ Validate(e)

ProcessStep ==
    \/ Kill
    \/ Start
    \/ \E l \in todo, n \in Entries : RebuildLoad(l, n)
    \/ \E misread \in SUBSET (1 .. Len(tfile[Dir0].recs)) : RebuildComplete(misread)
    \/ Validated

Next ==
    \/ \E r \in Requests : ClientStep(r)
    \/ \E e \in Entries : EntryStep(e)
    \/ ProcessStep

Spec == Init /\ [][Next]_vars
-----------------------------------------------------------------------------
(***************************************************************************)
(* Properties.                                                              *)
(***************************************************************************)
TableRow == Row \cup {Garbage}
TableFile == [recs : Seq([off : Nat, row : Row]), len : Nat]

\* Every variable keeps its type.
TypeOK ==
    /\ proc \in {"down", "rebuilding", "validating", "up"}
    /\ obj \in [Entries -> Entry]
    /\ req \in [Requests -> Request]
    /\ table \in Seq(TableRow)
    /\ tfile \in [Dirs -> TableFile]
    /\ map \subseteq Files /\ disk \in [Files -> SwapFile]
    /\ slog \subseteq LogRecord /\ nlog \subseteq LogRecord /\ todo \subseteq LogRecord
    /\ torn \subseteq Keys
    /\ kills \in 0 .. MaxKills

\* storeSetPublicKey and the rebuild never leave two public entries under one
\* key, whatever displaced, released or reloaded entries are still in use.
PublicKeysUnique ==
    \A d, e \in Entries : obj[d].pub /\ obj[e].pub /\ obj[d].key = obj[e].key => d = e

\* No swap file number belongs to two entries: the bitmap is right through
\* creates that fail, write errors, releases put off, and a rebuild that loads
\* old records while new entries take numbers.
FilesUnique ==
    \A d, e \in Entries : obj[d].filen # None /\ obj[d].filen = obj[e].filen => d = e

\* An entry a client works with is never freed under it.
ClientsHoldEntries ==
    \A r \in Requests : req[r].ph # "idle" => req[r].e # None /\ obj[req[r].e].st # "free"

SameChunk(k1, k2) ==
    \/ k1[2] = k2[2]
    \/ IsYouTubeUrl(k1[2]) /\ ChunkOf[k1[2]] = ChunkOf[k2[2]]

\* What a hit sends was fetched for a URL of the chunk the client asked for.
AnswerSameChunk ==
    \A r \in Requests : req[r].ph = "serve" => SameChunk(req[r].key, req[r].ans)

\* A hit is never fed from a swap file that was only partly written, as long as
\* no second death has cut a rebuild short: the old swap.state then still names
\* files created anew meanwhile, and the rebuild does not look at them.
AnswerWhole == \A r \in Requests : req[r].ph = "serve" /\ kills < 2 => req[r].whole

\* Once the rebuild is over, the table in memory is the table file.
TableMirrorsFile ==
    proc \in {"validating", "up"} =>
        table = FileRows(tfile[Dir0])

\* Every YouTube entry in the index has its row in the table, unless the
\* process died between the two records.
IndexCovered ==
    proc \in {"validating", "up"} =>
        \A e \in Entries :
            Logged(obj[e]) /\ IsYouTubeUrl(obj[e].key[2]) /\ obj[e].key \notin torn
            => \E i \in DOMAIN table : table[i].key = obj[e].key

\* A chunk that is cached is found: the row a lookup picks names an entry
\* whenever some public entry on disk holds the chunk.
CachedChunkFound ==
    \A e \in Entries :
        proc = "up" /\ Logged(obj[e]) /\ IsYouTubeUrl(obj[e].key[2])
        => storeGetPublicByRequest(obj, obj[e].key) # None

\* Once the rebuild is over, swap.state lists exactly the entries of the index
\* that are on disk: nothing logged while the rebuild ran is lost with
\* swap.state.new, and no released entry lingers.
LogMirrorsIndex ==
    proc \in {"validating", "up"} =>
        slog = {LogOf(obj[e]) : e \in {d \in Entries : Logged(obj[d])}}

\* The row that answers for a chunk never changes while the process serves
\* from a complete table.
FirstMatchStable ==
    [][(proc \in {"validating", "up"} /\ proc' # "down") =>
        \A c \in Chunks : getMatchedSwapoutKey(table, c) # None =>
            getMatchedSwapoutKey(table', c) = getMatchedSwapoutKey(table, c)]_vars

-----------------------------------------------------------------------------
(***************************************************************************)
(* The table and the file of swapDirs[0] implement the persistent map.       *)
(***************************************************************************)
chunkMap == [c \in Chunks |-> getMatchedSwapoutKey(table, c)]
savedMap == [c \in Chunks |-> getMatchedSwapoutKey(FileRows(tfile[Dir0]), c)]

CM == INSTANCE ChunkMap WITH NoKey <- None, map <- chunkMap, saved <- savedMap,
                             loaded <- proc \in {"validating", "up"}

\* insertChunkToYoutubeChunkTable, appendChunkToTableFile, the death of the
\* process and readChunkFromTableFile are, seen through getMatchedSwapoutKey,
\* the steps of ChunkMap: a list with duplicate rows, a record format and a file
\* that is re-read behave as one write-once map.
ImplementsChunkMap == CM!Spec

=============================================================================
