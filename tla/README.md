# HappyStream: a TLA+ model of the chunk cache and its control

HappyStream runs a modified Squid 2.7 on an Android phone. YouTube asks for the
same piece of a video (a *chunk*, named by the URL parameters `lmt` and `range`)
under ever new URLs, which an ordinary proxy caches as different objects. The
fork adds a **chunk table** to Squid's object store: it maps a chunk to the key
of the object that was stored for it, so that another URL of the chunk hits. An
Android application starts and stops Squid and redirects the phone's traffic to
it.

The project models both: the object store with the chunk table
(`YoutubeStore`), the parts of Squid that a chunk passes on its way (`StoreClient`,
`UfsDir`, `Forward`, `Dns`), and the control of the Squid process (`AppControl`).
All paths below are relative to `src/HappyStream-squid-2.7.STABLE9/src/` or to the Java
sources of `src/HappyStream_Android_Client/`.

## 1. Inventory

| Component | Code | State | Operations | Status |
|---|---|---|---|---|
| Chunk table | `store_swapout.c`, `store_rebuild.c`, `store.c` | list of rows, `youtubetable.state` of each cache_dir | lookup, insert, append, re-read after a rebuild | modelled |
| Object store | `store.c`, `store_key_md5.c` | `StoreEntry`: key, flags, lock count, memory object, swap status, file number | create, lock, publish, release, late release, abort, complete, purge, look up | partly |
| Store clients, swap-in | `store_client.c`, `store_swapout.c`, `store_swapin.c`, `stmem.c` | client list, client type, offsets, pages in memory, bytes in the file, deferred read | register, copy, append, free pages, check a swap file's header, unregister, quick abort | partly |
| Client side | `client_side.c` | `clientHttpRequest` | process a request, hit, failed hit, end | partly |
| Server side | `http.c`, `forward.c`, `pconn.c`, `comm.c` | `httpState`, `fwdState`, connections, their pool, the peers' counters | choose, connect, retry, re-forward, classify a reply, append, complete, fail, be aborted | partly |
| ufs cache_dir | `fs/ufs/store_dir_ufs.c`, `store_io_ufs.c`, `store_swapmeta.c`, `filemap.c`, `unlinkd.c`, `store_dir.c` | files, bitmap, `swap.state`, removal policy, unlinkd's queue | create, unlink, log, rebuild, rotate, clean, replace | partly |
| Internal DNS client | `dns_internal.c` | queries, ids, list in order of time, timer | look up, join, send, resend, search path, TCP, call back | partly |
| Android control | `MainActivity`, `RunningCheckService`, `ExecuteShell`, shell scripts | preference, `isSquidRunning`, dialogs, executor queue, sizes | switch, clean, resize, poll, run, kill | partly |
| Process start | `main.c`, `tools.c` | `squid.pid` | check, write | partly |
| Everything else | event loop, buffer pools, refresh, peers, address caches, parsing, FTP, helpers, other back ends | | | not modelled; the reasons are in `PROJECT.json` |

**How they interact.** Squid is one thread with an event loop. A client request
looks up the store (through the chunk table for YouTube URLs); a hit registers a
store client on the entry, a miss creates an entry and a server side that fills
it. When enough data has come in the store swaps the entry out; the end of the
swapout writes a record to `swap.state`, inserts a row into the table and appends
it to `youtubetable.state`. A start of the process rebuilds the index from
`swap.state` in slices between which requests are served, then throws the table
away and reads it from its file. The service of the application looks every three
seconds whether a process called squid runs and compares that with what the user
wants; it starts Squid through a serial executor and kills it with `kill -9`.
Killing Squid is thus its *normal* end: it never closes its files.

**What is hard.** Several requests for one chunk in flight; entries that are
released while clients, the server, a swapout or the late release list hold them;
rows that outlive their entries; the death of the process between any two writes,
also during a rebuild; records of the table file that are read at fixed offsets;
polls that retry a start which is only slow; a pid file that outlives its process;
readers of different speed on one object whose pages are freed and whose server is
held back; files that unlinkd removes later than their numbers are free; an abort
that the server side hears of in a later event; retries of two kinds over one
counter; answers to a query that come late, twice or for an id used again.
`PROJECT.json` lists each of these at its line.

**What makes the components correct.**

- chunk table: a hit answers with the chunk that was asked for; the table is the
  file; the row that answers stays the same; a cached chunk is found;
- store: keys and files are unique; nobody loses an entry in use; swap log and
  index agree;
- store clients: every client gets the bytes of the object in order, and an end or a
  failure, however fast the others are;
- cache_dir: the log replays to the index, numbers belong to entries, the file of
  an entry is its own;
- server side: a request ends, answered, with its connections accounted for, and is
  repeated only while nobody has seen a byte;
- DNS client: one call back per lookup, with the address of the name asked for;
- control: at most one Squid; the server ends up as the user left the switch, and
  the network with it.

## 2. Modules

| Module | What it is |
|---|---|
| `ChunkMap` | abstract specification: a persistent, write-once map from chunks to keys |
| `YoutubeStore` | the store, its clients and servers, the disk, the table and the process; the refinement to `ChunkMap` |
| `MCYoutubeStore` | instances of it for TLC |
| `AppControl` | the application, its scripts and the Squid process |
| `StoreClient` | one object, its pages and its file, and the clients that read it while it grows |
| `UfsDir` | one cache_dir: numbers, files, the ordered swap log, rebuild, unlinkd |
| `Forward`, `MCForward` | misses on their way to peers and origin, with the connections; an instance |
| `Dns`, `MCDns` | the internal DNS client and an unreliable network; instances |
| `YoutubeStoreProofs`, `YoutubeDiskProofs` | theorems about the store: answers, the table and its refinement, the index and its log |
| `ChunkMapProofs`, `AppControlProofs`, `StoreClientProofs`, `UfsDirProofs`, `ForwardProofs`, `DnsProofs` | theorems about the module each is named after |

Each of the four component modules refines, in prose and not by an `INSTANCE`, a
choice that `YoutubeStore` makes at one blow: `StoreClient` what `TrimMemory` and
"data in memory" stand for, `UfsDir` the set of live log records, `Forward` the
steps between a miss and the reply, `Dns` the wait before a connection. They share
no variables, since one Squid thread runs one callback at a time and the callbacks
of one component touch the state of another only through the calls that both
modules contain.

### 2.1 `YoutubeStore`

One action is one callback of the event loop with everything it calls. Only the
death of the process cuts a callback short, and it is modelled where that can be
seen later: in `storeSwapOutFileClosed` between the swap log record and the
table record (`DieInFileClosed`).

| Variable | Code |
|---|---|
| `proc` | process state; `rebuilding` and `validating` together are `store_dirs_rebuilding # 0` |
| `obj` | the `StoreEntry` at each address: `st` store_status, `key`/`pub` hash key and `KEY_PRIVATE`, `hdr` reply headers present, `body` class of the stored reply, `murl` URL of the memory object, `data` object in memory, `swap` swap_status, `filen`, `rel` `RELEASE_REQUEST`, `aborted`, `late` on the late release stack, `srv` held by the server side, `valid` `ENTRY_VALIDATED` |
| `req` | the `clientHttpRequest`s with the entry and client type; `ans`, `whole` record what a hit was answered with |
| `table`, `tfile` | `youtubeTable`; the records of `youtubetable.state` with their offsets |
| `map` | the bitmap of file numbers of the cache_dir |
| `disk` | swap files: key and URL of their metadata, class of the body, whether written to the end |
| `slog`, `nlog`, `todo` | live records of `swap.state`, of `swap.state.new`, and those the rebuild has still to read |
| `torn`, `kills` | ghost: keys logged by a callback that died before the table record; number of deaths |

| Actions | Code |
|---|---|
| `RequestHit`, `RequestMiss` | `clientProcessRequest2`, `clientProcessRequest`, `clientProcessMiss`; the lookup is `storeGetPublicByRequest` through `getMatchedSwapoutKey` |
| `CacheHit`, `CacheMiss` | `clientCacheHit` with `storeClientCopy`, `storeSwapInStart` and `storeClientReadHeader` (`SwapInOk`) |
| `ClientDone` | `httpRequestFree`, `storeClientUnregister`, `CheckQuickAbort2` |
| `ReplyHeader` | `httpProcessReplyHeader` with `httpCachableReply` (`Classified`), `storeSetPublicKey` and `httpMaybeRemovePublic` |
| `Append4K`, `Complete`, `RequestFailed`, `ServerAborted` | `storeAppend`; `httpAppendBody` to `storeComplete`; `httpReadReply` to `fwdFail` and `storeRequestFailed`; `fwdAbort` |
| `SwapOutFileClosed`, `SwapOutFileError` | `storeSwapOutFileClosed` |
| `CreateFails` | `storeUfsCreate` that marks a number and cannot open the file |
| `TrimMemory`, `PurgeMem`, `Evict`, `LateRelease` | `storeSwapOutMaintainMemObject`, `storePurgeMem`, `storeUfsDirMaintain`, `storeLateRelease` |
| `Start`, `RebuildLoad`, `RebuildComplete`, `Validate`, `Validated` | `storeUfsDirRebuild`, `storeUfsDirRebuildFromSwapLog`, `storeUfsDirRebuildComplete` with `storeRebuildComplete`, `storeCleanup` |
| `Kill`, `LookupCrash`, `DieInFileClosed` | `killserver.sh` or a crash; `strcpy` from NULL for a URL without `lmt`; a death inside `storeSwapOutFileClosed` |

Disk effects are derived from the change of the entries (`SetEntries`): a file is
created with its number and unlinked when the entry lets go of it; the bitmap marks
the number in between (`Marked`, and `RebuildLoad` for a record that is read back), and
a new file takes any number not marked (`UnusedFile`); a death empties the bitmap. An
entry is
logged when it is public and swapped out, and un-logged when that ends.

**What is abstracted.** A URL is its identity with the chunk it belongs to. Keys
are pairs of method and URL instead of digests (no collisions). Bytes and offsets
of an object are reduced to "in memory or not", so `TrimMemory` may happen
whenever no client still has to copy the headers from memory. `swap.state` is the
set of its live records: the order of ADD and DEL records and the comparison of
`lastref` are in `UfsDir`. The locks of `httpState` and `fwdState` are one (`srv`).
Negative replies may be found expired at any time. The memory digest of a row is
written and never read by the code, and is left out. The code may read a misread row
as any `lmt` and range; the model assumes that it is none a client asks for (`Garbage`),
so a row that happens to spell another real chunk, and would answer for it, is left
out. So are `vary` objects, `PURGE`, conditional requests and ranges, and the early
close of the file of an entry that is released while its reply comes in: it is closed
when the reply ends. Swap file number 0 and the clean logs that an orderly
shutdown writes are in `UfsDir` (the scripts never shut Squid down orderly).

### 2.2 `AppControl`

The main thread's work is two steps, `PollCheck` (`ps squid`) and what the poll
then does (`RunServer`, `KillServer`, `PollNothing`); clicks come in between polls,
and dialogs stay open across them. `queue` and `worker` are the serial
`AsyncTask` executor, whose task lasts as long as the Squid it started. `pid` is
`squid.pid` as `checkRunningPid` and `killserver.sh` see it. Sizes are in units of
50 MB. `ActivityCreated` is a new activity in a living process (a rotation):
`isSquidRunning` is reset until the next poll. `buttons` are the images on the screen:
as laid out, both switches with "off" on top, until the first broadcast (`refresh`) is
received (`Refresh`), then one of them. `SwitchOff` is therefore possible before anything
was polled, and a button may be older than `isSquidRunning`. `writePidFile` may fail and
leave the file as it was, or cut; Squid carries on. `lost` is a ghost: the last start
ended on its own, with Squid or with the application that had it queued, and no
`killserver.sh` ran since. Left out: installation, figures of the access log, reuse of
a process id by another program.

### 2.3 `StoreClient`

`e` is one `StoreEntry` with its `MemObject`: `lo`, `hi` are `inmem_lo`, `inmem_hi`,
`queue` is `swapout.queue_offset`, `file` what the swap file holds, `defer` is
`ENTRY_DEFER_READ`. `c` are the store clients: type, offset asked for (`got`), whether a
callback is pending (`cb`), whether a swapin is open. `broken` collects the
conditions that code or asserts rely on and that a step found false.

`Request`, `Hit` register (`clientProcessRequest` to `storeClientRegister`),
`CopyMore` is `storeClientCopy3` with everything below it, `Unregister` is
`storeUnregister` with `CheckQuickAbort`, the `Server` actions append, complete,
fail, are aborted or find the connection deferred; all of them end in
`storeSwapOut` and `InvokeHandlers` where the code does. Every handler takes an
outcome of its disk operation.

Abstracted: a ufs operation is finished when its call returns, so a handler is one
step; a callback does not unregister the client at once but in a later step;
lengths are small units; the quick abort's arithmetic is a free choice; one disk
operation fails per handler. Left out: `ENTRY_FWD_HDR_WAIT`, `DELAY_SENDING`,
`store_maxobjsize`, the limit on open disk files, ranges.

### 2.4 `UfsDir`

`ents` are the entries with a file, `bits` the map, `nodes` the removal policy, `log`
and `newlog` are `swap.state` and `swap.state.new` as sequences of ADD and DEL
records with `lastref` and `timestamp`, `unlinkd` the paths sent and not yet removed,
`disk` which object each file holds and whether all of it. `lost` and `rough` are
ghosts that name the exceptions of the properties.

`Decision` is the chain of conditions of `storeUfsDirRebuildFromSwapLog`; `RebuildFile`
is `storeUfsDirRebuildFromDirectory`; `Rotate` and `Shutdown` write clean logs; `Crash` is
`kill -9`; `DirClean` is the event that unlinks files whose bit is clear.

Abstracted: the clock does not step back; a start takes a second at least (the
parent sleeps before it starts a child again); one client at a time holds an entry;
a new file takes any free number (the code takes the first one from `suggest` on).

### 2.5 `Forward`

`fwd` is the `FwdState`: `st` where it is, `fd` its connection, `srv` the servers left,
`tries`/`origin` the counters `n_tries`/`origin_tries`, `dont` the flags that forbid
a retry. `ent` is the entry with what clients saw of it. `conn`, `pool`, `open` and
`opening` are descriptors, idle connections, `stats.conn_open` and
`stats.idle_opening`. Closing a descriptor runs its close handlers, so `CloseFd` is
where `fwdServerClosed` and `fwdPeerClosed` happen, whoever closes.

The reply side has the ends that matter to forwarding: no reply (time-out, error,
close), a bad header, a header whose status calls for the next server, a reply that
is cut, kept on a persistent connection or closed. `ClientAbort` is `storeAbort`,
`AbortRuns` the event it schedules, `ReadAborted` a read that notices first.

Left out: pinned connections, SSL, tproxy, other protocols, the retries inside
`commConnect`, probing of dead peers. A request without a body on a fresh
connection may be sent again even if it is not idempotent: the code checks the body
and not the method there.

### 2.6 `Dns`

`query` are the `idns_query`s, `lru` is `lru_list` with the head first, `event` is
`event_queued`. Times are ages in units of the retransmit interval, advanced by
`Tick`. `asked` holds the datagrams that may still be answered, each up to `MaxCopies`
times and in any order; a lost one is one that is never read. `want` and `got`
record what callers asked for and were given.

`Read` is `idnsRead` with `idnsGrokReply`; `SendTcpQuery`, `ReadTcpPart`, `ReadTcp`,
`TcpFails` are the callbacks of the TCP connection a truncated answer opens;
`CheckQueue` is the timer's event.

`idnsTcpCleanup` does not reset `tcp_buffer_offset`, so the second TCP answer of one
query is read behind the first (`stale`). The buffer comes from a pool that is not
zeroed, so the length and all before the offset are what it last held: a length that
is not reached, a message that fits no query, or one left by an earlier answer, which
then answers a query with its id and name. What addresses such a message spells is
left out. A whole message is read once, and the socket is not read again. A lookup made inside
a callback is covered by one made just before. Left out: PTR questions, the packet
format, name servers that go away at a reconfiguration, `comm_open` failing.

### 2.7 `ChunkMap`

`map` answers now, `saved` will answer after a restart. `Record` adds a key
unless the chunk has one, `Forget` is a death, `Restore` reads what was saved.
`YoutubeStore` instantiates it with the first matching row of the table and of
the table file; `ImplementsChunkMap` is its specification under that mapping.

## 3. Runs

Passing runs:

| Run | Instance | Question and answer |
|---|---|---|
| `Serve` | 2 requests, 2 entries, 2 files, 2 URLs of one chunk, reloads, cachable and private replies | Through displaced, released, aborted and evicted entries, keys stay unique (`PublicKeysUnique`), no entry is freed under a client (`ClientsHoldEntries`), the row that answers for a chunk does not change (`FirstMatchStable`). |
| `Restart` | 1 request, 2 entries, 2 chunks that compete for one file, 2 deaths | The bitmap, refilled while requests are served, never gives out a file that an entry owns (`FilesUnique`), after every rebuild the table is its file (`TableMirrorsFile`), every indexed YouTube entry has its row except where a death fell between the two records (`IndexCovered`), `swap.state` is the index (`LogMirrorsIndex`), and what is served from a file is whole as long as the process has died at most once (`AnswerWhole`; after two deaths it need not be, see below). |
| `Refine` | 1 request, 2 URLs of one chunk, 1 death, also by a URL without `lmt` | The table and its file, with duplicate rows and re-reading, implement `ChunkMap` (`ImplementsChunkMap`). |
| `Replies` | all five kinds of reply, 2 chunks, a URL that is not YouTube's, reloads | Types, and `AnswerSameChunk` through every way a reply is classified. |
| `Control` | seek bar 0..2, 2 queued starts, 1 crash of Squid, 1 death of the application | `AtMostOneSquid`; NAT rules have a Squid or a queued start behind them unless one died (`RulesHaveServer`); and the liveness properties `OnStarts`, `OffStops`, `OffRestoresNetwork`. 215 850 states. |
| `Readers` | 3 clients, pages and buffers of 2 units, objects up to 7 units with 2 kept in memory, a gap of 4 | No assert and no relied-on condition fails (`AssertionsHold`), clients get the object in order from memory and from the growing file (`BytesInOrder`), no page goes that a reader needs (`ReaderDataKept`), an end means all bytes (`EndMeansWhole`), nobody waits for an object that is over (`NobodyForgotten`), a deferred server has a reader that will ask again (`DeferHasReader`). 130 653 states. |
| `CacheDir` | 2 keys, numbers 0 and 1, 3 objects, 4 records, 2 starts | The log replays to the index (`LogReplaysIndex`), numbers and nodes belong to entries except for the two leaks the code has (`NumbersAccounted`), an entry's file is its own or gone (`OwnFile`), an ADD record is never newer than the entry its key has (`NoNewerRecord`). 1 838 329 states. |
| `Misses` | 2 requests, 2 peers and the origin, 2 descriptors, 2 tries, 1 idle connection wanted | Connections are counted and owned through every order of closes (`ConnsCounted`, `ConnsOwned`), an ended request is answered (`EndedAnswered`), an attempt is repeated only unseen (`RetriedUnseen`), and each step brings a request nearer to its end (`Nearer`). 546 284 states. |
| `Dns` | 2 callers, 2 ids, 2 names of which one is made from the other by the search path, 2 copies, 2 datagrams | Addresses reach who asked for them (`AnswerRight`), each lookup is called back once (`CalledOnce`), no query is overlooked by the timer (`NoneOverlooked`). 602 411 states. |
| `DnsEnds` | 2 callers, 1 id, 1 name | Every lookup ends (`EveryLookupEnds`). 54 944 states. |

Runs that show a disagreement between the code and what it says of itself:

| Run | What TLC finds |
|---|---|
| `ChunkNotFound` | The first row of a chunk names an entry that is gone; the lookup returns nothing, although another row, and the URL's own key, name one on disk. No later step removes the row, so the chunk is fetched every time. |
| `ReadBackedOff` | The server is deferred for a slow client. That client leaves, no page is freed, and the client that stays has seen all data and waits: nothing re-polls the connection, although the comment says that it is then re-polled. The read time-out ends the wait. |

**Disagreements without a run.** The model also contains these; they are described
here because no property of a run is about them.

- Two requests for two URLs of one chunk that miss together both insert a row,
  although insertion is meant for chunks that have none.
- After its memory object is gone (a restart, a purge), a hit under another URL names
  the new memory object after itself; the swap file carries the old URL, is refused,
  and the chunk is fetched again.
- A stored reply to HEAD, and a negative one, gets a row and answers other URLs.
- The process dies during a rebuild, after it unlinked and re-created a file that the
  old `swap.state` still names; the next rebuild accepts the partly written file
  (the case after two deaths that `AnswerWhole` excepts, and `rough` in `UfsDir`).
- With two cache_dirs, the rows of the second one's entries are lost on a restart
  (`readChunkFromTableFile` reads `swapDirs[0]`): `IndexCovered` fails when `Files` is
  split over two `Dirs`.
- Two polls queue two starts; the second Squid comes up after the user switched off
  and the NAT rules were flushed. Switched on again, the poll sees Squid running and
  never sets the rules.
- The clean dialog opens while Squid is off, a poll starts Squid, and the confirmed
  clean removes the cache and `squid.pid` under it, although the message of the gray
  trash can says that the cache cannot be deleted while the server is on.
- A resize that is refused because Squid is off leaves `backup_size` changed.

**Bounds.** Two entries are the least with which an entry can be displaced by a
second one under its key, or by another URL of its chunk; two requests the least
for sharing an entry and for missing together; two files and two rows the least
for a second match. Two deaths are needed for a stale log (the second one must
fall into the rebuild after the first) and are enough: the state that survives a
death is disk, logs and table file, and the third rebuild starts from a state of
the same shape. Not every dimension is at two in every run: `Restart` and
`Refine` have one request because clients and deaths together multiply; what
two requests do to one entry is in `Serve`. What the bounds cannot show is why
the two most important of these invariants are proved. `MaxRows` bounds the guard
of `SwapOutFileClosed`, so a run stops where the table file is full; with that and
`MaxKills` the store may stop, and `CHECK_DEADLOCK FALSE` says so. `Control` is
checked for deadlock. Its `MaxQueue` never blocks a poll for good: the bound can
only be met while no task runs, and then the executor takes one.

In `Readers` the sizes are the smallest with which an object is longer than memory,
the gap and a page, and neither a page nor a buffer ends where the swap meta data
does; three clients are one that leaves, one behind and one that waits.
`CacheDir` needs two starts for a rebuild after a rebuild and two numbers for a
reuse while the other is held; four records hold an ADD, its DEL, and a
reuse. `Misses` needs two descriptors for a pooled connection beside one in use. `Dns`
needs two ids and two copies for an old answer to meet a new query. Runs whose
bounds use up the objects, the requests or the lookups may stop and say
`CHECK_DEADLOCK FALSE`; `Readers` never stops and is checked for deadlock.

**Symmetry.** Entries, requests, files and the two URLs of `c1` are
interchangeable, and in `Restart` so are the pairs `u1`, `c1` and `u3`, `c2`: no definition tells them apart except by identity, and every
`CHOOSE` picks from a set with one member or a least index. The properties of
these runs are invariants and step properties, for which symmetry is sound;
`Control` and `DnsEnds`, which check liveness, have none. Clients in `Readers`, keys in
`CacheDir`, requests in `Misses`, callers and ids in `Dns` are interchangeable too;
`OwnFile` and the others compare them only for equality.

**Fairness.** `AppControl`: weak fairness of the poll and of what it does
(the handler re-posts itself every three seconds), of the executor's next task, of
Squid's start up to `writePidFile`, and of the restart of a sticky service.
Nothing is assumed of the user, of crashes, or of Android killing the
application. `OffStops` and `OffRestoresNetwork` name the cases in which the code
does not deliver: a cache cleaned under a running Squid, or a pid file that could not
be written, leaves no pid to kill it by (`Unnamed`), and a Squid that died on its own,
or a start lost with the application, leaves the poll nothing to kill, so that the NAT
rules stay (`lost`). `Dns` (`DnsEnds` only): weak fairness of `Tick`, because time
passes, and of `CheckQueue`, because the event loop runs every event that is due.
Nothing is assumed of the network, of the name server or of the TCP connection.

**Mutants.** Next to the definitions stand variants with one plausible mistake
each (`storeEntryLockedByStore`, `getMatchedSwapoutKeyLast`, ...), marked
`mutant`. Put in the place of the definition, each makes TLC find its property
violated.

## 4. Proofs

`YoutubeStoreProofs` proves, for every set of URLs, chunks, requests, entries,
files and cache_dirs, every `lmt` length, any number of rows and deaths, and with
or without stray digits behind `temp[]`:

- `Invariant`: `Spec => []Inv`;
- `TypeCorrect`: `Spec => []TypeOK`;
- `HitsAnswerSameChunk`: `Spec => []AnswerSameChunk`;
- `ClientsKeepEntries`: `Spec => []ClientsHoldEntries`.

The only assumption is `ConstantsAssumption`: the types of the constants, and that
the model values for "nothing" are no URLs, entries, files, keys or chunks.

`AnswerSameChunk` is not inductive: a request that is about to be served knows
only an entry, the entry a memory object and a file, and the file was perhaps
written in an earlier life of the process by another entry. `Inv` says what each
of them knows of the others:

- `GoodEntry`: an entry in use has a key; it has a file exactly while it has a swap
  status; its memory object is named after its own URL until it is on disk, and
  after a URL of the same chunk from then on;
- `GoodFile`: the URL in a swap file is the URL of the key in it. No more is known
  of a file: after two deaths a number may be logged for one entry and written by
  another, which is why `storeClientReadHeader` has to check;
- `GoodRow`: the key of a row is the key of a URL of the row's chunk;
- `GoodRequest`: the entry of a request is in use and has a memory object, and on
  a hit it belongs to the chunk asked for.

With them a hit served from disk is right because the URL in the file is that of
the memory object, which belongs to the chunk. The proof has one lemma per
operator on entries, one per action, and a lemma for the steps that leave entries
in use as their clients know them (`Calm`), through which publication, release
and removal by `httpMaybeRemovePublic` go. That a lookup through the first
matching row finds a row of the chunk rests on the well-foundedness of the
natural numbers (`FirstExists`).

`ChunkMapProofs` proves of the abstract map that it is total and equal to the
saved one once restored (`MapInvariant`) and that a saved key is never replaced
or lost (`SavedKeysStay`).

### 4.1 The chunk table: `YoutubeDiskProofs`

`FirstMatchKept` (`FirstMatchStable`) needs only that rows are appended behind the
rows a lookup passes. `TableMirrors` (`TableMirrorsFile`) and `TableImplementsMap`
(`ImplementsChunkMap`) assume `TableFormat`: every `lmt` has 16 characters, the bytes
behind `temp[]` are clean, and `swapDirs[0]` is the only cache_dir. The assumption is
the code's own: `readChunkFromTableFile` reads units of 116 bytes whatever the record's
length, converts a `temp[]` it never terminates, and opens the table of `swapDirs[0]`
while the writer uses the entry's directory. Without it both properties are false: a
record of another length shifts everything the reader finds behind it. The runs use
instances that meet it. `TableMirrorsFile` is not inductive: a reader that jumps by 116
bytes finds a record only if the records before it lie at multiples of 116.
`TableInv` adds that (`FileLaidOut`). Each action appends one row to both, leaves
both alone, loses the memory, or reads the file back (`TableStep`), and these four
shapes are all the refinement has to map.

### 4.2 The index: `YoutubeDiskProofs`

`KeysStayUnique`, `FilesStayUnique` and `LogMirrors` come from one invariant,
`IndexInv`: beside the three of them it says that a released entry is private and a
pending one not swapped out (`SoberStore`), that the bitmap marks the number of every
entry's file (`Marks`; some numbers it marks no entry has, after a create that failed),
without which a new file could be one that an entry owns, that a dead process has no entries, and
that the log being rebuilt mirrors the entries rebuilt so far, since `LogMirrorsIndex`
itself speaks only of a process that is up. `LogsStayCovered` carries the table's
rows along: a YouTube key in `swap.state`, in the new log or in what is left to read
has its row in the file; `IndexStaysCovered` (`IndexCovered`) follows under
`TableFormat`. `HitsStayWhole` (`AnswerWhole`) adds `WholeInv`: until the second death
the files of entries on disk and of the log left behind are sound, and a record still
to be read names a sound file or one that an entry of this run has taken over.

### 4.3 Readers of a growing object: `StoreClientProofs`

`TypeCorrect`, `AssertionsCorrect`, `OrderCorrect`, `ReaderDataCorrect`, `EndCorrect` and
`NobodyForgottenCorrect` hold for any set of clients and any page, buffer, gap and
object sizes. None of them is inductive, and they rest on each other: that
no page is freed too early needs what is on disk, that a disk client finds its bytes
needs which pages were freed, that nobody is forgotten needs what each has got. `IInv`
is `Fully(State)`:

- `GoodEntry`: the entry is `Purged` (only the file is left, whose length the first
  reader finds), or `Alive`: `Bounds` orders the offsets, `Phase` ties status and
  size, `File` says that what was queued is written, that the page to go on from is
  in memory and that a file which is done is whole or to be released, and `Kept` that an
  entry in memory has all its pages;
- `GoodClient`: what a client has got (`Reads`), and that one whose place is no longer in
  memory is a disk client and finds everything that is gone in the file (`Source`);
- `AllSettled`: who waits has all there is and more may come;
- `None`: a destroyed entry is all gone.

A handler is a composition of operators on a state record, with one lemma each that
gives `Good` and what the operator leaves alone (`Quiet`, `Fixed`, `Lasting`). Between
an append and the end of `InvokeHandlers` the clients are not `Settled`; the loop is a
recursive function over the clients that waited, and `Called` says of its first rounds
that they settled the clients called and left the others as they were. That every
round does so follows from the least one that would not (`NoLeast`). The assumption that
the swap meta data has a length (`HdrSz` not 0) is the code's: `storeSwapMetaPack`
always writes at least its own header, and with 0 the code would take a file whose
header it has read for one it has not.

`DeferCorrect` is the one theorem with a hypothesis on the sizes, `UsualSizes`: a page
of at least 2 units, twice a page at most one more than the gap, `MaxInMem` at most the
gap, and a buffer no larger than both together. `DeferHasReader` does not hold for all
constants: a deferred read is resumed when the pages freed bring the rest within the
gap, and whether the pages that one client leaves behind do so depends on how page,
buffer, gap and `maximum_object_size_in_memory` compare. The values the code starts
from have these proportions (`SM_PAGE_SIZE` and `STORE_CLIENT_BUF_SZ` 4 KB in
`defines.h`, `read_ahead_gap` 16 KB and `maximum_object_size_in_memory` 8 KB in
`cf.data.pre`), and so has `Readers.cfg`; a configuration with a gap below two pages
has not. The proof adds `EInv`, which says of an object that grows (`Easy`):

- `Paged` and `Level`: memory and file begin and end on page boundaries, and a file that
  is open lacks less than a page;
- `Reach`: one copy gives a client at most a buffer; `Tidy`: a released object that
  everybody has read keeps no more than a page and a buffer;
- a read is deferred only beyond the gap, and then, if something was written, a client
  is behind (`Attended`).

`Eased` and `Tidied` are what each operator of the swap-out gives for this. When the
server is about to be deferred, `Tidy` and the place of the lowest reader leave a client
behind (`DeferEasy`); when a client catches up as the last one, `storeClientCopy3`
resumes the read (`AskEased`); when it leaves, `storeSwapOutMaintainMemObject` frees
all but the last pages, which are within the gap (`Resumes`).

### 4.4 Control, cache_dir, forwarding, DNS

`AppControlProofs`: `ControlTypes`, `NeverTwoSquids`, `RulesAlwaysServed`, for all bounds.
`AtMostOneSquid` is not inductive: the start task of a new activity would run a second
Squid beside one that outlived its activity. `OrphanAlone` says that then nothing is
queued and the activity has seen the running Squid; `TaskHasSquid` and `PidIsSquid`
tie the worker thread and the pid file to the process. `RulesHaveServer` needs the last of
them: a queued start is used up without a new Squid only if the pid file names one that
runs.

`UfsDirProofs`: `CacheDirTypes`, `NumbersStayAccounted`. `Books` is
`NumbersAccounted` with the types, one public entry per key, and no entry on a lost
number: else the end of that entry would clear the bit of a number counted as lost.

`LogAlwaysReplays` (`LogReplaysIndex`) and `RecordsNeverNewer` (`NoNewerRecord`) come from
`LogInv`. Of the log that is open for appending it says `Worth`: every record that no
later deletion undoes is of an object stored, and the replay of the log is what is
stored, up to times that are older in the log; a key is deleted before it is added
again (`Ordered`). Of the records still to be read it says `Ahead`: none is newer than
the entry of its key, unless that entry is deleted first. The replay is a recursive
function of the log; that it exists and what one more record does to it is shown by
the least record for which it would fail, and that a clean log replays to the
index by the same argument over its prefixes. `FilesStayOwn` (`OwnFile`) adds `FileInv`. A
number is free as soon as its object is released, so a log that is being read may name
files that others write by now. `Sound` says that an object stored has its file or is
going to be deleted (`Doomed`), and that a record still to be read names a file with its
object, is undone later on, or names a file that an entry of this life holds (`Taken`),
which the rebuild then refuses; `Lasting` says the same of a log left behind by a death.

`ForwardProofs`: `ForwardTypes`, `ConnsStayCounted`, `ConnsStayOwned`,
`RequestsEndAnswered`, `RetriesUnseen`, `RequestsEnd`. A handler of the model is a
composition of steps on a state record, as in the code, and between two of them a
connection may belong to nobody: taken from the pool and not yet given to the request,
or taken from the request and not yet closed. `Sound(s, loose)` is the ownership and
counting of connections with the set of those; a step moves connections in or out of
`loose`, and every handler starts and ends with none. `Fit` relates a request's
`FwdState` to its entry: what it may have tried, seen and answered in each phase.
`Moved` is what a handler may do to one request (retry only unseen, come nearer to the
end) and gives the two action properties; `AllMoved` says it of every request, since
closing one connection may run the handlers of others.

`DnsProofs`: `DnsTypes`, `AnswersRight`, `LookupsCalledOnce`, `NoneStaysOverlooked`, for
any number of lookups, names, ids and servers. The handlers take a query off `lru_list`
and put it back or end it, so `Good(s, off)` is the invariant of a state in which the
queries `off` are away from the list, and `Ready(s)` that of a state between two
callbacks: none away, and the timer set while there is a query. `CalledOnce` needs that
a lookup waits for one query and not for two (`Once`), `AnswerRight` what each waiting
caller has to do with the query's name (`QueryOK`: the caller it was made for, one that
asked for the same name, or one that joined a query which went on through the search
path), and the order of the list that a handler puts queries back at the head with
`queue_t` now (`Sorted`). The loop of `idnsCheckQueue` goes over the queries that were due
when it began; `GoodCheckEach` proves of it, by the least round that would break it
(`NoLeast`), that each round finds its query still on the list and leaves the list good.

Of the constants the proofs assume only the modules' `ASSUME`s, and `DeferCorrect`
`UsualSizes`. That of `Dns` says
beside types that no name is looked up through an empty search path, which
`idnsALookup` tests (`npc > 0`).

**Only model-checked.** Liveness (`OnStarts`, `OffStops`, `OffRestoresNetwork`,
`EveryLookupEnds`): fairness and `ENABLED` are out of the prover's reach.
Every invariant of a passing run is stated by a theorem.

## 5. Not modelled

- Parsing of HTTP, headers, URLs and configuration, FTP, gopher, SSL, SNMP: pure
  conversions of text or protocols that the redirected port 80 never reaches. What
  a parser returns is a free choice among the kinds of result.
- ipcache and fqdncache, refresh rules, buffer pools: they change when something is
  fetched, not what a client is given. The fork replaces the freshness check of a hit
  by a constant.
- Redirectors, authentication, external ACLs, ident and their helper processes,
  cache peers' protocols (ICP, HTCP, digests, WCCP): the application configures none.
- aufs, diskd, coss, null: not in the build.
- `lib/`, vendored support code.
- The figures of the access log: one pass over a file, nothing kept.

The repository is mostly stock Squid, of which these make up the larger part; the map
covers the code that a chunk passes and the fork's own.

## 6. Plan

Done: the store with the chunk table, restarts, the control of the process, readers
of a growing object, the cache_dir, forwarding, the DNS client, and the theorems
above. Worth adding when the code around them changes: the descriptor limit and
`DELAY_SENDING` in `StoreClient`, and a second cache_dir in `UfsDir` with the chunk table
read from the first one.
