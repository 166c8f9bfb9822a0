---------------------------- MODULE StoreClient ----------------------------
(***************************************************************************)
(* One object on its way through Squid: the server side appends it to     *)
(* memory pages, storeSwapOut writes full pages to the swap file and frees *)
(* the ones nobody needs, and several store clients read it, each from     *)
(* memory or from the file, while the read-ahead gap stops and restarts    *)
(* the server connection (store_client.c, store_swapout.c, store.c,        *)
(* stmem.c, store_swapin.c, forward.c).                                    *)
(*                                                                         *)
(* The cache_dir is of type ufs, as built: create, write, read, open and   *)
(* close are finished when the call returns, so a handler is one step.     *)
(* Lengths are counted in units; a memory page has Page of them.           *)
(***************************************************************************)
EXTENDS Integers, Sequences, FiniteSets, FiniteSetsExt, SequencesExt, TLC

CONSTANTS
    Clients,    \* the store clients that may be attached to the object
    Page,       \* SM_PAGE_SIZE
    Buf,        \* copy_size: what one storeClientCopy can return
    HdrSz,      \* the swap meta data at the front of the swap file
    MaxInMem,   \* maximum_object_size_in_memory
    Gap,        \* read_ahead_gap
    MaxObject,  \* maximum_object_size
    MaxLen,     \* bound: the longest reply the server sends
    MaxRead,    \* bound: the most one read of the server returns
    Lengths     \* the Content-Length values a reply may announce (-1: none)

ASSUME SizesAssumption ==
    /\ Page \in Nat \ {0} /\ Buf \in Nat \ {0} /\ HdrSz \in Nat \ {0}
    /\ HdrSz < Buf
    /\ MaxInMem \in Nat /\ Gap \in Nat /\ MaxObject \in Nat
    /\ MaxLen \in Nat \ {0} /\ MaxRead \in Nat \ {0}
    /\ Lengths \subseteq Nat
    /\ IsFiniteSet(Clients)

VARIABLES
    e,       \* the StoreEntry with its MemObject
    c,       \* the store clients
    broken   \* the conditions the code relies on that a step found false

vars == <<e, c, broken>>

----------------------------------------------------------------------------
(* The object.  "srv": the forwarding side holds the entry; "sio": the     *)
(* swap-out file is open; "queue": swapout.queue_offset; "file": the bytes *)
(* of the object the swap file really holds.                               *)

\* No StoreEntry: not created yet, or destroyed by storeRelease.
NoEntry ==
    [st |-> "none", srv |-> FALSE, aborted |-> FALSE, release |-> FALSE,
     neg |-> FALSE, inmem |-> FALSE, clen |-> -1, defer |-> FALSE,
     swap |-> "none", sio |-> FALSE, lo |-> 0, hi |-> 0, queue |-> 0,
     file |-> 0, osz |-> -1, fsz |-> 0, hdr |-> 0]

\* storeCreateEntry: pending, cachable, nothing in memory, no swap file.
FreshEntry == [NoEntry EXCEPT !.st = "pending", !.srv = TRUE]

\* A store client that is not registered.
NoClient ==
    [on |-> FALSE, type |-> "mem", pos |-> 0, got |-> 0, cb |-> FALSE,
     swapin |-> FALSE, end |-> "no"]

\* The outcomes of the file operations of one handler: storeOpen, storeCreate
\* with the write of the meta data, and how many page writes succeed.  One of
\* them may fail.
Fine == [open |-> TRUE, create |-> "ok", pages |-> MaxLen]
Outcomes ==
    {Fine, [Fine EXCEPT !.open = FALSE],
     [Fine EXCEPT !.create = "fail"], [Fine EXCEPT !.create = "error"],
     [Fine EXCEPT !.pages = 0], [Fine EXCEPT !.pages = 1]}

Least(a, b) == IF a < b THEN a ELSE b
Most(a, b) == IF a > b THEN a ELSE b

On(s) == {k \in Clients : s.c[k].on}
Waiting(s, k) == s.c[k].on /\ s.c[k].cb

\* An assert() of the code, or a pointer it must not follow.
Check(s, name, ok) == IF ok THEN s ELSE [s EXCEPT !.broken = @ \cup {name}]

----------------------------------------------------------------------------
(* Memory pages                                                            *)

\* mutant: disk clients are never counted
LowestMemOnly(s) ==
    Min({s.e.hi + 1} \cup {s.c[k].pos : k \in {j \in On(s) : s.c[j].type = "mem"}})

\* storeLowestMemReaderOffset: while the object is being swapped out only
\* the memory clients count, unless there is none of them.
Lowest(s) ==
    LET all == {s.c[k].pos : k \in On(s)}
        counted == {s.c[k].pos : k \in {j \in On(s) :
                                  ~s.e.sio \/ s.c[j].type = "mem"}}
        lowest == Min({s.e.hi + 1} \cup counted)
    IN  IF all # {} /\ Max(all) < lowest THEN Max(all) ELSE lowest

\* mutant: the bytes up to the target go, whatever page they are on
FreeDataUptoExact(lo, hi, target) == Most(lo, target)

\* stmemFreeDataUpto: whole pages only, and never the last one.
FreeDataUpto(lo, hi, target) ==
    LET tail == IF hi = 0 THEN 0 ELSE ((hi - 1) \div Page) * Page
        page == IF target >= hi THEN tail ELSE (target \div Page) * Page
    IN  Most(lo, Least(page, tail))

\* storeReleaseRequest clears ENTRY_CACHABLE and makes the key private.
ReleaseRequest(s) == [s EXCEPT !.e.release = TRUE]

\* storeSwapOutAble
SwapOutAble(s) ==
    /\ s.e.hi <= MaxObject
    /\ ~s.e.release
    /\ \/ s.e.sio
       \/ s.e.queue > 0 /\ s.e.queue = s.e.hi
       \/ s.e.lo = 0

\* new_mem_lo in storeSwapOutMaintainMemObject.
WantedLo(s, able) ==
    IF ~able \/ s.e.hi > MaxInMem \/ s.e.clen > MaxInMem THEN Lowest(s) ELSE s.e.lo

\* What is not on disk is kept, and the page storeSwapOut goes on from.
CappedLo(s, able, lo) == IF able /\ lo # 0 THEN Least(lo, s.e.queue - 1) ELSE lo

\* Pages are gone: the read goes on if what is left is within the gap.
Freed(s, lo) == [s EXCEPT !.e.lo = lo, !.e.defer = @ /\ s.e.hi - lo > Gap]

\* mutant: pages are freed without asking how much is on disk
FreePagesUncapped(s, able) ==
    [s EXCEPT !.e.lo = FreeDataUpto(@, s.e.hi, Most(WantedLo(s, able), @))]

\* mutant: the deferred read is not resumed
FreePagesSilently(s, able) ==
    [s EXCEPT !.e.lo =
        FreeDataUpto(@, s.e.hi, Most(CappedLo(s, able, WantedLo(s, able)), @))]

\* storeSwapOutMaintainMemObject once the swap-out file is out of the way.
FreePages(s, able) ==
    LET newLo == CappedLo(s, able, WantedLo(s, able))
    IN  IF newLo <= s.e.lo THEN s ELSE Freed(s, FreeDataUpto(s.e.lo, s.e.hi, newLo))

\* storeCheckCachable; a negatively cached reply is refused but not released.
Cachable(s) ==
    /\ ~s.e.release /\ ~s.e.neg
    /\ s.e.clen <= MaxObject /\ s.e.hi <= MaxObject

CheckCachable(s) ==
    IF Cachable(s) \/ (s.e.neg /\ ~s.e.release) THEN s ELSE ReleaseRequest(s)

\* mutant: the meta data is not counted in the size of the file, nor taken
\* off it
SwapOutFileClosedShort(s, error) ==
    LET s1 == [s EXCEPT !.e.sio = FALSE]
        s2 == IF error THEN ReleaseRequest([s1 EXCEPT !.e.swap = "none"])
              ELSE [s1 EXCEPT !.e.swap = "done", !.e.fsz = s.e.osz]
    IN  FreePages(s2, SwapOutAble(s2))

\* storeSwapOutMaintainMemObject for an object that is not being written.
MaintainClosed(s) ==
    IF s.e.inmem THEN s
    ELSE IF SwapOutAble(s) THEN FreePages(s, TRUE) ELSE FreePages(ReleaseRequest(s), FALSE)

\* storeSwapOutFileClosed: an error takes the file away and releases the
\* entry; else the file has the size known for the object now.
SwapOutFileClosed(s, error) ==
    LET s1 == [s EXCEPT !.e.sio = FALSE]
        s2 == IF error THEN ReleaseRequest([s1 EXCEPT !.e.swap = "none"])
              ELSE CheckCachable([s1 EXCEPT !.e.swap = "done",
                                            !.e.fsz = s.e.osz + s.e.hdr])
    IN  MaintainClosed(s2)

\* storeSwapOutFileClose
SwapOutFileClose(s) == IF s.e.sio THEN SwapOutFileClosed(s, FALSE) ELSE s

\* storeSwapOutMaintainMemObject: an object that may no longer be stored
\* stops being written before its pages are counted.
MaintainMemObject(s) ==
    IF s.e.inmem THEN s
    ELSE IF SwapOutAble(s) THEN FreePages(s, TRUE)
    ELSE FreePages(SwapOutFileClose(ReleaseRequest(s)), FALSE)

----------------------------------------------------------------------------
(* Writing the swap file                                                   *)

\* storeSwapOutStart: no file, or a file whose meta data could not be written.
SwapOutStart(s, io) ==
    LET s1 == [s EXCEPT !.e.hdr = HdrSz]
        s2 == [s1 EXCEPT !.e.swap = "writing", !.e.sio = TRUE, !.e.file = 0]
    IN  CASE io.create = "fail"  -> s1
          [] io.create = "error" -> SwapOutFileClosed(s2, TRUE)
          [] OTHER               -> s2

\* The do-while of storeSwapOut: one storeWrite for every page that is due,
\* all of them for a complete object.  The next page is found through the
\* last page written, which must still be in memory.
WritePages(s, io) ==
    LET due == s.e.hi - s.e.queue
        n == IF s.e.st = "pending" THEN due \div Page
             ELSE (due + Page - 1) \div Page
        upto(k) == Least(s.e.hi, s.e.queue + k * Page)
        s1 == Check(s, "page_gone", s.e.lo < s.e.queue \/ (s.e.queue = 0 /\ s.e.lo = 0))
        failed == SwapOutFileClosed([s1 EXCEPT !.e.queue = upto(io.pages + 1),
                                               !.e.file = upto(io.pages)], TRUE)
        written == [s1 EXCEPT !.e.queue = upto(n), !.e.file = upto(n)]
    IN  IF io.pages < n THEN failed
        ELSE IF s.e.st = "ok"
             THEN SwapOutFileClose(Check(written, "assert",
                                         written.e.queue = written.e.hi))
             ELSE written

\* storeSwapOut with the file open, or not to be had.
WriteOn(s, io) == IF s.e.sio THEN WritePages(s, io) ELSE s

\* storeSwapOut for the first time: is the object worth a file?
SwapOutBegin(s, io) ==
    IF Cachable(s) THEN WriteOn(SwapOutStart(s, io), io)
    ELSE MaintainMemObject(CheckCachable(s))

\* storeSwapOut once the memory is looked after.
SwapOutDue(s, able, io) ==
    LET due == s.e.hi - s.e.queue
    IN  CASE ~able \/ (s.e.st = "pending" /\ due < Page) -> s
          [] able /\ s.e.st = "ok" /\ due = 0 -> SwapOutFileClose(s)
          [] OTHER -> IF s.e.swap = "none"
                      THEN SwapOutBegin(Check(s, "assert", s.e.lo = 0 /\ ~s.e.sio), io)
                      ELSE WriteOn(s, io)

\* storeSwapOut
SwapOut(s, io) ==
    IF s.e.aborted THEN SwapOutFileClose(s)
    ELSE SwapOutDue(MaintainMemObject(s), s.e.inmem \/ SwapOutAble(s), io)

----------------------------------------------------------------------------
(* Reading                                                                 *)

\* storeClientCallback: n bytes, 0 at the end of the object, -1 on an error.
Callback(s, k, n) ==
    [s EXCEPT !.c[k].cb = FALSE,
              !.c[k].got = IF n > 0 THEN s.c[k].pos + n ELSE @,
              !.c[k].end = IF n = 0 THEN "eof" ELSE IF n < 0 THEN "error" ELSE @]

\* storeClientFileRead with its completion, storeClientReadBody.
ReadBody(s, k) ==
    LET pos == s.c[k].pos
        n == Least(Buf, s.e.file - pos)
        s1 == Check(s, "assert", s.e.swap = "writing" => s.e.queue > pos)
    IN  IF n > 0 THEN Callback(s1, k, n)
        ELSE Callback(Check(s1, "past_end", FALSE), k, -1)

\* storeClientReadHeader: the first read of a swap file finds the size of the
\* meta data, and with it the length of the object; the body bytes that came
\* along are handed over as the bytes wanted.
ReadHeader(s, k) ==
    LET body == Least(Buf, HdrSz + s.e.file) - HdrSz
        s1 == [s EXCEPT !.e.hdr = HdrSz, !.e.osz = s.e.fsz - HdrSz]
        s2 == Check(s1, "misplaced", s.c[k].pos = 0)
    IN  IF s.c[k].pos < body THEN Callback(s2, k, Least(Buf, body))
        ELSE ReadBody(s1, k)

FileRead(s, k) == IF s.e.hdr = 0 THEN ReadHeader(s, k) ELSE ReadBody(s, k)

\* storeClientNoMoreToSend
NoMoreToSend(s, k) ==
    s.e.st = "ok" /\ s.e.osz >= 0 /\ s.c[k].pos >= s.e.osz

\* storeClientCopy3: end of object, wait for more, or data from memory or
\* from the file, which a disk client opens before it is given anything.
ClientCopy(s, k, io) ==
    LET pos == s.c[k].pos
        disk == s.c[k].type = "disk"
        opened == s.c[k].swapin \/ (io.open /\ s.e.swap # "none")
        s1 == IF disk THEN [s EXCEPT !.c[k].swapin = TRUE] ELSE s
        s2 == IF s1.e.release THEN MaintainMemObject(s1) ELSE s1
    IN  IF NoMoreToSend(s, k) THEN Callback(s, k, 0)
        ELSE IF s.e.st = "pending" /\ pos >= s.e.hi
        THEN [s EXCEPT !.e.defer = @ /\ Lowest(s) # s.e.hi]
        ELSE IF disk /\ ~opened THEN Callback(s, k, -1)
        ELSE IF pos >= s.e.lo /\ pos < s.e.hi
        THEN Callback(s2, k, Least(Buf, s.e.hi - pos))
        ELSE FileRead(Check(s1, "assert", disk), k)

\* InvokeHandlers: every client that waits is tried again.
InvokeHandlers(s, io) ==
    LET order == SetToSeq({k \in Clients : Waiting(s, k)})
        after[n \in 0..Len(order)] ==
            IF n = 0 THEN s ELSE ClientCopy(after[n - 1], order[n], io)
    IN  after[Len(order)]

\* mutant: a later client reads from memory although pages are gone
ClientTypeMem(s) == IF s.e.hi > 0 THEN "mem" ELSE "disk"

\* storeClientType
ClientType(s) ==
    CASE s.e.lo > 0                     -> "disk"
      [] s.e.lo = 0 /\ s.e.st = "ok"    -> IF s.e.hi > 0 THEN "mem" ELSE "disk"
      [] OTHER -> IF On(s) = {} \/ s.e.swap = "none" THEN "mem" ELSE "disk"

----------------------------------------------------------------------------
(* Appending, completing, failing                                          *)

\* storeAppend: the clients first, the swap file second.
StoreAppend(s, n, io) ==
    SwapOut(InvokeHandlers([s EXCEPT !.e.hi = @ + n], io), io)

\* storeComplete: the swap file first, the clients second.
StoreComplete(s, io) ==
    LET s1 == [s EXCEPT !.e.st = "ok", !.e.osz = s.e.hi]
        s2 == IF s.e.clen >= 0 /\ s.e.clen # s.e.hi THEN ReleaseRequest(s1) ELSE s1
    IN  InvokeHandlers(SwapOut(s2, io), io)

\* mutant: the clients are not told
StoreAbortSilently(s, io) ==
    SwapOutFileClose(ReleaseRequest([s EXCEPT !.e.st = "ok", !.e.aborted = TRUE,
                                              !.e.osz = s.e.hi]))

\* storeAbort, and storeRequestFailed of an object with data: what is there
\* is given to the clients, the swap file is closed as it is.
StoreAbort(s, io) ==
    SwapOutFileClose(InvokeHandlers(
        ReleaseRequest([s EXCEPT !.e.st = "ok", !.e.aborted = TRUE,
                                 !.e.osz = s.e.hi]), io))

ErrorStored(s) == [s EXCEPT !.e.st = "ok", !.e.osz = s.e.hi]

\* storeRequestFailed: without data the error page becomes the object.
StoreRequestFailed(s, io) ==
    IF s.e.hi > 0 THEN StoreAbort(s, io)
    ELSE InvokeHandlers(ErrorStored(StoreAppend(ReleaseRequest(s), 1, io)), io)

\* storeUnlockObject by the last holder: a released entry is destroyed, one
\* whose pages are all there stays in memory, any other keeps its file only.
\* storePurgeMem drops the MemObject, and the entry when it has no file.
PurgeMem(s) ==
    IF s.e.swap = "done"
    THEN [s EXCEPT !.e = [@ EXCEPT !.inmem = FALSE, !.lo = 0, !.hi = 0, !.queue = 0,
                                   !.osz = -1, !.hdr = 0, !.clen = -1]]
    ELSE [s EXCEPT !.e = NoEntry]

UnlockObject(s) ==
    IF s.e.srv \/ s.e.sio \/ On(s) # {} THEN s
    ELSE IF s.e.release THEN [s EXCEPT !.e = NoEntry]
    ELSE IF s.e.lo = 0 /\ s.e.hi > 0 THEN [s EXCEPT !.e.inmem = TRUE]
    ELSE PurgeMem(s)

\* fwdStateFree: the forwarding side resets the deferred read and lets go.
FwdStateFree(s) == UnlockObject([s EXCEPT !.e.defer = FALSE, !.e.srv = FALSE])

----------------------------------------------------------------------------
(* The steps.  Every one is a handler that runs to its end.                *)

State == [e |-> e, c |-> c, broken |-> broken]

Become(s) == e' = s.e /\ c' = s.c /\ broken' = s.broken

Init ==
    /\ e = NoEntry
    /\ c = [k \in Clients |-> NoClient]
    /\ broken = {}

\* clientProcessMiss: a new entry with its first client; it asks at once.
Request(k) ==
    /\ e.st = "none"
    /\ e' = FreshEntry
    /\ c' = [c EXCEPT ![k] = [NoClient EXCEPT !.on = TRUE, !.cb = TRUE]]
    /\ UNCHANGED broken

\* storeClientRegister by a hit on a public entry, which then asks for its
\* first bytes (clientCacheHit).
Hit(k, io) ==
    /\ ~c[k].on /\ ~e.release
    /\ e.hi > 0 \/ e.swap = "done"
    /\ LET s == [State EXCEPT !.c[k] =
                    [NoClient EXCEPT !.on = TRUE, !.cb = TRUE,
                                     !.type = ClientType(State)]]
           s1 == IF e.defer THEN SwapOut(s, io) ELSE s
       IN  Become(ClientCopy(s1, k, io))

\* storeClientCopy by a client that has sent on what it got.
CopyMore(k, io) ==
    /\ c[k].on /\ ~c[k].cb /\ c[k].end = "no" /\ c[k].got > c[k].pos
    /\ LET s == [State EXCEPT !.c[k].pos = c[k].got, !.c[k].cb = TRUE]
           s1 == IF e.defer THEN SwapOut(s, io) ELSE s
       IN  Become(ClientCopy(s1, k, io))

\* storeClientUnregister: the connection of the client is gone, or it has its
\* answer.  The last client may take the transfer with it (CheckQuickAbort).
Unregister(k, io, abort) ==
    /\ c[k].on
    /\ abort => On(State) = {k} /\ e.st = "pending"
    /\ LET s  == [State EXCEPT !.c[k] = NoClient]
           s1 == IF e.st = "ok" /\ e.swap # "done" THEN SwapOut(s, io) ELSE s
           s2 == MaintainMemObject(s1)
       IN  Become(UnlockObject(IF abort THEN StoreAbort(s2, io) ELSE s2))

\* fwdCheckDeferRead for a connection that is not deferred already.
MustDefer ==
    \/ e.release /\ e.hi - e.lo > Page + MaxInMem + Gap
    \/ e.hi - Lowest(State) > Gap

\* comm_call_handlers finds the server readable and the reader too far behind.
ServerDefer ==
    /\ e.st = "pending" /\ ~e.defer /\ MustDefer
    /\ e' = [e EXCEPT !.defer = TRUE]
    /\ UNCHANGED <<c, broken>>

\* The last of an announced length complete the object (httpAppendBody).
Transferred(s, io) ==
    IF s.e.hi = s.e.clen THEN FwdStateFree(StoreComplete(s, io)) ELSE s

\* httpReadReply with n bytes.  The first of them are the header, which
\* decides the key and the length.
ServerRead(n, kind, clen, io) ==
    /\ e.st = "pending" /\ ~e.defer /\ ~MustDefer
    /\ e.hi + n <= MaxLen
    /\ e.hi > 0 => kind = "public" /\ clen = e.clen
    /\ e.hi = 0 => clen = -1 \/ n <= clen
    /\ e.hi > 0 /\ clen >= 0 => e.hi + n <= clen
    /\ LET s == [State EXCEPT !.e.clen = clen,
                              !.e.release = @ \/ kind = "private",
                              !.e.neg = @ \/ kind = "negative"]
       IN  Become(Transferred(StoreAppend(s, n, io), io))

\* httpReadReply at the end of the connection.
ServerEof(io) ==
    /\ e.st = "pending" /\ ~e.defer /\ ~MustDefer /\ e.hi > 0
    /\ Become(FwdStateFree(StoreComplete(State, io)))

\* A read error, or the read timeout that also ends a deferred connection.
ServerFail(io) ==
    /\ e.st = "pending"
    /\ Become(FwdStateFree(StoreRequestFailed(State, io)))

\* fwdAbort, the event storeAbort left for the server side.
FwdAbort ==
    /\ e.srv /\ e.st = "ok"
    /\ Become(FwdStateFree(State))

\* storeGetMemSpace drops the memory of an entry nobody uses.
MemPurge ==
    /\ e.inmem /\ On(State) = {}
    /\ Become(PurgeMem(State))

Server ==
    \/ ServerDefer
    \/ \E n \in 1..MaxRead, kind \in {"public", "negative", "private"},
          clen \in Lengths \cup {-1}, io \in Outcomes : ServerRead(n, kind, clen, io)
    \/ \E io \in Outcomes : ServerEof(io) \/ ServerFail(io)
    \/ FwdAbort

Next ==
    \/ \E k \in Clients : Request(k)
    \/ \E k \in Clients, io \in Outcomes : Hit(k, io) \/ CopyMore(k, io)
    \/ \E k \in Clients, io \in Outcomes, abort \in BOOLEAN : Unregister(k, io, abort)
    \/ MemPurge
    \/ Server

Spec == Init /\ [][Next]_vars

----------------------------------------------------------------------------
(* Properties                                                              *)

\* The clients are interchangeable.
ClientSymmetry == Permutations(Clients)

\* The fields keep their types, and the offsets of the object their order.
TypeOK ==
    /\ e.st \in {"none", "pending", "ok"} /\ e.swap \in {"none", "writing", "done"}
    /\ 0 <= e.lo /\ e.lo <= e.hi /\ e.hi <= MaxLen
    /\ e.file <= MaxLen /\ e.queue <= e.hi
    /\ e.sio <=> e.swap = "writing"
    /\ \A k \in Clients : c[k].type \in {"mem", "disk"} /\ c[k].pos <= c[k].got

\* No assert() of the store is ever reached with a false condition: a client
\* sent to the file is a disk client, the file holds what it asks for while
\* it is written, swapping out starts with all pages in memory and ends with
\* all of them written, and the page after which storeSwapOut goes on has not
\* been freed (store_client.c:324, store_swapout.c:275, :342).
AssertionsHold == broken \cap {"assert", "page_gone"} = {}

\* A client is never sent to a place of the swap file that was not written,
\* and the bytes that come with the meta data are never taken for bytes
\* further on: what it receives is the object, in order, without holes.
BytesInOrder == broken \cap {"past_end", "misplaced"} = {}

\* The pages a reader still needs are kept: a memory client, whose only
\* source they are, never finds its place freed, and a disk client behind the
\* first page kept has its bytes in the swap file.
ReaderDataKept ==
    e.st # "none" =>
        \A k \in On(State) :
            LET next == c[k].got
            IN  c[k].end = "no" /\ next < e.lo =>
                    c[k].type = "disk" /\ (c[k].swapin => next < e.file)

\* A client told that the object has ended has received every byte of it.
EndMeansWhole ==
    \A k \in On(State) : c[k].end = "eof" => c[k].got = e.osz

\* Once the object is complete, failed or aborted nobody waits for more:
\* every way to the end wakes all clients.
NobodyForgotten == e.st = "ok" => \A k \in Clients : ~Waiting(State, k)

\* A deferred server connection has a client that is still behind and will
\* ask again, if the object is being written to disk: when the slowest client
\* leaves, the pages freed resume the read (store_swapout.c:190).
DeferHasReader ==
    e.defer /\ e.st = "pending" /\ e.queue > 0 =>
        \E k \in On(State) : ~c[k].cb

\* "If the read is backed off and all clients have seen all the data in
\* memory, re-poll the fd" (store_client.c:269).
RePolledForWaiters ==
    e.st = "pending" /\ On(State) # {} /\ (\A k \in On(State) : c[k].cb)
        => ~e.defer
=============================================================================
