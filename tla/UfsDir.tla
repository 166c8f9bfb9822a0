------------------------------- MODULE UfsDir -------------------------------
(***************************************************************************)
(* One ufs cache_dir: its swap files, the bitmap of file numbers, the      *)
(* nodes of the removal policy, the swap log swap.state with its ADD and   *)
(* DEL records, the rebuild of the index from the log or from the files,   *)
(* the clean log written at a rotation or a shutdown, the daemon that      *)
(* unlinks files behind Squid's back, and the event that removes orphans   *)
(* (fs/ufs/store_dir_ufs.c, store_io_ufs.c, filemap.c, repl/lru,           *)
(* store_dir.c, store_rebuild.c, store.c, unlinkd.c).                      *)
(***************************************************************************)
EXTENDS Integers, Sequences, FiniteSets, SequencesExt, TLC

CONSTANTS
    Keys,        \* the cache keys of the objects
    Files,       \* the file numbers in use
    MaxTime,     \* bound: squid_curtime; a second passes before a hit, or at a start
    MaxLog,      \* bound: the records of a log
    MaxUnlinks,  \* bound: the paths on their way to unlinkd
    MaxStarts,   \* bound: starts of the process
    MaxObjects   \* bound: swap files created, or tried to be

ASSUME UfsDirAssumption ==
    /\ Files \subseteq Nat /\ IsFiniteSet(Files) /\ IsFiniteSet(Keys)
    /\ MaxTime \in Nat /\ MaxLog \in Nat /\ MaxUnlinks \in Nat /\ MaxStarts \in Nat
    /\ MaxObjects \in Nat

VARIABLES
    proc,     \* "down", "rebuilding" or "up"
    ents,     \* the StoreEntries that have a swap file
    bits,     \* the file numbers marked in the map
    nodes,    \* the entries in the removal policy, as <<key, file>>
    log,      \* swap.state
    newlog,   \* swap.state.new, which takes the records while rebuilding
    todo,     \* the log records still to be read, or the files to be scanned
    disk,     \* what the swap files hold
    unlinkd,  \* the paths unlinkd was asked to remove and has not yet
    lost,     \* file numbers nobody holds and nobody frees
    rough,    \* a rebuild was cut short, replaced by a scan, or met an error
    now, starts, made

vars == <<proc, ents, bits, nodes, log, newlog, todo, disk, unlinkd, lost, rough,
          now, starts, made>>

----------------------------------------------------------------------------
(* An entry: its key, its file, lastref, timestamp, whether it is still    *)
(* written, whether its key is public, whether a client holds it.  A private entry  *)
(* is one that will be released.                                           *)

Entry(k, f, ref, ts, st) ==
    [key |-> k, file |-> f, ref |-> ref, ts |-> ts, st |-> st, pub |-> TRUE, held |-> FALSE]

RecOf(op, e) == [op |-> op, key |-> e.key, file |-> e.file, ref |-> e.ref, ts |-> e.ts]
RecsOf(op, E) == [i \in 1..Cardinality(E) |-> RecOf(op, SetToSeq(E)[i])]

Public(k) == {e \in ents : e.pub /\ e.key = k}
HoldersOf(f) == {e \in ents : e.file = f}
Gone == [key |-> "none", ref |-> 0, whole |-> FALSE]

\* storeEntryLocked
Locked(e) == e.held \/ e.st = "writing"

\* file_write on the swap log that is open: the new one while rebuilding.
Logged(recs) ==
    IF proc = "rebuilding" THEN newlog' = newlog \o recs /\ UNCHANGED log
    ELSE log' = log \o recs /\ UNCHANGED newlog

Room(n) == Len(log) + n <= MaxLog /\ Len(newlog) + n <= MaxLog

\* storeUfsUnlink: policy node and bit at once, the file when unlinkd gets to it.
Unlinked(fs) ==
    /\ bits' = bits \ fs
    /\ nodes' = {n \in nodes : n[2] \notin fs}
    /\ unlinkd' = unlinkd \o SetToSeq(fs)

----------------------------------------------------------------------------
(* Objects                                                                 *)

\* mutant: storeSetPrivateKey forgets that the entry has a file
ReleaseUnlogged(e) ==
    /\ proc # "down" /\ e.pub
    /\ Len(unlinkd) < MaxUnlinks
    /\ ents' = ents \ {e}
    /\ bits' = bits \ {e.file} /\ nodes' = {n \in nodes : n[2] # e.file}
    /\ unlinkd' = Append(unlinkd, e.file)
    /\ UNCHANGED <<proc, log, newlog, todo, disk, lost, rough, now, starts, made>>

\* storeRelease of public entries E, with the DEL record of each: one that is
\* locked, or any while the index is rebuilt, is only made private and waits.
ReleasedAll(E) ==
    LET wait == {e \in E : Locked(e) \/ proc = "rebuilding"}
    IN  (ents \ E) \cup {[e EXCEPT !.pub = FALSE] : e \in wait}

FreedBy(E) == {e.file : e \in {x \in E : ~Locked(x) /\ proc # "rebuilding"}}

Release(e) ==
    /\ proc # "down" /\ e.pub
    /\ Room(1) /\ Len(unlinkd) < MaxUnlinks
    /\ ents' = ReleasedAll({e})
    /\ Logged(<<RecOf("DEL", e)>>)
    /\ Unlinked(FreedBy({e}))
    /\ UNCHANGED <<proc, todo, disk, lost, rough, now, starts, made>>

\* mutant: the predecessor keeps its key
CreateBeside(k, f) ==
    /\ proc # "down" /\ f \notin bits /\ made < MaxObjects /\ made' = made + 1
    /\ ents' = ents \cup {Entry(k, f, now, now, "writing")}
    /\ bits' = bits \cup {f} /\ nodes' = nodes \cup {<<k, f>>}
    /\ disk' = [disk EXCEPT ![f] = [key |-> k, ref |-> now, whole |-> FALSE]]
    /\ UNCHANGED <<proc, log, newlog, todo, unlinkd, lost, rough, now, starts>>

\* storeSetPublicKey for a new object, whose predecessor is released, and
\* storeUfsCreate: a free number, an empty file, a node in the policy.
Create(k, f) ==
    LET old == Public(k)
    IN  /\ proc # "down" /\ f \notin bits /\ made < MaxObjects /\ made' = made + 1
        /\ Room(1) /\ Len(unlinkd) < MaxUnlinks
        /\ ents' = ReleasedAll(old) \cup {Entry(k, f, now, now, "writing")}
        /\ Logged(RecsOf("DEL", old))
        /\ bits' = (bits \ FreedBy(old)) \cup {f}
        /\ nodes' = {n \in nodes : n[2] \notin FreedBy(old)} \cup {<<k, f>>}
        /\ unlinkd' = unlinkd \o SetToSeq(FreedBy(old))
        /\ disk' = [disk EXCEPT ![f] = [key |-> k, ref |-> now, whole |-> FALSE]]
        /\ UNCHANGED <<proc, todo, lost, rough, now, starts>>

\* storeUfsCreate whose file_open fails returns with the number marked.
CreateFails(f) ==
    /\ proc # "down" /\ f \notin bits /\ made < MaxObjects /\ made' = made + 1
    /\ bits' = bits \cup {f}
    /\ lost' = lost \cup {f}
    /\ UNCHANGED <<proc, ents, nodes, log, newlog, todo, disk, unlinkd, rough, now, starts>>

\* storeSwapOutFileClosed: the object is on disk and logged.  One that lost
\* its key meanwhile is released instead.
SwapOutDone(e) ==
    /\ e \in ents /\ e.st = "writing" /\ Room(1) /\ Len(unlinkd) < MaxUnlinks
    /\ disk' = [disk EXCEPT ![e.file].whole = disk[e.file].key = e.key]
    /\ \/ /\ e.pub
          /\ ents' = (ents \ {e}) \cup {[e EXCEPT !.st = "done"]}
          /\ Logged(<<RecOf("ADD", e)>>)
          /\ UNCHANGED <<bits, nodes, unlinkd>>
       \/ /\ ~e.pub
          /\ \/ /\ e.held \/ proc = "rebuilding"
                /\ ents' = (ents \ {e}) \cup {[e EXCEPT !.st = "done"]}
                /\ UNCHANGED <<bits, nodes, unlinkd>>
             \/ /\ ~e.held /\ proc # "rebuilding"
                /\ ents' = ents \ {e}
                /\ Unlinked({e.file})
          /\ UNCHANGED <<log, newlog>>
    /\ UNCHANGED <<proc, todo, lost, rough, now, starts, made>>

\* mutant: no error unlinks the file
WriteErrorKeeps(e) ==
    /\ e.st = "writing"
    /\ ents' = ents \ {e}
    /\ UNCHANGED <<proc, bits, nodes, log, newlog, todo, disk, unlinkd, lost, rough,
                   now, starts, made>>

\* storeSwapOutFileClosed with an error: the file is unlinked if its number
\* is above 0; number 0 stays marked, with its node.
WriteError(e) ==
    /\ e \in ents /\ e.st = "writing" /\ Len(unlinkd) < MaxUnlinks
    /\ ents' = ents \ {e}
    /\ \/ e.file > 0 /\ Unlinked({e.file}) /\ UNCHANGED lost
       \/ e.file = 0 /\ lost' = lost \cup {0} /\ UNCHANGED <<bits, nodes, unlinkd>>
    /\ rough' = (rough \/ proc = "rebuilding")
    /\ UNCHANGED <<proc, log, newlog, todo, disk, now, starts, made>>

\* storeLockObject by a hit: lastref moves, the log does not.  While rebuilding
\* an entry can be found, though not read, before the record that deletes it,
\* which then looks older than the entry.  One client reads at a time.  A hit on
\* an entry still being written is left out: its lastref is of this run, newer
\* than every record of the old log, before and after.
Hit(e) ==
    /\ e.pub /\ e.st = "done" /\ \A x \in ents : ~x.held
    /\ now' \in {now} \cup {t \in {now + 1} : t <= MaxTime}
    /\ ents' = (ents \ {e}) \cup {[e EXCEPT !.held = TRUE, !.ref = now']}
    /\ rough' = (rough \/ \E i \in DOMAIN todo : todo[i].op = "DEL" /\ todo[i].key = e.key)
    /\ UNCHANGED <<proc, bits, nodes, log, newlog, todo, disk, unlinkd, lost, starts, made>>

\* storeUnlockObject; a released entry goes now, or after the rebuild.
Unlock(e) ==
    /\ e.held /\ Len(unlinkd) < MaxUnlinks
    /\ IF e.pub \/ proc = "rebuilding"
       THEN /\ ents' = (ents \ {e}) \cup {[e EXCEPT !.held = FALSE]}
            /\ UNCHANGED <<bits, nodes, unlinkd>>
       ELSE ents' = ents \ {e} /\ Unlinked({e.file})
    /\ UNCHANGED <<proc, log, newlog, todo, disk, lost, rough, now, starts, made>>

\* storeLateRelease: what was released while rebuilding.
LateRelease(e) ==
    /\ proc = "up" /\ ~e.pub /\ ~Locked(e) /\ Len(unlinkd) < MaxUnlinks
    /\ ents' = ents \ {e}
    /\ Unlinked({e.file})
    /\ UNCHANGED <<proc, log, newlog, todo, disk, lost, rough, now, starts, made>>

----------------------------------------------------------------------------
(* Files                                                                   *)

\* unlinkd takes the next path, whoever owns the file by now.
UnlinkdRuns ==
    /\ unlinkd # <<>>
    /\ disk' = [disk EXCEPT ![Head(unlinkd)] = Gone]
    /\ unlinkd' = Tail(unlinkd)
    /\ UNCHANGED <<proc, ents, bits, nodes, log, newlog, todo, lost, rough, now, starts, made>>

\* storeUfsDirClean: a file whose number is not marked is an orphan.
DirClean(f) ==
    /\ proc = "up" /\ disk[f] # Gone /\ f \notin bits
    /\ disk' = [disk EXCEPT ![f] = Gone]
    /\ UNCHANGED <<proc, ents, bits, nodes, log, newlog, todo, unlinkd, lost, rough, now, starts, made>>

----------------------------------------------------------------------------
(* The log                                                                 *)

\* storeDirWriteCleanLogs: the public entries that are on disk.
CleanLog ==
    LET keep == {e \in ents : e.pub /\ e.st = "done"}
    IN  RecsOf("ADD", keep)

\* squid -k rotate; storeDirWriteCleanLogs does nothing while rebuilding.
Rotate ==
    /\ proc = "up"
    /\ log' = CleanLog
    /\ UNCHANGED <<proc, ents, bits, nodes, newlog, todo, disk, unlinkd, lost, rough, now, starts, made>>

\* The end of the process: the memory is gone, the log is what it is.
Down ==
    /\ proc' = "down"
    /\ ents' = {} /\ bits' = {} /\ nodes' = {} /\ newlog' = <<>> /\ todo' = <<>>
    /\ lost' = {}
    /\ rough' = (rough \/ proc = "rebuilding")
    /\ UNCHANGED <<disk, unlinkd, now, starts, made>>

Crash == proc # "down" /\ Down /\ UNCHANGED log

\* A shutdown waits for no object to be written and writes the clean log.
Shutdown ==
    /\ proc # "down"
    /\ log' = IF proc = "rebuilding" THEN log ELSE CleanLog
    /\ Down

\* storeUfsDirRebuild: swap.state is read, swap.state.new takes the records.
\* Without a log the files themselves are read.  watch_child sleeps between
\* two children, so a second passes.
Start(scan) ==
    /\ proc = "down" /\ starts < MaxStarts
    /\ proc' = "rebuilding" /\ starts' = starts + 1 /\ now' = now + 1
    /\ todo' = IF scan
               THEN RecsOf("FILE", {Entry(disk[f].key, f, disk[f].ref, disk[f].ref, "done") :
                                       f \in {g \in Files : disk[g] # Gone}})
               ELSE log
    /\ rough' = (rough \/ scan)
    /\ UNCHANGED <<ents, bits, nodes, log, newlog, disk, unlinkd, lost, made>>

\* mutant: a deletion must be newer than the entry
DecisionStrict(rec, cur, used) ==
    CASE rec.op = "DEL" -> IF \E e \in cur : rec.ref > e.ref THEN "recycle" ELSE "skip"
      [] rec.op = "ADD" -> IF used THEN "skip"
                           ELSE IF cur = {} THEN "load"
                           ELSE IF \E e \in cur : rec.ref > e.ref THEN "replace" ELSE "skip"

\* What storeUfsDirRebuildFromSwapLog does with a record, given the entry of
\* its key (or none) and whether its file number is marked.
Decision(rec, cur, used) ==
    CASE rec.op = "DEL" -> IF cur # {} /\ \E e \in cur : rec.ref >= e.ref
                           THEN "recycle" ELSE "skip"
      [] rec.op = "ADD" ->
            LET newer == \E e \in cur : rec.ref > e.ref
                same  == \E e \in cur : e.file = rec.file
            IN  CASE used /\ newer /\ same -> "update"
                  [] used /\ ~(newer /\ same) -> "skip"
                  [] ~used /\ cur # {} /\ ~newer -> "skip"
                  [] ~used /\ cur # {} /\ newer -> "replace"
                  [] ~used /\ cur = {} -> "load"

\* storeRecycle: the cache_dir forgets an entry that is not locked, and its
\* file stays; a locked one is only released.
Recycled(cur) == {e \in cur : ~Locked(e)}

RebuildRecord ==
    LET rec == Head(todo)
        cur == Public(rec.key)
        d == Decision(rec, cur, rec.file \in bits)
        load == d \in {"load", "replace"}
        out == IF d \in {"recycle", "replace"} THEN cur ELSE {}
        free == Recycled(out)
        new == IF load THEN {Entry(rec.key, rec.file, rec.ref, rec.ts, "done")}
               ELSE IF d = "update" THEN {[e EXCEPT !.ref = rec.ts, !.ts = rec.ts] : e \in cur}
               ELSE cur \ out
    IN  /\ proc = "rebuilding" /\ todo # <<>> /\ rec.op # "FILE"
        /\ todo' = Tail(todo)
        /\ ents' = (ents \ cur) \cup {[e EXCEPT !.pub = FALSE] : e \in out \ free} \cup new
        /\ bits' = (bits \ {e.file : e \in free}) \cup {e.file : e \in new}
        /\ nodes' = (nodes \ {<<e.key, e.file>> : e \in free})
                        \cup {<<e.key, e.file>> : e \in new}
        /\ newlog' = newlog \o RecsOf("DEL", out) \o (IF load THEN <<rec>> ELSE <<>>)
        /\ UNCHANGED <<proc, log, disk, unlinkd, lost, rough, now, starts, made>>

\* storeUfsDirRebuildFromDirectory: a file whose meta data can be read is an
\* object; nothing tells whether it was written to its end.  The meta data of
\* these files can be read and has no size to compare: the unlink of a file where
\* it cannot, or does not fit, is left to the unclean start that "rough" records.
RebuildFile ==
    LET rec == Head(todo)
        cur == Public(rec.key)
    IN  /\ proc = "rebuilding" /\ todo # <<>> /\ rec.op = "FILE"
        /\ todo' = Tail(todo)
        /\ \/ /\ \/ rec.file \in bits \/ disk[rec.file] = Gone
                 \/ \E e \in cur : e.ref >= rec.ref
              /\ UNCHANGED <<ents, bits, nodes, newlog>>
           \/ /\ rec.file \notin bits /\ disk[rec.file] # Gone
              /\ \A e \in cur : e.ref < rec.ref
              /\ ents' = ReleasedAll(cur) \cup {Entry(rec.key, rec.file, rec.ref, rec.ts, "done")}
              /\ bits' = bits \cup {rec.file}
              /\ nodes' = nodes \cup {<<rec.key, rec.file>>}
              /\ newlog' = newlog \o RecsOf("DEL", cur) \o <<[rec EXCEPT !.op = "ADD"]>>
        /\ UNCHANGED <<proc, log, disk, unlinkd, lost, rough, now, starts, made>>

\* storeUfsDirRebuildComplete renames the new log over the old one; then
\* storeCleanup validates the entries.
RebuildComplete ==
    /\ proc = "rebuilding" /\ todo = <<>>
    /\ proc' = "up"
    /\ log' = newlog /\ newlog' = <<>>
    /\ UNCHANGED <<ents, bits, nodes, todo, disk, unlinkd, lost, rough, now, starts, made>>

----------------------------------------------------------------------------

Init ==
    /\ proc = "down" /\ ents = {} /\ bits = {} /\ nodes = {}
    /\ log = <<>> /\ newlog = <<>> /\ todo = <<>>
    /\ disk = [f \in Files |-> Gone]
    /\ unlinkd = <<>> /\ lost = {} /\ rough = FALSE /\ now = 0 /\ starts = 0 /\ made = 0

Next ==
    \/ \E k \in Keys, f \in Files : Create(k, f)
    \/ \E f \in Files : CreateFails(f) \/ DirClean(f)
    \/ \E e \in ents : \/ Release(e) \/ SwapOutDone(e) \/ WriteError(e)
                       \/ Hit(e) \/ Unlock(e) \/ LateRelease(e)
    \/ UnlinkdRuns
    \/ Rotate \/ Crash \/ Shutdown
    \/ \E scan \in BOOLEAN : Start(scan)
    \/ RebuildRecord \/ RebuildFile \/ RebuildComplete

\* Keys are interchangeable.
KeySymmetry == Permutations(Keys)

Spec == Init /\ [][Next]_vars

----------------------------------------------------------------------------
(* Properties                                                              *)

\* The index, the map of file numbers and the state of the process agree in
\* type: no entry is newer than the clock, a process that is down has neither
\* entries nor bits, and a key is public once (storeHashInsert).
TypeOK ==
    /\ proc \in {"down", "rebuilding", "up"}
    /\ \A e \in ents : e.key \in Keys /\ e.file \in Files /\ e.ref <= now
    /\ bits \subseteq Files /\ lost \subseteq bits
    /\ proc = "down" => ents = {} /\ bits = {}
    /\ \A k \in Keys : Cardinality(Public(k)) <= 1

\* What the next rebuild makes of a log, when it is alone.
ReplayRecord(E, rec) ==
    LET cur == {e \in E : e.key = rec.key}
        d == Decision(rec, cur, \E e \in E : e.file = rec.file)
    IN  CASE d = "skip" -> E
          [] d = "update" -> (E \ cur) \cup {[e EXCEPT !.ref = rec.ts, !.ts = rec.ts] : e \in cur}
          [] d = "recycle" -> E \ cur
          [] OTHER -> (E \ cur) \cup {Entry(rec.key, rec.file, rec.ref, rec.ts, "done")}

\* The whole log, record by record (storeUfsDirRebuildFromSwapLog).
Replay(l) ==
    LET after[n \in 0..Len(l)] == IF n = 0 THEN {} ELSE ReplayRecord(after[n - 1], l[n])
    IN  after[Len(l)]

\* The log is worth the index: whenever the process dies outside a rebuild,
\* replaying swap.state record by record gives every public object that was
\* on disk, with its file, and no other.
LogReplaysIndex ==
    proc = "up" =>
        {<<e.key, e.file>> : e \in Replay(log)}
        = {<<e.key, e.file>> : e \in {x \in ents : x.pub /\ x.st = "done"}}

\* A file number belongs to one entry, and the map marks exactly the numbers
\* that entries hold; one nobody holds was lost to a failed create, or is
\* number 0 after a write error.  The removal policy has a node for every entry
\* with a file and none for an entry that no longer exists, number 0 after a
\* write error excepted.
NumbersAccounted ==
    /\ \A e, x \in ents : e.file = x.file => e = x
    /\ bits = {e.file : e \in ents} \cup lost
    /\ \A e \in ents : <<e.key, e.file>> \in nodes
    /\ \A n \in nodes : (\E e \in ents : n = <<e.key, e.file>>) \/ (n[2] = 0 /\ 0 \in lost)

\* The file of an object in the index holds that object whole, or is gone
\* (unlinkd was late), through crashes and restarts, once the rebuild is over;
\* only a rebuild that was itself cut short, that had to scan, that met a write
\* error, or whose deleted entry was looked up before the deletion was read may
\* leave an entry with a file that is not its own.
OwnFile ==
    proc = "up" /\ ~rough => \A e \in ents :
        e.pub /\ e.st = "done" =>
            disk[e.file] = Gone \/ (disk[e.file].key = e.key /\ disk[e.file].whole)

\* What the comments of storeUfsDirRebuildFromSwapLog take for granted: an ADD
\* record is never newer than the entry its key already has, so the branches
\* "newer swaplog entry" and "update meta" are not taken, whatever is requested
\* while the log is read and however often a rebuild was cut short.
NoNewerRecord ==
    proc = "rebuilding" /\ todo # <<>> /\ Head(todo).op = "ADD" =>
        \A e \in Public(Head(todo).key) : e.ref >= Head(todo).ref
=============================================================================
