------------------------------ MODULE Forward -------------------------------
(***************************************************************************)
(* Forwarding of cache misses: the FwdState of each request with its list  *)
(* of servers, its attempts and its retries, the server connections, the   *)
(* pool of idle connections, the connections opened ahead for a peer, and  *)
(* the abort by the client, which reaches the server side only with a      *)
(* later event (forward.c, pconn.c, http.c, comm.c, store.c).              *)
(***************************************************************************)
EXTENDS Integers, Sequences, FiniteSets, SequencesExt, FiniteSetsExt, TLC

CONSTANTS
    Requests,   \* the requests that miss
    Peers,      \* the cache_peers
    Fds,        \* file descriptors for server connections
    Routes,     \* the server lists peer selection may return
    MaxTries,   \* 10 in fwdCheckRetry
    MaxOrigin,  \* 2 in fwdCheckRetry
    IdleWanted  \* idle=n of the cache_peers

\* The origin server itself: a FwdServer without a peer.
Direct == "direct"
Hosts == Peers \cup {Direct}
None == 0

ASSUME ForwardAssumption ==
    /\ Fds \subseteq Nat \ {None} /\ IsFiniteSet(Fds)
    /\ Direct \notin Peers /\ Routes \subseteq Seq(Hosts)
    /\ MaxTries \in Nat /\ MaxOrigin \in Nat /\ IdleWanted \in {0, 1}

VARIABLES
    fwd,      \* the FwdState of each request
    ent,      \* its StoreEntry, and the flags of its request_t
    conn,     \* the connection of each file descriptor
    pool,     \* the idle connections of each host, the newest last
    open,     \* stats.conn_open of each peer
    opening,  \* stats.idle_opening of each peer
    stopping  \* shutting_down

vars == <<fwd, ent, conn, pool, open, opening, stopping>>

----------------------------------------------------------------------------
(* The handlers call each other: each is written as a function from the    *)
(* state record to the next one.                                           *)

S == [fwd |-> fwd, ent |-> ent, conn |-> conn, pool |-> pool, open |-> open,
      opening |-> opening, stopping |-> stopping]

Becomes(s) ==
    /\ fwd' = s.fwd /\ ent' = s.ent /\ conn' = s.conn /\ pool' = s.pool
    /\ open' = s.open /\ opening' = s.opening /\ stopping' = s.stopping

Closed == [use |-> "closed", host |-> Direct]
FreeFds(s) == {d \in Fds : s.conn[d].use = "closed"}

\* mutant: a closed connection stays in the count
PeerClosedUncounted(s, h) == s

\* The close handlers of a connection to a peer: fwdPeerClosed.
PeerClosed(s, h) == IF h \in Peers THEN [s EXCEPT !.open[h] = @ - 1] ELSE s

CloseFd(s, d) == [PeerClosed(s, s.conn[d].host) EXCEPT !.conn[d] = Closed]

\* comm_openex, with the count of a peer's connections.
OpenFd(s, h, use) ==
    LET d == Min(FreeFds(s))
        t == [s EXCEPT !.conn[d] = [use |-> use, host |-> h]]
    IN  IF h \in Peers THEN [t EXCEPT !.open[h] = @ + 1] ELSE t

\* pconnPush: the connection is closed if descriptors are short (full).
PconnPush(s, d, full) ==
    IF full \/ s.stopping THEN CloseFd(s, d)
    ELSE [s EXCEPT !.conn[d].use = "pooled", !.pool[s.conn[d].host] = Append(@, d)]

\* pconnRemoveFD: the last slot with the descriptor goes, those after it move down.
PconnRemove(s, d) ==
    [s EXCEPT !.pool[s.conn[d].host] = RemoveAt(@, Max({i \in DOMAIN @ : @[i] = d}))]

----------------------------------------------------------------------------
(* FwdState                                                                *)

NewFwd == [st |-> "new", srv |-> <<>>, tries |-> 0, origin |-> 0, fd |-> None,
           err |-> FALSE, dont |-> FALSE]

\* fwdFail
Fail(s, r) == [s EXCEPT !.fwd[r].err = TRUE]

\* mutant: ENTRY_FWD_HDR_WAIT survives the failure
RequestFailedWaiting(s, r) ==
    LET ans == IF s.ent[r].hi THEN "cut" ELSE IF s.fwd[r].err THEN "error" ELSE "assert"
    IN  [s EXCEPT !.ent[r].pend = FALSE, !.ent[r].ans = ans]

\* storeRequestFailed: an error page if nothing was stored, which needs an
\* error, or an entry marked as cut short.
RequestFailed(s, r) ==
    LET ans == IF s.ent[r].hi THEN "cut" ELSE IF s.fwd[r].err THEN "error" ELSE "assert"
    IN  [s EXCEPT !.ent[r].pend = FALSE, !.ent[r].wait = FALSE, !.ent[r].ans = ans]

\* mutant: the connection is only forgotten
StateFreeKeepsFd(s, r) ==
    LET t == IF s.ent[r].pend THEN RequestFailed(s, r) ELSE s
    IN  [t EXCEPT !.fwd[r] = [NewFwd EXCEPT !.st = "done"]]

\* fwdStateFree; the request and its flags go with the FwdState.
StateFree(s, r) ==
    LET t == IF s.ent[r].pend THEN RequestFailed(s, r) ELSE s
        d == s.fwd[r].fd
    IN  [(IF d = None THEN t ELSE CloseFd(t, d)) EXCEPT
            !.fwd[r] = [NewFwd EXCEPT !.st = "done"],
            !.ent[r].post = FALSE, !.ent[r].body = FALSE, !.ent[r].bad = FALSE]

\* mutant: a request whose body is gone is tried again
CheckRetryBody(s, r) ==
    /\ ~s.stopping /\ s.ent[r].pend /\ ~s.ent[r].hi
    /\ s.fwd[r].tries <= MaxTries /\ s.fwd[r].origin <= MaxOrigin
    /\ ~s.fwd[r].dont

\* fwdCheckRetry
CheckRetry(s, r) ==
    /\ ~s.stopping /\ s.ent[r].pend /\ ~s.ent[r].hi
    /\ s.fwd[r].tries <= MaxTries /\ s.fwd[r].origin <= MaxOrigin
    /\ ~s.fwd[r].dont /\ ~s.ent[r].body

\* The next server, or the servers in a cycle while the origin is not last.
NextServers(srv) ==
    IF Len(srv) = 1 THEN srv
    ELSE IF Last(srv) \in Peers THEN Append(Tail(srv), Head(srv)) ELSE Tail(srv)

\* fwdServerClosed, the close handler of the connection.
ServerClosed(s, r) ==
    LET t == [s EXCEPT !.fwd[r].fd = None]
    IN  IF CheckRetry(t, r)
        THEN [t EXCEPT !.fwd[r].st = "restart", !.fwd[r].srv = NextServers(@)]
        ELSE StateFree(IF t.stopping THEN Fail(t, r) ELSE t, r)

CloseServer(s, r) == ServerClosed(CloseFd(s, s.fwd[r].fd), r)

\* openIdleConn, when the pool of a peer runs low.
OpenIdle(s, h) ==
    IF h \in Peers /\ Len(s.pool[h]) + s.opening[h] < IdleWanted /\ FreeFds(s) # {}
    THEN [OpenFd(s, h, "opening") EXCEPT !.opening[h] = @ + 1]
    ELSE s

\* mutant: an idle connection is used without counting an attempt
AttemptUncounted(s, r, d, st) ==
    LET n == IF st = "sent" THEN 0 ELSE 1
    IN  [s EXCEPT !.fwd[r].fd = d, !.fwd[r].st = st, !.fwd[r].tries = @ + n,
                  !.fwd[r].origin = IF Head(s.fwd[r].srv) = Direct THEN @ + n ELSE @]

\* An attempt: n_tries and origin_tries.
Attempt(s, r, d, st) ==
    [s EXCEPT !.fwd[r].fd = d, !.fwd[r].st = st, !.fwd[r].tries = @ + 1,
              !.fwd[r].origin = IF Head(s.fwd[r].srv) = Direct THEN @ + 1 ELSE @]

\* fwdConnectStart: an idle connection, if the request can be repeated, or a
\* new one (ok: the socket is there).  An idle connection that may not be used
\* is closed.
ConnectStart(s, r, ok) ==
    LET h == Head(s.fwd[r].srv)
        d == Last(s.pool[h])
        t == IF s.pool[h] = <<>> THEN s ELSE CloseFd(PconnRemove(s, d), d)
    IN  IF s.pool[h] # <<>> /\ ~s.ent[r].post
        THEN OpenIdle(Attempt([PconnRemove(s, d) EXCEPT !.conn[d].use = "serving"], r, d, "sent"), h)
        ELSE IF ok /\ FreeFds(t) # {}
        THEN Attempt(OpenFd(t, h, "serving"), r, Min(FreeFds(t)), "connect")
        ELSE StateFree(Fail(t, r), r)

\* fwdStartComplete and fwdRestart
StartComplete(s, r, ok) ==
    IF s.fwd[r].srv = <<>> THEN StateFree(Fail(s, r), r) ELSE ConnectStart(s, r, ok)

\* fwdReforward: may the reply of this server be replaced by another's?  It
\* drops the server when it gets that far.
AskNext(s, r) ==
    /\ s.ent[r].wait /\ s.fwd[r].tries <= MaxTries - 1 /\ s.fwd[r].origin <= MaxOrigin - 1
    /\ ~s.ent[r].body

\* fwdComplete, with storeEntryReset and a new attempt, or with storeComplete.
Complete(s, r, ok) ==
    LET t == IF AskNext(s, r) THEN [s EXCEPT !.fwd[r].srv = Tail(@)] ELSE s
        again == AskNext(s, r) /\ t.fwd[r].srv # <<>> /\ t.ent[r].bad
        over == [t EXCEPT !.ent[r].wait = FALSE, !.ent[r].pend = FALSE, !.ent[r].ans = "reply"]
    IN  IF again
        THEN StartComplete([t EXCEPT !.fwd[r].fd = None, !.ent[r].hi = FALSE], r, ok)
        ELSE IF over.fwd[r].fd = None THEN StateFree(over, r) ELSE over

----------------------------------------------------------------------------
(* Events                                                                  *)

\* fwdStart, refused (miss_access or shutting down) or on its way.
Start(r, post) ==
    /\ fwd[r].st = "new"
    /\ \/ /\ ~stopping
          /\ Becomes([S EXCEPT !.fwd[r].st = "select", !.ent[r].wait = TRUE, !.ent[r].post = post])
       \/ Becomes([S EXCEPT !.fwd[r].st = "done", !.ent[r].pend = FALSE, !.ent[r].ans = "error"])

\* peerSelect calls back with the list of servers.
SelectDone(r, srv, ok) ==
    /\ fwd[r].st = "select"
    /\ Becomes(StartComplete([S EXCEPT !.fwd[r].srv = srv], r, ok))

Restart(r, ok) == fwd[r].st = "restart" /\ Becomes(StartComplete(S, r, ok))

\* Config.Timeout.forward has passed since the request began, which rules out
\* a retry as dont_retry does.
ForwardTimeout(r) ==
    /\ fwd[r].st \in {"restart", "connect", "sent"} /\ ~fwd[r].dont
    /\ Becomes([S EXCEPT !.fwd[r].dont = TRUE])

\* fwdConnectDone with COMM_OK, and fwdDispatch
ConnectOk(r) == fwd[r].st = "connect" /\ Becomes([S EXCEPT !.fwd[r].st = "sent"])

\* fwdConnectDone with an error, or fwdConnectTimeout.  An unknown host is
\* final if it is the origin server's.
ConnectFails(r, dns) ==
    /\ fwd[r].st = "connect"
    /\ Becomes(CloseServer([Fail(S, r) EXCEPT
                              !.fwd[r].dont = @ \/ (dns /\ Head(fwd[r].srv) = Direct)], r))

Aborted(r) == ent[r].ans = "abort"

\* clientProcessBody passes on a part of the request's body.
BodyRead(r) ==
    /\ fwd[r].st = "sent" /\ ent[r].post /\ ~Aborted(r)
    /\ Becomes([S EXCEPT !.ent[r].body = TRUE])

\* mutant: the timeout closes the connection without fwdFail
NoReplySilent(r) ==
    /\ fwd[r].st = "sent" /\ ~Aborted(r)
    /\ Becomes(CloseServer(S, r))

\* httpReadReply, httpSendComplete or httpTimeout: error, end of file before
\* anything was read, or nothing in time.
NoReply(r) ==
    /\ fwd[r].st = "sent" /\ ~Aborted(r)
    /\ Becomes(CloseServer(Fail(S, r), r))

\* A reply header that is too large or invalid.
BadHeader(r) ==
    /\ fwd[r].st = "sent" /\ ~Aborted(r) /\ ~ent[r].hi
    /\ Becomes(CloseServer([Fail(S, r) EXCEPT !.fwd[r].dont = TRUE], r))

\* httpReadReply gets the reply header; the clients may see the reply unless
\* its status makes another server worth asking (bad).
Header(r, bad) ==
    /\ fwd[r].st = "sent" /\ ~Aborted(r) /\ ~ent[r].hi
    /\ LET held == ent[r].wait /\ bad
       IN  Becomes([S EXCEPT !.ent[r].hi = TRUE, !.ent[r].bad = bad, !.ent[r].wait = held,
                             !.ent[r].seen = ent[r].seen \/ ~held])

\* httpAppendBody: a reply shorter than announced, or bytes after its end.
WrongLength(r) ==
    /\ fwd[r].st = "sent" /\ ~Aborted(r) /\ ent[r].hi
    /\ Becomes(CloseServer(S, r))

\* httpAppendBody at the end of the reply: the connection goes to the pool
\* before fwdComplete, or is closed after it.
ReplyKept(r, full, ok) ==
    /\ fwd[r].st = "sent" /\ ~Aborted(r) /\ ent[r].hi
    /\ Becomes(Complete(PconnPush([S EXCEPT !.fwd[r].fd = None], fwd[r].fd, full), r, ok))

ReplyClosed(r, ok) ==
    LET s == Complete(S, r, ok)
    IN  /\ fwd[r].st = "sent" /\ ~Aborted(r) /\ ent[r].hi
        /\ Becomes(IF s.fwd[r].fd = fwd[r].fd THEN CloseServer(s, r) ELSE CloseFd(s, fwd[r].fd))

\* storeAbort, when the last client has left: fwdAbort is left to an event.
ClientAbort(r) ==
    /\ fwd[r].st \in {"select", "restart", "connect", "sent"} /\ ent[r].pend
    /\ Becomes([S EXCEPT !.ent[r].pend = FALSE, !.ent[r].ans = "abort", !.ent[r].abort = TRUE])

\* The event: fwdAbort, unless the FwdState is gone.
AbortRuns(r) ==
    /\ ent[r].abort
    /\ LET s == [S EXCEPT !.ent[r].abort = FALSE]
       IN  Becomes(IF fwd[r].st = "done" THEN s ELSE StateFree(s, r))

\* The connection of an aborted entry becomes readable or times out first.
ReadAborted(r) ==
    /\ fwd[r].st = "sent" /\ Aborted(r)
    /\ Becomes(CloseServer(S, r))

\* pconnRead and pconnTimeout
PoolCloses(d) ==
    /\ conn[d].use = "pooled"
    /\ Becomes(CloseFd(PconnRemove(S, d), d))

\* fwdConnectIdleDone puts the descriptor into the pool, connected or not.
IdleDone(d, full) ==
    /\ conn[d].use = "opening"
    /\ Becomes(PconnPush([S EXCEPT !.opening[conn[d].host] = @ - 1], d, full))

\* fwdConnectIdleTimeout
IdleTimeout(d) ==
    /\ conn[d].use = "opening"
    /\ Becomes(CloseFd([S EXCEPT !.opening[conn[d].host] = @ - 1], d))

Shutdown == ~stopping /\ Becomes([S EXCEPT !.stopping = TRUE])

----------------------------------------------------------------------------

Init ==
    /\ fwd = [r \in Requests |-> NewFwd]
    /\ ent = [r \in Requests |-> [pend |-> TRUE, hi |-> FALSE, wait |-> FALSE, bad |-> FALSE,
                                  post |-> FALSE, body |-> FALSE, seen |-> FALSE,
                                  abort |-> FALSE, ans |-> "none"]]
    /\ conn = [d \in Fds |-> Closed]
    /\ pool = [h \in Hosts |-> <<>>]
    /\ open = [p \in Peers |-> 0] /\ opening = [p \in Peers |-> 0]
    /\ stopping = FALSE

Next ==
    \/ \E r \in Requests :
        \/ \E post \in BOOLEAN : Start(r, post)
        \/ \E srv \in Routes, ok \in BOOLEAN : SelectDone(r, srv, ok)
        \/ \E ok \in BOOLEAN : Restart(r, ok) \/ ReplyClosed(r, ok)
        \/ ConnectOk(r)
        \/ \E dns \in BOOLEAN : ConnectFails(r, dns)
        \/ BodyRead(r) \/ NoReply(r) \/ BadHeader(r) \/ WrongLength(r)
        \/ \E bad \in BOOLEAN : Header(r, bad)
        \/ \E full, ok \in BOOLEAN : ReplyKept(r, full, ok)
        \/ ForwardTimeout(r) \/ ClientAbort(r) \/ AbortRuns(r) \/ ReadAborted(r)
    \/ \E d \in Fds : PoolCloses(d) \/ IdleTimeout(d) \/ \E full \in BOOLEAN : IdleDone(d, full)
    \/ Shutdown

\* Requests are interchangeable.
RequestSymmetry == Permutations(Requests)

Spec == Init /\ [][Next]_vars

----------------------------------------------------------------------------
(* Properties                                                              *)

\* A FwdState holds a connection exactly while it connects or waits for a reply
\* (server_fd), and its entry is pending until something answered it
\* (fwdStateFree, storeComplete, storeAbort); counters are in their ranges.
TypeOK ==
    /\ \A r \in Requests :
        /\ fwd[r].st \in {"new", "select", "restart", "connect", "sent", "done"}
        /\ fwd[r].fd \in Fds \cup {None} /\ fwd[r].srv \in Seq(Hosts)
        /\ fwd[r].tries \in Nat /\ fwd[r].origin \in 0..fwd[r].tries
        /\ fwd[r].st \in {"connect", "sent"} <=> fwd[r].fd # None
        /\ ent[r].ans \in {"none", "reply", "cut", "error", "abort"}
        /\ ent[r].pend <=> ent[r].ans = "none"
    /\ \A p \in Peers : open[p] \in Nat /\ opening[p] \in 0..IdleWanted

\* conn_open, by which max-conn limits a peer, is the number of connections
\* that are open to it, in use, idle or being opened, whatever closes them.
ConnsCounted ==
    \A p \in Peers :
        /\ open[p] = Cardinality({d \in Fds : conn[d].use # "closed" /\ conn[d].host = p})
        /\ opening[p] = Cardinality({d \in Fds : conn[d].use = "opening" /\ conn[d].host = p})

\* No connection leaks and none is shared: one that is open serves one
\* request, to the server the request is at, or is in the pool of its host
\* once, or is being opened for it.
ConnsOwned ==
    \A d \in Fds :
        LET users == {r \in Requests : fwd[r].fd = d}
            slots == {x \in Hosts \X (1..Cardinality(Fds)) :
                          x[2] <= Len(pool[x[1]]) /\ pool[x[1]][x[2]] = d}
        IN  CASE conn[d].use = "serving" -> Cardinality(users) = 1 /\ slots = {}
              [] conn[d].use = "pooled" -> /\ users = {} /\ Cardinality(slots) = 1
                                           /\ \A x \in slots : x[1] = conn[d].host
              [] OTHER -> users = {} /\ slots = {}

\* A request is attempted again only while no byte of a reply could have
\* reached a client and no part of its body was passed on.
RetriedUnseen ==
    [][\A r \in Requests :
          fwd'[r].tries > fwd[r].tries => ~ent[r].seen /\ ~ent[r].body]_vars

\* When the FwdState is gone nobody waits for the server side: the entry is no
\* longer pending, the clients are not held back from what it holds, and an
\* error page was stored only where no byte had been shown.
EndedAnswered ==
    \A r \in Requests : fwd[r].st = "done" =>
        /\ ~ent[r].pend
        /\ ent[r].wait => ent[r].ans = "abort"
        /\ ent[r].ans = "error" => ~ent[r].hi /\ ~ent[r].seen

\* How far a request is from its end: the attempts that are left, and within
\* an attempt connecting, waiting for the reply, reading it.
Distance(st, tries, hi) ==
    IF st = "done" THEN 0
    ELSE 4 * (MaxTries + 3 - tries)
            + CASE st = "connect" -> 3
                [] st = "sent" -> IF hi THEN 1 ELSE 2
                [] st \in {"restart", "select"} -> 0
                [] st = "new" -> 1

\* Every step of a request brings it nearer to its end: no mixture of retries,
\* re-forwarding, idle connections and late aborts goes on forever.
Nearer ==
    [][\A r \in Requests :
          LET before == Distance(fwd[r].st, fwd[r].tries, ent[r].hi)
              after == Distance(fwd'[r].st, fwd'[r].tries, ent'[r].hi)
          IN  (fwd'[r].st # fwd[r].st \/ fwd'[r].fd # fwd[r].fd \/ ent'[r].hi # ent[r].hi)
                  => after < before]_vars
=============================================================================
