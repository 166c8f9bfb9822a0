-------------------------------- MODULE Dns ---------------------------------
(***************************************************************************)
(* The internal resolver (dns_internal.c): lookups merged into one query,  *)
(* datagrams lost, delayed, repeated or reordered, answers matched by id   *)
(* and question, retries after a server failure, through the search path   *)
(* and over TCP, and the timer that resends and gives up.                  *)
(* Times are kept as ages; one unit is dns_retransmit_interval.            *)
(***************************************************************************)
EXTENDS Integers, Sequences, FiniteSets, SequencesExt, FiniteSetsExt, TLC

CONSTANTS
    Callers,       \* the lookups; the first caller of a query names it
    Lookups,       \* the names looked up: a host and its domains, in order
    Searched,      \* the names do_searchpath is set for (dns_defnames)
    SearchPath,    \* searchpath[]
    Ids,           \* the query ids
    Servers,       \* nns
    QueryTimeout,  \* dns_timeout, in units
    MaxAttempt,    \* MAX_ATTEMPT
    MaxCopies,     \* the answers one question may still get
    MaxInFlight,   \* datagrams on the way; with as many the next is lost
    MaxSends       \* nsends counts up to this bound, then by rounds of servers

ASSUME DnsAssumption ==
    /\ IsFiniteSet(Callers) /\ IsFiniteSet(Ids) /\ Ids # {}
    /\ Searched \subseteq Lookups /\ <<>> \notin Lookups
    /\ SearchPath \in Seq(Range(SearchPath)) /\ (Searched # {} => SearchPath # <<>>)
    /\ Servers \in Nat \ {0} /\ QueryTimeout \in Nat \ {0}
    /\ MaxAttempt \in Nat /\ MaxCopies \in Nat /\ MaxInFlight \in Nat
    /\ MaxSends \in Nat /\ MaxSends >= Servers

VARIABLES
    query,  \* the idns_query each caller's lookup made, while it lives
    lru,    \* lru_list, the head first
    asked,  \* datagrams sent that can still be answered, with the answers left
    event,  \* event_queued
    want,   \* the name each caller asked for, <<>> before
    got     \* what its callback was given

vars == <<query, lru, asked, event, want, got>>

NoQuery == "none"
NoName == <<>>
NotCalled == [kind |-> "none", name |-> NoName, joined |-> FALSE, calls |-> 0]
Live(s) == Range(s.lru)
With(f, x, v) == [y \in DOMAIN f \cup {x} |-> IF y = x THEN v ELSE f[y]]

S == [query |-> query, lru |-> lru, asked |-> asked, event |-> event,
      want |-> want, got |-> got]
Becomes(s) ==
    /\ query' = s.query /\ lru' = s.lru /\ asked' = s.asked
    /\ event' = s.event /\ want' = s.want /\ got' = s.got

----------------------------------------------------------------------------
(* Sending.                                                                *)

\* idnsTcpCleanup: the buffer goes, tcp_buffer_offset stays.
TcpCleanup(q) == [q EXCEPT !.tcp = "none", !.stale = q.part]

\* idnsTickleQueue
TickleQueue(s) == IF s.lru = <<>> THEN s ELSE [s EXCEPT !.event = TRUE]

\* dlinkAdd at the head, with queue_t and sent_t now.
Queued(s, c, q) ==
    [s EXCEPT !.query[c] = [q EXCEPT !.sent = 0, !.queued = 0], !.lru = <<c>> \o @]

\* dlinkDelete
Unqueued(s, c) == [s EXCEPT !.lru = RemoveAt(@, Max({i \in DOMAIN @ : @[i] = c}))]

\* Sendto is tried with the next server until it works or the last one failed.
Sends(q) ==
    LET left == Servers - (q.nsends % Servers) IN
    {[tries |-> t, ok |-> TRUE] : t \in 1..left} \cup {[tries |-> left, ok |-> FALSE]}

Counted(n) == IF n > MaxSends THEN n - Servers ELSE n

\* The datagrams on the way once q is sent; each sending may be answered.
Sent(before, q, send) ==
    LET m == <<q.id, q.name>>
        n == IF m \in DOMAIN before THEN before[m] ELSE 0 IN
    IF send.ok /\ n < MaxCopies /\ Cardinality(DOMAIN before \cup {m}) <= MaxInFlight
    THEN With(before, m, n + 1) ELSE before

\* idnsSendQuery: the states it may leave.
SendQuery(s, c) ==
    {LET q == [TcpCleanup(s.query[c]) EXCEPT !.nsends = Counted(@ + send.tries)]
     IN TickleQueue(Queued([s EXCEPT !.asked = Sent(@, q, send)], c, q)) : send \in Sends(s.query[c])}

\* idnsQueryID: a free id, or any when all are in use.
QueryID(s) ==
    LET free == Ids \ {s.query[c].id : c \in Live(s)} IN IF free = {} THEN Ids ELSE free

\* idnsFindQuery: the query with this id nearest to the tail.
FindQuery(s, id) ==
    LET at == {i \in DOMAIN s.lru : s.query[s.lru[i]].id = id} IN
    IF at = {} THEN NoQuery ELSE s.lru[Max(at)]

----------------------------------------------------------------------------
(* Lookups and answers.                                                    *)

\* mutant: the callers that joined are not called
CallbackOwner(s, c, kind, name) ==
    [s EXCEPT !.got[c] = [kind |-> kind, name |-> name, joined |-> FALSE, calls |-> @.calls + 1],
              !.query = Restrict(@, DOMAIN @ \ {c})]

\* idnsCallback, and the end of the query.
Callback(s, c, kind, name) ==
    [s EXCEPT
        !.got = [d \in Callers |->
                    IF d \in s.query[c].callers
                    THEN [kind |-> kind, name |-> name, joined |-> d # c,
                          calls |-> s.got[d].calls + 1]
                    ELSE s.got[d]],
        !.query = Restrict(@, DOMAIN @ \ {c})]

\* mutant: the query is left to the connection, off the timer's list
RetryTcpUnqueued(s, c) == [s EXCEPT !.query[c] = [TcpCleanup(@) EXCEPT !.tcp = "connecting"]]

\* idnsRetryTcp
RetryTcp(s, c) == Queued(s, c, [TcpCleanup(s.query[c]) EXCEPT !.tcp = "connecting"])

\* The next name of the search path, or the plain one again.
NextName(q) ==
    IF q.domain < Len(SearchPath)
    THEN [q EXCEPT !.name = Append(q.orig, SearchPath[q.domain + 1]), !.domain = @ + 1]
    ELSE [q EXCEPT !.name = q.orig, !.attempt = @ + 1]

\* A new id, a new start, and the query is sent again.
AskAgain(s, c, q) ==
    UNION {SendQuery([s EXCEPT !.query[c] = [q EXCEPT !.id = id, !.start = 0]], c)
              : id \in QueryID(s)}

\* The answer to a query that is off the list.
Answer(s, c, m) ==
    LET q == s.query[c]
        tried == IF m.kind = "servfail" THEN [q EXCEPT !.attempt = @ + 1] ELSE q IN
    IF m.kind = "truncated" /\ q.tcp = "none" THEN {RetryTcp(s, c)}
    ELSE IF m.kind = "servfail" /\ tried.attempt < MaxAttempt THEN AskAgain(s, c, tried)
    ELSE IF m.kind = "nxdomain" /\ q.search /\ q.attempt < MaxAttempt
         THEN AskAgain(s, c, NextName(q))
    ELSE {Callback(s, c, IF m.kind \in {"servfail", "nxdomain"} THEN "error" ELSE "address", m.name)}

\* mutant: the question of an answer is not compared with the query's
GrokReplyById(s, m) ==
    LET c == FindQuery(s, m.id) IN
    IF c = NoQuery THEN {s} ELSE Answer(Unqueued(s, c), c, m)

\* idnsGrokReply
GrokReply(s, m) ==
    LET c == FindQuery(s, m.id) IN
    IF c = NoQuery \/ s.query[c].name # m.name THEN {s}
    ELSE Answer(Unqueued(s, c), c, m)

Kinds == {"address", "servfail", "nxdomain", "truncated"}

\* idnsCachedLookup: the queries that ask for the name now.
ToJoin(s, name) == {c \in Live(s) : s.query[c].name = name}

\* A new idns_query.
NewQuery(c, name, id) ==
    [name |-> IF name \in Searched /\ Len(name) = 1 THEN Append(name, SearchPath[1]) ELSE name,
     orig |-> name, id |-> id, nsends |-> 0, start |-> 0, sent |-> 0, queued |-> 0,
     attempt |-> 0, domain |-> 0, search |-> name \in Searched,
     tcp |-> "none", part |-> FALSE, stale |-> FALSE, callers |-> {c}]

\* idnsALookup, idnsPTRLookup
ALookup(c) ==
    /\ want[c] = NoName
    /\ \E name \in Lookups :
        LET s == [S EXCEPT !.want[c] = name] IN
        \/ \E d \in ToJoin(s, name) : Becomes([s EXCEPT !.query[d].callers = @ \cup {c}])
        \/ /\ ToJoin(s, name) = {}
           /\ \E id \in QueryID(s) :
                \E t \in SendQuery([s EXCEPT !.query = With(@, c, NewQuery(c, name, id))], c) : Becomes(t)

\* A datagram arrives: idnsRead.
Read(m, kind) ==
    /\ asked[m] > 0
    /\ LET s == [S EXCEPT !.asked = IF asked[m] = 1 THEN Restrict(asked, DOMAIN asked \ {m})
                                    ELSE [asked EXCEPT ![m] = @ - 1]]
       IN \E t \in GrokReply(s, [id |-> m[1], name |-> m[2], kind |-> kind]) : Becomes(t)

----------------------------------------------------------------------------
(* TCP.                                                                    *)

\* idnsSendTcpQuery, with the write of the query.
SendTcpQuery(c) ==
    /\ query[c].tcp = "connecting"
    /\ query' = [query EXCEPT ![c].tcp = "reading"]
    /\ UNCHANGED <<lru, asked, event, want, got>>

\* The connection fails, the write fails, or the server closes early.
TcpFails(c) ==
    /\ query[c].tcp \in {"connecting", "reading"}
    /\ query' = [query EXCEPT ![c] = TcpCleanup(@)]
    /\ UNCHANGED <<lru, asked, event, want, got>>

\* idnsReadTcp with a part of the answer.
ReadTcpPart(c) ==
    /\ query[c].tcp = "reading" /\ ~query[c].part
    /\ query' = [query EXCEPT ![c].part = TRUE]
    /\ UNCHANGED <<lru, asked, event, want, got>>

\* idnsReadTcp with a whole message: it is grokked and the socket is not read
\* again.  With an offset left by an earlier connection the new bytes go behind
\* it, and the length and all before it are what the buffer held (the 2K pool
\* is not zeroed): no message of a live query, or one left there by an earlier
\* answer; a length not reached yet leaves the query reading.
ReadTcp(c, kind) ==
    LET s == [S EXCEPT !.query[c] = [@ EXCEPT !.tcp = "unread", !.part = TRUE]] IN
    /\ query[c].tcp = "reading"
    /\ \/ query[c].stale /\ Becomes(s)
       \/ \E d \in IF query[c].stale THEN Live(S) ELSE {c} :
            \E t \in GrokReply(s, [id |-> query[d].id, name |-> query[d].name, kind |-> kind]) :
               Becomes(t)

----------------------------------------------------------------------------
(* The timer.                                                              *)

\* mutant: a query still backing off keeps its place in time
RequeueAsIs(s, c) == [s EXCEPT !.lru = <<c>> \o Unqueued(s, c).lru]

\* mutant: the query is not taken off before it is put back
RequeueUndeleted(s, c) == [s EXCEPT !.query[c].queued = 0, !.lru = <<c>> \o @]

\* A query still backing off goes to the head.
Requeue(s, c) ==
    [s EXCEPT !.query[c].queued = 0, !.lru = <<c>> \o Unqueued(s, c).lru]

\* dns_retransmit_interval doubled with every round of the servers.
Backoff(q) == 2 ^ ((q.nsends - 1) \div Servers)

\* One round of the loop of idnsCheckQueue.
CheckQuery(s, c) ==
    LET q == s.query[c] IN
    IF q.sent < Backoff(q) THEN {Requeue(s, c)}
    ELSE IF q.start < QueryTimeout THEN SendQuery(Unqueued(s, c), c)
    ELSE {Callback(Unqueued(s, c), c, "error", q.name)}

\* The queries due, from the tail up to the first that is not.
Due(s) ==
    LET fresh == {i \in DOMAIN s.lru : s.query[s.lru[i]].queued < 1}
        from == IF fresh = {} THEN 1 ELSE Max(fresh) + 1
    IN Reverse(SubSeq(s.lru, from, Len(s.lru)))

\* The rounds of the loop: the states it may leave.
CheckEach(s, due) ==
    LET after[n \in 0..Len(due)] ==
            IF n = 0 THEN {s} ELSE UNION {CheckQuery(t, due[n]) : t \in after[n - 1]}
    IN  after[Len(due)]

\* idnsCheckQueue
CheckQueue ==
    /\ event
    /\ \E s \in CheckEach([S EXCEPT !.event = FALSE], Due(S)) : Becomes(TickleQueue(s))

\* An age counts up to the bound it is compared with.
Older(age, bound) == IF age < bound THEN age + 1 ELSE age

\* Time passes.
Tick ==
    /\ lru # <<>>
    /\ query' = [c \in DOMAIN query |->
                    [query[c] EXCEPT !.start = Older(@, QueryTimeout),
                                     !.sent = Older(@, Backoff(query[c])),
                                     !.queued = Older(@, 1)]]
    /\ UNCHANGED <<lru, asked, event, want, got>>

----------------------------------------------------------------------------

Init ==
    /\ query = <<>> /\ lru = <<>> /\ asked = <<>>
    /\ event = FALSE /\ want = [c \in Callers |-> NoName]
    /\ got = [c \in Callers |-> NotCalled]

Next ==
    \/ \E c \in Callers : ALookup(c)
    \/ \E m \in DOMAIN asked, kind \in Kinds : Read(m, kind)
    \/ \E c \in Live(S) : SendTcpQuery(c) \/ TcpFails(c) \/ ReadTcpPart(c)
    \/ \E c \in Live(S), kind \in Kinds \ {"truncated"} : ReadTcp(c, kind)
    \/ CheckQueue
    \/ Tick

Spec == Init /\ [][Next]_vars

\* The clock goes on, and the event loop runs the timer's event.
FairSpec == Spec /\ WF_vars(CheckQueue) /\ WF_vars(Tick)
----------------------------------------------------------------------------
(* Properties.                                                             *)

\* The list holds each live query once (idns_query, lru_list), its fields in
\* their ranges, and an answered caller has left it.
TypeOK ==
    /\ DOMAIN query = Range(lru) /\ Len(lru) = Cardinality(DOMAIN query)
    /\ \A c \in DOMAIN query :
        /\ c \in query[c].callers /\ query[c].id \in Ids /\ query[c].nsends > 0
        /\ query[c].attempt \in 0..MaxAttempt /\ query[c].domain \in 0..Len(SearchPath)
        /\ query[c].tcp \in {"none", "connecting", "reading", "unread"}
        /\ query[c].stale => query[c].part
    /\ event \in BOOLEAN /\ \A m \in DOMAIN asked : asked[m] \in 1..MaxCopies

\* The names the search path makes of a name.
Candidates(name) ==
    {name} \cup (IF name \in Searched THEN {Append(name, d) : d \in Range(SearchPath)} ELSE {})

\* A caller is never given the address of another name (idnsGrokReply compares
\* id and question): only of its own, or one the search path makes of it,
\* however late, often or out of order datagrams arrive and ids are used again.
\* The exception the code has: who joined a query that goes on through the
\* search path gets what that query finds in the end.
AnswerRight ==
    \A c \in Callers : got[c].kind = "address" =>
        \/ got[c].name \in Candidates(want[c])
        \/ got[c].joined /\ \E n \in Searched : got[c].name \in Candidates(n)

\* Every lookup is called back exactly once (idnsCallback): until then it is
\* with exactly one query on lru_list, afterwards with none.
CalledOnce ==
    \A c \in Callers :
        LET with == {d \in Range(lru) : c \in query[d].callers} IN
        Cardinality(with) + got[c].calls = IF want[c] = NoName THEN 0 ELSE 1

\* No query is overlooked: while one is out the timer is set (idnsTickleQueue),
\* also for the one idnsRetryTcp puts back without setting it, and the list is
\* in the order of queue_t, so that the loop of idnsCheckQueue may stop at the
\* first query that is not due.
NoneOverlooked ==
    /\ lru # <<>> => event
    /\ \A i, j \in DOMAIN lru : i < j => query[lru[i]].queued <= query[lru[j]].queued

\* Every lookup ends (idnsCheckQueue gives up), whatever is lost, truncated or
\* refused, while time passes and the timer's events are run.
EveryLookupEnds == \A c \in Callers : (want[c] # NoName) ~> (got[c].calls = 1)

Symmetry == Permutations(Ids) \cup Permutations(Callers)
=============================================================================
