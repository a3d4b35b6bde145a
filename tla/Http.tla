-------------------------------- MODULE Http --------------------------------
(***************************************************************************)
(* The HTTP client of the protocol plugins (src/plugins/lib/http.c): a     *)
(* handler per account, one connection per request, a lookup of the host's *)
(* address beside it.  The handler knows its connections and its lookups   *)
(* by its own lists; the main loop knows them by what it waits for.  Of    *)
(* the plugin, only when it asks and what its callbacks do to the handler  *)
(* is modelled here (src/plugins/coincoin).                                *)
(***************************************************************************)
EXTENDS Integers, FiniteSets

CONSTANTS MaxConns,   \* bound: connections at a time
          MaxQueries  \* bound: lookups at a time

ASSUME HttpAssumption == MaxConns \in Nat \ {0} /\ MaxQueries \in Nat \ {0}

VARIABLES http,   \* the handler and what the process holds for it
          err,    \* libpurple will disconnect: an error was reported
          timer,  \* the plugin's timer runs
          calls   \* history: callbacks of each connection

vars == <<http, err, timer, calls>>

Ids == 1..MaxConns

(* Connections and lookups that the main loop may call back for.           *)
Source(k, n) == [kind |-> k, of |-> n]

(* Without an account there is no handler; `conns` is handler->conns with  *)
(* the fields of each HttpConnection, `queries` is handler->dns_queries,   *)
(* `cached` says that the host's address is in hostname_ip_cache, `ssl` is *)
(* the option of the account; `loop` and `fds` are what the main loop and  *)
(* the kernel hold.                                                        *)
NoHandler == [alive |-> FALSE, ssl |-> FALSE, conns |-> << >>, queries |-> {},
              cached |-> FALSE, loop |-> {}, fds |-> {}]

(* http_handler_new(): an empty handler, in a process that may still hold  *)
(* what an earlier one left behind.                                        *)
HandlerNew(h, ssl) ==
    [h EXCEPT !.alive = TRUE, !.ssl = ssl, !.conns = << >>, !.queries = {}, !.cached = FALSE]

Given(b, S) == IF b THEN S ELSE {}
FreeId(S, n) == CHOOSE i \in 1..n : i \notin S

NewConn(h) == FreeId(DOMAIN h.conns, MaxConns)

HasRoom(h) ==
    /\ Cardinality(DOMAIN h.conns) < MaxConns
    /\ h.cached \/ Cardinality(h.queries) < MaxQueries

(* http_post_or_get() and http_attempt_connection(): the request, a lookup *)
(* unless the address is known, and a connection in libpurple's hands.     *)
(* `pending` is FALSE when libpurple gives none back: nobody will call.    *)
Requested(h, pending) ==
    LET c == NewConn(h)
        q == IF h.cached THEN {} ELSE {FreeId(h.queries, MaxQueries)}
        new == [connect_data |-> pending /\ ~h.ssl, ssl_conn |-> pending /\ h.ssl,
                fd |-> FALSE, input_watcher |-> FALSE, data |-> FALSE]
    IN  [h EXCEPT !.conns = [i \in DOMAIN @ \union {c} |-> IF i = c THEN new ELSE @[i]],
                  !.queries = @ \union q,
                  !.loop = @ \union {Source("dns", n) : n \in q}
                             \union Given(pending, {Source("connect", c)})]

(* http_connection_destroy(): what the fields of the connection name is    *)
(* given back, in libpurple (a connect, an SSL connection with its watch), *)
(* the main loop and the kernel.                                           *)
Sources(h, c) ==
    LET k == h.conns[c]
    IN  Given(k.connect_data \/ k.ssl_conn, {Source("connect", c)})
            \union Given(k.input_watcher \/ k.ssl_conn, {Source("input", c)})

HasFd(h, c) == h.conns[c].fd \/ h.conns[c].ssl_conn

Destroyed(h, c) ==
    [h EXCEPT !.conns = [i \in DOMAIN @ \ {c} |-> @[i]],
              !.loop = @ \ Sources(h, c),
              !.fds = @ \ {i \in {c} : HasFd(h, i)}]

(* The loop of http_handler_free() over handler->conns.                    *)
DestroyedAll(h) ==
    [h EXCEPT !.conns = << >>,
              !.loop = @ \ UNION {Sources(h, c) : c \in DOMAIN h.conns},
              !.fds = @ \ {c \in DOMAIN h.conns : HasFd(h, c)}]

(* Mutant: the lookups are forgotten, not cancelled.                       *)
FreedButLookups(h) ==
    [DestroyedAll(h) EXCEPT !.alive = FALSE, !.queries = {}, !.cached = FALSE]

(* http_handler_free()                                                     *)
HandlerFreed(h) ==
    [DestroyedAll(h) EXCEPT !.alive = FALSE, !.queries = {}, !.cached = FALSE,
                            !.loop = @ \ {Source("dns", q) : q \in h.queries}]
-----------------------------------------------------------------------------
Init ==
    /\ http = NoHandler /\ err = FALSE /\ timer = FALSE
    /\ calls = [c \in Ids |-> 0]

Asking(h) ==
    /\ HasRoom(h)
    /\ \E pending \in BOOLEAN : http' = Requested(h, pending)
    /\ calls' = [calls EXCEPT ![NewConn(h)] = 0]

(* The plugin's login: a new handler and a first request.                  *)
Login ==
    /\ ~http.alive
    /\ \E ssl \in BOOLEAN : Asking(HandlerNew(http, ssl))
    /\ UNCHANGED <<err, timer>>

(* A request by the user or by the plugin's timer, an error reported or    *)
(* not: disconnection is a step of the main loop like this one.            *)
UserAsks == http.alive /\ Asking(http) /\ UNCHANGED <<err, timer>>
TimerAsks == timer /\ Asking(http) /\ UNCHANGED <<err, timer>>

(* The plugin's close, when the user disconnects or libpurple does after   *)
(* an error.                                                               *)
Close ==
    /\ http.alive
    /\ http' = HandlerFreed(http)
    /\ err' = FALSE /\ timer' = FALSE
    /\ UNCHANGED calls
-----------------------------------------------------------------------------
(* What the main loop calls.  To call a source of a handler that was freed *)
(* is to use freed memory: no step models it, and NothingDangles says that *)
(* there is none.                                                          *)
Called(k, n) == http.alive /\ Source(k, n) \in http.loop

(* http_host_lookup_cb(): the answer, or the failure, of a lookup.         *)
http_host_lookup_cb(q) ==
    /\ Called("dns", q)
    /\ \E found \in BOOLEAN :
        http' = [http EXCEPT !.loop = @ \ {Source("dns", q)},
                             !.queries = @ \ {q},
                             !.cached = @ \/ found]
    /\ UNCHANGED <<err, timer, calls>>

(* connect_data is reset, an SSL connection stays the connection's.        *)
Connected(h, c) ==
    [h EXCEPT !.loop = @ \ {Source("connect", c)},
              !.conns[c].connect_data = FALSE,
              !.conns[c].fd = ~h.ssl,
              !.fds = @ \union {c}]

(* http_post_or_get_connect_cb() and its SSL twin, the request written:    *)
(* who is written to is read from.                                         *)
connect_cb(c) ==
    /\ Called("connect", c)
    /\ http' = [Connected(http, c) EXCEPT !.loop = @ \union {Source("input", c)},
                                          !.conns[c].input_watcher = ~http.ssl]
    /\ UNCHANGED <<err, timer, calls>>

(* The same when write() says EAGAIN: they return, and nothing waits for   *)
(* the connection any more.                                                *)
ConnectCbAgain(c) ==
    /\ Called("connect", c)
    /\ http' = Connected(http, c)
    /\ UNCHANGED <<err, timer, calls>>

(* The write fails after the connection is made, or the connection is not: *)
(* http_fatal_connection_cb() or http_ssl_connection_error().              *)
ConnectCbFails(c) ==
    /\ Called("connect", c)
    /\ \/ http' = Destroyed(Connected(http, c), c)
       \/ http' = Destroyed([http EXCEPT !.loop = @ \ {Source("connect", c)},
                                         !.conns[c].connect_data = FALSE,
                                         !.conns[c].ssl_conn = FALSE], c)
    /\ err' = TRUE
    /\ UNCHANGED <<timer, calls>>

(* http_post_or_get_readdata_cb() with data: rx_buf grows.                 *)
ReadData(c) ==
    /\ Called("input", c)
    /\ http' = [http EXCEPT !.conns[c].data = TRUE]
    /\ UNCHANGED <<err, timer, calls>>

(* A read fails: fatal, unless SSL had data before.                        *)
ReadFails(c) ==
    /\ Called("input", c)
    /\ ~(http.ssl /\ http.conns[c].data)
    /\ http' = Destroyed(http, c)
    /\ err' = TRUE
    /\ UNCHANGED <<timer, calls>>

(* Mutant: the connection outlives its callback.                           *)
ReadEndsKept(c) ==
    /\ Called("input", c)
    /\ calls' = [calls EXCEPT ![c] = @ + 1]
    /\ \/ err' = TRUE /\ UNCHANGED timer
       \/ timer' = TRUE /\ UNCHANGED err
       \/ UNCHANGED <<err, timer>>
    /\ UNCHANGED http

(* The server has closed, or an SSL read fails after data: the callback    *)
(* gets what was read (http_connection_process_data()), it may report an   *)
(* error or start the timer, and the connection is destroyed.              *)
ReadEnds(c) ==
    /\ Called("input", c)
    /\ calls' = [calls EXCEPT ![c] = @ + 1]
    /\ \/ err' = TRUE /\ UNCHANGED timer
       \/ timer' = TRUE /\ UNCHANGED err
       \/ UNCHANGED <<err, timer>>
    /\ http' = Destroyed(http, c)

(* The callback asks again, as after a post: two connections of the        *)
(* handler live until it returns.                                          *)
ReadEndsAsking(c) ==
    /\ Called("input", c) /\ HasRoom(http)
    /\ \E pending \in BOOLEAN : http' = Destroyed(Requested(http, pending), c)
    /\ calls' = [calls EXCEPT ![NewConn(http)] = 0, ![c] = @ + 1]
    /\ UNCHANGED <<err, timer>>

Next ==
    \/ Login \/ UserAsks \/ TimerAsks \/ Close
    \/ \E q \in 1..MaxQueries : http_host_lookup_cb(q)
    \/ \E c \in Ids :
        \/ connect_cb(c) \/ ConnectCbAgain(c) \/ ConnectCbFails(c)
        \/ ReadData(c) \/ ReadFails(c) \/ ReadEnds(c) \/ ReadEndsAsking(c)

Spec == Init /\ [][Next]_vars
-----------------------------------------------------------------------------
(* Whatever the main loop may still call, a connection's watch, a lookup,  *)
(* the timer, belongs to a handler that lives and lists it, and a socket   *)
(* is open for a listed connection and no other: the callbacks of http.c   *)
(* follow their pointers without asking.                                   *)
NothingDangles ==
    /\ \A s \in http.loop :
        IF s.kind = "dns" THEN s.of \in http.queries ELSE s.of \in DOMAIN http.conns
    /\ http.fds \subseteq DOMAIN http.conns
    /\ http.fds # {} \/ http.loop # {} \/ timer => http.alive

Client == INSTANCE HttpClient WITH
    Reqs <- Ids, up <- http.alive, pending <- DOMAIN http.conns

(* The client keeps what HttpClient promises: a callback once per request, *)
(* or an error, and nothing after http_handler_free().                     *)
ClientSpec == Client!SpecClient
=============================================================================
