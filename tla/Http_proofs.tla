----------------------------- MODULE Http_proofs -----------------------------
(***************************************************************************)
(* What Http guarantees for any number of connections and lookups at a     *)
(* time: the callbacks of http.c never meet a pointer that was freed, and  *)
(* the client keeps what HttpClient promises to the plugin.                *)
(***************************************************************************)
EXTENDS Http, FiniteSetTheorems, TLAPS

USE HttpAssumption

(* The fields of an HttpConnection, and what the handler and the process   *)
(* hold.                                                                   *)
Conn == [connect_data : BOOLEAN, ssl_conn : BOOLEAN, fd : BOOLEAN,
         input_watcher : BOOLEAN, data : BOOLEAN]

Handler == [alive : BOOLEAN, ssl : BOOLEAN,
            conns : UNION {[D -> Conn] : D \in SUBSET Ids},
            queries : SUBSET (1..MaxQueries), cached : BOOLEAN,
            loop : SUBSET [kind : {"dns", "connect", "input"}, of : Nat],
            fds : SUBSET Ids]

(***************************************************************************)
(* What the main loop waits for and the open sockets are named by a field  *)
(* of a listed connection, or by a listed lookup: that is what             *)
(* http_connection_destroy() and http_handler_free() go by.  A connection  *)
(* that is still being made has neither a socket nor a watch.              *)
(***************************************************************************)
Named(h) ==
    /\ \A n \in Nat : Source("dns", n) \in h.loop => n \in h.queries
    /\ \A c \in Nat : Source("connect", c) \in h.loop =>
        /\ c \in DOMAIN h.conns
        /\ IF h.ssl THEN h.conns[c].ssl_conn ELSE h.conns[c].connect_data
        /\ Source("input", c) \notin h.loop /\ c \notin h.fds
    /\ \A c \in Nat : Source("input", c) \in h.loop =>
        c \in DOMAIN h.conns /\ (h.conns[c].input_watcher \/ h.conns[c].ssl_conn)
    /\ \A c \in h.fds : c \in DOMAIN h.conns /\ HasFd(h, c)

Good(h) == h \in Handler /\ Named(h)

HttpInv ==
    /\ Good(http)
    /\ ~http.alive => http.conns = << >> /\ http.queries = {} /\ ~timer
    /\ err \in BOOLEAN /\ timer \in BOOLEAN /\ calls \in [Ids -> Nat]
-----------------------------------------------------------------------------
(* Sources differ as soon as their kind or their object does.              *)
LEMMA SourceEq ==
    ASSUME NEW k, NEW j, NEW n, NEW o
    PROVE  Source(k, n) = Source(j, o) <=> k = j /\ n = o
BY DEF Source

(* The list of a handler maps the ids it has to connections.               *)
LEMMA ConnsType ==
    ASSUME NEW h \in Handler
    PROVE  DOMAIN h.conns \subseteq Ids /\ h.conns \in [DOMAIN h.conns -> Conn]
<1>1. PICK D \in SUBSET Ids : h.conns \in [D -> Conn]
  BY DEF Handler
<1> QED BY <1>1

(* And anything that does is such a list.                                  *)
LEMMA IsConns ==
    ASSUME NEW D \in SUBSET Ids, NEW f \in [D -> Conn]
    PROVE  f \in UNION {[E -> Conn] : E \in SUBSET Ids} /\ DOMAIN f = D
OBVIOUS

(* Where not all names are taken, FreeId() gives a free one.               *)
LEMMA FreeIdIsFree ==
    ASSUME NEW n \in Nat, NEW S \in SUBSET (1..n), Cardinality(S) < n
    PROVE  FreeId(S, n) \in (1..n) \ S
<1>1. \E i \in 1..n : i \notin S
  <2> SUFFICES ASSUME \A i \in 1..n : i \in S PROVE FALSE
    OBVIOUS
  <2>1. S = 1..n OBVIOUS
  <2>2. Cardinality(1..n) = n
    <3>1. Cardinality(1..n) = IF 1 > n THEN 0 ELSE n - 1 + 1
      BY FS_Interval
    <3> QED BY <3>1
  <2> QED BY <2>1, <2>2
<1> QED BY <1>1 DEF FreeId

(* http_post_or_get(): a request adds one connection, with what the main   *)
(* loop waits for in its fields.                                           *)
LEMMA RequestedGood ==
    ASSUME NEW h, Good(h), HasRoom(h), NEW pending \in BOOLEAN
    PROVE  /\ Good(Requested(h, pending))
           /\ NewConn(h) \in Ids \ DOMAIN h.conns
           /\ DOMAIN Requested(h, pending).conns = DOMAIN h.conns \union {NewConn(h)}
           /\ Requested(h, pending).alive = h.alive
           /\ \A c \in DOMAIN h.conns : Requested(h, pending).conns[c] = h.conns[c]
<1> DEFINE c == NewConn(h)
           q == IF h.cached THEN {} ELSE {FreeId(h.queries, MaxQueries)}
           new == [connect_data |-> pending /\ ~h.ssl, ssl_conn |-> pending /\ h.ssl,
                   fd |-> FALSE, input_watcher |-> FALSE, data |-> FALSE]
           list == [i \in DOMAIN h.conns \union {c} |->
                       IF i = c THEN new ELSE h.conns[i]]
           waits == h.loop \union {Source("dns", n) : n \in q}
                           \union Given(pending, {Source("connect", c)})
           g == Requested(h, pending)
<1>1. h \in Handler /\ DOMAIN h.conns \subseteq Ids /\ h.conns \in [DOMAIN h.conns -> Conn]
  BY ConnsType DEF Good
<1>2. c \in Ids \ DOMAIN h.conns
  BY <1>1, FreeIdIsFree DEF NewConn, HasRoom, Ids
<1>3. q \subseteq 1..MaxQueries
  BY <1>1, FreeIdIsFree DEF HasRoom, Handler
<1>4. g = [h EXCEPT !.conns = list, !.queries = h.queries \union q, !.loop = waits]
  BY DEF Requested
<1>5. new \in Conn BY <1>1 DEF Conn, Handler
<1> HIDE DEF c, q, new
<1>6. list \in [DOMAIN h.conns \union {c} -> Conn]
  BY <1>1, <1>5
<1>7. /\ \A i \in DOMAIN h.conns : list[i] = h.conns[i]
      /\ list[c] = new
  BY <1>2
<1> HIDE DEF list
<1>8. list \in UNION {[E -> Conn] : E \in SUBSET Ids} /\ DOMAIN list = DOMAIN h.conns \union {c}
  <2>1. DOMAIN h.conns \union {c} \in SUBSET Ids
    BY <1>1, <1>2
  <2> QED BY <1>6, <2>1, IsConns
<1>9. waits \subseteq [kind : {"dns", "connect", "input"}, of : Nat]
  BY <1>1, <1>2, <1>3 DEF Handler, Given, Source, Ids
<1>10. /\ \A n \in Nat : Source("dns", n) \in waits => Source("dns", n) \in h.loop \/ n \in q
       /\ \A n \in Nat : Source("input", n) \in waits => Source("input", n) \in h.loop
       /\ \A n \in Nat : Source("connect", n) \in waits =>
              Source("connect", n) \in h.loop \/ (n = c /\ pending)
  BY SourceEq DEF Given
<1> HIDE DEF waits, g
<1>11. /\ g.conns = list /\ g.queries = h.queries \union q /\ g.loop = waits
       /\ g.alive = h.alive /\ g.ssl = h.ssl /\ g.fds = h.fds /\ g \in Handler
  BY <1>1, <1>3, <1>4, <1>8, <1>9 DEF Handler
<1>12. Named(g)
  <2>1. ASSUME NEW n \in Nat, Source("dns", n) \in g.loop PROVE n \in g.queries
    BY <1>10, <1>11, <2>1 DEF Good, Named
  <2>2. ASSUME NEW n \in Nat, Source("input", n) \in g.loop
        PROVE  n \in DOMAIN g.conns /\ (g.conns[n].input_watcher \/ g.conns[n].ssl_conn)
    BY <1>7, <1>8, <1>10, <1>11, <2>2 DEF Good, Named
  <2>3. ASSUME NEW n \in g.fds PROVE n \in DOMAIN g.conns /\ HasFd(g, n)
    BY <1>7, <1>8, <1>11, <2>3 DEF Good, Named, HasFd
  <2>4. ASSUME NEW n \in Nat, Source("connect", n) \in g.loop
        PROVE  /\ n \in DOMAIN g.conns
               /\ IF g.ssl THEN g.conns[n].ssl_conn ELSE g.conns[n].connect_data
               /\ Source("input", n) \notin g.loop /\ n \notin g.fds
    <3>1. CASE Source("connect", n) \in h.loop
      BY <1>7, <1>8, <1>10, <1>11, <3>1 DEF Good, Named
    <3>2. CASE n = c /\ pending
      <4>1. Source("input", n) \notin g.loop /\ n \notin g.fds
        BY <1>2, <1>10, <1>11, <3>2 DEF Good, Named
      <4>2. IF h.ssl THEN new.ssl_conn ELSE new.connect_data
        BY <3>2 DEF new
      <4> QED BY <1>7, <1>8, <1>11, <3>2, <4>1, <4>2
    <3> QED BY <1>10, <1>11, <2>4, <3>1, <3>2
  <2> QED BY <2>1, <2>2, <2>3, <2>4 DEF Named
<1> QED BY <1>2, <1>7, <1>8, <1>11, <1>12 DEF Good, g, c

(* http_connection_destroy() takes one connection away, with everything    *)
(* the main loop and the kernel hold for it.                               *)
LEMMA DestroyedGood ==
    ASSUME NEW h, Good(h), NEW c \in DOMAIN h.conns
    PROVE  /\ Good(Destroyed(h, c))
           /\ DOMAIN Destroyed(h, c).conns = DOMAIN h.conns \ {c}
           /\ Destroyed(h, c).alive = h.alive
<1> DEFINE list == [i \in DOMAIN h.conns \ {c} |-> h.conns[i]]
           g == Destroyed(h, c)
<1>1. h \in Handler /\ DOMAIN h.conns \subseteq Ids /\ h.conns \in [DOMAIN h.conns -> Conn]
  BY ConnsType DEF Good
<1>2. g = [h EXCEPT !.conns = list, !.loop = h.loop \ Sources(h, c),
                    !.fds = h.fds \ {i \in {c} : HasFd(h, i)}]
  BY DEF Destroyed
<1>3. list \in [DOMAIN h.conns \ {c} -> Conn] /\ \A i \in DOMAIN h.conns \ {c} : list[i] = h.conns[i]
  BY <1>1
<1> HIDE DEF list, g
<1>4. list \in UNION {[E -> Conn] : E \in SUBSET Ids} /\ DOMAIN list = DOMAIN h.conns \ {c}
  <2>1. DOMAIN h.conns \ {c} \in SUBSET Ids BY <1>1
  <2> QED BY <1>3, <2>1, IsConns
<1>5. /\ g.conns = list /\ g.queries = h.queries /\ g.loop = h.loop \ Sources(h, c)
      /\ g.fds = h.fds \ {i \in {c} : HasFd(h, i)}
      /\ g.alive = h.alive /\ g.ssl = h.ssl /\ g \in Handler
  BY <1>1, <1>2, <1>4 DEF Handler
<1>6. Source("connect", c) \notin g.loop /\ Source("input", c) \notin g.loop /\ c \notin g.fds
  <2>1. c \in Nat BY <1>1 DEF Ids
  <2>2. h.conns[c] \in Conn BY <1>1
  <2>3. Source("connect", c) \in h.loop => Source("connect", c) \in Sources(h, c)
    BY <1>1, <2>1, <2>2 DEF Good, Named, Sources, Given, Conn
  <2>4. Source("input", c) \in h.loop => Source("input", c) \in Sources(h, c)
    BY <1>1, <2>1, <2>2 DEF Good, Named, Sources, Given, Conn
  <2>5. c \in h.fds => HasFd(h, c)
    BY DEF Good, Named
  <2> QED BY <1>5, <2>3, <2>4, <2>5
<1>7. Named(g)
  BY <1>3, <1>4, <1>5, <1>6 DEF Good, Named, HasFd
<1> QED BY <1>4, <1>5, <1>7 DEF Good, g

(* A callback changes the fields of one connection whose connect is over:  *)
(* its watch and its socket must be named by the new fields k.             *)
Changed(h, g, c, k) ==
    /\ c \in DOMAIN h.conns /\ k \in Conn
    /\ g = [h EXCEPT !.conns = [h.conns EXCEPT ![c] = k], !.loop = g.loop, !.fds = g.fds]
    /\ g.loop \subseteq h.loop \union {Source("input", c)}
    /\ Source("connect", c) \notin g.loop
    /\ Source("input", c) \in g.loop => k.input_watcher \/ k.ssl_conn
    /\ g.fds \subseteq h.fds \union {c}
    /\ c \in g.fds => k.fd \/ k.ssl_conn

(* Such a callback leaves what the main loop waits for named.              *)
LEMMA ChangedGood ==
    ASSUME NEW h, Good(h), NEW g, NEW c, NEW k, Changed(h, g, c, k)
    PROVE  Good(g) /\ DOMAIN g.conns = DOMAIN h.conns /\ g.alive = h.alive
<1> DEFINE list == [h.conns EXCEPT ![c] = k]
           L == g.loop
           F == g.fds
<1>1. h \in Handler /\ DOMAIN h.conns \subseteq Ids /\ h.conns \in [DOMAIN h.conns -> Conn]
  BY ConnsType DEF Good
<1>2. /\ list \in [DOMAIN h.conns -> Conn] /\ list[c] = k
      /\ \A i \in DOMAIN h.conns : i # c => list[i] = h.conns[i]
  BY <1>1 DEF Changed
<1>3. g = [h EXCEPT !.conns = list, !.loop = L, !.fds = F] BY DEF Changed
<1>4. /\ c \in DOMAIN h.conns
      /\ L \subseteq h.loop \union {Source("input", c)} /\ Source("connect", c) \notin L
      /\ Source("input", c) \in L => k.input_watcher \/ k.ssl_conn
      /\ F \subseteq h.fds \union {c} /\ (c \in F => k.fd \/ k.ssl_conn)
  BY DEF Changed
<1> HIDE DEF list, L, F
<1>5. list \in UNION {[E -> Conn] : E \in SUBSET Ids} /\ DOMAIN list = DOMAIN h.conns
  BY <1>1, <1>2, IsConns
<1>6. L \subseteq [kind : {"dns", "connect", "input"}, of : Nat] /\ F \subseteq Ids
  BY <1>4, <1>1 DEF Handler, Source, Ids
<1>7. /\ g.conns = list /\ g.queries = h.queries /\ g.loop = L /\ g.fds = F
      /\ g.alive = h.alive /\ g.ssl = h.ssl /\ g \in Handler
  BY <1>1, <1>3, <1>5, <1>6 DEF Handler
<1>8. Named(g)
  <2>1. ASSUME NEW n \in Nat, Source("dns", n) \in L PROVE n \in h.queries
    BY <1>4, <2>1, SourceEq DEF Good, Named
  <2>2. ASSUME NEW n \in Nat, Source("input", n) \in L
        PROVE  n \in DOMAIN list /\ (list[n].input_watcher \/ list[n].ssl_conn)
    BY <1>4, <1>2, <1>5, <2>2, SourceEq DEF Good, Named
  <2>3. ASSUME NEW n \in F PROVE n \in DOMAIN list /\ (list[n].fd \/ list[n].ssl_conn)
    BY <1>4, <1>2, <1>5, <2>3 DEF Good, Named, HasFd
  <2>4. ASSUME NEW n \in Nat, Source("connect", n) \in L
        PROVE  /\ n \in DOMAIN list
               /\ IF h.ssl THEN list[n].ssl_conn ELSE list[n].connect_data
               /\ Source("input", n) \notin L /\ n \notin F
    <3>1. n # c /\ Source("connect", n) \in h.loop
      BY <1>4, <2>4, SourceEq
    <3>2. Source("input", n) \notin h.loop /\ n \notin h.fds /\ n \in DOMAIN h.conns
      BY <3>1 DEF Good, Named
    <3>3. Source("input", n) \notin L
      BY <1>4, <3>1, <3>2, SourceEq
    <3> QED BY <1>4, <1>2, <1>5, <3>1, <3>2, <3>3 DEF Good, Named
  <2> QED BY <1>7, <2>1, <2>2, <2>3, <2>4 DEF Named, HasFd
<1> QED BY <1>5, <1>7, <1>8 DEF Good

(* http_post_or_get_connect_cb() and its SSL twin: the connection is made, *)
(* and what it holds now is in its fields.                                 *)
LEMMA ConnectedGood ==
    ASSUME NEW h, Good(h), NEW c \in Nat, Source("connect", c) \in h.loop
    PROVE  /\ c \in DOMAIN h.conns
           /\ Good(Connected(h, c)) /\ DOMAIN Connected(h, c).conns = DOMAIN h.conns
           /\ Connected(h, c).alive = h.alive /\ Connected(h, c).ssl = h.ssl
           /\ Source("connect", c) \notin Connected(h, c).loop
           /\ h.ssl => Connected(h, c).conns[c].ssl_conn
           /\ HasFd(Connected(h, c), c)
<1> DEFINE k == [h.conns[c] EXCEPT !.connect_data = FALSE, !.fd = ~h.ssl]
           g == Connected(h, c)
<1>1. h \in Handler /\ DOMAIN h.conns \subseteq Ids /\ h.conns \in [DOMAIN h.conns -> Conn]
  BY ConnsType DEF Good
<1>2. c \in DOMAIN h.conns /\ h.conns[c] \in Conn /\ (h.ssl => h.conns[c].ssl_conn)
      /\ Source("input", c) \notin h.loop
  BY <1>1 DEF Good, Named
<1>3. g = [h EXCEPT !.conns = [h.conns EXCEPT ![c] = k],
                    !.loop = h.loop \ {Source("connect", c)},
                    !.fds = h.fds \union {c}]
  <2>1. [h.conns EXCEPT ![c].connect_data = FALSE, ![c].fd = ~h.ssl] = [h.conns EXCEPT ![c] = k]
    BY <1>1, <1>2
  <2> QED BY <1>1, <2>1 DEF Connected, Handler
<1>4. k \in Conn /\ (k.fd \/ k.ssl_conn) /\ (h.ssl => k.ssl_conn)
  BY <1>1, <1>2 DEF Conn, Handler
<1> HIDE DEF k, g
<1>5. Good(g) /\ DOMAIN g.conns = DOMAIN h.conns /\ g.alive = h.alive
  <2>1. Changed(h, g, c, k)
    BY <1>1, <1>2, <1>3, <1>4 DEF Changed, Handler
  <2> QED BY <2>1, ChangedGood
<1>6. g.conns[c] = k /\ g.ssl = h.ssl /\ g.loop = h.loop \ {Source("connect", c)}
  BY <1>1, <1>2, <1>3 DEF Handler
<1> QED BY <1>2, <1>4, <1>5, <1>6 DEF HasFd, g

(* http_handler_free() leaves nothing behind.                              *)
LEMMA FreedGood ==
    ASSUME NEW h, Good(h)
    PROVE  /\ Good(HandlerFreed(h)) /\ HandlerFreed(h).alive = FALSE
           /\ HandlerFreed(h).conns = << >> /\ HandlerFreed(h).queries = {}
<1> DEFINE g == HandlerFreed(h)
           L == h.loop \ UNION {Sources(h, c) : c \in DOMAIN h.conns}
           M == L \ {Source("dns", q) : q \in h.queries}
           F == h.fds \ {c \in DOMAIN h.conns : HasFd(h, c)}
<1>1. h \in Handler /\ DOMAIN h.conns \subseteq Ids /\ h.conns \in [DOMAIN h.conns -> Conn]
  BY ConnsType DEF Good
<1>2. << >> \in UNION {[E -> Conn] : E \in SUBSET Ids}
  <2>1. << >> \in [{} -> Conn] OBVIOUS
  <2> QED BY <2>1
<1>3. F = {}
  BY DEF Good, Named
<1>4. M = {}
  <2> SUFFICES ASSUME NEW s \in M PROVE FALSE
    OBVIOUS
  <2>1. PICK k \in {"dns", "connect", "input"}, n \in Nat : s = Source(k, n)
    BY <1>1 DEF Handler, Source
  <2>2. CASE k = "dns"
    BY <2>1, <2>2 DEF Good, Named
  <2>3. CASE k # "dns"
    <3>1. n \in DOMAIN h.conns
      BY <2>1, <2>3 DEF Good, Named
    <3>2. h.conns[n] \in Conn BY <1>1, <3>1
    <3>3. s \in Sources(h, n)
      BY <1>1, <2>1, <2>3, <3>2 DEF Good, Named, Sources, Given, Conn
    <3> QED BY <3>1, <3>3
  <2> QED BY <2>2, <2>3
<1>5. g = [h EXCEPT !.conns = << >>, !.loop = M, !.fds = F, !.alive = FALSE,
                    !.queries = {}, !.cached = FALSE]
  BY <1>1 DEF HandlerFreed, DestroyedAll, Handler
<1> HIDE DEF g, L, M, F
<1>6. /\ g \in Handler /\ g.loop = {} /\ g.fds = {} /\ g.alive = FALSE
      /\ g.conns = << >> /\ g.queries = {}
  BY <1>1, <1>2, <1>3, <1>4, <1>5 DEF Handler
<1>7. Named(g) BY <1>6 DEF Named
<1> QED BY <1>6, <1>7 DEF Good, g

(* A step of the main loop finds the connection it is called for.          *)
LEMMA InputListed ==
    ASSUME HttpInv, NEW c \in Ids, Called("input", c)
    PROVE  /\ c \in DOMAIN http.conns /\ http.alive /\ Good(http)
           /\ Source("connect", c) \notin http.loop
           /\ http.conns[c].input_watcher \/ http.conns[c].ssl_conn
BY DEF HttpInv, Good, Named, Called, Ids

(* A handler that gets a name for its new request.                         *)
LEMMA AskingGood ==
    ASSUME HttpInv, NEW h, Good(h), h.alive, Asking(h)
    PROVE  /\ Good(http') /\ http'.alive /\ calls' \in [Ids -> Nat]
           /\ NewConn(h) \in Ids \ DOMAIN h.conns
           /\ DOMAIN http'.conns = DOMAIN h.conns \union {NewConn(h)}
           /\ calls' = [r \in Ids |-> IF r \in {NewConn(h)} THEN 0 ELSE calls[r]]
<1>1. PICK pending \in BOOLEAN : http' = Requested(h, pending)
  BY DEF Asking
<1>2. HasRoom(h) /\ calls' = [calls EXCEPT ![NewConn(h)] = 0]
  BY DEF Asking
<1>3. /\ Good(http') /\ NewConn(h) \in Ids \ DOMAIN h.conns /\ http'.alive
      /\ DOMAIN http'.conns = DOMAIN h.conns \union {NewConn(h)}
  BY <1>1, <1>2, RequestedGood
<1> HIDE DEF NewConn
<1>4. /\ calls' \in [Ids -> Nat]
      /\ calls' = [r \in Ids |-> IF r \in {NewConn(h)} THEN 0 ELSE calls[r]]
  BY <1>2, <1>3 DEF HttpInv
<1> QED BY <1>3, <1>4

(* http_handler_new() starts from nothing.                                 *)
LEMMA NewGood ==
    ASSUME HttpInv, ~http.alive, NEW ssl \in BOOLEAN
    PROVE  /\ Good(HandlerNew(http, ssl)) /\ HandlerNew(http, ssl).alive
           /\ DOMAIN HandlerNew(http, ssl).conns = {} /\ DOMAIN http.conns = {}
<1> DEFINE g == HandlerNew(http, ssl)
<1>1. http \in Handler /\ Named(http) /\ http.conns = << >> /\ http.queries = {}
  BY DEF HttpInv, Good
<1>2. DOMAIN http.conns = {} BY <1>1
<1>3. http.loop = {}
  <2> SUFFICES ASSUME NEW s \in http.loop PROVE FALSE
    OBVIOUS
  <2>1. PICK k \in {"dns", "connect", "input"}, n \in Nat : s = Source(k, n)
    BY <1>1 DEF Handler, Source
  <2> QED BY <1>1, <1>2, <2>1 DEF Named
<1>4. http.fds = {} BY <1>1, <1>2 DEF Named
<1>5. /\ g \in Handler /\ g.loop = {} /\ g.fds = {} /\ g.alive
      /\ g.conns = << >> /\ g.queries = {}
  BY <1>1, <1>3, <1>4 DEF HandlerNew, Handler
<1>6. Named(g) BY <1>5 DEF Named
<1>7. DOMAIN g.conns = {} BY <1>5
<1> QED BY <1>2, <1>5, <1>6, <1>7 DEF Good

(* http_host_lookup_cb() forgets one lookup, whose answer has come.        *)
LEMMA LookupGood ==
    ASSUME HttpInv, NEW q \in 1..MaxQueries, http_host_lookup_cb(q)
    PROVE  Good(http') /\ http'.alive /\ http'.conns = http.conns
<1>1. PICK found \in BOOLEAN :
          http' = [http EXCEPT !.loop = http.loop \ {Source("dns", q)},
                               !.queries = http.queries \ {q},
                               !.cached = http.cached \/ found]
  BY DEF http_host_lookup_cb
<1>2. http \in Handler /\ Named(http) /\ http.alive
  BY DEF HttpInv, Good, http_host_lookup_cb, Called
<1>3. /\ http' \in Handler /\ http'.loop = http.loop \ {Source("dns", q)}
      /\ http'.queries = http.queries \ {q} /\ http'.conns = http.conns
      /\ http'.fds = http.fds /\ http'.ssl = http.ssl /\ http'.alive
  BY <1>1, <1>2 DEF Handler
<1>4. Named(http')
  <2>1. ASSUME NEW n \in Nat, Source("dns", n) \in http'.loop PROVE n \in http'.queries
    BY <1>2, <1>3, <2>1 DEF Named
  <2> QED BY <1>2, <1>3, <2>1 DEF Named, HasFd
<1> QED BY <1>3, <1>4 DEF Good

(* connect_cb() in full: the request was written, the answer is awaited.   *)
LEMMA ConnectCbGood ==
    ASSUME HttpInv, NEW c \in Ids, connect_cb(c)
    PROVE  Good(http') /\ http'.alive /\ DOMAIN http'.conns = DOMAIN http.conns
<1> DEFINE h == Connected(http, c)
           k == [h.conns[c] EXCEPT !.input_watcher = ~http.ssl]
           L == h.loop \union {Source("input", c)}
<1>1. Good(http) /\ c \in Nat /\ Source("connect", c) \in http.loop /\ http.alive
  BY DEF HttpInv, connect_cb, Called, Ids
<1>2. /\ c \in DOMAIN http.conns
      /\ Good(h) /\ DOMAIN h.conns = DOMAIN http.conns /\ h.alive /\ h.ssl = http.ssl
      /\ Source("connect", c) \notin h.loop /\ HasFd(h, c)
      /\ http.ssl => h.conns[c].ssl_conn
  BY <1>1, ConnectedGood
<1>3. http' = [h EXCEPT !.loop = L, !.conns[c].input_watcher = ~http.ssl]
  BY DEF connect_cb
<1> HIDE DEF h
<1>4. h \in Handler /\ h.conns \in [DOMAIN h.conns -> Conn] /\ http.ssl \in BOOLEAN
  BY <1>1, <1>2, ConnsType DEF Good, Handler
<1>5. http' = [h EXCEPT !.conns = [h.conns EXCEPT ![c] = k], !.loop = L, !.fds = h.fds]
  <2>1. [h.conns EXCEPT ![c].input_watcher = ~http.ssl] = [h.conns EXCEPT ![c] = k]
    BY <1>2, <1>4
  <2> QED BY <1>3, <1>4, <2>1 DEF Handler
<1>6. /\ k \in Conn /\ (k.input_watcher \/ k.ssl_conn)
      /\ c \in h.fds => k.fd \/ k.ssl_conn
  BY <1>2, <1>4 DEF Conn, HasFd
<1>7. /\ L \subseteq h.loop \union {Source("input", c)}
      /\ Source("connect", c) \notin L
  BY <1>2, SourceEq
<1> HIDE DEF k, L
<1>8. Changed(h, http', c, k)
  BY <1>2, <1>4, <1>5, <1>6, <1>7 DEF Changed, Handler
<1> QED BY <1>2, <1>8, ChangedGood

(* http_fatal_connection_cb(), http_ssl_connection_error(): the connection *)
(* is gone.                                                                *)
LEMMA ConnectFailsGood ==
    ASSUME HttpInv, NEW c \in Ids, ConnectCbFails(c)
    PROVE  /\ Good(http') /\ http'.alive /\ c \in DOMAIN http.conns
           /\ DOMAIN http'.conns = DOMAIN http.conns \ {c}
<1>1. Good(http) /\ c \in Nat /\ Source("connect", c) \in http.loop /\ http.alive
  BY DEF HttpInv, ConnectCbFails, Called, Ids
<1>2. /\ c \in DOMAIN http.conns /\ Source("input", c) \notin http.loop /\ c \notin http.fds
      /\ Good(Connected(http, c)) /\ DOMAIN Connected(http, c).conns = DOMAIN http.conns
      /\ Connected(http, c).alive
  BY <1>1, ConnectedGood DEF Good, Named
<1>3. CASE http' = Destroyed(Connected(http, c), c)
  BY <1>2, <1>3, DestroyedGood
<1> DEFINE g == [http EXCEPT !.loop = @ \ {Source("connect", c)},
                             !.conns[c].connect_data = FALSE,
                             !.conns[c].ssl_conn = FALSE]
           k == [http.conns[c] EXCEPT !.connect_data = FALSE, !.ssl_conn = FALSE]
           L == http.loop \ {Source("connect", c)}
<1>4. CASE http' = Destroyed(g, c)
  <2>1. http \in Handler /\ http.conns \in [DOMAIN http.conns -> Conn]
    BY <1>1, ConnsType DEF Good
  <2>2. g = [http EXCEPT !.conns = [http.conns EXCEPT ![c] = k], !.loop = L, !.fds = http.fds]
    <3>1. [http.conns EXCEPT ![c].connect_data = FALSE, ![c].ssl_conn = FALSE]
             = [http.conns EXCEPT ![c] = k]
      BY <1>2, <2>1
    <3> QED BY <2>1, <3>1 DEF Handler
  <2>3. k \in Conn BY <1>2, <2>1 DEF Conn
  <2>4. /\ L \subseteq http.loop \union {Source("input", c)}
        /\ Source("connect", c) \notin L /\ Source("input", c) \notin L
    BY <1>2
  <2> HIDE DEF g, k, L
  <2>5. Changed(http, g, c, k)
    BY <1>2, <2>1, <2>2, <2>3, <2>4 DEF Changed, Handler
  <2>6. Good(g) /\ DOMAIN g.conns = DOMAIN http.conns /\ g.alive
    BY <1>1, <2>5, ChangedGood
  <2> QED BY <1>2, <1>4, <2>6, DestroyedGood
<1> QED BY <1>3, <1>4 DEF ConnectCbFails

(* The read callback with data.                                            *)
LEMMA ReadDataGood ==
    ASSUME HttpInv, NEW c \in Ids, ReadData(c)
    PROVE  Good(http') /\ http'.alive /\ DOMAIN http'.conns = DOMAIN http.conns
<1> DEFINE k == [http.conns[c] EXCEPT !.data = TRUE]
<1>1. /\ c \in DOMAIN http.conns /\ http.alive /\ Good(http)
      /\ Source("connect", c) \notin http.loop
      /\ http.conns[c].input_watcher \/ http.conns[c].ssl_conn
  BY InputListed DEF ReadData
<1>2. http \in Handler /\ http.conns \in [DOMAIN http.conns -> Conn]
  BY <1>1, ConnsType DEF Good
<1>3. /\ k \in Conn /\ (k.input_watcher \/ k.ssl_conn)
      /\ c \in http.fds => k.fd \/ k.ssl_conn
  BY <1>1, <1>2 DEF Conn, HasFd, Good, Named
<1>4. http' = [http EXCEPT !.conns = [http.conns EXCEPT ![c] = k], !.loop = http.loop,
                           !.fds = http.fds]
  <2>1. http' = [http EXCEPT !.conns = [http.conns EXCEPT ![c].data = TRUE]]
    BY DEF ReadData
  <2>2. [http.conns EXCEPT ![c].data = TRUE] = [http.conns EXCEPT ![c] = k]
    BY <1>1, <1>2
  <2> QED BY <1>2, <2>1, <2>2 DEF Handler
<1> HIDE DEF k
<1>5. Changed(http, http', c, k)
  BY <1>1, <1>2, <1>3, <1>4 DEF Changed, Handler
<1> QED BY <1>1, <1>5, ChangedGood

(* The callback at the end of a read asks again: two connections live at   *)
(* once, and then the new one.                                             *)
LEMMA AskAgainGood ==
    ASSUME HttpInv, NEW c \in Ids, ReadEndsAsking(c)
    PROVE  /\ Good(http') /\ http'.alive /\ http.alive /\ c \in DOMAIN http.conns
           /\ NewConn(http) \in Ids \ DOMAIN http.conns
           /\ DOMAIN http'.conns = (DOMAIN http.conns \ {c}) \union {NewConn(http)}
<1>1. c \in DOMAIN http.conns /\ http.alive /\ Good(http) /\ HasRoom(http)
  BY InputListed DEF ReadEndsAsking
<1>2. PICK pending \in BOOLEAN : http' = Destroyed(Requested(http, pending), c)
  BY DEF ReadEndsAsking
<1> DEFINE h == Requested(http, pending)
<1>3. /\ Good(h) /\ NewConn(http) \in Ids \ DOMAIN http.conns
      /\ DOMAIN h.conns = DOMAIN http.conns \union {NewConn(http)} /\ h.alive
  BY <1>1, RequestedGood
<1> HIDE DEF h
<1>4. /\ Good(Destroyed(h, c)) /\ Destroyed(h, c).alive
      /\ DOMAIN Destroyed(h, c).conns = DOMAIN h.conns \ {c}
  BY <1>1, <1>3, DestroyedGood
<1> QED BY <1>1, <1>2, <1>3, <1>4 DEF h

(* HttpInv is inductive.                                                   *)
LEMMA HttpStep ==
    ASSUME HttpInv, [Next]_vars
    PROVE  HttpInv'
<1>1. CASE UNCHANGED vars
  BY <1>1 DEF vars, HttpInv
<1>2. ASSUME Good(http'), http'.alive, err' \in BOOLEAN, timer' \in BOOLEAN,
             calls' \in [Ids -> Nat]
      PROVE  HttpInv'
  BY <1>2 DEF HttpInv
<1>3. calls \in [Ids -> Nat] /\ err \in BOOLEAN /\ timer \in BOOLEAN /\ Good(http)
  BY DEF HttpInv
<1>4. CASE Login
  <2>1. PICK ssl \in BOOLEAN : Asking(HandlerNew(http, ssl))
    BY <1>4 DEF Login
  <2>2. Good(HandlerNew(http, ssl)) /\ HandlerNew(http, ssl).alive
    BY <1>4, NewGood DEF Login
  <2> QED BY <1>2, <1>3, <1>4, <2>1, <2>2, AskingGood DEF Login
<1>5. CASE UserAsks \/ TimerAsks
  <2>1. http.alive /\ Asking(http) /\ UNCHANGED <<err, timer>>
    BY <1>5 DEF UserAsks, TimerAsks, HttpInv
  <2> QED BY <1>2, <1>3, <2>1, AskingGood
<1>6. CASE Close
  BY <1>3, <1>6, FreedGood DEF Close, HttpInv
<1>7. ASSUME NEW q \in 1..MaxQueries, http_host_lookup_cb(q) PROVE HttpInv'
  BY <1>2, <1>3, <1>7, LookupGood DEF http_host_lookup_cb
<1>8. ASSUME NEW c \in Ids, connect_cb(c) PROVE HttpInv'
  BY <1>2, <1>3, <1>8, ConnectCbGood DEF connect_cb
<1>9. ASSUME NEW c \in Ids, ConnectCbAgain(c) PROVE HttpInv'
  <2>1. c \in Nat /\ http.alive /\ Source("connect", c) \in http.loop
    BY <1>9 DEF ConnectCbAgain, Called, Ids
  <2>2. Good(Connected(http, c)) /\ Connected(http, c).alive
    BY <1>3, <2>1, ConnectedGood
  <2> QED BY <1>2, <1>3, <1>9, <2>2 DEF ConnectCbAgain
<1>10. ASSUME NEW c \in Ids, ConnectCbFails(c) PROVE HttpInv'
  BY <1>2, <1>3, <1>10, ConnectFailsGood DEF ConnectCbFails
<1>11. ASSUME NEW c \in Ids, ReadData(c) PROVE HttpInv'
  BY <1>2, <1>3, <1>11, ReadDataGood DEF ReadData
<1>12. ASSUME NEW c \in Ids, ReadFails(c) \/ ReadEnds(c) PROVE HttpInv'
  <2>1. c \in DOMAIN http.conns /\ http.alive
    BY <1>12, InputListed DEF ReadFails, ReadEnds
  <2>2. Good(Destroyed(http, c)) /\ Destroyed(http, c).alive
    BY <1>3, <2>1, DestroyedGood
  <2>3. http' = Destroyed(http, c) /\ err' \in BOOLEAN /\ timer' \in BOOLEAN
        /\ calls' \in [Ids -> Nat]
    <3>1. http' = Destroyed(http, c) /\ err' \in {err, TRUE} /\ timer' \in {timer, TRUE}
      BY <1>12 DEF ReadFails, ReadEnds
    <3>2. calls' = calls \/ calls' = [calls EXCEPT ![c] = @ + 1]
      BY <1>12 DEF ReadFails, ReadEnds
    <3>3. calls' \in [Ids -> Nat] BY <1>3, <3>2
    <3> QED BY <1>3, <3>1, <3>3
  <2> QED BY <1>2, <2>2, <2>3
<1>13. ASSUME NEW c \in Ids, ReadEndsAsking(c) PROVE HttpInv'
  <2>1. Good(http') /\ http'.alive /\ NewConn(http) \in Ids
    BY <1>13, AskAgainGood
  <2>2. calls' = [calls EXCEPT ![NewConn(http)] = 0, ![c] = @ + 1]
    BY <1>13 DEF ReadEndsAsking
  <2>3. calls' \in [Ids -> Nat]
    BY <1>3, <2>1, <2>2
  <2> QED BY <1>2, <1>3, <1>13, <2>1, <2>3 DEF ReadEndsAsking
<1> QED BY <1>1, <1>4, <1>5, <1>6, <1>7, <1>8, <1>9, <1>10, <1>11, <1>12, <1>13 DEF Next

(* Nothing waits before the first login.                                   *)
LEMMA HttpInit ==
    ASSUME Init
    PROVE  HttpInv
<1>1. << >> \in UNION {[E -> Conn] : E \in SUBSET Ids}
  <2>1. << >> \in [{} -> Conn] OBVIOUS
  <2> QED BY <2>1
<1>2. http \in Handler
  BY <1>1 DEF Init, NoHandler, Handler
<1>3. Named(http)
  BY DEF Init, NoHandler, Named
<1> QED BY <1>2, <1>3 DEF HttpInv, Good, Init, NoHandler

(***************************************************************************)
(* http.c: for any number of connections and lookups, whatever the main    *)
(* loop may still call back belongs to a handler that lives and lists it,  *)
(* and every open socket to a listed connection, after any order of        *)
(* answers, failures, requests made from callbacks and disconnections.     *)
(***************************************************************************)
THEOREM NothingDanglesHolds == Spec => []NothingDangles
<1>1. HttpInv => NothingDangles
  <2> SUFFICES ASSUME HttpInv PROVE NothingDangles
    OBVIOUS
  <2>1. http \in Handler /\ Named(http) BY DEF HttpInv, Good
  <2>2. ASSUME NEW s \in http.loop
        PROVE  IF s.kind = "dns" THEN s.of \in http.queries ELSE s.of \in DOMAIN http.conns
    <3>1. PICK k \in {"dns", "connect", "input"}, n \in Nat : s = Source(k, n)
      BY <2>1 DEF Handler, Source
    <3>2. s.kind = k /\ s.of = n BY <3>1 DEF Source
    <3> QED BY <2>1, <3>1, <3>2 DEF Named
  <2>3. http.fds \subseteq DOMAIN http.conns
    BY <2>1 DEF Named
  <2>4. CASE ~http.alive
    <3>1. DOMAIN http.conns = {} /\ http.queries = {} /\ ~timer
      BY <2>4 DEF HttpInv
    <3>2. http.loop = {} BY <2>2, <3>1
    <3> QED BY <2>2, <2>3, <3>1, <3>2 DEF NothingDangles
  <2> QED BY <2>2, <2>3, <2>4 DEF NothingDangles
<1> QED BY <1>1, HttpInit, HttpStep, PTL DEF Spec

(***************************************************************************)
(* The client implements HttpClient: a request is called back once or      *)
(* reports an error, and nothing comes of it after http_handler_free().    *)
(* Lookups, connects and reads are steps the plugin does not see.          *)
(***************************************************************************)
THEOREM ClientImplemented == Spec => ClientSpec
<1>1. Init => Client!InitClient
  BY DEF Init, NoHandler, Client!InitClient
<1>2. HttpInv /\ [Next]_vars => [Client!NextClient]_(Client!clientVars)
  <2> SUFFICES ASSUME HttpInv, [Next]_vars
               PROVE  Client!NextClient \/ UNCHANGED Client!clientVars
    OBVIOUS
  <2>0. calls \in [Ids -> Nat] /\ Good(http) BY DEF HttpInv
  <2>1. CASE UNCHANGED vars
    BY <2>1 DEF vars, Client!clientVars
  <2>2. CASE Login
    <3>1. PICK ssl \in BOOLEAN : Asking(HandlerNew(http, ssl))
      BY <2>2 DEF Login
    <3> DEFINE h == HandlerNew(http, ssl)
               r == NewConn(h)
    <3>2. Good(h) /\ h.alive /\ DOMAIN h.conns = {}
      BY <2>2, NewGood DEF Login
    <3> HIDE DEF h
    <3>3. /\ http'.alive /\ r \in Ids /\ DOMAIN http'.conns = {r}
          /\ calls' = [i \in Ids |-> IF i \in {r} THEN 0 ELSE calls[i]]
      BY <3>1, <3>2, AskingGood DEF h
    <3> HIDE DEF r
    <3>4. Client!Open(r)
      BY <2>2, <3>3 DEF Login, Client!Open, Client!Renamed, HttpInv, Good, Handler
    <3> QED BY <3>3, <3>4 DEF Client!NextClient
  <2>3. CASE UserAsks \/ TimerAsks
    <3> DEFINE r == NewConn(http)
    <3>1. http.alive /\ Asking(http) /\ UNCHANGED <<err, timer>>
      BY <2>3 DEF UserAsks, TimerAsks, HttpInv
    <3>2. /\ http'.alive /\ r \in Ids \ DOMAIN http.conns
          /\ DOMAIN http'.conns = DOMAIN http.conns \union {r}
          /\ calls' = [i \in Ids |-> IF i \in {r} THEN 0 ELSE calls[i]]
      BY <2>0, <3>1, AskingGood
    <3> HIDE DEF r
    <3>3. Client!Ask(r)
      <4>1. http'.alive = http.alive
        <5>1. http.alive \in BOOLEAN /\ http'.alive \in BOOLEAN
          BY HttpStep DEF HttpInv, Good, Handler
        <5> QED BY <3>1, <3>2, <5>1
      <4> QED BY <3>1, <3>2, <4>1 DEF Client!Ask, Client!Renamed
    <3> QED BY <3>2, <3>3 DEF Client!NextClient
  <2>4. CASE Close
    <3>1. http'.alive = FALSE /\ DOMAIN http'.conns = {}
      <4>1. http'.alive = FALSE /\ http'.conns = << >>
        BY <2>0, <2>4, FreedGood DEF Close
      <4> QED BY <4>1
    <3>2. Client!Close
      BY <2>4, <3>1 DEF Close, Client!Close
    <3> QED BY <3>2 DEF Client!NextClient
  <2>5. ASSUME http.alive, http'.alive PROVE http'.alive = http.alive
    <3>1. http.alive \in BOOLEAN /\ http'.alive \in BOOLEAN
      BY HttpStep DEF HttpInv, Good, Handler
    <3> QED BY <2>5, <3>1
  <2>6. ASSUME NEW q \in 1..MaxQueries, http_host_lookup_cb(q)
        PROVE  UNCHANGED Client!clientVars
    BY <2>5, <2>6, LookupGood DEF http_host_lookup_cb, Called, Client!clientVars
  <2>7. ASSUME NEW c \in Ids, connect_cb(c) \/ ConnectCbAgain(c) \/ ReadData(c)
        PROVE  UNCHANGED Client!clientVars
    <3>1. http.alive /\ c \in Nat /\ UNCHANGED <<err, calls>>
      BY <2>7 DEF connect_cb, ConnectCbAgain, ReadData, Called, Ids
    <3>2. http'.alive /\ DOMAIN http'.conns = DOMAIN http.conns
      <4>1. CASE ConnectCbAgain(c)
        BY <2>0, <3>1, <4>1, ConnectedGood DEF ConnectCbAgain, Called
      <4> QED BY <2>7, <4>1, ConnectCbGood, ReadDataGood
    <3> QED BY <2>5, <3>1, <3>2 DEF Client!clientVars
  <2>8. ASSUME NEW c \in Ids, ConnectCbFails(c) \/ ReadFails(c) PROVE Client!Fail(c)
    <3>1. http.alive /\ err' = TRUE /\ UNCHANGED calls
      BY <2>8 DEF ConnectCbFails, ReadFails, Called
    <3>2. /\ http'.alive /\ c \in DOMAIN http.conns
          /\ DOMAIN http'.conns = DOMAIN http.conns \ {c}
      <4>1. CASE ReadFails(c)
        BY <2>0, <3>1, <4>1, InputListed, DestroyedGood DEF ReadFails
      <4> QED BY <2>8, <4>1, ConnectFailsGood
    <3> QED BY <2>5, <3>1, <3>2 DEF Client!Fail
  <2>9. ASSUME NEW c \in Ids, ReadEnds(c) PROVE \E e \in {err, TRUE} : Client!Callback(c, e)
    <3>1. /\ http.alive /\ err' \in {err, TRUE} /\ calls' = [calls EXCEPT ![c] = @ + 1]
          /\ http' = Destroyed(http, c) /\ c \in DOMAIN http.conns
      BY <2>9, InputListed DEF ReadEnds, Called
    <3>2. http'.alive /\ DOMAIN http'.conns = DOMAIN http.conns \ {c}
      BY <2>0, <3>1, DestroyedGood
    <3> QED BY <2>5, <3>1, <3>2 DEF Client!Callback
  <2>10. ASSUME NEW c \in Ids, ReadEndsAsking(c)
         PROVE  \E n \in Ids : Client!CallbackAsks(c, n)
    <3> DEFINE n == NewConn(http)
    <3>1. /\ http'.alive /\ http.alive /\ c \in DOMAIN http.conns
          /\ n \in Ids \ DOMAIN http.conns
          /\ DOMAIN http'.conns = (DOMAIN http.conns \ {c}) \union {n}
      BY <2>10, AskAgainGood
    <3>2. calls' = [calls EXCEPT ![n] = 0, ![c] = @ + 1] /\ UNCHANGED err
      BY <2>10 DEF ReadEndsAsking
    <3> HIDE DEF n
    <3>3. calls' = [[i \in Ids |-> IF i \in {n} THEN 0 ELSE calls[i]] EXCEPT ![c] = @ + 1]
      BY <2>0, <3>1, <3>2
    <3>4. Client!CallbackAsks(c, n)
      BY <2>5, <3>1, <3>2, <3>3 DEF Client!CallbackAsks, Client!Renamed
    <3> QED BY <3>1, <3>4
  <2> QED BY <2>1, <2>2, <2>3, <2>4, <2>6, <2>7, <2>8, <2>9, <2>10
          DEF Next, Client!NextClient
<1> QED BY <1>1, <1>2, HttpInit, HttpStep, PTL DEF Spec, ClientSpec, Client!SpecClient
=============================================================================
