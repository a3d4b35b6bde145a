----------------------------- MODULE HttpClient -----------------------------
(***************************************************************************)
(* What the HTTP client promises the plugin that uses it: a request in     *)
(* flight has its callback called once or reports an error of the account, *)
(* never both, and nothing comes of it once the handler is freed.  It may  *)
(* also stay in flight for ever: no request has a timeout.                 *)
(***************************************************************************)
EXTENDS Integers

CONSTANT Reqs  \* names of requests, free again when one is over

VARIABLES up,       \* the account has a handler
          pending,  \* requests in flight
          err,      \* an error is reported: libpurple will disconnect
          calls     \* callbacks called since each name was last given

clientVars == <<up, pending, err, calls>>

Renamed(N) == [r \in Reqs |-> IF r \in N THEN 0 ELSE calls[r]]

InitClient ==
    /\ up = FALSE /\ pending = {} /\ err = FALSE
    /\ calls = [r \in Reqs |-> 0]

(* The account logs in: a handler and its first request.                   *)
Open(r) ==
    /\ ~up /\ up' = TRUE
    /\ pending' = {r} /\ calls' = Renamed({r})
    /\ UNCHANGED err

Ask(r) ==
    /\ up /\ r \notin pending
    /\ pending' = pending \union {r} /\ calls' = Renamed({r})
    /\ UNCHANGED <<up, err>>

(* The callback of r, which may report an error (e) or ask for more.       *)
Callback(r, e) ==
    /\ up /\ r \in pending
    /\ pending' = pending \ {r}
    /\ calls' = [calls EXCEPT ![r] = @ + 1]
    /\ err' = e /\ UNCHANGED up

CallbackAsks(r, n) ==
    /\ up /\ r \in pending /\ n \notin pending
    /\ pending' = (pending \ {r}) \union {n}
    /\ calls' = [Renamed({n}) EXCEPT ![r] = @ + 1]
    /\ UNCHANGED <<up, err>>

Fail(r) ==
    /\ up /\ r \in pending
    /\ pending' = pending \ {r} /\ err' = TRUE
    /\ UNCHANGED <<up, calls>>

Close ==
    /\ up /\ up' = FALSE
    /\ pending' = {} /\ err' = FALSE
    /\ UNCHANGED calls

NextClient ==
    \/ Close
    \/ \E r \in Reqs :
        Open(r) \/ Ask(r) \/ Fail(r)
            \/ \E e \in {err, TRUE} : Callback(r, e)
            \/ \E n \in Reqs : CallbackAsks(r, n)

SpecClient == InitClient /\ [][NextClient]_clientVars
=============================================================================
