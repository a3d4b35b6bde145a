---------------------------- MODULE AccountLink ----------------------------
(***************************************************************************)
(* The link of each IM account (src/src/im/account.cpp,                    *)
(* src/src/irc/cmds_accounts.cpp): CONNECT, SQUIT, MAP add, edit and       *)
(* delete, JOIN and PART of chat rooms, the callbacks of libpurple on its  *)
(* connection, and the timer that reconnects after a network error.        *)
(*                                                                         *)
(* The number of that timer's GLib source, the delay and the rooms to join *)
(* are settings of the account.  libpurple saves them: they survive the    *)
(* process, the sources do not.                                            *)
(***************************************************************************)
EXTENDS Integers, FiniteSets

CONSTANTS Accounts, Chats,
          ProtocolOf, UserOf,  \* the protocol and the username of each account
          Home,      \* the account on whose network a room is
          Ids,       \* account IDs: a protocol and the number after its name
          BaseIds,   \* bound: other sources of a process (socket, ping timer)
          MaxId,     \* bound: last source number of a process
          MaxDelay,  \* bound: doublings of the delay
          MaxRuns    \* bound: processes, one after the other

ASSUME AccountLinkAssumption ==
    /\ BaseIds \in Nat \ {0} /\ MaxId \in Nat /\ MaxRuns \in Nat
    /\ MaxDelay \in Nat
    /\ "base" \notin Accounts

VARIABLES
    accs,     \* accounts libpurple has
    sid,      \* the ID of each, part of the name of its server
    enabled,  \* the setting "auto-login" of minbif
    link,     \* the connection: "off", "connecting", "on"
    error,    \* an error is reported and disconnect_cb() is due: "none",
              \* "soft", or "fatal" (wants_to_die)
    conf,     \* id-reconnect, delay-reconnect (doublings of 15 s), join_queue
    servers,  \* irc->servers, by name
    joining,  \* rooms asked for and not answered yet
    chats,    \* rooms with a conversation
    sources,  \* GLib sources: number and owner
    nextId,   \* the number of the next one
    run,      \* which process this is
    clashed,  \* history: server names two accounts have had in this process
    robbed    \* history: accounts that lost their timer to the settings of
              \* another one

linkVars == <<accs, sid, enabled, link, error, servers, clashed>>
roomVars == <<joining, chats>>
loopVars == <<sources, nextId, run, robbed>>
vars == <<linkVars, conf, roomVars, loopVars>>

(* getServername()                                                         *)
NameWith(a, i) == <<UserOf[a], i>>
Name(a) == NameWith(a, sid[a])
ServerNames == {NameWith(a, i) : a \in Accounts, i \in Ids}

(* The settings of an account without reconnection: the defaults.          *)
Fresh == [id |-> -1, delay |-> 0, queue |-> {}]
BaseSources(n) == {[id |-> i, owner |-> "base"] : i \in 1..n}

(* What disconnect_reason() and libpurple make of an error.                *)
Errors == {"network", "other", "auth"}
Retried(e) == e \in {"network", "other"}
Fatal(e) == e \in {"other", "auth"}

Timers(a) == {s \in sources : s.owner = a}
Armed(a) == Timers(a) # {}
-----------------------------------------------------------------------------
(* g_source_remove(id), for an id of the settings                          *)
Without(srcs, id) == IF id >= 0 THEN {s \in srcs : s.id # id} ELSE srcs

(* The other accounts whose timer has the number in the settings of a.     *)
Robs(a) == {b \in Accounts \ {a} :
              \E s \in Timers(b) : conf[a].id >= 0 /\ s.id = conf[a].id}

(* removeReconnection()                                                    *)
RemoveReconnection(a) ==
    /\ sources' = Without(sources, conf[a].id)
    /\ robbed' = robbed \cup Robs(a)
    /\ conf' = [conf EXCEPT ![a].id = -1, ![a].delay = 0]

(* Mutant: a timer that is already armed is forgotten.                     *)
DelayReconnectAgain(a) ==
    /\ nextId <= MaxId /\ conf[a].delay < MaxDelay
    /\ sources' = sources \cup {[id |-> nextId, owner |-> a]}
    /\ robbed' = robbed \ {a}
    /\ conf' = [conf EXCEPT ![a].id = nextId, ![a].delay = @ + 1]
    /\ nextId' = nextId + 1

(* delayReconnect()                                                        *)
DelayReconnect(a) ==
    /\ nextId <= MaxId /\ conf[a].delay < MaxDelay
    /\ sources' = Without(sources, conf[a].id)
                    \cup {[id |-> nextId, owner |-> a]}
    /\ robbed' = (robbed \cup Robs(a)) \ {a}
    /\ conf' = [conf EXCEPT ![a].id = nextId, ![a].delay = @ + 1]
    /\ nextId' = nextId + 1

(***************************************************************************)
(* disconnected(): abortChannelJoins() empties the queue, and the rooms,   *)
(* which libpurple has marked as left before, are destroyed and put into   *)
(* it.  Called whenever the connection goes, established or not.           *)
(***************************************************************************)
Requeued(a) == chats[a]
Disconnected(a) ==
    /\ link' = [link EXCEPT ![a] = "off"]
    /\ error' = [error EXCEPT ![a] = "none"]
    /\ servers' = servers \ {Name(a)}
    /\ joining' = [joining EXCEPT ![a] = {}]
    /\ chats' = [chats EXCEPT ![a] = {}]

(***************************************************************************)
(* connect(), purple_account_set_enabled(TRUE): nothing happens to an      *)
(* account that has a connection, be it one about to be dropped.           *)
(***************************************************************************)
SetEnabled(a) ==
    /\ enabled' = [enabled EXCEPT ![a] = TRUE]
    /\ link' = IF link[a] = "off" THEN [link EXCEPT ![a] = "connecting"] ELSE link
-----------------------------------------------------------------------------
(* A process starts: the socket, the ping timer and the like have sources, *)
(* how many depends on the configuration.                                  *)
StartLoop(srcs, next) ==
    \E n \in 1..BaseIds : srcs = BaseSources(n) /\ next = n + 1

(* A user with accounts that have never been connected                     *)
Init ==
    /\ accs = Accounts
    /\ sid \in [Accounts -> Ids]
    /\ \A a, b \in Accounts : sid[a] = sid[b] => a = b
    /\ clashed = {} /\ robbed = {}
    /\ enabled = [a \in Accounts |-> FALSE]
    /\ link = [a \in Accounts |-> "off"]
    /\ error = [a \in Accounts |-> "none"]
    /\ conf = [a \in Accounts |-> Fresh]
    /\ servers = {}
    /\ joining = [a \in Accounts |-> {}]
    /\ chats = [a \in Accounts |-> {}]
    /\ StartLoop(sources, nextId) /\ run = 1

(* m_connect()                                                             *)
Connect(a) ==
    /\ a \in accs
    /\ SetEnabled(a)
    /\ UNCHANGED <<accs, sid, error, servers, clashed, conf, roomVars, loopVars>>

(***************************************************************************)
(* m_squit(), disconnect().  libpurple does not close a connection that    *)
(* has met a fatal error: disconnect_cb() will.                            *)
(***************************************************************************)
Squit(a) ==
    /\ a \in accs
    /\ enabled' = [enabled EXCEPT ![a] = FALSE]
    /\ \/ /\ link[a] # "off" /\ error[a] # "fatal"
          /\ Disconnected(a)
          /\ sources' = Without(sources, conf[a].id)
          /\ robbed' = robbed \cup Robs(a)
          /\ conf' = [conf EXCEPT ![a] = [Fresh EXCEPT !.queue = Requeued(a)]]
       \/ /\ link[a] = "off" \/ error[a] = "fatal"
          /\ RemoveReconnection(a)
          /\ UNCHANGED <<link, error, servers, roomVars>>
    /\ UNCHANGED <<accs, sid, clashed, nextId, run>>

(* connected(): the timer goes, the server comes, the queue is flushed.    *)
Connected(a) ==
    /\ link[a] = "connecting" /\ error[a] = "none"
    /\ link' = [link EXCEPT ![a] = "on"]
    /\ servers' = servers \cup {Name(a)}
    /\ sources' = Without(sources, conf[a].id)
    /\ robbed' = robbed \cup Robs(a)
    /\ joining' = [joining EXCEPT ![a] = @ \cup conf[a].queue]
    /\ conf' = [conf EXCEPT ![a] = Fresh]
    /\ UNCHANGED <<accs, sid, enabled, error, clashed, chats, nextId, run>>

(* disconnect_reason(): libpurple reports the first error of a connection  *)
(* and closes it from a timer of 0 ms.                                     *)
DisconnectReason(a, e) ==
    /\ link[a] # "off" /\ error[a] = "none"
    /\ error' = [error EXCEPT ![a] = IF Fatal(e) THEN "fatal" ELSE "soft"]
    /\ IF Retried(e) THEN DelayReconnect(a) ELSE UNCHANGED <<conf, sources, nextId, robbed>>
    /\ UNCHANGED <<accs, sid, enabled, link, servers, clashed, roomVars, run>>

(* disconnect_cb() of libpurple                                            *)
Dropped(a) ==
    /\ link[a] # "off" /\ error[a] # "none"
    /\ Disconnected(a)
    /\ conf' = [conf EXCEPT ![a].queue = Requeued(a)]
    /\ UNCHANGED <<accs, sid, enabled, clashed, loopVars>>

(* Mutant: reconnect() resets the setting and connects nothing.            *)
ReconnectForgets(a) ==
    /\ Armed(a) /\ error[a] = "none"
    /\ \E s \in Timers(a) : sources' = sources \ {s}
    /\ conf' = [conf EXCEPT ![a].id = -1]
    /\ UNCHANGED <<linkVars, roomVars, nextId, run, robbed>>

(***************************************************************************)
(* reconnect(): the timer fires.  It waits half a minute at least, so a    *)
(* connection whose disconnect_cb() is due is closed before.               *)
(***************************************************************************)
Reconnect(a) ==
    /\ Armed(a) /\ error[a] = "none"
    /\ \E s \in Timers(a) : sources' = sources \ {s}
    /\ conf' = [conf EXCEPT ![a].id = -1]
    /\ SetEnabled(a)
    /\ UNCHANGED <<accs, sid, error, servers, clashed, roomVars, nextId, run, robbed>>
-----------------------------------------------------------------------------
(* m_join() of a room: at once, or when the account gets connected         *)
Join(a, c) ==
    /\ a \in accs /\ a = Home[c] /\ c \notin chats[a]
    /\ IF link[a] = "on"
       THEN /\ joining' = [joining EXCEPT ![a] = @ \cup {c}]
            /\ UNCHANGED conf
       ELSE /\ conf' = [conf EXCEPT ![a].queue = @ \cup {c}]
            /\ UNCHANGED joining
    /\ UNCHANGED <<linkVars, chats, loopVars>>

(* The network lets the user in, create() opens the channel.               *)
Joined(a, c) ==
    /\ c \in joining[a]
    /\ joining' = [joining EXCEPT ![a] = @ \ {c}]
    /\ chats' = [chats EXCEPT ![a] = @ \cup {c}]
    /\ UNCHANGED <<linkVars, conf, loopVars>>

(* The network refuses; check_channel_join() tells the user.               *)
Refused(a, c) ==
    /\ c \in joining[a]
    /\ joining' = [joining EXCEPT ![a] = @ \ {c}]
    /\ UNCHANGED <<linkVars, conf, chats, loopVars>>

(* m_part(): the user leaves and the conversation is destroyed.            *)
Part(a, c) ==
    /\ c \in chats[a]
    /\ chats' = [chats EXCEPT ![a] = @ \ {c}]
    /\ UNCHANGED <<linkVars, conf, joining, loopVars>>
-----------------------------------------------------------------------------
(* An ID the user types may not be that of another account, of whatever    *)
(* protocol (getAccount()).                                                *)
IdFree(i) == \A b \in accs : sid[b] # i

(* getNewAccountName(), the ID of an account the user gives none: the      *)
(* first number no other account of the same protocol has. An account of   *)
(* another protocol may have that ID.                                      *)
DefaultId(a, i) ==
    LET p == ProtocolOf[a]
        Taken(n) == \E b \in accs \ {a} : ProtocolOf[b] = p /\ sid[b] = <<p, n>>
    IN  i[1] = p /\ ~Taken(i[2]) /\ \A n \in 0..(i[2] - 1) : Taken(n)

(* setID(), with the names it makes two accounts share.                    *)
SetId(a, i) ==
    /\ sid' = [sid EXCEPT ![a] = i]
    /\ clashed' = clashed \cup
         {n \in {NameWith(a, i)} : \E b \in accs \ {a} : Name(b) = n}

(* Mutant: the ID of a connected account may be changed.                   *)
EditIdAnyTime(a, i) ==
    /\ a \in accs /\ (IdFree(i) \/ DefaultId(a, i))
    /\ SetId(a, i)
    /\ UNCHANGED <<accs, enabled, link, error, servers, conf, roomVars, loopVars>>

(* m_map_edit() of the ID, setOptions()                                    *)
EditId(a, i) ==
    /\ a \in accs /\ (IdFree(i) \/ DefaultId(a, i)) /\ link[a] # "on"
    /\ SetId(a, i)
    /\ UNCHANGED <<accs, enabled, link, error, servers, conf, roomVars, loopVars>>

(* m_map_add(): the account is enabled at once.                            *)
Add(a, i) ==
    /\ a \notin accs /\ (IdFree(i) \/ DefaultId(a, i))
    /\ accs' = accs \cup {a}
    /\ SetId(a, i)
    /\ conf' = [conf EXCEPT ![a] = Fresh]
    /\ SetEnabled(a)
    /\ UNCHANGED <<error, servers, roomVars, loopVars>>

(* Mutant: account_removed() leaves the timer alone.                       *)
DeleteKeepsTimer(a) ==
    /\ a \in accs
    /\ accs' = accs \ {a}
    /\ enabled' = [enabled EXCEPT ![a] = FALSE]
    /\ IF link[a] = "off" THEN UNCHANGED <<link, error, servers, roomVars>>
       ELSE Disconnected(a)
    /\ conf' = [conf EXCEPT ![a].queue = {}]
    /\ UNCHANGED <<sid, clashed, loopVars>>

(***************************************************************************)
(* m_map_delete(), purple_accounts_delete(): the connection is closed      *)
(* before or after account_removed() has removed the timer.                *)
(***************************************************************************)
Delete(a) ==
    /\ a \in accs
    /\ accs' = accs \ {a}
    /\ enabled' = [enabled EXCEPT ![a] = FALSE]
    /\ IF link[a] = "off" THEN UNCHANGED <<link, error, servers, roomVars>>
       ELSE Disconnected(a)
    /\ sources' = Without(sources, conf[a].id)
    /\ robbed' = robbed \cup Robs(a)
    /\ conf' = [conf EXCEPT ![a] = Fresh]
    /\ UNCHANGED <<sid, clashed, nextId, run>>

(***************************************************************************)
(* The session ends: ~IM() disconnects every account and libpurple saves   *)
(* the settings.  Another process starts and restore() connects the        *)
(* enabled accounts.                                                       *)
(***************************************************************************)
Restart ==
    /\ run < MaxRuns /\ run' = run + 1
    /\ conf' = [a \in Accounts |->
                  IF link[a] = "off" THEN conf[a]
                  ELSE [conf[a] EXCEPT !.queue = Requeued(a)]]
    /\ link' = [a \in Accounts |->
                  IF a \in accs /\ enabled[a] THEN "connecting" ELSE "off"]
    /\ error' = [a \in Accounts |-> "none"]
    /\ servers' = {}
    /\ clashed' = {n \in clashed : \E a, b \in accs : a # b /\ Name(a) = n /\ Name(b) = n}
    /\ robbed' = {}
    /\ joining' = [a \in Accounts |-> {}]
    /\ chats' = [a \in Accounts |-> {}]
    /\ StartLoop(sources', nextId')
    /\ UNCHANGED <<accs, sid, enabled>>

Next ==
    \/ \E a \in Accounts :
         \/ Connect(a) \/ Squit(a) \/ Connected(a)
         \/ Dropped(a) \/ Reconnect(a) \/ Delete(a)
         \/ \E e \in Errors : DisconnectReason(a, e)
         \/ \E i \in Ids : EditId(a, i) \/ Add(a, i)
         \/ \E c \in Chats : Join(a, c) \/ Joined(a, c) \/ Refused(a, c) \/ Part(a, c)
    \/ Restart

Spec == Init /\ [][Next]_vars

(* GLib serves a timer that is due, and the pending disconnect_cb().       *)
FairSpec == Spec /\ \A a \in Accounts : WF_vars(Reconnect(a)) /\ WF_vars(Dropped(a))
-----------------------------------------------------------------------------
TypeOK ==
    /\ accs \subseteq Accounts
    /\ sid \in [Accounts -> Ids]
    /\ enabled \in [Accounts -> BOOLEAN]
    /\ link \in [Accounts -> {"off", "connecting", "on"}]
    /\ error \in [Accounts -> {"none", "soft", "fatal"}]
    /\ conf \in [Accounts -> [id : Int, delay : Nat, queue : SUBSET Chats]]
    /\ servers \subseteq ServerNames
    /\ robbed \subseteq Accounts
    /\ joining \in [Accounts -> SUBSET Chats]
    /\ chats \in [Accounts -> SUBSET Chats]
    /\ sources \subseteq [id : Nat, owner : Accounts \cup {"base"}]
    /\ nextId \in Nat \ {0}
    /\ run \in Nat

(***************************************************************************)
(* An armed reconnect timer is always the one the settings of its account  *)
(* name, so there is at most one and removeReconnection() reaches it, how- *)
(* ever errors, CONNECT, SQUIT and restarts follow each other.             *)
(***************************************************************************)
TimerTracked == \A s \in sources : s.owner \in Accounts => s.id = conf[s.owner].id

(***************************************************************************)
(* No timer is left for an account the user has disconnected with SQUIT or *)
(* has deleted: it would connect it again, or use a freed PurpleAccount    *)
(* (reconnect(), account.cpp:963).                                         *)
(***************************************************************************)
QuietWhenUnwanted ==
    \A a \in Accounts : Armed(a) => a \in accs /\ enabled[a]

(***************************************************************************)
(* The IRC servers are those of the connected accounts, under the names    *)
(* these have now: MAP dereferences getServer() of each connected account, *)
(* and removeServer() would miss a server with another name. Names that    *)
(* two accounts have had are left out: their accounts share one server,    *)
(* and the first one to disconnect takes it away from the other            *)
(* (getNewAccountName() looks at the accounts of one protocol only).       *)
(***************************************************************************)
ServersMatch ==
    servers \ clashed = {Name(a) : a \in {b \in accs : link[b] = "on"}} \ clashed

(***************************************************************************)
(* An account whose connection broke with a retried error gets another     *)
(* attempt, in the first process and in any later one, whatever the        *)
(* settings say that the process before has saved: unless the user         *)
(* disconnects or deletes it first, the process ends, or a number another  *)
(* account has saved in an earlier process was that of its timer           *)
(* (delayReconnect(), account.h:181 "Auto reconnect to this account with a *)
(* delay.").                                                               *)
(***************************************************************************)
ComesBack ==
    \A a \in Accounts, r \in 1..MaxRuns :
        (run = r /\ Armed(a) /\ link[a] = "off")
            ~> \/ run > r \/ link[a] # "off" \/ ~enabled[a] \/ a \notin accs
               \/ run > 1 /\ a \in robbed
=============================================================================
