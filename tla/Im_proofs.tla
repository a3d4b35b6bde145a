------------------------------ MODULE Im_proofs ------------------------------
(***************************************************************************)
(* Theorems about what minbif keeps for libpurple: the accounts            *)
(* (AccountLink), for every set of accounts, rooms and IDs and every       *)
(* bound; the messages that wait in their conversations (ConvQueue), for   *)
(* any number and delay of them; the questions libpurple asks (Requests),  *)
(* for any questions.                                                      *)
(*                                                                         *)
(* AccountLink: a timer is only armed by DelayReconnect, under the number  *)
(* it writes into the settings, after the source the settings named before *)
(* has been removed. MAP add starts with fresh settings: TimerTracked also *)
(* needs that no timer is left of an account that does not exist, which is *)
(* QuietWhenUnwanted. That one needs to know that only an account that     *)
(* exists and is enabled, or one whose fatal error is already reported,    *)
(* has a connection: LinkWanted.                                           *)
(*                                                                         *)
(* ConvQueue: that each line is sent once and in order needs to know of    *)
(* the queue too. What is sent and what waits are together all that was    *)
(* accepted, in order while nothing has overtaken, and the messages that   *)
(* lines are joined to are numbered upwards (OrderInv).                    *)
(*                                                                         *)
(* Requests: the queue holds each open handle of libpurple once; a request *)
(* that waits has a value for each field before its position and has not   *)
(* run its callback; the prompt is the position of the first one           *)
(* (RequestsInv). Under it the names in the queue are a state of           *)
(* QuestionQueue.                                                          *)
(***************************************************************************)
EXTENDS AccountLink, ConvQueue, Requests,
        FiniteSetTheorems, SequenceTheorems, WellFoundedInduction, TLAPS

(* An account with a connection exists, and is enabled unless its fatal    *)
(* error is already reported.                                              *)
LinkWanted ==
    \A a \in Accounts : link[a] # "off" =>
        a \in accs /\ (enabled[a] \/ error[a] = "fatal")

LinkInv == TypeOK /\ TimerTracked /\ LinkWanted /\ QuietWhenUnwanted

(* Two accounts that share the name of a server are known to.              *)
ShareKnown ==
    \A a, b \in accs : a # b /\ Name(a) = Name(b) => Name(a) \in clashed
-----------------------------------------------------------------------------
(* What disconnected() leaves behind is well typed.                        *)
LEMMA DisconnectedType ==
    ASSUME NEW a \in Accounts, TypeOK, Disconnected(a)
    PROVE  /\ link' \in [Accounts -> {"off", "connecting", "on"}]
           /\ error' \in [Accounts -> {"none", "soft", "fatal"}]
           /\ servers' \subseteq ServerNames
           /\ joining' \in [Accounts -> SUBSET Chats]
           /\ chats' \in [Accounts -> SUBSET Chats]
           /\ Requeued(a) \in SUBSET Chats
BY DEF TypeOK, Disconnected, Requeued

(* Removing a source leaves sources.                                       *)
LEMMA WithoutSubset ==
    ASSUME NEW S, NEW id
    PROVE  Without(S, id) \subseteq S
BY DEF Without

(* What a step says of lost timers is about accounts.                      *)
LEMMA RobsType == ASSUME NEW a PROVE Robs(a) \subseteq Accounts
BY DEF Robs

(* A server gets the name of an account.                                   *)
LEMMA NameType == ASSUME TypeOK, NEW a \in Accounts PROVE Name(a) \in ServerNames
BY DEF TypeOK, Name, ServerNames

(* connect() keeps the types.                                              *)
LEMMA SetEnabledType ==
    ASSUME NEW a \in Accounts, TypeOK, SetEnabled(a)
    PROVE  /\ enabled' \in [Accounts -> BOOLEAN]
           /\ link' \in [Accounts -> {"off", "connecting", "on"}]
BY DEF TypeOK, SetEnabled

(* The sources of a new process are well typed.                            *)
LEMMA BaseType ==
    ASSUME NEW n \in 1..BaseIds
    PROVE  /\ BaseSources(n) \subseteq [id : Nat, owner : Accounts \cup {"base"}]
           /\ n + 1 \in Nat \ {0}
BY AccountLinkAssumption DEF BaseSources

(* Every step keeps the types.                                             *)
LEMMA TypeCorrectStep ==
    ASSUME TypeOK, [Next]_vars
    PROVE  TypeOK'
<1>1. ASSUME NEW a \in Accounts, Connect(a) PROVE TypeOK'
  BY <1>1, SetEnabledType DEF Connect, TypeOK, roomVars, loopVars
<1>2. ASSUME NEW a \in Accounts, Squit(a) PROVE TypeOK'
  <2>1. CASE link[a] # "off" /\ error[a] # "fatal" /\ Disconnected(a)
             /\ sources' = Without(sources, conf[a].id)
             /\ conf' = [conf EXCEPT ![a] = [Fresh EXCEPT !.queue = Requeued(a)]]
    BY <1>2, <2>1, DisconnectedType, WithoutSubset, RobsType, SMTT(40) DEF Squit, TypeOK, Fresh
  <2>2. CASE RemoveReconnection(a) /\ UNCHANGED <<link, error, servers, roomVars>>
    BY <1>2, <2>2, WithoutSubset, RobsType DEF Squit, TypeOK, RemoveReconnection, roomVars
  <2> QED
    BY <1>2, <2>1, <2>2 DEF Squit
<1>3. ASSUME NEW a \in Accounts, Connected(a) PROVE TypeOK'
  BY <1>3, WithoutSubset, RobsType, NameType DEF Connected, TypeOK, Fresh
<1>4. ASSUME NEW a \in Accounts, NEW e \in Errors, DisconnectReason(a, e) PROVE TypeOK'
  <2>1. /\ sources' \subseteq [id : Nat, owner : Accounts \cup {"base"}]
        /\ conf' \in [Accounts -> [id : Int, delay : Nat, queue : SUBSET Chats]]
        /\ nextId' \in Nat \ {0} /\ robbed' \subseteq Accounts
    BY <1>4, WithoutSubset, RobsType DEF DisconnectReason, DelayReconnect, TypeOK
  <2> QED
    BY <1>4, <2>1 DEF DisconnectReason, TypeOK, roomVars
<1>5. ASSUME NEW a \in Accounts, Dropped(a) PROVE TypeOK'
  BY <1>5, DisconnectedType DEF Dropped, TypeOK, loopVars
<1>6. ASSUME NEW a \in Accounts, Reconnect(a) PROVE TypeOK'
  <2>1. sources' \subseteq sources
    BY <1>6 DEF Reconnect
  <2>2. conf' \in [Accounts -> [id : Int, delay : Nat, queue : SUBSET Chats]]
    BY <1>6 DEF Reconnect, TypeOK
  <2> QED
    <3>1. /\ enabled' \in [Accounts -> BOOLEAN]
          /\ link' \in [Accounts -> {"off", "connecting", "on"}]
      BY <1>6, SetEnabledType DEF Reconnect
    <3>2. UNCHANGED <<accs, sid, error, servers, robbed, joining, chats, nextId, run>>
      BY <1>6 DEF Reconnect, roomVars
    <3> QED
      BY <2>1, <2>2, <3>1, <3>2 DEF TypeOK
<1>7. ASSUME NEW a \in Accounts, NEW c \in Chats, Join(a, c) PROVE TypeOK'
  <2>1. /\ conf' \in [Accounts -> [id : Int, delay : Nat, queue : SUBSET Chats]]
        /\ joining' \in [Accounts -> SUBSET Chats]
    <3>1. CASE link[a] = "on"
      BY <1>7, <3>1 DEF Join, TypeOK
    <3>2. CASE link[a] # "on"
      <4>1. joining' = joining /\ conf' = [conf EXCEPT ![a].queue = @ \cup {c}]
        BY <1>7, <3>2 DEF Join
      <4>2. conf[a].queue \cup {c} \in SUBSET Chats
        BY <1>7 DEF TypeOK
      <4> QED
        BY <4>1, <4>2 DEF TypeOK
    <3> QED
      BY <3>1, <3>2
  <2>2. UNCHANGED <<accs, sid, enabled, link, error, servers, chats,
                    sources, nextId, run, robbed>>
    BY <1>7 DEF Join, linkVars, loopVars
  <2> QED
    BY <2>1, <2>2 DEF TypeOK
<1>8. ASSUME NEW a \in Accounts, NEW c \in Chats, Joined(a, c) PROVE TypeOK'
  BY <1>8 DEF Joined, TypeOK, linkVars, loopVars
<1>9. ASSUME NEW a \in Accounts, NEW c \in Chats, Refused(a, c) PROVE TypeOK'
  BY <1>9 DEF Refused, TypeOK, linkVars, loopVars
<1>10. ASSUME NEW a \in Accounts, NEW c \in Chats, Part(a, c) PROVE TypeOK'
  BY <1>10 DEF Part, TypeOK, linkVars, loopVars
<1>11. ASSUME NEW a \in Accounts, NEW i \in Ids, EditId(a, i) PROVE TypeOK'
  BY <1>11 DEF EditId, SetId, TypeOK, roomVars, loopVars
<1>12. ASSUME NEW a \in Accounts, NEW i \in Ids, Add(a, i) PROVE TypeOK'
  BY <1>12, SetEnabledType DEF Add, SetId, TypeOK, Fresh, roomVars, loopVars
<1>13. ASSUME NEW a \in Accounts, Delete(a) PROVE TypeOK'
  <2>1. /\ link' \in [Accounts -> {"off", "connecting", "on"}]
        /\ error' \in [Accounts -> {"none", "soft", "fatal"}]
        /\ servers' \subseteq ServerNames
        /\ joining' \in [Accounts -> SUBSET Chats]
        /\ chats' \in [Accounts -> SUBSET Chats]
    <3>1. CASE link[a] = "off" BY <1>13, <3>1 DEF Delete, TypeOK, roomVars
    <3>2. CASE link[a] # "off" BY <1>13, <3>2, DisconnectedType DEF Delete
    <3> QED BY <3>1, <3>2
  <2>2. /\ accs' \subseteq Accounts /\ UNCHANGED <<sid, nextId, run>>
        /\ enabled' \in [Accounts -> BOOLEAN]
        /\ sources' \subseteq sources /\ robbed' \subseteq Accounts
        /\ conf' \in [Accounts -> [id : Int, delay : Nat, queue : SUBSET Chats]]
    BY <1>13, WithoutSubset, RobsType DEF Delete, TypeOK, Fresh
  <2> QED BY <2>1, <2>2 DEF TypeOK
<1>14. CASE Restart
  <2>1. PICK n \in 1..BaseIds : sources' = BaseSources(n) /\ nextId' = n + 1
    BY <1>14 DEF Restart, StartLoop
  <2>2. conf' \in [Accounts -> [id : Int, delay : Nat, queue : SUBSET Chats]]
    <3>1. ASSUME NEW a \in Accounts
          PROVE  [conf[a] EXCEPT !.queue = Requeued(a)]
                   \in [id : Int, delay : Nat, queue : SUBSET Chats]
      <4>1. /\ conf[a] \in [id : Int, delay : Nat, queue : SUBSET Chats]
            /\ Requeued(a) \in SUBSET Chats
        BY DEF TypeOK, Requeued
      <4> QED
        BY <4>1
    <3>2. \A a \in Accounts : conf[a] \in [id : Int, delay : Nat, queue : SUBSET Chats]
      BY DEF TypeOK
    <3>3. conf' = [a \in Accounts |->
                     IF link[a] = "off" THEN conf[a]
                     ELSE [conf[a] EXCEPT !.queue = Requeued(a)]]
      BY <1>14 DEF Restart
    <3> QED
      BY <3>1, <3>2, <3>3
  <2>3. /\ sources' \subseteq [id : Nat, owner : Accounts \cup {"base"}]
        /\ nextId' \in Nat \ {0}
    BY <2>1, BaseType
  <2>4. /\ link' \in [Accounts -> {"off", "connecting", "on"}]
        /\ error' \in [Accounts -> {"none", "soft", "fatal"}]
        /\ servers' \subseteq ServerNames /\ robbed' \subseteq Accounts
    BY <1>14 DEF Restart
  <2>5. joining' \in [Accounts -> SUBSET Chats] /\ chats' \in [Accounts -> SUBSET Chats]
    BY <1>14 DEF Restart
  <2>6. accs' = accs /\ sid' = sid /\ enabled' = enabled /\ run' = run + 1
    BY <1>14 DEF Restart
  <2> QED
    BY <2>2, <2>3, <2>4, <2>5, <2>6 DEF TypeOK
<1>15. CASE UNCHANGED vars
  BY <1>15 DEF vars, linkVars, roomVars, loopVars, TypeOK
<1> QED
  BY <1>1, <1>2, <1>3, <1>4, <1>5, <1>6, <1>7, <1>8, <1>9, <1>10, <1>11,
     <1>12, <1>13, <1>14, <1>15 DEF Next

(***************************************************************************)
(* Type correctness of the model of account.cpp.                           *)
(***************************************************************************)
THEOREM TypeCorrect == Spec => []TypeOK
<1>1. Init => TypeOK
  <2> SUFFICES ASSUME Init PROVE TypeOK
    OBVIOUS
  <2>1. PICK n \in 1..BaseIds : sources = BaseSources(n) /\ nextId = n + 1
    BY DEF Init, StartLoop
  <2> QED
    BY <2>1, BaseType DEF Init, TypeOK, Fresh
<1>2. TypeOK /\ [Next]_vars => TypeOK'
  BY TypeCorrectStep
<1> QED
  BY <1>1, <1>2, PTL DEF Spec
-----------------------------------------------------------------------------
(***************************************************************************)
(* Every step keeps the timers tracked.                                    *)
(***************************************************************************)
LEMMA TimerStep ==
    ASSUME TypeOK, TimerTracked, QuietWhenUnwanted, [Next]_vars
    PROVE  TimerTracked'
<1>1. ASSUME NEW a \in Accounts, sources' \subseteq Without(sources, conf[a].id),
             \A b \in Accounts \ {a} : conf'[b].id = conf[b].id
      PROVE  TimerTracked'
  <2>1. ASSUME NEW s \in sources', s.owner \in Accounts PROVE s.id = conf'[s.owner].id
    <3>1. s \in sources /\ s.id \in Nat /\ s.id = conf[s.owner].id
      BY <1>1, <2>1, WithoutSubset DEF TypeOK, TimerTracked
    <3>2. s.owner # a
      BY <1>1, <2>1, <3>1 DEF Without
    <3> QED
      BY <1>1, <2>1, <3>1, <3>2
  <2> QED
    BY <2>1 DEF TimerTracked
<1>2. ASSUME sources' \subseteq sources, \A b \in Accounts : conf'[b].id = conf[b].id
      PROVE  TimerTracked'
  BY <1>2 DEF TimerTracked
<1>3. ASSUME NEW a \in Accounts, Connect(a) PROVE TimerTracked'
  BY <1>3, <1>2 DEF Connect, loopVars
<1>4. ASSUME NEW a \in Accounts, Squit(a) PROVE TimerTracked'
  BY <1>4, <1>1 DEF Squit, RemoveReconnection, TypeOK
<1>5. ASSUME NEW a \in Accounts, Connected(a) PROVE TimerTracked'
  BY <1>5, <1>1 DEF Connected, TypeOK
<1>6. ASSUME NEW a \in Accounts, NEW e \in Errors, DisconnectReason(a, e)
      PROVE  TimerTracked'
  <2>1. CASE DelayReconnect(a)
    <3> DEFINE new == [id |-> nextId, owner |-> a]
    <3>1. /\ sources' = Without(sources, conf[a].id) \cup {new}
          /\ conf'[a].id = nextId
          /\ \A b \in Accounts \ {a} : conf'[b].id = conf[b].id
      BY <2>1 DEF DelayReconnect, TypeOK
    <3>2. ASSUME NEW s \in Without(sources, conf[a].id), s.owner \in Accounts
          PROVE  s.id = conf'[s.owner].id
      <4>1. s \in sources /\ s.id \in Nat /\ s.id = conf[s.owner].id
        BY <3>2, WithoutSubset DEF TypeOK, TimerTracked
      <4>2. s.owner # a
        BY <3>2, <4>1 DEF Without
      <4> QED
        BY <3>1, <3>2, <4>1, <4>2
    <3>3. new.owner = a /\ new.id = conf'[a].id
      BY <3>1
    <3> QED
      BY <3>1, <3>2, <3>3 DEF TimerTracked
  <2>2. CASE UNCHANGED <<conf, sources, nextId>>
    BY <2>2, <1>2
  <2> QED
    BY <1>6, <2>1, <2>2 DEF DisconnectReason
<1>7. ASSUME NEW a \in Accounts, Dropped(a) PROVE TimerTracked'
  BY <1>7, <1>2 DEF Dropped, TypeOK, loopVars
<1>8. ASSUME NEW a \in Accounts, Reconnect(a) PROVE TimerTracked'
  <2>1. PICK t \in Timers(a) : sources' = sources \ {t}
    BY <1>8 DEF Reconnect
  <2>2. \A s \in sources : s.owner = a => s = t
    <3>1. ASSUME NEW s \in sources, s.owner = a PROVE s = t
      <4>1. t \in sources /\ t.owner = a
        BY <2>1 DEF Timers
      <4>2. s.id = t.id
        BY <3>1, <4>1 DEF TimerTracked
      <4>3. /\ s \in [id : Nat, owner : Accounts \cup {"base"}]
            /\ t \in [id : Nat, owner : Accounts \cup {"base"}]
        BY <3>1, <4>1 DEF TypeOK
      <4> QED
        BY <3>1, <4>1, <4>2, <4>3
    <3> QED
      BY <3>1
  <2>3. \A b \in Accounts \ {a} : conf'[b].id = conf[b].id
    BY <1>8 DEF Reconnect, TypeOK
  <2> QED
    BY <2>1, <2>2, <2>3 DEF TimerTracked
<1>9. ASSUME NEW a \in Accounts, NEW c \in Chats,
             Join(a, c) \/ Joined(a, c) \/ Refused(a, c) \/ Part(a, c)
      PROVE  TimerTracked'
  <2>1. CASE Join(a, c)
    <3>1. conf' = conf \/ conf' = [conf EXCEPT ![a].queue = @ \cup {c}]
      BY <2>1 DEF Join
    <3>2. \A b \in Accounts : conf'[b].id = conf[b].id BY <3>1 DEF TypeOK
    <3> QED BY <1>2, <2>1, <3>2 DEF Join, loopVars
  <2>2. CASE Joined(a, c) \/ Refused(a, c) \/ Part(a, c)
    BY <1>2, <2>2 DEF Joined, Refused, Part, loopVars
  <2> QED BY <1>9, <2>1, <2>2
<1>10. ASSUME NEW a \in Accounts, NEW i \in Ids, EditId(a, i) PROVE TimerTracked'
  BY <1>10, <1>2 DEF EditId, loopVars
<1>14. ASSUME NEW a \in Accounts, NEW i \in Ids, Add(a, i) PROVE TimerTracked'
  <2>1. \A s \in sources : s.owner # a
    BY <1>14 DEF Add, QuietWhenUnwanted, Armed, Timers
  <2> QED
    BY <1>14, <2>1 DEF Add, TypeOK, TimerTracked, loopVars
<1>11. ASSUME NEW a \in Accounts, Delete(a) PROVE TimerTracked'
  BY <1>11, <1>1 DEF Delete, TypeOK
<1>12. CASE Restart
  <2>1. \A s \in sources' : s.owner = "base"
    BY <1>12 DEF Restart, StartLoop, BaseSources
  <2> QED
    BY <2>1, AccountLinkAssumption DEF TimerTracked
<1>13. CASE UNCHANGED vars
  BY <1>13, <1>2 DEF vars, loopVars
<1> QED
  BY <1>3, <1>4, <1>5, <1>6, <1>7, <1>8, <1>9, <1>10, <1>11, <1>12, <1>13, <1>14
     DEF Next

(***************************************************************************)
(* After a step that aborts the reconnection of a, a has no timer.         *)
(***************************************************************************)
LEMMA AbortReaches ==
    ASSUME TypeOK, TimerTracked, NEW a \in Accounts,
           sources' = Without(sources, conf[a].id)
    PROVE  \A b \in Accounts : Armed(b)' => b # a /\ Armed(b)
<1>1. ASSUME NEW s \in sources' PROVE s \in sources /\ s.owner # a
  <2>1. s \in sources
    BY <1>1, WithoutSubset
  <2>2. s.id \in Nat
    BY <2>1 DEF TypeOK
  <2>3. s.owner = a => s.id = conf[a].id
    BY <2>1 DEF TimerTracked
  <2> QED
    BY <1>1, <2>1, <2>2, <2>3 DEF Without
<1> QED
  BY <1>1 DEF Armed, Timers

(***************************************************************************)
(* Every step keeps connections and timers to the accounts that are wanted.*)
(***************************************************************************)
LEMMA WantedStep ==
    ASSUME LinkInv, [Next]_vars
    PROVE  LinkWanted' /\ QuietWhenUnwanted'
<1> USE DEF LinkInv
<1>1. ASSUME NEW a \in Accounts, Connect(a) PROVE LinkWanted' /\ QuietWhenUnwanted'
  <2>1. \A b \in Accounts : Armed(b)' => Armed(b)
    BY <1>1 DEF Connect, loopVars, Armed, Timers
  <2> QED
    BY <1>1, <2>1 DEF Connect, SetEnabled, TypeOK, LinkWanted, QuietWhenUnwanted
<1>2. ASSUME NEW a \in Accounts, Squit(a) PROVE LinkWanted' /\ QuietWhenUnwanted'
  <2>1. sources' = Without(sources, conf[a].id)
    BY <1>2 DEF Squit, RemoveReconnection
  <2>2. \A b \in Accounts : Armed(b)' => b # a /\ Armed(b)
    BY <2>1, AbortReaches
  <2>3. QuietWhenUnwanted'
    BY <1>2, <2>2 DEF Squit, TypeOK, QuietWhenUnwanted
  <2>4. LinkWanted'
    BY <1>2 DEF Squit, Disconnected, TypeOK, LinkWanted
  <2> QED
    BY <2>3, <2>4
<1>3. ASSUME NEW a \in Accounts, Connected(a) PROVE LinkWanted' /\ QuietWhenUnwanted'
  <2>1. \A b \in Accounts : Armed(b)' => Armed(b)
    BY <1>3, AbortReaches DEF Connected
  <2> QED
    BY <1>3, <2>1 DEF Connected, TypeOK, LinkWanted, QuietWhenUnwanted
<1>4. ASSUME NEW a \in Accounts, NEW e \in Errors, DisconnectReason(a, e)
      PROVE  LinkWanted' /\ QuietWhenUnwanted'
  <2>1. a \in accs /\ enabled[a]
    BY <1>4 DEF DisconnectReason, LinkWanted
  <2>2. \A b \in Accounts : Armed(b)' => b = a \/ Armed(b)
    <3>1. \A s \in sources' : s \in sources \/ s.owner = a
      BY <1>4, WithoutSubset DEF DisconnectReason, DelayReconnect
    <3> QED
      BY <3>1 DEF Armed, Timers
  <2> QED
    BY <1>4, <2>1, <2>2 DEF DisconnectReason, TypeOK, LinkWanted, QuietWhenUnwanted
<1>5. ASSUME NEW a \in Accounts, Dropped(a) PROVE LinkWanted' /\ QuietWhenUnwanted'
  <2>1. \A b \in Accounts : Armed(b)' => Armed(b)
    BY <1>5 DEF Dropped, loopVars, Armed, Timers
  <2> QED
    BY <1>5, <2>1 DEF Dropped, Disconnected, TypeOK, LinkWanted, QuietWhenUnwanted
<1>6. ASSUME NEW a \in Accounts, Reconnect(a) PROVE LinkWanted' /\ QuietWhenUnwanted'
  <2>1. \A b \in Accounts : Armed(b)' => Armed(b)
    BY <1>6 DEF Reconnect, Armed, Timers
  <2>2. a \in accs
    BY <1>6 DEF Reconnect, QuietWhenUnwanted
  <2>3. /\ \A b \in Accounts : enabled'[b] = (b = a \/ enabled[b])
        /\ \A b \in Accounts : link'[b] # "off" => b = a \/ link[b] # "off"
        /\ accs' = accs /\ error' = error
    BY <1>6 DEF Reconnect, SetEnabled, TypeOK
  <2> QED
    BY <2>1, <2>2, <2>3 DEF LinkWanted, QuietWhenUnwanted
<1>7. ASSUME NEW a \in Accounts, NEW c \in Chats,
             Join(a, c) \/ Joined(a, c) \/ Refused(a, c) \/ Part(a, c)
      PROVE  LinkWanted' /\ QuietWhenUnwanted'
  BY <1>7 DEF Join, Joined, Refused, Part, linkVars, loopVars, LinkWanted,
              QuietWhenUnwanted, Armed, Timers
<1>8. ASSUME NEW a \in Accounts, NEW i \in Ids, EditId(a, i)
      PROVE  LinkWanted' /\ QuietWhenUnwanted'
  BY <1>8 DEF EditId, loopVars, LinkWanted, QuietWhenUnwanted, Armed, Timers
<1>9. ASSUME NEW a \in Accounts, NEW i \in Ids, Add(a, i)
      PROVE  LinkWanted' /\ QuietWhenUnwanted'
  <2>1. \A b \in Accounts : Armed(b)' => Armed(b)
    BY <1>9 DEF Add, loopVars, Armed, Timers
  <2> QED
    BY <1>9, <2>1 DEF Add, SetEnabled, TypeOK, LinkWanted, QuietWhenUnwanted
<1>10. ASSUME NEW a \in Accounts, Delete(a) PROVE LinkWanted' /\ QuietWhenUnwanted'
  <2>1. \A b \in Accounts : Armed(b)' => b # a /\ Armed(b)
    BY <1>10, AbortReaches DEF Delete
  <2> QED
    BY <1>10, <2>1 DEF Delete, Disconnected, TypeOK, LinkWanted, QuietWhenUnwanted
<1>11. CASE Restart
  <2>1. \A s \in sources' : s.owner = "base"
    BY <1>11 DEF Restart, StartLoop, BaseSources
  <2>2. QuietWhenUnwanted'
    BY <2>1, AccountLinkAssumption DEF QuietWhenUnwanted, Armed, Timers
  <2>3. LinkWanted'
    BY <1>11 DEF Restart, TypeOK, LinkWanted
  <2> QED
    BY <2>2, <2>3
<1>12. CASE UNCHANGED vars
  BY <1>12 DEF vars, linkVars, loopVars, LinkWanted, QuietWhenUnwanted, Armed, Timers
<1> QED
  BY <1>1, <1>2, <1>3, <1>4, <1>5, <1>6, <1>7, <1>8, <1>9, <1>10, <1>11, <1>12
     DEF Next

(* The invariant holds at first and in every state.                        *)
LEMMA LinkInvHolds == Spec => []LinkInv
<1>1. Init => TimerTracked /\ LinkWanted /\ QuietWhenUnwanted
  <2> SUFFICES ASSUME Init PROVE TimerTracked /\ LinkWanted /\ QuietWhenUnwanted
    OBVIOUS
  <2>1. \A s \in sources : s.owner = "base"
    BY DEF Init, StartLoop, BaseSources
  <2> QED
    BY <2>1, AccountLinkAssumption
       DEF Init, TimerTracked, LinkWanted, QuietWhenUnwanted, Armed, Timers
<1>2. LinkInv /\ [Next]_vars /\ TypeOK' => LinkInv'
  BY TimerStep, WantedStep DEF LinkInv
<1>3. TypeOK /\ TimerTracked /\ LinkWanted /\ QuietWhenUnwanted => LinkInv
  BY DEF LinkInv
<1> QED
  BY <1>1, <1>2, <1>3, TypeCorrect, PTL DEF Spec

(***************************************************************************)
(* However errors, CONNECT, SQUIT, MAP and restarts follow each other, an  *)
(* armed timer is the one its account's settings name: there is at most    *)
(* one, and removeReconnection() reaches it.                               *)
(***************************************************************************)
THEOREM TimerTrackedHolds == Spec => []TimerTracked
<1>1. LinkInv => TimerTracked
  BY DEF LinkInv
<1> QED
  BY <1>1, LinkInvHolds, PTL

(***************************************************************************)
(* No timer is armed for an account that the user has disconnected or      *)
(* deleted.                                                                *)
(***************************************************************************)
THEOREM QuietHolds == Spec => []QuietWhenUnwanted
<1>1. LinkInv => QuietWhenUnwanted
  BY DEF LinkInv
<1> QED
  BY <1>1, LinkInvHolds, PTL

(* Every step keeps it known which accounts share the name of a server.    *)
LEMMA ShareStep ==
    ASSUME TypeOK, ShareKnown, [Next]_vars
    PROVE  ShareKnown'
<1>1. ASSUME accs' \subseteq accs, sid' = sid,
             \A a, b \in accs : a # b /\ Name(a) = Name(b) => Name(a) \in clashed'
      PROVE  ShareKnown'
  BY <1>1 DEF ShareKnown, Name, NameWith
<1>2. ASSUME NEW a \in Accounts, NEW i \in Ids, SetId(a, i), accs' = accs \cup {a}
      PROVE  ShareKnown'
  <2>1. /\ \A b \in accs \ {a} : Name(b)' = Name(b) /\ b \in Accounts
        /\ Name(a)' = NameWith(a, i) /\ clashed \subseteq clashed'
        /\ (\E b \in accs \ {a} : Name(b) = NameWith(a, i)) => NameWith(a, i) \in clashed'
    BY <1>2 DEF SetId, TypeOK, Name, NameWith
  <2>2. ASSUME NEW b \in accs', NEW c \in accs', b # c, Name(b)' = Name(c)'
        PROVE  Name(b)' \in clashed'
    <3>1. CASE b # a /\ c # a
      <4>1. b \in accs /\ c \in accs /\ Name(b)' = Name(b) /\ Name(c)' = Name(c)
        BY <1>2, <2>1, <3>1
      <4>2. Name(b) \in clashed BY <2>2, <4>1 DEF ShareKnown
      <4> QED BY <2>1, <4>1, <4>2
    <3>2. CASE b = a
      <4>1. c \in accs \ {a} BY <1>2, <2>2, <3>2
      <4>2. Name(b)' = NameWith(a, i) /\ Name(c) = NameWith(a, i) BY <2>1, <2>2, <3>2, <4>1
      <4> QED BY <2>1, <4>1, <4>2
    <3>3. CASE c = a
      <4>1. b \in accs \ {a} BY <1>2, <2>2, <3>3
      <4>2. Name(b)' = NameWith(a, i) /\ Name(b) = NameWith(a, i) BY <2>1, <2>2, <3>3, <4>1
      <4> QED BY <2>1, <4>1, <4>2
    <3> QED BY <3>1, <3>2, <3>3
  <2> QED BY <2>2 DEF ShareKnown
<1>3. ASSUME accs' \subseteq accs, UNCHANGED <<sid, clashed>> PROVE ShareKnown'
  BY <1>1, <1>3 DEF ShareKnown
<1>4. ASSUME NEW a \in Accounts,
             \/ Connect(a) \/ Squit(a) \/ Connected(a) \/ Dropped(a) \/ Reconnect(a) \/ Delete(a)
             \/ \E e \in Errors : DisconnectReason(a, e)
             \/ \E c \in Chats : Join(a, c) \/ Joined(a, c) \/ Refused(a, c) \/ Part(a, c)
      PROVE  ShareKnown'
  <2>1. accs' \subseteq accs /\ UNCHANGED <<sid, clashed>>
    BY <1>4 DEF Connect, Squit, Connected, Dropped, Reconnect, Delete, DisconnectReason,
                Join, Joined, Refused, Part, linkVars
  <2> QED BY <1>3, <2>1
<1>5. ASSUME NEW a \in Accounts, NEW i \in Ids, EditId(a, i) \/ Add(a, i) PROVE ShareKnown'
  <2>1. SetId(a, i) /\ accs' = accs \cup {a} BY <1>5 DEF EditId, Add
  <2> QED BY <1>2, <2>1
<1>6. CASE Restart
  <2>1. /\ accs' = accs /\ sid' = sid
        /\ clashed' = {n \in clashed : \E a, b \in accs : a # b /\ Name(a) = n /\ Name(b) = n}
    BY <1>6 DEF Restart
  <2>2. \A a, b \in accs : a # b /\ Name(a) = Name(b) => Name(a) \in clashed'
    <3> SUFFICES ASSUME NEW a \in accs, NEW b \in accs, a # b, Name(a) = Name(b)
                 PROVE  Name(a) \in clashed'
      OBVIOUS
    <3>1. Name(a) \in clashed BY DEF ShareKnown
    <3> QED BY <2>1, <3>1
  <2> QED BY <1>1, <2>1, <2>2
<1>7. CASE UNCHANGED vars BY <1>3, <1>7 DEF vars, linkVars
<1> QED BY <1>4, <1>5, <1>6, <1>7 DEF Next

(***************************************************************************)
(* The IRC servers are those of the connected accounts, under their names  *)
(* of now: MAP never finds a connected account without its server, unless  *)
(* another account had the same name.                                      *)
(***************************************************************************)
THEOREM ServersMatchHolds == Spec => []ServersMatch
<1>1. Init => ServersMatch /\ ShareKnown
  <2> SUFFICES ASSUME Init PROVE ServersMatch /\ ShareKnown OBVIOUS
  <2>1. \A a \in Accounts : link[a] = "off" BY DEF Init
  <2>2. {b \in accs : link[b] = "on"} = {} BY <2>1 DEF Init
  <2>3. ServersMatch BY <2>2 DEF Init, ServersMatch
  <2>4. ShareKnown BY DEF Init, ShareKnown, Name, NameWith
  <2> QED BY <2>3, <2>4
<1>2. LinkInv /\ ServersMatch /\ ShareKnown /\ [Next]_vars => ServersMatch' /\ ShareKnown'
  <2> SUFFICES ASSUME TypeOK, LinkWanted, ServersMatch, ShareKnown, [Next]_vars
               PROVE  ServersMatch'
    BY ShareStep DEF LinkInv
  <2> DEFINE On == {b \in accs : link[b] = "on"}
             NewOn == {b \in accs' : link'[b] = "on"}
             Names == {Name(b) : b \in On}
  <2>0. servers \ clashed = Names \ clashed BY DEF ServersMatch
  <2>t. accs \subseteq Accounts /\ accs' \subseteq Accounts BY TypeCorrectStep DEF TypeOK
  <2>1. ASSUME servers' = servers, clashed \subseteq clashed', NewOn = On,
               \A b \in On : sid'[b] = sid[b]
        PROVE  ServersMatch'
    <3>1. {Name(b)' : b \in NewOn} = Names BY <2>1 DEF Name, NameWith
    <3> HIDE DEF Names, NewOn
    <3>2. servers' \ clashed' = {Name(b)' : b \in NewOn} \ clashed' BY <2>0, <2>1, <3>1
    <3> QED BY <3>2 DEF ServersMatch, NewOn
  <2>2. ASSUME NEW a \in accs, servers' = servers \ {Name(a)}, UNCHANGED <<sid, clashed>>,
               NewOn = On \ {a}
        PROVE  ServersMatch'
    <3>1. {Name(b)' : b \in NewOn} = {Name(b) : b \in On \ {a}} BY <2>2 DEF Name, NameWith
    <3>2. {Name(b) : b \in On \ {a}} \ clashed = (Names \ {Name(a)}) \ clashed
      <4>1. \A b \in On \ {a} : Name(b) = Name(a) => Name(b) \in clashed
        BY <2>2 DEF ShareKnown
      <4> QED BY <4>1
    <3> HIDE DEF Names, NewOn
    <3>3. servers' \ clashed' = {Name(b)' : b \in NewOn} \ clashed' BY <2>0, <2>2, <3>1, <3>2
    <3> QED BY <3>3 DEF ServersMatch, NewOn
  <2>3. ASSUME NEW a \in Accounts, Connect(a) \/ Reconnect(a) PROVE ServersMatch'
    <3>1. /\ UNCHANGED <<accs, servers, sid, clashed>>
          /\ \A b \in Accounts : link'[b] = "on" <=> link[b] = "on"
      BY <2>3 DEF Connect, Reconnect, SetEnabled, TypeOK
    <3> QED BY <2>1, <2>t, <3>1
  <2>d. ASSUME NEW a \in Accounts, Disconnected(a), a \in accs, accs' \in {accs, accs \ {a}},
               UNCHANGED <<sid, clashed>>
        PROVE  ServersMatch'
    <3>1. /\ servers' = servers \ {Name(a)}
          /\ \A b \in Accounts : link'[b] = "on" <=> b # a /\ link[b] = "on"
      BY <2>d DEF Disconnected, TypeOK
    <3>2. NewOn = On \ {a} BY <2>d, <2>t, <3>1
    <3> HIDE DEF On, NewOn
    <3> QED BY <2>2, <2>d, <3>1, <3>2
  <2>4. ASSUME NEW a \in Accounts, Squit(a) PROVE ServersMatch'
    <3>1. a \in accs /\ UNCHANGED <<accs, sid, clashed>> BY <2>4 DEF Squit
    <3>2. CASE Disconnected(a) BY <2>d, <3>1, <3>2
    <3>3. CASE UNCHANGED <<link, error, servers, roomVars>> BY <2>1, <3>1, <3>3
    <3> QED BY <2>4, <3>2, <3>3 DEF Squit
  <2>5. ASSUME NEW a \in Accounts, Connected(a) PROVE ServersMatch'
    <3>1. /\ a \in accs /\ UNCHANGED <<accs, sid, clashed>> /\ servers' = servers \cup {Name(a)}
          /\ \A b \in Accounts : link'[b] = "on" <=> b = a \/ link[b] = "on"
      BY <2>5 DEF Connected, LinkWanted, TypeOK
    <3>2. NewOn = On \cup {a} BY <2>t, <3>1
    <3>3. {Name(b)' : b \in NewOn} = Names \cup {Name(a)} BY <3>1, <3>2 DEF Name, NameWith
    <3> HIDE DEF Names, NewOn
    <3>4. servers' \ clashed' = {Name(b)' : b \in NewOn} \ clashed' BY <2>0, <3>1, <3>3
    <3> QED BY <3>4 DEF ServersMatch, NewOn
  <2>6. ASSUME NEW a \in Accounts, NEW e \in Errors, DisconnectReason(a, e)
        PROVE  ServersMatch'
    BY <2>6, <2>1 DEF DisconnectReason
  <2>7. ASSUME NEW a \in Accounts, Dropped(a) PROVE ServersMatch'
    <3>1. a \in accs /\ UNCHANGED <<accs, sid, clashed>> /\ Disconnected(a)
      BY <2>7 DEF Dropped, LinkWanted
    <3> QED BY <2>d, <3>1
  <2>8. ASSUME NEW a \in Accounts, NEW c \in Chats,
               Join(a, c) \/ Joined(a, c) \/ Refused(a, c) \/ Part(a, c)
        PROVE  ServersMatch'
    BY <2>8, <2>1 DEF Join, Joined, Refused, Part, linkVars
  <2>s. ASSUME NEW a \in Accounts, NEW i \in Ids, SetId(a, i)
        PROVE  clashed \subseteq clashed' /\ \A b \in Accounts \ {a} : sid'[b] = sid[b]
    BY <2>s DEF SetId, TypeOK
  <2>9. ASSUME NEW a \in Accounts, NEW i \in Ids, EditId(a, i) PROVE ServersMatch'
    <3>1. a \notin On /\ servers' = servers /\ NewOn = On /\ SetId(a, i)
      BY <2>9 DEF EditId
    <3> QED BY <2>1, <2>s, <2>t, <3>1
  <2>10. ASSUME NEW a \in Accounts, NEW i \in Ids, Add(a, i) PROVE ServersMatch'
    <3>1. link[a] = "off" BY <2>10 DEF Add, LinkWanted
    <3>2. a \notin On /\ servers' = servers /\ SetId(a, i) /\ accs' = accs \cup {a}
      BY <2>10, <3>1 DEF Add
    <3>3. \A b \in Accounts : link'[b] = "on" <=> link[b] = "on"
      BY <2>10, <3>1 DEF Add, SetEnabled, TypeOK
    <3>4. NewOn = On BY <2>t, <3>1, <3>2, <3>3
    <3> QED BY <2>1, <2>s, <2>t, <3>2, <3>4
  <2>11. ASSUME NEW a \in Accounts, Delete(a) PROVE ServersMatch'
    <3>1. a \in accs /\ accs' = accs \ {a} /\ UNCHANGED <<sid, clashed>> BY <2>11 DEF Delete
    <3>2. CASE link[a] # "off" BY <2>11, <2>d, <3>1, <3>2 DEF Delete
    <3>3. CASE link[a] = "off"
      <4>1. UNCHANGED <<link, servers>> BY <2>11, <3>3 DEF Delete
      <4>2. NewOn = On BY <3>1, <3>3, <4>1
      <4> QED BY <2>1, <3>1, <4>1, <4>2
    <3> QED BY <3>2, <3>3
  <2>12. CASE Restart
    <3>1. servers' = {} /\ \A b \in Accounts : link'[b] # "on" BY <2>12 DEF Restart
    <3>2. {b \in accs' : link'[b] = "on"} = {} BY <2>t, <3>1
    <3> QED BY <3>1, <3>2 DEF ServersMatch
  <2>13. CASE UNCHANGED vars
    BY <2>13, <2>1 DEF vars, linkVars
  <2> QED
    BY <2>3, <2>4, <2>5, <2>6, <2>7, <2>8, <2>9, <2>10, <2>11, <2>12, <2>13 DEF Next
<1> QED
  BY <1>1, <1>2, LinkInvHolds, PTL DEF Spec
-----------------------------------------------------------------------------
(***************************************************************************)
(* The messages that wait in the conversations of the accounts, ConvQueue. *)
(* They wait in an entity exactly as long as one timer is armed for it,    *)
(* for any number of entities and messages: OneTimer is inductive with the *)
(* types of the queue, the timers and the counter that numbers the         *)
(* messages.                                                               *)
(***************************************************************************)
(* The types OneTimer rests on; messages are lost with their entity only.  *)
QueueTypes ==
    /\ queue \in [Entities -> Seq(Message)] /\ lost \in [Entities -> Seq(Message)]
    /\ exists \in [Entities -> BOOLEAN]
    /\ armed \in [Entities -> Nat]
    /\ taken \in [Entities -> Nat]
    /\ \A e \in Entities : IF exists[e] THEN lost[e] = <<>> ELSE queue[e] = <<>>

TimerInv == QueueTypes /\ OneTimer

(* Nothing waits at the start.                                             *)
LEMMA InitTimer == ConvInit => TimerInv
BY DEF ConvInit, TimerInv, QueueTypes, OneTimer, Unsent

(* What becomes of the messages of an entity that is deleted: they are     *)
(* still those libpurple has not got.                                      *)
LEMMA DeletedKeeps ==
    ASSUME QueueTypes, NEW e \in Entities, exists[e], Deleted(e), UNCHANGED <<armed, taken>>
    PROVE  QueueTypes' /\ \A x \in Entities : Unsent(x)' = Unsent(x)
<1>1. /\ exists' = [exists EXCEPT ![e] = FALSE]
      /\ lost' = [lost EXCEPT ![e] = queue[e]]
      /\ queue' = [queue EXCEPT ![e] = <<>>]
    BY DEF Deleted
<1>2. queue[e] \in Seq(Message) /\ <<>> \in Seq(Message)
    BY DEF QueueTypes
<1>3. /\ queue' \in [Entities -> Seq(Message)] /\ lost' \in [Entities -> Seq(Message)]
      /\ exists' \in [Entities -> BOOLEAN]
    BY <1>1, <1>2 DEF QueueTypes
<1>4. ASSUME NEW x \in Entities
      PROVE  /\ IF exists'[x] THEN lost'[x] = <<>> ELSE queue'[x] = <<>>
             /\ Unsent(x)' = Unsent(x)
    <2>1. CASE x = e
        BY <1>1, <2>1 DEF QueueTypes, Unsent
    <2>2. CASE x # e
        BY <1>1, <2>2 DEF QueueTypes, Unsent
    <2> QED BY <2>1, <2>2
<1> QED BY <1>3, <1>4 DEF QueueTypes

(* An entity is removed, or its conversation is: what is not sent stays so.*)
LEMMA GoneKeeps ==
    ASSUME QueueTypes, NEW e \in Entities, Removed(e) \/ Destroyed(e)
    PROVE  QueueTypes' /\ \A x \in Entities : Unsent(x)' = Unsent(x)
<1>1. exists[e] /\ UNCHANGED <<armed, taken>>
    BY DEF Removed, Destroyed
<1>2. Deleted(e) \/ UNCHANGED <<exists, queue, lost>>
    BY DEF Removed, Destroyed
<1>3. CASE Deleted(e)
    BY <1>1, <1>3, DeletedKeeps
<1>4. CASE UNCHANGED <<exists, queue, lost>>
    BY <1>1, <1>4 DEF QueueTypes, Unsent
<1> QED BY <1>2, <1>3, <1>4

(* enqueueMessage(): the first message that waits arms the timer, the      *)
(* others find it armed.                                                   *)
LEMMA EnqueueKeepsTimer ==
    ASSUME TimerInv, NEW e \in Entities, exists[e], NEW m \in Message,
           EnqueueMessage(e, m), taken' \in [Entities -> Nat], UNCHANGED <<exists, lost>>
    PROVE  TimerInv'
<1>1. CASE ~delay
    BY <1>1 DEF EnqueueMessage, TimerInv, QueueTypes, OneTimer, Unsent
<1>2. CASE delay
    <2>1. /\ queue' = [queue EXCEPT ![e] = Append(@, m)]
          /\ armed' = [armed EXCEPT ![e] = IF queue[e] = <<>> THEN @ + 1 ELSE @]
        BY <1>2 DEF EnqueueMessage
    <2>2. QueueTypes'
        <3>1. queue' \in [Entities -> Seq(Message)] /\ armed' \in [Entities -> Nat]
            BY <2>1 DEF TimerInv, QueueTypes
        <3>2. \A x \in Entities : ~exists[x] => queue'[x] = queue[x]
            BY <2>1 DEF TimerInv, QueueTypes
        <3> QED BY <3>1, <3>2 DEF TimerInv, QueueTypes
    <2>3. Append(queue[e], m) # <<>>
        <3>1. queue[e] \in Seq(Message)
            BY DEF TimerInv, QueueTypes
        <3> QED BY <3>1
    <2>4. armed'[e] = 1
        BY <2>1 DEF TimerInv, QueueTypes, OneTimer, Unsent
    <2>5. ASSUME NEW x \in Entities PROVE armed'[x] = IF Unsent(x)' = <<>> THEN 0 ELSE 1
        <3>1. CASE x = e
            BY <2>1, <2>3, <2>4, <3>1 DEF TimerInv, QueueTypes, Unsent
        <3>2. CASE x # e
            BY <2>1, <3>2 DEF TimerInv, QueueTypes, OneTimer, Unsent
        <3> QED BY <3>1, <3>2
    <2> QED BY <2>2, <2>5 DEF TimerInv, OneTimer
<1> QED BY <1>1, <1>2

(* flush_messages(): the timer that fires is the only one, and it leaves   *)
(* nothing behind.                                                         *)
LEMMA FlushKeepsTimer ==
    ASSUME TimerInv, NEW e \in Entities, flush_messages(e)
    PROVE  TimerInv'
<1>1. /\ armed[e] > 0 /\ exists[e]
      /\ armed' = [armed EXCEPT ![e] = @ - 1]
      /\ queue' = [queue EXCEPT ![e] = <<>>]
      /\ UNCHANGED <<taken, exists, lost>>
    BY DEF flush_messages, convVars
<1>2. armed[e] = 1
    BY <1>1 DEF TimerInv, QueueTypes, OneTimer
<1>3. QueueTypes'
    BY <1>1, <1>2 DEF TimerInv, QueueTypes
<1>4. OneTimer'
    BY <1>1, <1>2 DEF TimerInv, QueueTypes, OneTimer, Unsent
<1> QED BY <1>3, <1>4 DEF TimerInv

(* No step leaves messages without their timer, or a timer without them.   *)
LEMMA NextTimer == TimerInv /\ [ConvNext]_queueVars => TimerInv'
<1> SUFFICES ASSUME TimerInv, [ConvNext]_queueVars PROVE TimerInv'
    OBVIOUS
<1>0. ASSUME UNCHANGED <<queue, lost, exists, armed, taken>> PROVE TimerInv'
    BY <1>0 DEF TimerInv, QueueTypes, OneTimer, Unsent
<1>1. CASE UNCHANGED queueVars
    BY <1>0, <1>1 DEF queueVars, convVars
<1>2. ASSUME NEW e \in Entities, NEW k \in {"text", "action", "typing"}, m_privmsg(e, k)
      PROVE  TimerInv'
    <2>1. [n |-> taken[e] + 1, kind |-> k] \in Message
        BY DEF TimerInv, QueueTypes, Message
    <2>2. taken' \in [Entities -> Nat]
        BY <1>2 DEF m_privmsg, TimerInv, QueueTypes
    <2> QED BY <1>2, <2>1, <2>2, EnqueueKeepsTimer DEF m_privmsg
<1>3. ASSUME NEW e \in Entities, flush_messages(e) PROVE TimerInv'
    BY <1>3, FlushKeepsTimer
<1>4. ASSUME NEW e \in Entities, FlushCrashes(e) PROVE TimerInv'
    BY <1>0, <1>4 DEF FlushCrashes, convVars
<1>5. ASSUME NEW e \in Entities, Removed(e) \/ Destroyed(e) PROVE TimerInv'
    <2>1. QueueTypes' /\ \A x \in Entities : Unsent(x)' = Unsent(x)
        BY <1>5, GoneKeeps DEF TimerInv
    <2>2. UNCHANGED armed
        BY <1>5 DEF Removed, Destroyed
    <2> QED BY <2>1, <2>2 DEF TimerInv, OneTimer
<1>6. CASE SetSendDelay
    BY <1>0, <1>6 DEF SetSendDelay, convVars
<1> QED BY <1>1, <1>2, <1>3, <1>4, <1>5, <1>6 DEF ConvNext

(* enqueueMessage(), flush_messages(): one timer while messages wait, none *)
(* otherwise, however send_delay changes; what is deleted leaves its timer *)
(* behind exactly when messages were lost with it.                         *)
THEOREM OneTimerHolds == ConvSpec => []OneTimer
<1>1. TimerInv => OneTimer
    BY DEF TimerInv
<1> QED BY <1>1, InitTimer, NextTimer, PTL DEF ConvSpec
-----------------------------------------------------------------------------
(***************************************************************************)
(* Each message once and in order.  The lines of an entity that are sent   *)
(* and those that wait are counted together; the numbers of the messages   *)
(* that lines are joined to grow, and only lines of text share one.        *)
(***************************************************************************)
Line == [n : Nat \ {0}, kind : {"text", "action", "typing"}, part : Nat \ {0}]

PartsWell(s) ==
    \A i, j \in 1..Len(s) : i < j =>
        /\ s[i].part <= s[j].part
        /\ s[i].part = s[j].part => s[i].kind = "text" /\ s[j].kind = "text"

(* The lines s of an entity have been sent, q waits, t were accepted, and  *)
(* o tells whether some have been overtaken.                               *)
InOrder(s, q, t, o) ==
    /\ Len(s) + Len(q) = t
    /\ \A i \in 1..Len(s) : s[i].n <= t
    /\ \A i \in 1..Len(q) : q[i].n <= t
    /\ \A k \in 1..t : (\E i \in 1..Len(s) : s[i].n = k) \/ (\E i \in 1..Len(q) : q[i].n = k)
    /\ ~o => /\ \A i \in 1..Len(s) : s[i].n = i
             /\ \A i \in 1..Len(q) : q[i].n = Len(s) + i
    /\ PartsWell(s)

SentTypes ==
    /\ sent \in [Entities -> Seq(Line)]
    /\ overtaken \in [Entities -> BOOLEAN]

OrderInv ==
    /\ QueueTypes /\ SentTypes
    /\ \A e \in Entities : InOrder(sent[e], Unsent(e), taken[e], overtaken[e])

(* Nothing is queued nor sent at first.                                    *)
LEMMA InitOrder == ConvInit => OrderInv
<1> SUFFICES ASSUME ConvInit PROVE OrderInv
    OBVIOUS
<1>1. QueueTypes /\ SentTypes
    BY DEF ConvInit, QueueTypes, SentTypes
<1>2. ASSUME NEW e \in Entities PROVE InOrder(sent[e], Unsent(e), taken[e], overtaken[e])
    <2>1. sent[e] = <<>> /\ Unsent(e) = <<>> /\ taken[e] = 0
        BY DEF ConvInit, Unsent
    <2> QED BY <2>1 DEF InOrder, PartsWell
<1> QED BY <1>1, <1>2 DEF OrderInv

(* How many of the first i lines begin a message.                          *)
LEMMA StartsCount ==
    ASSUME NEW q \in Seq(Message), NEW i \in 1..Len(q)
    PROVE  LET C(k) == Cardinality({j \in 1..k : Starts(q, j)})
           IN  /\ C(i) \in Nat \ {0}
               /\ \A k \in 1..Len(q) : k < i =>
                    /\ C(k) <= C(i)
                    /\ C(k) = C(i) => ~Starts(q, i) /\ ~Starts(q, k + 1)
<1> DEFINE B(k) == {j \in 1..k : Starts(q, j)}
<1>1. ASSUME NEW k \in 1..Len(q)
      PROVE  IsFiniteSet(B(k)) /\ Cardinality(B(k)) \in Nat /\ 1 \in B(k)
    <2>1. IsFiniteSet(1..k)
        BY FS_Interval
    <2>2. IsFiniteSet(B(k))
        BY <2>1, FS_Subset
    <2> QED BY <2>2, FS_CardinalityType DEF Starts
<1>2. Cardinality(B(i)) # 0
    BY <1>1, FS_EmptySet
<1>3. ASSUME NEW k \in 1..Len(q), k < i
      PROVE  /\ Cardinality(B(k)) <= Cardinality(B(i))
             /\ Cardinality(B(k)) = Cardinality(B(i)) => ~Starts(q, i) /\ ~Starts(q, k + 1)
    <2>1. B(k) \subseteq B(i)
        BY <1>3
    <2>2. /\ Cardinality(B(k)) <= Cardinality(B(i))
          /\ Cardinality(B(i)) = Cardinality(B(k)) => B(k) = B(i)
        BY <1>1, <2>1, FS_Subset
    <2>3. i \notin B(k) /\ k + 1 \notin B(k) /\ i \in 1..i /\ k + 1 \in 1..i
        BY <1>3
    <2> QED BY <2>2, <2>3
<1> QED BY <1>1, <1>2, <1>3

(* What JoinedLines makes of a queue: its lines in their order, in parts   *)
(* numbered after the last one.                                            *)
LEMMA JoinedFacts ==
    ASSUME NEW q \in Seq(Message), NEW last \in Nat
    PROVE  /\ JoinedLines(q, last) \in Seq(Line)
           /\ Len(JoinedLines(q, last)) = Len(q)
           /\ \A i \in 1..Len(q) : JoinedLines(q, last)[i].n = q[i].n
           /\ \A i \in 1..Len(q) : last < JoinedLines(q, last)[i].part
           /\ PartsWell(JoinedLines(q, last))
<1> DEFINE C(k) == Cardinality({j \in 1..k : Starts(q, j)})
           u == JoinedLines(q, last)
<1>1. \A i \in 1..Len(q) : C(i) \in Nat \ {0}
    BY StartsCount
<1>2. ASSUME NEW k \in 1..Len(q), NEW i \in 1..Len(q), k < i, C(k) = C(i)
      PROVE  q[k].kind = "text" /\ q[i].kind = "text"
    <2>1. ~Starts(q, i) /\ ~Starts(q, k + 1)
        BY <1>2, StartsCount
    <2>2. (k + 1) - 1 = k
        OBVIOUS
    <2> QED BY <2>1, <2>2 DEF Starts
<1>3. \A k, i \in 1..Len(q) : k < i => C(k) <= C(i)
    BY StartsCount
<1> HIDE DEF C
<1>4. u = [i \in 1..Len(q) |-> [n |-> q[i].n, kind |-> q[i].kind, part |-> last + C(i)]]
    BY DEF JoinedLines, C
<1> HIDE DEF u
<1>5. \A i \in 1..Len(q) : /\ u[i] = [n |-> q[i].n, kind |-> q[i].kind, part |-> last + C(i)]
                           /\ u[i].n = q[i].n /\ u[i].kind = q[i].kind
                           /\ u[i].part = last + C(i)
    BY <1>4
<1>6. \A i \in 1..Len(q) : u[i] \in Line /\ last < u[i].part
    <2> TAKE i \in 1..Len(q)
    <2>1. q[i] \in Message
        OBVIOUS
    <2>2. q[i].n \in Nat \ {0} /\ q[i].kind \in {"text", "action", "typing"}
        BY <2>1 DEF Message
    <2>3. last + C(i) \in Nat \ {0} /\ last < last + C(i)
        BY <1>1
    <2>4. u[i] = [n |-> q[i].n, kind |-> q[i].kind, part |-> last + C(i)]
        BY <1>5
    <2>5. u[i].part = last + C(i)
        BY <1>5
    <2>6. last < u[i].part
        BY <2>3, <2>5
    <2>7. u[i] \in Line
        BY <2>2, <2>3, <2>4 DEF Line
    <2> QED BY <2>6, <2>7
<1>7. u \in Seq(Line) /\ Len(u) = Len(q)
    BY <1>4, <1>6
<1>8. PartsWell(u)
    <2> SUFFICES ASSUME NEW k \in 1..Len(q), NEW i \in 1..Len(q), k < i
                 PROVE  /\ u[k].part <= u[i].part
                        /\ u[k].part = u[i].part => u[k].kind = "text" /\ u[i].kind = "text"
        BY <1>7 DEF PartsWell
    <2>1. u[k].part = last + C(k) /\ u[i].part = last + C(i) /\ C(k) \in Nat /\ C(i) \in Nat
        BY <1>1, <1>5
    <2>2. C(k) <= C(i)
        BY <1>3
    <2>3. u[k].part = u[i].part => C(k) = C(i)
        BY <2>1
    <2>4. u[k].part <= u[i].part
        BY <2>1, <2>2
    <2>5. ASSUME u[k].part = u[i].part PROVE u[k].kind = "text" /\ u[i].kind = "text"
        <3>1. C(k) = C(i)
            BY <2>3, <2>5
        <3>2. q[k].kind = "text" /\ q[i].kind = "text"
            BY <1>2, <3>1
        <3> QED BY <1>5, <3>2
    <2> QED BY <2>4, <2>5
<1> QED BY <1>5, <1>6, <1>7, <1>8 DEF u

(* sendMessage(): the lines of q follow those that were sent, in messages  *)
(* of their own.                                                           *)
LEMMA SendFacts ==
    ASSUME NEW s \in Seq(Line), PartsWell(s), NEW q \in Seq(Message)
    PROVE  LET u == s \o JoinedLines(q, LastPart(s))
           IN  /\ u \in Seq(Line) /\ Len(u) = Len(s) + Len(q)
               /\ \A i \in 1..Len(s) : u[i] = s[i]
               /\ \A i \in 1..Len(q) : u[Len(s) + i].n = q[i].n
               /\ PartsWell(u)
<1> DEFINE last == LastPart(s)
           w == JoinedLines(q, last)
           u == s \o w
           m == Len(s)
<1>1. \A i \in 1..m : s[i] \in Line
    OBVIOUS
<1>2. last \in Nat /\ \A i \in 1..m : s[i].part \in Nat /\ s[i].part <= last
    <2>1. CASE s = <<>>
        BY <2>1 DEF LastPart
    <2>2. CASE s # <<>>
        <3>1. m \in Nat /\ m \in 1..m /\ last = s[m].part
            BY <2>2 DEF LastPart
        <3>2. \A i \in 1..m : s[i].part \in Nat
            BY <1>1 DEF Line
        <3>3. \A i \in 1..m : i # m => s[i].part <= s[m].part
            BY <3>1 DEF PartsWell
        <3> QED BY <3>1, <3>2, <3>3
    <2> QED BY <2>1, <2>2
<1> HIDE DEF last
<1>3. /\ w \in Seq(Line) /\ Len(w) = Len(q)
      /\ \A i \in 1..Len(q) : w[i].n = q[i].n
      /\ \A i \in 1..Len(q) : last < w[i].part
      /\ PartsWell(w)
    BY <1>2, JoinedFacts
<1> HIDE DEF w
<1>4. /\ u \in Seq(Line) /\ Len(u) = m + Len(q) /\ m \in Nat /\ Len(q) \in Nat
      /\ \A i \in 1..m : u[i] = s[i]
      /\ \A i \in 1..Len(q) : u[m + i] = w[i]
    BY <1>3, SMTT(40)
<1> HIDE DEF u
<1>5. \A i \in 1..(m + Len(q)) : i \in 1..m \/ \E k \in 1..Len(q) : i = m + k
    <2> TAKE i \in 1..(m + Len(q))
    <2>1. CASE i <= m
        BY <1>4, <2>1
    <2>2. CASE m < i
        <3>1. i - m \in 1..Len(q) /\ i = m + (i - m)
            BY <1>4, <2>2
        <3> QED BY <3>1
    <2> QED BY <1>4, <2>1, <2>2
<1>6. PartsWell(u)
    <2> SUFFICES ASSUME NEW i \in 1..(m + Len(q)), NEW j \in 1..(m + Len(q)), i < j
                 PROVE  /\ u[i].part <= u[j].part
                        /\ u[i].part = u[j].part => u[i].kind = "text" /\ u[j].kind = "text"
        BY <1>4 DEF PartsWell
    <2>1. CASE i \in 1..m /\ j \in 1..m
        BY <1>4, <2>1 DEF PartsWell
    <2>2. ASSUME i \in 1..m, NEW k \in 1..Len(q), j = m + k
          PROVE  u[i].part < u[j].part /\ u[i].part \in Nat /\ u[j].part \in Nat
        <3>1. u[i] = s[i] /\ u[j] = w[k]
            BY <1>4, <2>2
        <3>2. s[i].part \in Nat /\ s[i].part <= last /\ last < w[k].part
            BY <1>2, <1>3, <2>2
        <3>3. w[k] \in Line
            BY <1>3
        <3>4. w[k].part \in Nat
            BY <3>3 DEF Line
        <3> QED BY <1>2, <3>1, <3>2, <3>4, SMTT(40)
    <2>3. ASSUME NEW k \in 1..Len(q), NEW l \in 1..Len(q), i = m + k, j = m + l
          PROVE  /\ u[i].part <= u[j].part
                 /\ u[i].part = u[j].part => u[i].kind = "text" /\ u[j].kind = "text"
        <3>1. u[i] = w[k] /\ u[j] = w[l] /\ k < l
            BY <1>4, <2>3
        <3> QED BY <1>3, <3>1 DEF PartsWell
    <2>4. i \in 1..m \/ ~ (j \in 1..m)
        BY <1>4
    <2>5. CASE i \in 1..m /\ ~ (j \in 1..m)
        <3>1. PICK k \in 1..Len(q) : j = m + k
            BY <1>5, <2>5
        <3>2. u[i].part < u[j].part /\ u[i].part \in Nat /\ u[j].part \in Nat
            BY <2>2, <2>5, <3>1
        <3> QED BY <3>2
    <2>6. CASE ~ (i \in 1..m) /\ ~ (j \in 1..m)
        <3>1. PICK k \in 1..Len(q) : i = m + k
            BY <1>5, <2>6
        <3>2. PICK l \in 1..Len(q) : j = m + l
            BY <1>5, <2>6
        <3> QED BY <2>3, <3>1, <3>2
    <2> QED BY <2>1, <2>4, <2>5, <2>6
<1>7. \A i \in 1..Len(q) : u[m + i].n = q[i].n
    BY <1>3, <1>4
<1> QED BY <1>4, <1>6, <1>7 DEF u, w, last

(* enqueueMessage() with a delay: one more message waits.                  *)
LEMMA WaitsInOrder ==
    ASSUME NEW s \in Seq(Line), NEW q \in Seq(Message), NEW t \in Nat, NEW o \in BOOLEAN,
           InOrder(s, q, t, o), NEW m \in Message, m.n = t + 1
    PROVE  InOrder(s, Append(q, m), t + 1, o)
<1> DEFINE a == Append(q, m)
<1>0. Len(s) + Len(q) = t
    BY DEF InOrder
<1>1. /\ a \in Seq(Message) /\ Len(a) = Len(q) + 1 /\ Len(q) \in Nat /\ Len(s) \in Nat
      /\ \A i \in 1..Len(q) : a[i] = q[i]
      /\ a[Len(q) + 1] = m
    OBVIOUS
<1> HIDE DEF a
<1>2. \A i \in 1..Len(a) : i \in 1..Len(q) \/ i = Len(q) + 1
    BY <1>1
<1>3. \A i \in 1..Len(s) : s[i].n <= t + 1
    <2> TAKE i \in 1..Len(s)
    <2>1. s[i] \in Line
        OBVIOUS
    <2>2. s[i].n \in Nat /\ s[i].n <= t
        BY <2>1 DEF InOrder, Line
    <2> QED BY <2>2
<1>4. \A i \in 1..Len(a) : a[i].n <= t + 1
    <2> TAKE i \in 1..Len(a)
    <2>1. CASE i \in 1..Len(q)
        <3>1. q[i] \in Message
            BY <2>1
        <3>2. q[i].n \in Nat /\ q[i].n <= t
            BY <2>1, <3>1 DEF InOrder, Message
        <3> QED BY <1>1, <2>1, <3>2
    <2>2. CASE i = Len(q) + 1
        BY <1>1, <2>2
    <2> QED BY <1>2, <2>1, <2>2
<1>5. ASSUME NEW k \in 1..(t + 1)
      PROVE  (\E i \in 1..Len(s) : s[i].n = k) \/ (\E i \in 1..Len(a) : a[i].n = k)
    <2>1. CASE k = t + 1
        <3>1. Len(q) + 1 \in 1..Len(a) /\ a[Len(q) + 1].n = k
            BY <1>1, <2>1
        <3> QED BY <3>1
    <2>2. CASE k \in 1..t
        <3>1. CASE \E i \in 1..Len(s) : s[i].n = k
            BY <3>1
        <3>2. ASSUME NEW i \in 1..Len(q), q[i].n = k PROVE \E j \in 1..Len(a) : a[j].n = k
            <4>1. i \in 1..Len(a) /\ a[i].n = k
                BY <1>1, <3>2
            <4> QED BY <4>1
        <3> QED BY <2>2, <3>1, <3>2 DEF InOrder
    <2> QED BY <2>1, <2>2
<1>6. ASSUME ~o, NEW i \in 1..Len(a) PROVE a[i].n = Len(s) + i
    <2>1. CASE i \in 1..Len(q)
        BY <1>1, <1>6, <2>1 DEF InOrder
    <2>2. CASE i = Len(q) + 1
        BY <1>0, <1>1, <2>2
    <2> QED BY <1>2, <2>1, <2>2
<1>7. Len(s) + Len(a) = t + 1
    BY <1>0, <1>1
<1>8. PartsWell(s) /\ (~o => \A i \in 1..Len(s) : s[i].n = i)
    BY DEF InOrder
<1>9. InOrder(s, a, t + 1, o)
    BY <1>3, <1>4, <1>5, <1>6, <1>7, <1>8 DEF InOrder
<1> QED BY <1>9 DEF a

(* enqueueMessage() without a delay: the message is sent, before those     *)
(* that wait.                                                              *)
LEMMA SentInOrder ==
    ASSUME NEW s \in Seq(Line), NEW q \in Seq(Message), NEW t \in Nat, NEW o \in BOOLEAN,
           InOrder(s, q, t, o), NEW m \in Message, m.n = t + 1
    PROVE  LET u == s \o JoinedLines(<<m>>, LastPart(s))
           IN  u \in Seq(Line) /\ InOrder(u, q, t + 1, o \/ q # <<>>)
<1> DEFINE u == s \o JoinedLines(<<m>>, LastPart(s))
<1>0. <<m>> \in Seq(Message) /\ Len(<<m>>) = 1 /\ <<m>>[1] = m /\ PartsWell(s)
    BY DEF InOrder
<1>1. /\ u \in Seq(Line) /\ Len(u) = Len(s) + Len(<<m>>)
      /\ \A i \in 1..Len(s) : u[i] = s[i]
      /\ \A i \in 1..Len(<<m>>) : u[Len(s) + i].n = <<m>>[i].n
      /\ PartsWell(u)
    BY <1>0, SendFacts
<1> HIDE DEF u
<1>2. Len(u) = Len(s) + 1 /\ u[Len(s) + 1].n = t + 1 /\ Len(s) \in Nat /\ Len(q) \in Nat
    BY <1>0, <1>1
<1>3. \A i \in 1..Len(u) : i \in 1..Len(s) \/ i = Len(s) + 1
    BY <1>2
<1>4. \A i \in 1..Len(q) : q[i].n <= t + 1
    <2> TAKE i \in 1..Len(q)
    <2>1. q[i] \in Message
        OBVIOUS
    <2>2. q[i].n \in Nat /\ q[i].n <= t
        BY <2>1 DEF InOrder, Message
    <2> QED BY <2>2
<1>5. \A i \in 1..Len(u) : u[i].n <= t + 1
    <2> TAKE i \in 1..Len(u)
    <2>1. CASE i \in 1..Len(s)
        <3>1. s[i] \in Line
            BY <2>1
        <3>2. s[i].n \in Nat /\ s[i].n <= t
            BY <2>1, <3>1 DEF InOrder, Line
        <3> QED BY <1>1, <2>1, <3>2
    <2>2. CASE i = Len(s) + 1
        BY <1>2, <2>2
    <2> QED BY <1>3, <2>1, <2>2
<1>6. ASSUME NEW k \in 1..(t + 1)
      PROVE  (\E i \in 1..Len(u) : u[i].n = k) \/ (\E i \in 1..Len(q) : q[i].n = k)
    <2>1. CASE k = t + 1
        <3>1. Len(s) + 1 \in 1..Len(u) /\ u[Len(s) + 1].n = k
            BY <1>2, <2>1
        <3> QED BY <3>1
    <2>2. CASE k \in 1..t
        <3>1. CASE \E i \in 1..Len(q) : q[i].n = k
            BY <3>1
        <3>2. ASSUME NEW i \in 1..Len(s), s[i].n = k PROVE \E j \in 1..Len(u) : u[j].n = k
            <4>1. i \in 1..Len(u) /\ u[i].n = k
                BY <1>1, <1>2, <3>2
            <4> QED BY <4>1
        <3> QED BY <2>2, <3>1, <3>2 DEF InOrder
    <2> QED BY <2>1, <2>2
<1>7. ASSUME ~(o \/ q # <<>>)
      PROVE  /\ \A i \in 1..Len(u) : u[i].n = i
             /\ \A i \in 1..Len(q) : q[i].n = Len(u) + i
    <2>1. ~o /\ Len(q) = 0 /\ t = Len(s)
        BY <1>2, <1>7 DEF InOrder
    <2>2. \A i \in 1..Len(s) : u[i].n = i
        BY <1>1, <2>1 DEF InOrder
    <2> QED BY <1>2, <1>3, <2>1, <2>2
<1>8. Len(u) + Len(q) = t + 1
    BY <1>2 DEF InOrder
<1>9. InOrder(u, q, t + 1, o \/ q # <<>>)
    BY <1>1, <1>4, <1>5, <1>6, <1>7, <1>8 DEF InOrder
<1> QED BY <1>1, <1>9 DEF u

(* flush_messages(): what waited is sent, in the order in which it waited. *)
LEMMA FlushedInOrder ==
    ASSUME NEW s \in Seq(Line), NEW q \in Seq(Message), NEW t \in Nat, NEW o \in BOOLEAN,
           InOrder(s, q, t, o)
    PROVE  LET u == s \o JoinedLines(q, LastPart(s))
           IN  u \in Seq(Line) /\ InOrder(u, <<>>, t, o)
<1> DEFINE u == s \o JoinedLines(q, LastPart(s))
<1>0. PartsWell(s)
    BY DEF InOrder
<1>1. /\ u \in Seq(Line) /\ Len(u) = Len(s) + Len(q)
      /\ \A i \in 1..Len(s) : u[i] = s[i]
      /\ \A i \in 1..Len(q) : u[Len(s) + i].n = q[i].n
      /\ PartsWell(u)
    BY <1>0, SendFacts
<1> HIDE DEF u
<1>2. Len(s) \in Nat /\ Len(q) \in Nat /\ Len(u) = t
    BY <1>1 DEF InOrder
<1>3. ASSUME NEW i \in 1..Len(u)
      PROVE  i \in 1..Len(s) \/ \E k \in 1..Len(q) : i = Len(s) + k
    <2>1. CASE i <= Len(s)
        BY <1>2, <2>1
    <2>2. CASE Len(s) < i
        <3>1. i - Len(s) \in 1..Len(q) /\ i = Len(s) + (i - Len(s))
            BY <1>1, <1>2, <2>2
        <3> QED BY <3>1
    <2> QED BY <1>2, <2>1, <2>2
<1>4. ASSUME NEW i \in 1..Len(u)
      PROVE  u[i].n <= t /\ (~o => u[i].n = i)
    <2>1. CASE i \in 1..Len(s)
        BY <1>1, <2>1 DEF InOrder
    <2>2. ASSUME NEW k \in 1..Len(q), i = Len(s) + k
          PROVE  u[i].n <= t /\ (~o => u[i].n = i)
        <3>1. u[i].n = q[k].n
            BY <1>1, <2>2
        <3> QED BY <2>2, <3>1 DEF InOrder
    <2> QED BY <1>3, <2>1, <2>2
<1>5. ASSUME NEW k \in 1..t PROVE \E i \in 1..Len(u) : u[i].n = k
    <2>1. ASSUME NEW i \in 1..Len(s), s[i].n = k PROVE \E j \in 1..Len(u) : u[j].n = k
        <3>1. i \in 1..Len(u) /\ u[i].n = k
            BY <1>1, <1>2, <2>1
        <3> QED BY <3>1
    <2>2. ASSUME NEW i \in 1..Len(q), q[i].n = k PROVE \E j \in 1..Len(u) : u[j].n = k
        <3>1. Len(s) + i \in 1..Len(u) /\ u[Len(s) + i].n = k
            BY <1>1, <1>2, <2>2
        <3> QED BY <3>1
    <2> QED BY <2>1, <2>2 DEF InOrder
<1>6. Len(<<>>) = 0 /\ Len(u) + 0 = t
    BY <1>2
<1>7. InOrder(u, <<>>, t, o)
    BY <1>1, <1>4, <1>5, <1>6 DEF InOrder
<1> QED BY <1>1, <1>7 DEF u

(* Every step keeps the lines sent and queued in order.                    *)
LEMMA NextOrder == OrderInv /\ [ConvNext]_queueVars => OrderInv'
<1> SUFFICES ASSUME OrderInv, [ConvNext]_queueVars PROVE OrderInv'
    OBVIOUS
<1>0. ASSUME NEW e \in Entities
      PROVE  /\ sent[e] \in Seq(Line) /\ queue[e] \in Seq(Message) /\ taken[e] \in Nat
             /\ overtaken[e] \in BOOLEAN
             /\ Unsent(e) \in Seq(Message)
             /\ InOrder(sent[e], Unsent(e), taken[e], overtaken[e])
    BY DEF OrderInv, QueueTypes, SentTypes, Unsent
<1>1. ASSUME UNCHANGED <<sent, queue, armed, taken, overtaken, exists, lost>> PROVE OrderInv'
    BY <1>1 DEF OrderInv, QueueTypes, SentTypes, Unsent
<1>2. CASE UNCHANGED queueVars
    BY <1>1, <1>2 DEF queueVars, convVars
<1>3. ASSUME NEW e \in Entities, NEW k \in {"text", "action", "typing"}, m_privmsg(e, k)
      PROVE  OrderInv'
    <2> DEFINE m == [n |-> taken[e] + 1, kind |-> k]
    <2>1. m \in Message /\ m.n = taken[e] + 1
        BY <1>0 DEF Message
    <2>2. /\ taken' = [taken EXCEPT ![e] = @ + 1] /\ EnqueueMessage(e, m)
          /\ exists[e] /\ UNCHANGED <<exists, lost>>
        BY <1>3 DEF m_privmsg
    <2>u. Unsent(e) = queue[e] /\ Unsent(e)' = queue'[e]
        BY <2>2 DEF Unsent
    <2> HIDE DEF m
    <2>3. CASE delay
        <3>1. /\ queue' = [queue EXCEPT ![e] = Append(@, m)]
              /\ armed' = [armed EXCEPT ![e] = IF queue[e] = <<>> THEN @ + 1 ELSE @]
              /\ sent' = sent /\ overtaken' = overtaken
            BY <2>2, <2>3 DEF EnqueueMessage
        <3>2. QueueTypes' /\ SentTypes'
            <4>1. queue' \in [Entities -> Seq(Message)] /\ armed' \in [Entities -> Nat]
                BY <2>1, <3>1 DEF OrderInv, QueueTypes
            <4>2. taken' \in [Entities -> Nat] /\ SentTypes'
                BY <2>2, <3>1 DEF OrderInv, QueueTypes, SentTypes
            <4>3. \A x \in Entities : ~exists[x] => queue'[x] = queue[x]
                BY <2>2, <3>1 DEF OrderInv, QueueTypes
            <4> QED BY <2>2, <4>1, <4>2, <4>3 DEF OrderInv, QueueTypes
        <3>3. InOrder(sent[e], Append(queue[e], m), taken[e] + 1, overtaken[e])
            BY <1>0, <2>1, <2>u, WaitsInOrder
        <3>4. /\ queue'[e] = Append(queue[e], m) /\ taken'[e] = taken[e] + 1
              /\ \A x \in Entities : x # e => queue'[x] = queue[x] /\ taken'[x] = taken[x]
            BY <2>2, <3>1 DEF OrderInv, QueueTypes
        <3>5. ASSUME NEW x \in Entities
              PROVE  InOrder(sent'[x], Unsent(x)', taken'[x], overtaken'[x])
            <4>1. CASE x = e
                BY <2>u, <3>1, <3>3, <3>4, <4>1
            <4>2. CASE x # e
                <5>1. Unsent(x)' = Unsent(x)
                    BY <2>2, <3>4, <4>2 DEF Unsent
                <5> QED BY <1>0, <3>1, <3>4, <4>2, <5>1
            <4> QED BY <4>1, <4>2
        <3> QED BY <3>2, <3>5 DEF OrderInv
    <2>4. CASE ~delay
        <3> DEFINE u == sent[e] \o JoinedLines(<<m>>, LastPart(sent[e]))
        <3>1. /\ sent' = [sent EXCEPT ![e] = u] /\ queue' = queue /\ armed' = armed
              /\ overtaken' = [overtaken EXCEPT ![e] = @ \/ queue[e] # <<>>]
            BY <2>2, <2>4 DEF EnqueueMessage, SendMessages
        <3>2. /\ u \in Seq(Line)
              /\ InOrder(u, queue[e], taken[e] + 1, overtaken[e] \/ queue[e] # <<>>)
            BY <1>0, <2>1, <2>u, SentInOrder
        <3> HIDE DEF u
        <3>3. QueueTypes' /\ SentTypes'
            BY <2>2, <3>1, <3>2 DEF OrderInv, QueueTypes, SentTypes
        <3>4. /\ sent'[e] = u /\ taken'[e] = taken[e] + 1
              /\ \A x \in Entities : x # e => sent'[x] = sent[x] /\ taken'[x] = taken[x]
            BY <2>2, <3>1 DEF OrderInv, QueueTypes, SentTypes
        <3>5. /\ overtaken'[e] = (overtaken[e] \/ queue[e] # <<>>)
              /\ \A x \in Entities : x # e => overtaken'[x] = overtaken[x]
            BY <3>1 DEF OrderInv, SentTypes
        <3>6. ASSUME NEW x \in Entities
              PROVE  InOrder(sent'[x], Unsent(x)', taken'[x], overtaken'[x])
            <4>0. Unsent(x)' = Unsent(x)
                BY <2>2, <3>1 DEF Unsent
            <4>1. CASE x = e
                BY <2>u, <3>2, <3>4, <3>5, <4>0, <4>1
            <4>2. CASE x # e
                BY <1>0, <3>1, <3>4, <3>5, <4>0, <4>2
            <4> QED BY <4>1, <4>2
        <3> QED BY <3>3, <3>6 DEF OrderInv
    <2> QED BY <2>3, <2>4
<1>4. ASSUME NEW e \in Entities, flush_messages(e) PROVE OrderInv'
    <2> DEFINE u == sent[e] \o JoinedLines(queue[e], LastPart(sent[e]))
    <2>1. /\ sent' = [sent EXCEPT ![e] = u] /\ queue' = [queue EXCEPT ![e] = <<>>]
          /\ armed' = [armed EXCEPT ![e] = @ - 1] /\ armed[e] > 0
          /\ taken' = taken /\ overtaken' = overtaken
          /\ exists[e] /\ UNCHANGED <<exists, lost>>
        BY <1>4 DEF flush_messages, SendMessages, convVars
    <2>u. Unsent(e) = queue[e] /\ Unsent(e)' = queue'[e]
        BY <2>1 DEF Unsent
    <2>2. u \in Seq(Line) /\ InOrder(u, <<>>, taken[e], overtaken[e])
        BY <1>0, <2>u, FlushedInOrder
    <2> HIDE DEF u
    <2>3. QueueTypes' /\ SentTypes'
        BY <2>1, <2>2 DEF OrderInv, QueueTypes, SentTypes
    <2>4. /\ sent'[e] = u /\ queue'[e] = <<>>
          /\ \A x \in Entities : x # e => sent'[x] = sent[x] /\ queue'[x] = queue[x]
        BY <2>1 DEF OrderInv, QueueTypes, SentTypes
    <2>5. ASSUME NEW x \in Entities
          PROVE  InOrder(sent'[x], Unsent(x)', taken'[x], overtaken'[x])
        <3>1. CASE x = e
            BY <2>1, <2>2, <2>4, <2>u, <3>1
        <3>2. CASE x # e
            <4>1. Unsent(x)' = Unsent(x)
                BY <2>1, <2>4, <3>2 DEF Unsent
            <4> QED BY <1>0, <2>1, <2>4, <3>2, <4>1
        <3> QED BY <3>1, <3>2
    <2> QED BY <2>3, <2>5 DEF OrderInv
<1>5. ASSUME NEW e \in Entities, FlushCrashes(e) PROVE OrderInv'
    BY <1>1, <1>5 DEF FlushCrashes, convVars
<1>6. ASSUME NEW e \in Entities, Removed(e) \/ Destroyed(e) PROVE OrderInv'
    <2>1. QueueTypes' /\ \A x \in Entities : Unsent(x)' = Unsent(x)
        BY <1>6, GoneKeeps DEF OrderInv
    <2>2. UNCHANGED <<taken, sent, overtaken>>
        BY <1>6 DEF Removed, Destroyed
    <2> QED BY <2>1, <2>2 DEF OrderInv, SentTypes
<1>7. CASE SetSendDelay
    BY <1>1, <1>7 DEF SetSendDelay, convVars
<1> QED BY <1>2, <1>3, <1>4, <1>5, <1>6, <1>7 DEF ConvNext

(* enqueueMessage(), flush_messages(): for any entities and any number of  *)
(* messages each one accepted is sent, waits or was lost with its entity,  *)
(* once, in order unless it was overtaken when send_delay was 0, and only  *)
(* lines of text are joined.                                               *)
THEOREM EachOnceInOrderHolds == ConvSpec => []EachOnceInOrder
<1>1. ASSUME OrderInv PROVE EachOnceInOrder
    <2> SUFFICES ASSUME NEW e \in Entities
                 PROVE  LET s == sent[e]
                            all == Numbers(s \o Unsent(e))
                        IN  /\ Len(all) = taken[e] /\ {all[i] : i \in 1..Len(all)} = 1..taken[e]
                            /\ ~overtaken[e] => all = [i \in 1..taken[e] |-> i]
                            /\ PartsWell(s)
        BY <1>1 DEF EachOnceInOrder, PartsWell, OrderInv, QueueTypes
    <2> DEFINE s == sent[e]
               q == Unsent(e)
               t == taken[e]
               c == s \o q
               all == Numbers(c)
    <2>1. /\ s \in Seq(Line) /\ q \in Seq(Message) /\ t \in Nat
          /\ InOrder(s, q, t, overtaken[e])
        BY <1>1 DEF OrderInv, QueueTypes, SentTypes, Unsent
    <2> HIDE DEF s, q, t
    <2>2. s \in Seq(Line \cup Message) /\ q \in Seq(Line \cup Message)
        BY <2>1
    <2>3. /\ c \in Seq(Line \cup Message) /\ Len(c) = Len(s) + Len(q) /\ Len(c) = t
          /\ \A i \in 1..Len(s) : c[i] = s[i]
          /\ \A i \in 1..Len(q) : c[Len(s) + i] = q[i]
        BY <2>1, <2>2 DEF InOrder
    <2>4. Len(s) \in Nat /\ Len(q) \in Nat
        BY <2>1
    <2> HIDE DEF c
    <2>5. /\ all = [i \in 1..t |-> c[i].n] /\ Len(all) = t
          /\ \A i \in 1..t : all[i] = c[i].n
        <3>1. all = [i \in 1..t |-> c[i].n]
            BY <2>3 DEF Numbers
        <3> HIDE DEF all
        <3> QED BY <2>1, <3>1
    <2> HIDE DEF all
    <2>6. ASSUME NEW i \in 1..t
          PROVE  all[i] \in 1..t /\ (~overtaken[e] => all[i] = i)
        <3>1. CASE i <= Len(s)
            <4>1. s[i] \in Line /\ i \in 1..Len(s)
                BY <2>1, <2>4, <3>1
            <4>2. all[i] = s[i].n /\ s[i].n \in Nat \ {0}
                BY <2>3, <2>5, <4>1 DEF Line
            <4> QED BY <2>1, <4>1, <4>2 DEF InOrder
        <3>2. CASE Len(s) < i
            <4>1. i - Len(s) \in 1..Len(q) /\ Len(s) + (i - Len(s)) = i
                BY <2>3, <2>4, <3>2
            <4>2. q[i - Len(s)] \in Message /\ c[i] = q[i - Len(s)]
                <5>1. c[Len(s) + (i - Len(s))] = q[i - Len(s)]
                    BY <2>3, <4>1
                <5> QED BY <2>1, <4>1, <5>1
            <4>3. all[i] = q[i - Len(s)].n /\ q[i - Len(s)].n \in Nat \ {0}
                BY <2>5, <4>2 DEF Message
            <4>4. q[i - Len(s)].n <= t /\ (~overtaken[e] => q[i - Len(s)].n = Len(s) + (i - Len(s)))
                BY <2>1, <4>1 DEF InOrder
            <4> QED BY <2>1, <4>1, <4>3, <4>4
        <3> QED BY <2>4, <3>1, <3>2
    <2>7. ASSUME NEW k \in 1..t PROVE \E i \in 1..t : all[i] = k
        <3>1. ASSUME NEW i \in 1..Len(s), s[i].n = k PROVE \E j \in 1..t : all[j] = k
            <4>1. i \in 1..t /\ all[i] = k
                BY <2>3, <2>4, <2>5, <3>1
            <4> QED BY <4>1
        <3>2. ASSUME NEW i \in 1..Len(q), q[i].n = k PROVE \E j \in 1..t : all[j] = k
            <4>1. Len(s) + i \in 1..t
                BY <2>3, <2>4
            <4>2. all[Len(s) + i] = k
                BY <2>3, <2>5, <3>2, <4>1
            <4> QED BY <4>1, <4>2
        <3> QED BY <2>1, <3>1, <3>2 DEF InOrder
    <2>8. {all[i] : i \in 1..Len(all)} = 1..t
        <3>1. {all[i] : i \in 1..Len(all)} = {all[i] : i \in 1..t}
            BY <2>5
        <3>2. \A i \in 1..t : all[i] \in 1..t
            BY <2>6
        <3>3. \A k \in 1..t : \E i \in 1..t : all[i] = k
            BY <2>7
        <3>4. {all[i] : i \in 1..t} = 1..t
            BY <3>2, <3>3
        <3> QED BY <3>1, <3>4
    <2>9. ~overtaken[e] => all = [i \in 1..t |-> i]
        BY <2>5, <2>6
    <2>10. PartsWell(s)
        BY <2>1 DEF InOrder
    <2> QED BY <2>5, <2>8, <2>9, <2>10 DEF all, c, s, q, t
<1> QED BY <1>1, InitOrder, NextOrder, PTL DEF ConvSpec
-----------------------------------------------------------------------------
(***************************************************************************)
(* The members of a set of positions, by their rank.                       *)
(***************************************************************************)
LEMMA RankGrows ==
    ASSUME NEW n \in Nat, NEW K \in SUBSET (1..n)
    PROVE  /\ IsFiniteSet(K) /\ Cardinality(K) \in Nat
           /\ \A i \in K : Rank(K, i) \in 1..Cardinality(K)
           /\ \A i, j \in K : i < j => Rank(K, i) < Rank(K, j)
<1>0. \A i \in K : i \in Nat
    OBVIOUS
<1>1. IsFiniteSet(K) /\ Cardinality(K) \in Nat
    <2>1. IsFiniteSet(1..n)
        BY FS_Interval
    <2>2. IsFiniteSet(K)
        BY <2>1, FS_Subset
    <2> QED BY <2>2, FS_CardinalityType
<1>2. ASSUME NEW i \in K
      PROVE  /\ IsFiniteSet({j \in K : j <= i})
             /\ Rank(K, i) \in Nat /\ Rank(K, i) <= Cardinality(K) /\ Rank(K, i) > 0
    <2> DEFINE B == {j \in K : j <= i}
    <2>1. B \in SUBSET K /\ i \in B
        OBVIOUS
    <2>2. IsFiniteSet(B) /\ Cardinality(B) <= Cardinality(K)
        BY <1>1, <2>1, FS_Subset
    <2>3. Cardinality(B) \in Nat /\ Cardinality(B) # 0
        BY <2>1, <2>2, FS_CardinalityType, FS_EmptySet
    <2> QED BY <2>2, <2>3 DEF Rank
<1>3. ASSUME NEW i \in K, NEW j \in K, i < j PROVE Rank(K, i) < Rank(K, j)
    <2> DEFINE B == {x \in K : x <= i}
               C == {x \in K : x <= j}
    <2>0. i \in Nat /\ j \in Nat /\ \A x \in K : x <= i => x <= j
        BY <1>0, <1>3
    <2>1. B \subseteq C /\ j \in C /\ j \notin B
        <3>1. B \subseteq C
            BY <2>0
        <3>2. j <= j /\ ~ (j <= i)
            BY <2>0, <1>3
        <3> QED BY <3>1, <3>2
    <2>2. IsFiniteSet(C) /\ Cardinality(B) \in Nat /\ Cardinality(C) \in Nat
        BY <1>2 DEF Rank
    <2>3. Cardinality(B) <= Cardinality(C) /\ Cardinality(B) # Cardinality(C)
        BY <2>1, <2>2, FS_Subset
    <2> QED BY <2>2, <2>3 DEF Rank
<1>4. \A i \in K : Rank(K, i) \in 1..Cardinality(K)
    <2> TAKE i \in K
    <2>1. Rank(K, i) \in Nat /\ Rank(K, i) <= Cardinality(K) /\ Rank(K, i) > 0
        BY <1>2
    <2> QED BY <1>1, <2>1
<1> QED BY <1>1, <1>3, <1>4

(* The k-th member of a set is the one of rank k, and they grow with k.    *)
LEMMA NthFacts ==
    ASSUME NEW n \in Nat, NEW K \in SUBSET (1..n)
    PROVE  /\ Cardinality(K) \in Nat
           /\ \A k \in 1..Cardinality(K) : Nth(K, k) \in K /\ Rank(K, Nth(K, k)) = k
           /\ \A i \in K : Rank(K, i) \in 1..Cardinality(K) /\ Nth(K, Rank(K, i)) = i
           /\ \A k, l \in 1..Cardinality(K) : k < l => Nth(K, k) < Nth(K, l)
<1> DEFINE c == Cardinality(K)
           f == [i \in K |-> Rank(K, i)]
<1>1. /\ IsFiniteSet(K) /\ c \in Nat
      /\ \A i \in K : Rank(K, i) \in 1..c
      /\ \A i, j \in K : i < j => Rank(K, i) < Rank(K, j)
    BY RankGrows
<1>2. \A i, j \in K : Rank(K, i) = Rank(K, j) => i = j
    BY <1>1
<1>3. f \in Injection(K, 1..c)
    <2>1. f \in [K -> 1..c]
        BY <1>1
    <2>2. \A i, j \in K : f[i] = f[j] => i = j
        BY <1>2
    <2> HIDE DEF f
    <2> QED BY <2>1, <2>2 DEF Injection, IsInjective
<1>4. IsFiniteSet(1..c) /\ Cardinality(1..c) = c
    BY <1>1, FS_Interval
<1>5. f \in Surjection(K, 1..c)
    BY <1>3, <1>4, FS_Injection
<1>6. \A k \in 1..c : \E i \in K : Rank(K, i) = k
    BY <1>5 DEF Surjection
<1>7. \A k \in 1..c : Nth(K, k) \in K /\ Rank(K, Nth(K, k)) = k
    BY <1>6 DEF Nth
<1>8. \A i \in K : Nth(K, Rank(K, i)) = i
    BY <1>1, <1>2, <1>7
<1>9. ASSUME NEW k \in 1..c, NEW l \in 1..c, k < l PROVE Nth(K, k) < Nth(K, l)
    <2>1. Nth(K, k) \in K /\ Nth(K, l) \in K
        BY <1>7
    <2>2. Nth(K, k) \in Int /\ Nth(K, l) \in Int
        <3>1. \A i \in K : i \in Int
            OBVIOUS
        <3> QED BY <2>1, <3>1
    <2>3. Rank(K, Nth(K, k)) = k /\ Rank(K, Nth(K, l)) = l /\ k \in Int /\ l \in Int
        BY <1>1, <1>7
    <2>4. Nth(K, k) # Nth(K, l)
        BY <1>9, <2>3
    <2>5. ~ (Nth(K, l) < Nth(K, k))
        <3>1. Nth(K, l) < Nth(K, k) => Rank(K, Nth(K, l)) < Rank(K, Nth(K, k))
            BY <1>1, <2>1
        <3> QED BY <1>9, <2>3, <3>1
    <2> QED BY <2>2, <2>4, <2>5
<1> QED BY <1>1, <1>7, <1>8, <1>9

(* A subsequence: its elements are those at the positions kept, each once, *)
(* and the first one stays the first if it is kept.                        *)
LEMMA KeptFacts ==
    ASSUME NEW T, NEW s \in Seq(T), NEW K \in SUBSET (1..Len(s))
    PROVE  /\ Kept(s, K) \in Seq(T) /\ Len(Kept(s, K)) = Cardinality(K)
           /\ Cardinality(K) \in Nat
           /\ \A k \in 1..Cardinality(K) : Nth(K, k) \in K /\ Kept(s, K)[k] = s[Nth(K, k)]
           /\ \A i \in K : \E k \in 1..Cardinality(K) : Nth(K, k) = i
           /\ \A k, l \in 1..Cardinality(K) : Nth(K, k) = Nth(K, l) => k = l
           /\ 1 \in K => Cardinality(K) > 0 /\ Nth(K, 1) = 1
<1> DEFINE c == Cardinality(K)
<1>0. Len(s) \in Nat
    OBVIOUS
<1>1. /\ c \in Nat
      /\ \A k \in 1..c : Nth(K, k) \in K /\ Rank(K, Nth(K, k)) = k
      /\ \A i \in K : Rank(K, i) \in 1..c /\ Nth(K, Rank(K, i)) = i
      /\ \A k, l \in 1..c : k < l => Nth(K, k) < Nth(K, l)
    BY <1>0, NthFacts
<1>2. \A k \in 1..c : s[Nth(K, k)] \in T
    <2>1. \A i \in K : i \in 1..Len(s)
        OBVIOUS
    <2>2. \A i \in 1..Len(s) : s[i] \in T
        OBVIOUS
    <2> QED BY <1>1, <2>1, <2>2
<1>3. Kept(s, K) \in Seq(T) /\ Len(Kept(s, K)) = c
    BY <1>1, <1>2 DEF Kept
<1>4. \A k \in 1..c : Kept(s, K)[k] = s[Nth(K, k)]
    BY DEF Kept
<1>5. ASSUME NEW k \in 1..c, NEW l \in 1..c, Nth(K, k) = Nth(K, l) PROVE k = l
    BY <1>1, <1>5
<1>6. ASSUME 1 \in K PROVE c > 0 /\ Nth(K, 1) = 1
    <2>1. PICK k \in 1..c : Nth(K, k) = 1
        BY <1>1, <1>6
    <2>2. 1 \in 1..c /\ Nth(K, 1) \in K
        BY <1>1, <2>1
    <2>3. Nth(K, 1) \in 1..Len(s)
        BY <2>2
    <2>4. ~ (1 < k)
        BY <1>1, <2>1, <2>2, <2>3
    <2> QED BY <1>1, <2>1, <2>4
<1> QED BY <1>1, <1>3, <1>4, <1>5, <1>6
-----------------------------------------------------------------------------
(***************************************************************************)
(* The questions of libpurple, Requests.                                   *)
(***************************************************************************)
Request == [id : Questions, at : Nat \ {0}]

RequestTypes ==
    /\ requests \in Seq(Request)
    /\ handles \subseteq asked /\ asked \subseteq Questions
    /\ values \in [Questions -> SUBSET Nat]
    /\ ran \in [Questions -> Nat]

(* The fields of q before position i that are asked for.                   *)
NoImages(q, i) == {k \in 1..Len(Fields[q]) : k < i /\ Fields[q][k] # "image"}

(* rs is a queue of the open questions H, each once.                       *)
QueueOf(rs, H) ==
    /\ \A i, j \in 1..Len(rs) : rs[i].id = rs[j].id => i = j
    /\ \A i \in 1..Len(rs) : rs[i].id \in H
    /\ \A q \in H : \E i \in 1..Len(rs) : rs[i].id = q

(* A question that waits has a value for what comes before its position,   *)
(* and has not been answered.                                              *)
WaitingWell(rs, vs, rn) ==
    \A i \in 1..Len(rs) :
        /\ Form[rs[i].id] # "file"
        /\ rs[i].at <= Confirm(rs[i].id)
        /\ vs[rs[i].id] = NoImages(rs[i].id, rs[i].at)
        /\ rn[rs[i].id] = 0

(* What has been displayed is the first question, at no image.             *)
Prompted ==
    /\ requests = <<>> => prompt = Nothing
    /\ requests # <<>> =>
        /\ prompt = <<requests[1].id, requests[1].at>>
        /\ requests[1].at < Confirm(requests[1].id) =>
             Fields[requests[1].id][requests[1].at] # "image"

(* Nothing is known of a question before it is asked.                      *)
Unasked == \A q \in Questions \ asked : values[q] = {} /\ ran[q] = 0

(* An answer was given once, with all the fields.                          *)
Answered ==
    \A q \in Questions : ran[q] # 0 => ran[q] = 1 /\ values[q] = NoImages(q, Confirm(q))

RequestsInv ==
    /\ RequestTypes /\ QueueOf(requests, handles)
    /\ WaitingWell(requests, values, ran)
    /\ Prompted /\ Unasked /\ Answered

(* A set of naturals has a least member.                                   *)
LEMMA LeastOf ==
    ASSUME NEW S \in SUBSET Nat, S # {}
    PROVE  \E m \in S : \A x \in S : m <= x
<1>1. IsWellFoundedOn(OpToRel(<, Nat), Nat)
    BY NatLessThanWellFounded
<1>2. PICK m \in S : \A x \in S : ~(<<x, m>> \in OpToRel(<, Nat))
    BY <1>1, WFMin
<1>3. \A x \in S : ~(x < m)
    BY <1>2 DEF OpToRel
<1> QED BY <1>3

(* RequestFieldsImage::display(): the position displayed is the next one   *)
(* that is no image, and those passed over add nothing to be asked for.    *)
LEMMA AfterImagesFacts ==
    ASSUME NEW q \in Questions, NEW i \in Nat \ {0}, i <= Confirm(q)
    PROVE  /\ AfterImages(q, i) \in Nat \ {0} /\ AfterImages(q, i) <= Confirm(q)
           /\ AfterImages(q, i) < Confirm(q) => Fields[q][AfterImages(q, i)] # "image"
           /\ NoImages(q, AfterImages(q, i)) = NoImages(q, i)
<1> DEFINE c == Confirm(q)
           S == {j \in i..c : j = c \/ Fields[q][j] # "image"}
           a == AfterImages(q, i)
<1>1. Len(Fields[q]) \in Nat /\ c = Len(Fields[q]) + 1
    BY RequestsAssumption DEF Confirm
<1>2. S \in SUBSET Nat /\ c \in S
    BY <1>1
<1>3. PICK m \in S : \A x \in S : m <= x
    BY <1>2, LeastOf
<1>4. \A k \in i..(m - 1) : Fields[q][k] = "image"
    BY <1>1, <1>2, <1>3
<1>5. /\ a \in i..c
      /\ a = c \/ Fields[q][a] # "image"
      /\ \A k \in i..(a - 1) : Fields[q][k] = "image"
    BY <1>3, <1>4 DEF AfterImages
<1>6. ASSUME NEW k \in 1..Len(Fields[q]), Fields[q][k] # "image" PROVE k < a <=> k < i
    <2>1. a \in Int /\ i \in Int /\ k \in Int /\ i <= a
        BY <1>1, <1>5
    <2>2. ~ (i <= k /\ k <= a - 1)
        BY <1>5, <1>6, <2>1
    <2> QED BY <2>1, <2>2
<1>7. NoImages(q, a) = NoImages(q, i)
    BY <1>6 DEF NoImages
<1>8. a \in Nat \ {0} /\ a <= c /\ (a < c => Fields[q][a] # "image")
    BY <1>1, <1>5
<1> QED BY <1>7, <1>8

(* closeRequest(): what stays are the other requests, each once, the first *)
(* one in front if it stays.                                               *)
LEMMA WithoutFacts ==
    ASSUME NEW rs \in Seq(Request), NEW H, NEW S, NEW vs, NEW rn,
           QueueOf(rs, H), WaitingWell(rs, vs, rn)
    PROVE  /\ Remaining(rs, S) \in Seq(Request)
           /\ QueueOf(Remaining(rs, S), H \ S)
           /\ WaitingWell(Remaining(rs, S), vs, rn)
<1> DEFINE K == {i \in 1..Len(rs) : rs[i].id \notin S}
           w == Remaining(rs, S)
           c == Cardinality(K)
<1>1. /\ w \in Seq(Request) /\ Len(w) = c /\ c \in Nat
      /\ \A k \in 1..c : Nth(K, k) \in K /\ w[k] = rs[Nth(K, k)]
      /\ \A i \in K : \E k \in 1..c : Nth(K, k) = i
      /\ \A k, l \in 1..c : Nth(K, k) = Nth(K, l) => k = l
      /\ 1 \in K => c > 0 /\ Nth(K, 1) = 1
    <2>1. K \in SUBSET (1..Len(rs)) /\ w = Kept(rs, K)
        BY DEF Remaining
    <2> HIDE DEF K, w
    <2> QED BY <2>1, KeptFacts
<1> HIDE DEF w
<1>2. \A k \in 1..c : Nth(K, k) \in 1..Len(rs) /\ rs[Nth(K, k)].id \notin S
    BY <1>1
<1>3. ASSUME NEW k \in 1..c, NEW l \in 1..c, w[k].id = w[l].id PROVE k = l
    <2>1. Nth(K, k) = Nth(K, l)
        BY <1>1, <1>2, <1>3, SMTT(40) DEF QueueOf
    <2> QED BY <1>1, <2>1
<1>4. \A k \in 1..c : w[k].id \in H \ S
    BY <1>1, <1>2 DEF QueueOf
<1>5. ASSUME NEW q \in H \ S PROVE \E k \in 1..c : w[k].id = q
    <2>1. PICK i \in 1..Len(rs) : rs[i].id = q
        BY DEF QueueOf
    <2>2. i \in K
        BY <2>1
    <2>3. PICK k \in 1..c : Nth(K, k) = i
        BY <1>1, <2>2
    <2>4. w[k] = rs[i]
        BY <1>1, <2>3
    <2> QED BY <2>1, <2>4
<1>6. QueueOf(w, H \ S)
    BY <1>1, <1>3, <1>4, <1>5 DEF QueueOf
<1>7. WaitingWell(w, vs, rn)
    BY <1>1, <1>2 DEF WaitingWell
<1> QED BY <1>1, <1>6, <1>7 DEF w

(* The first request stays first when it is not among those closed.        *)
LEMMA WithoutFirst ==
    ASSUME NEW rs \in Seq(Request), NEW S
    PROVE  /\ rs = <<>> => Remaining(rs, S) = <<>>
           /\ rs # <<>> => (rs[1].id \notin S =>
                Remaining(rs, S) # <<>> /\ Remaining(rs, S)[1] = rs[1])
<1> DEFINE K == {i \in 1..Len(rs) : rs[i].id \notin S}
           w == Remaining(rs, S)
           c == Cardinality(K)
<1>1. /\ w \in Seq(Request) /\ Len(w) = c /\ c \in Nat
      /\ \A k \in 1..c : w[k] = rs[Nth(K, k)]
      /\ 1 \in K => c > 0 /\ Nth(K, 1) = 1
    <2>1. K \in SUBSET (1..Len(rs)) /\ w = Kept(rs, K)
        BY DEF Remaining
    <2> HIDE DEF K, w
    <2> QED BY <2>1, KeptFacts
<1> HIDE DEF w
<1>2. ASSUME rs # <<>>, rs[1].id \notin S PROVE w # <<>> /\ w[1] = rs[1]
    <2>1. 1 \in K
        BY <1>2
    <2>2. c > 0 /\ w[1] = rs[1]
        BY <1>1, <2>1
    <2> QED BY <1>1, <2>2
<1>3. ASSUME rs = <<>> PROVE w = <<>>
    <2>1. K = {}
        BY <1>3
    <2>2. c = 0
        BY <2>1, FS_EmptySet
    <2> QED BY <1>1, <2>2
<1> QED BY <1>2, <1>3 DEF w

(* addRequest(): one more at the end.                                      *)
LEMMA AppendFacts ==
    ASSUME NEW rs \in Seq(Request), NEW H \in SUBSET Questions, NEW vs, NEW rn,
           QueueOf(rs, H), WaitingWell(rs, vs, rn),
           NEW q \in Questions, q \notin H, Form[q] # "file", vs[q] = {}, rn[q] = 0
    PROVE  /\ Append(rs, Start(q)) \in Seq(Request) /\ Append(rs, Start(q)) # <<>>
           /\ QueueOf(Append(rs, Start(q)), H \cup {q})
           /\ WaitingWell(Append(rs, Start(q)), vs, rn)
           /\ rs # <<>> => Append(rs, Start(q))[1] = rs[1]
<1> DEFINE n == Len(rs)
           a == Append(rs, Start(q))
<1>1. Start(q) \in Request /\ Start(q).id = q /\ Start(q).at = 1
    BY DEF Start, Request
<1>2. /\ a \in Seq(Request) /\ Len(a) = n + 1 /\ n \in Nat /\ a # <<>>
      /\ \A i \in 1..n : a[i] = rs[i]
      /\ a[n + 1] = Start(q)
    BY <1>1
<1> HIDE DEF a
<1>3. \A i \in 1..(n + 1) : i \in 1..n \/ i = n + 1
    BY <1>2
<1>4. \A i \in 1..n : a[i].id \in H
    BY <1>2 DEF QueueOf
<1>5. a[n + 1].id = q
    BY <1>1, <1>2
<1>6. ASSUME NEW i \in 1..(n + 1), NEW j \in 1..(n + 1), a[i].id = a[j].id PROVE i = j
    <2>1. CASE i \in 1..n /\ j \in 1..n
        BY <1>2, <1>6, <2>1 DEF QueueOf
    <2> QED BY <1>3, <1>4, <1>5, <1>6, <2>1
<1>7. \A i \in 1..(n + 1) : a[i].id \in H \cup {q}
    BY <1>3, <1>4, <1>5
<1>8. ASSUME NEW p \in H \cup {q} PROVE \E i \in 1..(n + 1) : a[i].id = p
    <2>1. CASE p = q
        BY <1>2, <1>5, <2>1
    <2>2. CASE p \in H
        <3>1. PICK i \in 1..n : rs[i].id = p
            BY <2>2 DEF QueueOf
        <3> QED BY <1>2, <3>1
    <2> QED BY <2>1, <2>2
<1>9. QueueOf(a, H \cup {q})
    BY <1>2, <1>6, <1>7, <1>8 DEF QueueOf
<1>10. NoImages(q, 1) = {} /\ 1 <= Confirm(q)
    BY RequestsAssumption DEF NoImages, Confirm
<1>11. WaitingWell(a, vs, rn)
    <2> SUFFICES ASSUME NEW i \in 1..(n + 1)
                 PROVE  /\ Form[a[i].id] # "file"
                        /\ a[i].at <= Confirm(a[i].id)
                        /\ vs[a[i].id] = NoImages(a[i].id, a[i].at)
                        /\ rn[a[i].id] = 0
        BY <1>2 DEF WaitingWell
    <2>1. CASE i \in 1..n
        BY <1>2, <2>1 DEF WaitingWell
    <2>2. CASE i = n + 1
        BY <1>1, <1>2, <1>10, <2>2
    <2> QED BY <1>3, <2>1, <2>2
<1>12. rs # <<>> => a[1] = rs[1]
    BY <1>2
<1> QED BY <1>2, <1>9, <1>11, <1>12 DEF a

(* display(): the first request moves past its images and is what the user *)
(* is shown.                                                               *)
LEMMA DisplayFacts ==
    ASSUME NEW rs \in Seq(Request), NEW H, NEW vs, NEW rn,
           QueueOf(rs, H), WaitingWell(rs, vs, rn), Display(rs)
    PROVE  /\ requests' \in Seq(Request)
           /\ QueueOf(requests', H) /\ WaitingWell(requests', vs, rn) /\ Prompted'
           /\ Len(requests') = Len(rs) /\ \A i \in 1..Len(rs) : requests'[i].id = rs[i].id
<1>1. CASE rs = <<>>
    BY <1>1 DEF Display, Prompted, Nothing
<1>2. CASE rs # <<>>
    <2> DEFINE q == rs[1].id
               a == AfterImages(q, rs[1].at)
               r == [rs[1] EXCEPT !.at = AfterImages(rs[1].id, @)]
               new == [rs EXCEPT ![1] = r]
    <2>1. requests' = new /\ prompt' = <<r.id, r.at>>
        BY <1>2 DEF Display
    <2>2. Len(rs) \in Nat /\ 1 \in 1..Len(rs) /\ rs[1] \in Request
        BY <1>2
    <2>3. /\ q \in Questions /\ rs[1].at \in Nat \ {0} /\ rs[1].at <= Confirm(q)
          /\ Form[q] # "file" /\ vs[q] = NoImages(q, rs[1].at) /\ rn[q] = 0
        BY <2>2 DEF Request, WaitingWell
    <2>4. /\ a \in Nat \ {0} /\ a <= Confirm(q)
          /\ a < Confirm(q) => Fields[q][a] # "image"
          /\ NoImages(q, a) = NoImages(q, rs[1].at)
        BY <2>3, AfterImagesFacts
    <2>5. r.id = q /\ r.at = a /\ r \in Request
        BY <2>2, <2>4 DEF Request
    <2> HIDE DEF a, r
    <2>6. /\ new \in Seq(Request) /\ Len(new) = Len(rs) /\ new[1] = r
          /\ \A i \in 1..Len(rs) : i # 1 => new[i] = rs[i]
        BY <2>2, <2>5
    <2> HIDE DEF new
    <2>7. \A i \in 1..Len(rs) : new[i].id = rs[i].id
        BY <2>5, <2>6
    <2>8. QueueOf(new, H)
        BY <2>6, <2>7 DEF QueueOf
    <2>9. ASSUME NEW i \in 1..Len(rs)
          PROVE  /\ Form[new[i].id] # "file"
                 /\ new[i].at <= Confirm(new[i].id)
                 /\ vs[new[i].id] = NoImages(new[i].id, new[i].at)
                 /\ rn[new[i].id] = 0
        <3>1. CASE i = 1
            BY <2>3, <2>4, <2>5, <2>6, <3>1
        <3>2. CASE i # 1
            BY <2>6, <3>2 DEF WaitingWell
        <3> QED BY <3>1, <3>2
    <2>10. WaitingWell(new, vs, rn)
        BY <2>6, <2>9 DEF WaitingWell
    <2>11. Prompted'
        BY <2>1, <2>2, <2>4, <2>5, <2>6 DEF Prompted
    <2> QED BY <2>1, <2>6, <2>7, <2>8, <2>10, <2>11
<1> QED BY <1>1, <1>2

(* No question is open at first.                                           *)
LEMMA InitRequests == RequestsInit => RequestsInv
<1> SUFFICES ASSUME RequestsInit PROVE RequestsInv
    OBVIOUS
<1>1. RequestTypes
    BY DEF RequestsInit, RequestTypes
<1>2. Len(requests) = 0
    BY DEF RequestsInit
<1>3. QueueOf(requests, handles) /\ WaitingWell(requests, values, ran)
    BY <1>2 DEF RequestsInit, QueueOf, WaitingWell
<1>4. Prompted /\ Unasked /\ Answered
    BY DEF RequestsInit, Prompted, Unasked, Answered
<1> QED BY <1>1, <1>3, <1>4 DEF RequestsInv

(* request_input(), request_fields(): a new question, displayed if it is   *)
(* the only one.                                                           *)
LEMMA AddKeeps ==
    ASSUME RequestsInv, NEW q \in Questions, q \notin asked, Form[q] # "file",
           AddRequest(q), UNCHANGED <<values, ran>>
    PROVE  RequestsInv'
<1>1. /\ handles' = handles \cup {q} /\ asked' = asked \cup {q}
      /\ values' = values /\ ran' = ran
      /\ q \notin handles /\ values[q] = {} /\ ran[q] = 0
    BY DEF AddRequest, RequestsInv, RequestTypes, Unasked
<1> DEFINE a == Append(requests, Start(q))
<1>2. /\ a \in Seq(Request) /\ a # <<>>
      /\ QueueOf(a, handles \cup {q}) /\ WaitingWell(a, values, ran)
      /\ requests # <<>> => a[1] = requests[1]
    <2>1. /\ requests \in Seq(Request) /\ handles \in SUBSET Questions
          /\ QueueOf(requests, handles) /\ WaitingWell(requests, values, ran)
        BY DEF RequestsInv, RequestTypes
    <2> QED BY <1>1, <2>1, AppendFacts
<1> HIDE DEF a
<1>3. /\ requests' \in Seq(Request) /\ QueueOf(requests', handles')
      /\ WaitingWell(requests', values', ran') /\ Prompted'
    <2>1. CASE requests = <<>>
        <3>1. Display(a)
            BY <2>1 DEF AddRequest, Added, a
        <3> QED BY <1>1, <1>2, <3>1, DisplayFacts
    <2>2. CASE requests # <<>>
        <3>1. requests' = a /\ prompt' = prompt
            BY <2>2 DEF AddRequest, Added, a
        <3>2. Prompted'
            BY <1>2, <2>2, <3>1 DEF RequestsInv, Prompted
        <3> QED BY <1>1, <1>2, <3>1, <3>2
    <2> QED BY <2>1, <2>2
<1>4. RequestTypes'
    BY <1>1, <1>3 DEF RequestsInv, RequestTypes
<1>5. Unasked' /\ Answered'
    BY <1>1 DEF RequestsInv, Unasked, Answered
<1> QED BY <1>3, <1>4, <1>5 DEF RequestsInv

(* request_file(): answered at once, never in the queue.                   *)
LEMMA FileKeeps ==
    ASSUME RequestsInv, NEW q \in Questions, request_file(q)
    PROVE  RequestsInv'
<1>1. /\ q \notin asked /\ Form[q] = "file"
      /\ asked' = asked \cup {q} /\ ran' = [ran EXCEPT ![q] = @ + 1]
      /\ requests' = requests /\ handles' = handles /\ prompt' = prompt /\ values' = values
      /\ ran[q] = 0 /\ values[q] = {}
    BY DEF request_file, Ran, RequestsInv, Unasked
<1>2. ran \in [Questions -> Nat] /\ ran'[q] = 1 /\ \A p \in Questions : p # q => ran'[p] = ran[p]
    BY <1>1 DEF RequestsInv, RequestTypes
<1>3. RequestTypes'
    BY <1>1 DEF RequestsInv, RequestTypes
<1>4. WaitingWell(requests', values', ran')
    <2> SUFFICES ASSUME NEW i \in 1..Len(requests)
                 PROVE  ran'[requests[i].id] = 0
        BY <1>1 DEF RequestsInv, WaitingWell
    <2>0. requests[i] \in Request
        BY DEF RequestsInv, RequestTypes
    <2>1. requests[i].id \in Questions /\ ran[requests[i].id] = 0 /\ Form[requests[i].id] # "file"
        BY <2>0 DEF RequestsInv, Request, WaitingWell
    <2> QED BY <1>1, <1>2, <2>1
<1>5. NoImages(q, Confirm(q)) = {}
    BY <1>1, RequestsAssumption DEF NoImages
<1>6. Unasked' /\ Answered'
    BY <1>1, <1>2, <1>5 DEF RequestsInv, Unasked, Answered
<1>7. QueueOf(requests', handles') /\ Prompted'
    BY <1>1 DEF RequestsInv, QueueOf, Prompted
<1> QED BY <1>3, <1>4, <1>6, <1>7 DEF RequestsInv

(* request_close() of some of the open questions.                          *)
LEMMA CloseKeeps ==
    ASSUME RequestsInv, NEW S \in SUBSET handles, handles' = handles \ S,
           CloseRequests(requests, S), UNCHANGED purpleVars
    PROVE  RequestsInv'
<1>1. values' = values /\ ran' = ran /\ asked' = asked
    BY DEF purpleVars
<1> DEFINE w == Remaining(requests, S)
<1>2. /\ w \in Seq(Request)
      /\ QueueOf(w, handles \ S) /\ WaitingWell(w, values, ran)
      /\ requests # <<>> /\ requests[1].id \notin S => w # <<>> /\ w[1] = requests[1]
      /\ requests = <<>> => w = <<>>
    <2>1. /\ requests \in Seq(Request)
          /\ QueueOf(requests, handles) /\ WaitingWell(requests, values, ran)
        BY DEF RequestsInv, RequestTypes
    <2>2. /\ Remaining(requests, S) \in Seq(Request)
          /\ QueueOf(Remaining(requests, S), handles \ S)
          /\ WaitingWell(Remaining(requests, S), values, ran)
        BY <2>1, WithoutFacts
    <2>3. /\ requests = <<>> => Remaining(requests, S) = <<>>
          /\ requests # <<>> => (requests[1].id \notin S =>
                Remaining(requests, S) # <<>> /\ Remaining(requests, S)[1] = requests[1])
        BY <2>1, WithoutFirst
    <2> QED BY <2>2, <2>3
<1> HIDE DEF w
<1>3. /\ requests' \in Seq(Request) /\ QueueOf(requests', handles')
      /\ WaitingWell(requests', values', ran') /\ Prompted'
    <2>1. CASE requests # <<>> /\ requests[1].id \in S
        <3>1. Display(w)
            BY <2>1 DEF CloseRequests, w
        <3> QED BY <1>1, <1>2, <3>1, DisplayFacts
    <2>2. CASE ~ (requests # <<>> /\ requests[1].id \in S)
        <3>1. requests' = w /\ prompt' = prompt
            BY <2>2 DEF CloseRequests, w
        <3>2. Prompted'
            BY <1>2, <2>2, <3>1 DEF RequestsInv, Prompted
        <3> QED BY <1>1, <1>2, <3>1, <3>2
    <2> QED BY <2>1, <2>2
<1>4. RequestTypes'
    BY <1>1, <1>3 DEF RequestsInv, RequestTypes
<1>5. Unasked' /\ Answered'
    BY <1>1 DEF RequestsInv, Unasked, Answered
<1> QED BY <1>3, <1>4, <1>5 DEF RequestsInv

(* The first request, what is known of it, and that no other is the same.  *)
LEMMA FirstFacts ==
    ASSUME RequestsInv, requests # <<>>
    PROVE  LET r == requests[1] IN
           /\ r \in Request /\ r.id \in Questions /\ r.at \in Nat \ {0}
           /\ Head(requests) = r /\ Len(requests) \in Nat /\ 1 \in 1..Len(requests)
           /\ r.id \in handles /\ Form[r.id] # "file" /\ r.at <= Confirm(r.id)
           /\ values[r.id] = NoImages(r.id, r.at) /\ ran[r.id] = 0
           /\ r.at < Confirm(r.id) => Fields[r.id][r.at] # "image"
           /\ \A i \in 1..Len(requests) : i # 1 => requests[i].id # r.id
<1>1. requests \in Seq(Request) /\ Len(requests) \in Nat /\ 1 \in 1..Len(requests)
    BY DEF RequestsInv, RequestTypes
<1>2. requests[1] \in Request /\ Head(requests) = requests[1]
    BY <1>1
<1>3. requests[1].id \in Questions /\ requests[1].at \in Nat \ {0}
    BY <1>2 DEF Request
<1>4. \A i \in 1..Len(requests) : i # 1 => requests[i].id # requests[1].id
    BY <1>1 DEF RequestsInv, QueueOf
<1> QED BY <1>1, <1>2, <1>3, <1>4 DEF RequestsInv, QueueOf, WaitingWell, Prompted

(* A wrong answer asks the same question again.                            *)
LEMMA WrongKeeps == ASSUME RequestsInv, WrongAnswer PROVE RequestsInv'
<1>1. /\ values' = values /\ ran' = ran /\ asked' = asked /\ handles' = handles
      /\ Display(requests)
    BY DEF WrongAnswer, purpleVars
<1>2. /\ requests \in Seq(Request)
      /\ QueueOf(requests, handles) /\ WaitingWell(requests, values, ran)
    BY DEF RequestsInv, RequestTypes
<1>3. /\ requests' \in Seq(Request) /\ QueueOf(requests', handles)
      /\ WaitingWell(requests', values, ran) /\ Prompted'
    BY <1>1, <1>2, DisplayFacts
<1> QED BY <1>1, <1>3 DEF RequestsInv, RequestTypes, Unasked, Answered

(* An answer to a field moves the request one on, and adds its value.      *)
LEMMA FieldKeeps ==
    ASSUME RequestsInv, AnswerField
    PROVE  /\ RequestsInv'
           /\ requests' \in Seq(Request) /\ Len(requests') = Len(requests)
           /\ \A i \in 1..Len(requests) : requests'[i].id = requests[i].id
<1> DEFINE r == requests[1]
           q == r.id
           n == Len(requests)
           rs == [requests EXCEPT ![1].at = @ + 1]
           vs == [values EXCEPT ![q] = @ \cup {r.at}]
<1>0. requests # <<>>
    BY DEF AnswerField
<1>1. /\ r \in Request /\ q \in Questions /\ r.at \in Nat \ {0}
      /\ Head(requests) = r /\ n \in Nat /\ 1 \in 1..n
      /\ q \in handles /\ Form[q] # "file"
      /\ values[q] = NoImages(q, r.at) /\ ran[q] = 0
      /\ r.at < Confirm(q) => Fields[q][r.at] # "image"
      /\ \A i \in 1..n : i # 1 => requests[i].id # q
    BY <1>0, FirstFacts
<1>2. /\ r.at < Confirm(q) /\ values' = vs /\ Display(rs)
      /\ handles' = handles /\ asked' = asked /\ ran' = ran
    BY <1>1 DEF AnswerField, SetField
<1>3. /\ values \in [Questions -> SUBSET Nat] /\ requests \in Seq(Request)
      /\ ran \in [Questions -> Nat]
    BY DEF RequestsInv, RequestTypes
<1>4. /\ vs \in [Questions -> SUBSET Nat] /\ vs[q] = values[q] \cup {r.at}
      /\ \A p \in Questions : p # q => vs[p] = values[p]
    BY <1>1, <1>3
<1>5. /\ Len(rs) = n /\ rs[1] = [requests[1] EXCEPT !.at = @ + 1]
      /\ \A i \in 1..n : i # 1 => rs[i] = requests[i]
      /\ DOMAIN rs = 1..n
    BY <1>1, <1>3
<1>6. rs[1] \in Request /\ rs[1].id = q /\ rs[1].at = r.at + 1
    BY <1>1, <1>5 DEF Request
<1>7. rs \in Seq(Request)
    BY <1>1, <1>3, <1>5, <1>6
<1> HIDE DEF rs, vs
<1>8. NoImages(q, r.at + 1) = NoImages(q, r.at) \cup {r.at}
    <2>1. r.at \in 1..Len(Fields[q]) /\ Fields[q][r.at] # "image"
        BY <1>1, <1>2, RequestsAssumption DEF Confirm
    <2>2. \A k \in 1..Len(Fields[q]) : k < r.at + 1 <=> (k < r.at \/ k = r.at)
        BY <1>1, RequestsAssumption
    <2> QED BY <2>1, <2>2 DEF NoImages
<1>9. \A i \in 1..n : rs[i].id = requests[i].id
    BY <1>5, <1>6
<1>10. QueueOf(rs, handles)
    BY <1>5, <1>9 DEF RequestsInv, QueueOf
<1>11. WaitingWell(rs, vs, ran)
    <2> SUFFICES ASSUME NEW i \in 1..n
                 PROVE  /\ Form[rs[i].id] # "file"
                        /\ rs[i].at <= Confirm(rs[i].id)
                        /\ vs[rs[i].id] = NoImages(rs[i].id, rs[i].at)
                        /\ ran[rs[i].id] = 0
        BY <1>5 DEF WaitingWell
    <2>1. CASE i = 1
        <3>1. r.at + 1 <= Confirm(q)
            BY <1>1, <1>2, RequestsAssumption DEF Confirm
        <3> QED BY <1>1, <1>4, <1>6, <1>8, <2>1, <3>1
    <2>2. CASE i # 1
        <3>0. requests[i] \in Request
            BY <1>3
        <3>1. requests[i].id \in Questions /\ requests[i].id # q
            BY <1>1, <2>2, <3>0 DEF Request
        <3> QED BY <1>4, <1>5, <2>2, <3>1 DEF RequestsInv, WaitingWell
    <2> QED BY <2>1, <2>2
<1>12. /\ requests' \in Seq(Request) /\ QueueOf(requests', handles)
       /\ WaitingWell(requests', vs, ran) /\ Prompted'
       /\ Len(requests') = Len(rs) /\ \A i \in 1..Len(rs) : requests'[i].id = rs[i].id
    BY <1>2, <1>7, <1>10, <1>11, DisplayFacts
<1>13. RequestTypes'
    BY <1>2, <1>4, <1>12 DEF RequestsInv, RequestTypes
<1>14. Unasked' /\ Answered'
    BY <1>1, <1>2, <1>4 DEF RequestsInv, RequestTypes, Unasked, Answered
<1>15. RequestsInv'
    BY <1>2, <1>12, <1>13, <1>14 DEF RequestsInv
<1> QED BY <1>5, <1>9, <1>12, <1>15

(* The requests an answer may open.                                        *)
LEMMA IdsOfNew ==
    /\ IdsOf(<<>>) = {}
    /\ \A p \in Questions : IdsOf(<<Start(p)>>) = {p}
<1>1. IdsOf(<<>>) = {}
    BY DEF IdsOf
<1>2. ASSUME NEW p \in Questions PROVE IdsOf(<<Start(p)>>) = {p}
    <2>1. Len(<<Start(p)>>) = 1 /\ <<Start(p)>>[1].id = p
        BY DEF Start
    <2> QED BY <2>1 DEF IdsOf
<1> QED BY <1>1, <1>2

(* The answer to the first question: it goes, with those its callback      *)
(* closes; the one the callback asks comes last.                           *)
LEMMA AnswerKeeps == ASSUME RequestsInv, AnswerQuestion PROVE RequestsInv'
<1> DEFINE q == requests[1].id
<1>0. requests # <<>> /\ getFirstRequest = requests[1]
    BY DEF AnswerQuestion, getFirstRequest
<1>1. /\ requests[1].at = Confirm(q) /\ ran' = [ran EXCEPT ![q] = @ + 1] /\ values' = values
    BY <1>0 DEF AnswerQuestion, Ran
<1>2. PICK S \in Closable,
           more \in {<<>>} \cup
               {<<Start(p)>> : p \in {x \in Questions \ asked : Form[x] # "file"}} :
              /\ asked' = asked \cup IdsOf(more)
              /\ handles' = HandlesLeft(q, S, more)
              /\ Display(Remaining(requests, S \cup {q}) \o more)
    BY Zenon DEF AnswerQuestion, getFirstRequest
<1>3. /\ q \in Questions /\ q \in handles /\ values[q] = NoImages(q, Confirm(q)) /\ ran[q] = 0
    BY <1>0, <1>1, FirstFacts
<1>4. /\ requests \in Seq(Request) /\ handles \subseteq asked /\ asked \subseteq Questions
      /\ ran \in [Questions -> Nat] /\ values \in [Questions -> SUBSET Nat]
      /\ QueueOf(requests, handles) /\ WaitingWell(requests, values, ran)
      /\ Unasked /\ Answered
    BY DEF RequestsInv, RequestTypes
<1>5. /\ ran' \in [Questions -> Nat] /\ ran'[q] = 1
      /\ \A p \in Questions : p # q => ran'[p] = ran[p]
    BY <1>1, <1>3, <1>4
<1> DEFINE H == handles \ (S \cup {q})
           w == Remaining(requests, S \cup {q})
<1>6. w \in Seq(Request) /\ QueueOf(w, H) /\ WaitingWell(w, values, ran)
    BY <1>4, WithoutFacts
<1> HIDE DEF w
<1>7. WaitingWell(w, values, ran')
    <2> SUFFICES ASSUME NEW i \in 1..Len(w) PROVE ran'[w[i].id] = 0
        BY <1>6 DEF WaitingWell
    <2>1. w[i].id \in H /\ ran[w[i].id] = 0
        BY <1>6 DEF QueueOf, WaitingWell
    <2> QED BY <1>4, <1>5, <2>1
<1>8. /\ requests' \in Seq(Request) /\ QueueOf(requests', handles')
      /\ WaitingWell(requests', values, ran') /\ Prompted'
      /\ handles' \subseteq asked' /\ asked' \subseteq Questions
      /\ asked \subseteq asked'
    <2>1. CASE more = <<>>
        <3>1. handles' = H /\ asked' = asked
            BY <1>2, <2>1, IdsOfNew DEF HandlesLeft
        <3>2. Display(w)
            BY <1>2, <1>6, <2>1 DEF w
        <3>3. /\ requests' \in Seq(Request) /\ QueueOf(requests', H)
              /\ WaitingWell(requests', values, ran') /\ Prompted'
            BY <1>6, <1>7, <3>2, DisplayFacts
        <3> QED BY <1>4, <3>1, <3>3
    <2>2. ASSUME NEW p \in Questions \ asked, Form[p] # "file", more = <<Start(p)>>
          PROVE  /\ requests' \in Seq(Request) /\ QueueOf(requests', handles')
                 /\ WaitingWell(requests', values, ran') /\ Prompted'
                 /\ handles' \subseteq asked' /\ asked' \subseteq Questions
                 /\ asked \subseteq asked'
        <3>1. IdsOf(more) = {p} /\ p # q /\ p \notin H /\ values[p] = {} /\ ran'[p] = 0
            BY <1>3, <1>4, <1>5, <2>2, IdsOfNew DEF Unasked
        <3>2. handles' = H \cup {p} /\ asked' = asked \cup {p}
            BY <1>2, <3>1 DEF HandlesLeft
        <3>3. Display(Append(w, Start(p)))
            <4>1. Start(p) \in Request
                BY DEF Start, Request
            <4>2. w \o <<Start(p)>> = Append(w, Start(p))
                BY <1>6, <4>1
            <4> QED BY <1>2, <2>2, <4>2 DEF w
        <3>4. H \in SUBSET Questions
            BY <1>4
        <3>5. /\ Append(w, Start(p)) \in Seq(Request)
              /\ QueueOf(Append(w, Start(p)), H \cup {p})
              /\ WaitingWell(Append(w, Start(p)), values, ran')
            BY <1>6, <1>7, <2>2, <3>1, <3>4, AppendFacts
        <3>6. /\ requests' \in Seq(Request) /\ QueueOf(requests', H \cup {p})
              /\ WaitingWell(requests', values, ran') /\ Prompted'
            BY <3>3, <3>5, DisplayFacts
        <3> QED BY <1>4, <3>2, <3>6
    <2>3. more = <<>> \/ \E p \in Questions \ asked : Form[p] # "file" /\ more = <<Start(p)>>
        BY <1>2
    <2> QED BY <2>1, <2>2, <2>3
<1>9. Unasked'
    BY <1>1, <1>3, <1>4, <1>5, <1>8 DEF Unasked
<1>10. Answered'
    BY <1>1, <1>3, <1>4, <1>5 DEF Answered
<1> QED BY <1>1, <1>4, <1>5, <1>8, <1>9, <1>10 DEF RequestsInv, RequestTypes

(* Every step keeps the queue of questions and its prompt.                 *)
LEMMA NextRequests == RequestsInv /\ [RequestsNext]_requestsVars => RequestsInv'
<1> SUFFICES ASSUME RequestsInv, [RequestsNext]_requestsVars PROVE RequestsInv'
    OBVIOUS
<1>1. CASE UNCHANGED requestsVars
    BY <1>1 DEF requestsVars, purpleVars, RequestsInv, RequestTypes, QueueOf, WaitingWell,
                Prompted, Unasked, Answered
<1>2. ASSUME NEW q \in Questions, Ask(q) \/ request_fields(q) PROVE RequestsInv'
    <2>1. /\ q \notin asked /\ Form[q] # "file" /\ AddRequest(q) /\ UNCHANGED <<values, ran>>
        BY <1>2 DEF Ask, request_fields
    <2> QED BY <2>1, AddKeeps
<1>3. ASSUME NEW q \in Questions, request_file(q) PROVE RequestsInv'
    BY <1>3, FileKeeps
<1>4. ASSUME NEW q \in Questions, request_close(q) PROVE RequestsInv'
    <2>1. /\ {q} \in SUBSET handles /\ handles' = handles \ {q}
          /\ CloseRequests(requests, {q}) /\ UNCHANGED purpleVars
        BY <1>4 DEF request_close
    <2> QED BY <2>1, CloseKeeps
<1>5. ASSUME NEW h \in Handles, CloseWithHandle(h) PROVE RequestsInv'
    <2> DEFINE S == {q \in handles : HandleOf[q] = h}
    <2>1. /\ S \in SUBSET handles /\ handles' = handles \ S
          /\ CloseRequests(requests, S) /\ UNCHANGED purpleVars
        BY <1>5 DEF CloseWithHandle
    <2> HIDE DEF S
    <2> QED BY <2>1, CloseKeeps
<1>6. CASE WrongAnswer
    BY <1>6, WrongKeeps
<1>7. CASE AnswerField
    BY <1>7, FieldKeeps
<1>8. CASE AnswerQuestion
    BY <1>8, AnswerKeeps
<1> QED BY <1>1, <1>2, <1>3, <1>4, <1>5, <1>6, <1>7, <1>8 DEF RequestsNext, RequestsStep

(* The invariant of the requests.                                          *)
LEMMA RequestsInvHolds == RequestsSpec => []RequestsInv
BY InitRequests, NextRequests, PTL DEF RequestsSpec

(* A queue of the open questions, each once, is as long as they are many.  *)
LEMMA QueueLength ==
    ASSUME NEW rs \in Seq(Request), NEW H, QueueOf(rs, H)
    PROVE  IdsOf(rs) = H /\ Len(rs) = Cardinality(H)
<1> DEFINE n == Len(rs)
           f == [i \in 1..n |-> rs[i].id]
<1>1. n \in Nat /\ IsFiniteSet(1..n) /\ Cardinality(1..n) = n
    <2>1. n \in Nat
        OBVIOUS
    <2> QED BY <2>1, FS_Interval, SMTT(40)
<1>2. IdsOf(rs) = H
    BY DEF QueueOf, IdsOf
<1>3. f \in [1..n -> H]
    BY DEF QueueOf
<1>4. \A i, j \in 1..n : f[i] = f[j] => i = j
    BY DEF QueueOf
<1>5. \A q \in H : \E i \in 1..n : f[i] = q
    BY DEF QueueOf
<1> HIDE DEF f
<1>6. f \in Injection(1..n, H)
    BY <1>3, <1>4 DEF Injection, IsInjective
<1>7. f \in Surjection(1..n, H)
    BY <1>3, <1>5 DEF Surjection
<1>8. f \in Bijection(1..n, H)
    BY <1>6, <1>7 DEF Bijection
<1>9. ExistsBijection(1..n, H)
    BY <1>8 DEF ExistsBijection
<1> QED BY <1>1, <1>2, <1>9, FS_Bijection

(* addRequest(), closeRequest(), close(): what was displayed last is what  *)
(* the next answer is taken for, and the queue holds the open questions,   *)
(* for any questions, fields and handles.                                  *)
THEOREM PromptIsFirstHolds == RequestsSpec => []PromptIsFirst
<1>1. ASSUME RequestsInv PROVE PromptIsFirst
    <2>1. requests \in Seq(Request) /\ QueueOf(requests, handles)
        BY <1>1 DEF RequestsInv, RequestTypes
    <2>2. IdsOf(requests) = handles /\ Len(requests) = Cardinality(handles)
        BY <2>1, QueueLength
    <2>3. requests # <<>> => requests[1].at <= Confirm(requests[1].id)
        BY <1>1, FirstFacts
    <2> QED BY <1>1, <2>2, <2>3 DEF PromptIsFirst, RequestsInv, Prompted
<1> QED BY <1>1, RequestsInvHolds, PTL

(* RequestFieldList::process(), close(): the answer to a question is given *)
(* once, with a value for each field that is not an image.                 *)
THEOREM FieldsCompleteHolds == RequestsSpec => []FieldsComplete
<1>1. ASSUME RequestsInv PROVE FieldsComplete
    <2> SUFFICES ASSUME NEW q \in Questions, ran[q] > 0
                 PROVE  /\ ran[q] = 1
                        /\ values[q] = {i \in 1..Len(Fields[q]) : Fields[q][i] # "image"}
        BY DEF FieldsComplete
    <2>1. ran[q] # 0
        BY <1>1 DEF RequestsInv, RequestTypes
    <2>2. ran[q] = 1 /\ values[q] = NoImages(q, Confirm(q))
        BY <1>1, <2>1 DEF RequestsInv, Answered
    <2>3. \A k \in 1..Len(Fields[q]) : k < Confirm(q)
        BY RequestsAssumption DEF Confirm
    <2> QED BY <2>2, <2>3 DEF NoImages
<1> QED BY <1>1, RequestsInvHolds, PTL

(***************************************************************************)
(* The refinement of QuestionQueue: a question stands for its request.     *)
(***************************************************************************)
IdSeq(rs) == [i \in 1..Len(rs) |-> rs[i].id]
AnsweredOf(rn) == {q \in Questions : rn[q] > 0 /\ Form[q] # "file"}

(* The queue of QuestionQueue has a place for each request.                *)
LEMMA IdSeqFacts ==
    ASSUME NEW rs \in Seq(Request)
    PROVE  /\ IdSeq(rs) \in Seq(Questions) /\ Len(IdSeq(rs)) = Len(rs)
           /\ \A i \in 1..Len(rs) : IdSeq(rs)[i] = rs[i].id
<1>1. \A i \in 1..Len(rs) : rs[i] \in Request
    OBVIOUS
<1>2. \A i \in 1..Len(rs) : rs[i].id \in Questions
    BY <1>1 DEF Request
<1> QED BY <1>2 DEF IdSeq

(* It only depends on the names of the requests,                           *)
LEMMA SameIds ==
    ASSUME NEW rs \in Seq(Request), NEW us \in Seq(Request), Len(us) = Len(rs),
           \A i \in 1..Len(rs) : us[i].id = rs[i].id
    PROVE  IdSeq(us) = IdSeq(rs)
BY DEF IdSeq

(* grows at its end as they do,                                            *)
LEMMA IdSeqAppend ==
    ASSUME NEW rs \in Seq(Request), NEW q \in Questions
    PROVE  IdSeq(Append(rs, Start(q))) = Append(IdSeq(rs), q)
<1> DEFINE n == Len(rs)
           a == IdSeq(Append(rs, Start(q)))
           b == Append(IdSeq(rs), q)
<1>1. Start(q) \in Request /\ Start(q).id = q
    BY DEF Start, Request
<1>2. /\ Append(rs, Start(q)) \in Seq(Request) /\ Len(Append(rs, Start(q))) = n + 1
      /\ n \in Nat /\ Append(rs, Start(q))[n + 1].id = q
      /\ \A i \in 1..n : Append(rs, Start(q))[i] = rs[i]
    BY <1>1
<1>3. a \in Seq(Questions) /\ Len(a) = n + 1 /\ a[n + 1] = q /\ \A i \in 1..n : a[i] = rs[i].id
    <2>1. \A i \in 1..n : i \in 1..(n + 1)
        BY <1>2
    <2>2. /\ a \in Seq(Questions) /\ Len(a) = n + 1
          /\ \A i \in 1..(n + 1) : a[i] = Append(rs, Start(q))[i].id
        BY <1>2, IdSeqFacts
    <2>3. n + 1 \in 1..(n + 1)
        BY <1>2
    <2> QED BY <1>2, <2>1, <2>2, <2>3
<1>4. b \in Seq(Questions) /\ Len(b) = n + 1 /\ b[n + 1] = q /\ \A i \in 1..n : b[i] = rs[i].id
    BY <1>2, IdSeqFacts
<1> HIDE DEF a, b
<1>5. \A i \in 1..(n + 1) : a[i] = b[i]
    BY <1>2, <1>3, <1>4
<1> QED BY <1>3, <1>4, <1>5, SeqEqual DEF a, b

(* and loses the places of those that are closed.                          *)
LEMMA IdSeqWithout ==
    ASSUME NEW rs \in Seq(Request), NEW S
    PROVE  IdSeq(Remaining(rs, S)) =
               Kept(IdSeq(rs), {i \in 1..Len(IdSeq(rs)) : IdSeq(rs)[i] \notin S})
<1> DEFINE K == {i \in 1..Len(rs) : rs[i].id \notin S}
           L == {i \in 1..Len(IdSeq(rs)) : IdSeq(rs)[i] \notin S}
           w == Remaining(rs, S)
           c == Cardinality(K)
<1>1. K = L
    BY IdSeqFacts
<1>2. K \in SUBSET (1..Len(rs)) /\ w = Kept(rs, K)
    BY DEF Remaining
<1> HIDE DEF K, L, w
<1>3. Len(w) = c /\ \A k \in 1..c : Nth(K, k) \in K /\ w[k] = rs[Nth(K, k)]
    BY <1>2, KeptFacts
<1>4. \A k \in 1..c : w[k].id = IdSeq(rs)[Nth(K, k)]
    <2>1. \A i \in K : IdSeq(rs)[i] = rs[i].id
        BY <1>2, IdSeqFacts
    <2> QED BY <1>3, <2>1
<1>5. IdSeq(w) = [k \in 1..c |-> w[k].id]
    BY <1>3 DEF IdSeq
<1>6. IdSeq(w) = [k \in 1..c |-> IdSeq(rs)[Nth(K, k)]]
    BY <1>4, <1>5
<1> QED BY <1>1, <1>6 DEF Kept, w, L

(* QuestionQueue in the words of Requests.                                 *)
LEMMA AbstractWords ==
    /\ Abstract!vars = <<IdSeq(requests), AnsweredOf(ran)>>
    /\ Abstract!Waiting = {IdSeq(requests)[i] : i \in 1..Len(IdSeq(requests))}
    /\ \A S : Abstract!Without(S) =
         Kept(IdSeq(requests), {i \in 1..Len(IdSeq(requests)) : IdSeq(requests)[i] \notin S})
<1>1. Abstract!vars = <<IdSeq(requests), AnsweredOf(ran)>>
    BY DEF Abstract!vars, IdSeq, AnsweredOf
<1>2. Abstract!Waiting = {IdSeq(requests)[i] : i \in 1..Len(IdSeq(requests))}
    BY DEF Abstract!Waiting, IdSeq
<1>3. ASSUME NEW S
      PROVE  Abstract!Without(S) =
         Kept(IdSeq(requests), {i \in 1..Len(IdSeq(requests)) : IdSeq(requests)[i] \notin S})
    <2> DEFINE Q == IdSeq(requests)
               K == {i \in 1..Len(Q) : Q[i] \notin S}
    <2>1. Abstract!Without(S) = Abstract!Kept(Q, K)
        BY DEF Abstract!Without, IdSeq
    <2>2. ASSUME NEW k PROVE Abstract!Nth(K, k) = Nth(K, k)
        BY DEF Abstract!Nth, Nth, Abstract!Rank, Rank, Abstract!Cardinality, Cardinality
    <2> HIDE DEF Q, K
    <2>3. Abstract!Kept(Q, K) = Kept(Q, K)
        BY <2>2 DEF Abstract!Kept, Kept, Abstract!Cardinality, Cardinality
    <2> QED BY <2>1, <2>3 DEF Q, K
<1> QED BY <1>1, <1>2, <1>3

(* Who waits in it are the open handles of libpurple.                      *)
LEMMA WaitingAreOpen == ASSUME RequestsInv PROVE Abstract!Waiting = handles
<1>1. requests \in Seq(Request) /\ QueueOf(requests, handles)
    BY DEF RequestsInv, RequestTypes
<1>2. IdsOf(requests) = handles
    BY <1>1, QueueLength
<1> QED BY <1>1, <1>2, IdSeqFacts, AbstractWords DEF IdsOf

(* A question asked is appended.                                           *)
LEMMA AddImplements ==
    ASSUME RequestsInv, NEW q \in Questions, q \notin asked, AddRequest(q), Form[q] # "file",
           UNCHANGED <<values, ran>>
    PROVE  Abstract!Ask(q)
<1>1. requests \in Seq(Request) /\ q \notin handles
    BY DEF RequestsInv, RequestTypes
<1>2. IdSeq(requests') = Append(IdSeq(requests), q)
    <2> DEFINE a == Append(requests, Start(q))
    <2>1. /\ a \in Seq(Request) /\ QueueOf(a, handles \cup {q}) /\ WaitingWell(a, values, ran)
        <3>1. /\ handles \in SUBSET Questions /\ values[q] = {} /\ ran[q] = 0
              /\ QueueOf(requests, handles) /\ WaitingWell(requests, values, ran)
            BY DEF RequestsInv, RequestTypes, Unasked
        <3> QED BY <1>1, <3>1, AppendFacts
    <2>2. IdSeq(a) = Append(IdSeq(requests), q)
        BY <1>1, IdSeqAppend
    <2> HIDE DEF a
    <2>3. CASE requests = <<>>
        <3>1. Display(a)
            BY <2>3 DEF AddRequest, Added, a
        <3>2. /\ requests' \in Seq(Request) /\ Len(requests') = Len(a)
              /\ \A i \in 1..Len(a) : requests'[i].id = a[i].id
            BY <2>1, <3>1, DisplayFacts
        <3> QED BY <2>1, <2>2, <3>2, SameIds
    <2>4. CASE requests # <<>>
        BY <2>2, <2>4 DEF AddRequest, Added, a
    <2> QED BY <2>3, <2>4
<1>3. q \notin Abstract!Waiting
    BY <1>1, WaitingAreOpen
<1> QED BY <1>2, <1>3 DEF Abstract!Ask, IdSeq

(* Requests that libpurple closes are withdrawn.                           *)
LEMMA CloseImplements ==
    ASSUME RequestsInv, NEW S \in SUBSET handles,
           CloseRequests(requests, S), UNCHANGED purpleVars
    PROVE  S \in SUBSET Abstract!Waiting /\ Abstract!Withdraw(S)
<1>1. /\ requests \in Seq(Request) /\ QueueOf(requests, handles)
      /\ WaitingWell(requests, values, ran)
    BY DEF RequestsInv, RequestTypes
<1> DEFINE w == Remaining(requests, S)
<1>2. w \in Seq(Request) /\ QueueOf(w, handles \ S) /\ WaitingWell(w, values, ran)
    BY <1>1, WithoutFacts
<1>3. IdSeq(requests') = IdSeq(w)
    <2>1. CASE requests' = w
        BY <2>1
    <2>2. CASE Display(w)
        <3>1. /\ requests' \in Seq(Request) /\ Len(requests') = Len(w)
              /\ \A i \in 1..Len(w) : requests'[i].id = w[i].id
            BY <1>2, <2>2, DisplayFacts
        <3> QED BY <1>2, <3>1, SameIds
    <2> QED BY <2>1, <2>2 DEF CloseRequests
<1>4. IdSeq(requests') = Abstract!Without(S)
    BY <1>1, <1>3, IdSeqWithout, AbstractWords
<1>5. UNCHANGED ran
    BY DEF purpleVars
<1> QED BY <1>4, <1>5, WaitingAreOpen DEF Abstract!Withdraw, IdSeq

(* An answer takes the first question off, with what its callback closes   *)
(* and opens.                                                              *)
LEMMA AnswerImplements ==
    ASSUME RequestsInv, AnswerQuestion
    PROVE  \E S \in SUBSET Abstract!Waiting, more \in {<<>>} \cup {<<q>> : q \in Questions} :
               Abstract!Answer(S, more)
<1> DEFINE q == requests[1].id
           Q == IdSeq(requests)
<1>0. requests # <<>>
    BY DEF AnswerQuestion
<1>1. /\ q \in Questions /\ q \in handles /\ ran[q] = 0 /\ Form[q] # "file"
      /\ requests \in Seq(Request) /\ 1 \in 1..Len(requests)
      /\ QueueOf(requests, handles) /\ WaitingWell(requests, values, ran)
      /\ ran \in [Questions -> Nat]
    BY <1>0, FirstFacts DEF RequestsInv, RequestTypes
<1>2. PICK S \in Closable,
           more \in {<<>>} \cup
               {<<Start(p)>> : p \in {x \in Questions \ asked : Form[x] # "file"}} :
              Display(Remaining(requests, S \cup {q}) \o more)
    BY Zenon DEF AnswerQuestion, getFirstRequest
<1>3. ran' = [ran EXCEPT ![q] = @ + 1] /\ S \in SUBSET handles
    BY <1>0, <1>2 DEF AnswerQuestion, getFirstRequest, Ran, Closable
<1> DEFINE w == Remaining(requests, S \cup {q})
<1>4. w \in Seq(Request) /\ QueueOf(w, handles \ (S \cup {q})) /\ WaitingWell(w, values, ran)
    BY <1>1, WithoutFacts
<1>5. IdSeq(w) = Abstract!Without(S \cup {q})
    BY <1>1, IdSeqWithout, AbstractWords
<1>6. Q # <<>> /\ Head(Q) = q /\ q \notin AnsweredOf(ran)
    BY <1>1, IdSeqFacts DEF AnsweredOf
<1>7. AnsweredOf(ran') = AnsweredOf(ran) \cup {q}
    BY <1>1, <1>3 DEF AnsweredOf
<1> HIDE DEF w
<1>8. PICK ids \in {<<>>} \cup {<<p>> : p \in Questions} : IdSeq(requests') = IdSeq(w) \o ids
    <2>1. CASE more = <<>>
        <3>1. Display(w)
            BY <1>2, <1>4, <2>1 DEF w
        <3>2. /\ requests' \in Seq(Request) /\ Len(requests') = Len(w)
              /\ \A i \in 1..Len(w) : requests'[i].id = w[i].id
            BY <1>4, <3>1, DisplayFacts
        <3>3. IdSeq(requests') = IdSeq(w)
            BY <1>4, <3>2, SameIds
        <3>4. IdSeq(w) \in Seq(Questions)
            BY <1>4, IdSeqFacts
        <3>5. IdSeq(w) \o <<>> = IdSeq(w)
            BY <3>4
        <3> QED BY <3>3, <3>5
    <2>2. ASSUME NEW p \in Questions \ asked, Form[p] # "file", more = <<Start(p)>>
          PROVE  IdSeq(requests') = IdSeq(w) \o <<p>>
        <3> DEFINE a == Append(w, Start(p))
                   H == handles \ (S \cup {q})
        <3>1. Start(p) \in Request
            BY DEF Start, Request
        <3>2. Display(a)
            <4>1. w \o <<Start(p)>> = Append(w, Start(p))
                BY <1>4, <3>1
            <4> QED BY <1>2, <2>2, <4>1 DEF w
        <3>3. H \in SUBSET Questions /\ p \notin H /\ values[p] = {} /\ ran[p] = 0
            BY DEF RequestsInv, RequestTypes, Unasked
        <3>4. a \in Seq(Request) /\ QueueOf(a, H \cup {p}) /\ WaitingWell(a, values, ran)
            BY <1>4, <2>2, <3>3, AppendFacts
        <3>5. IdSeq(a) = Append(IdSeq(w), p)
            BY <1>4, IdSeqAppend
        <3> HIDE DEF a
        <3>6. /\ requests' \in Seq(Request) /\ Len(requests') = Len(a)
              /\ \A i \in 1..Len(a) : requests'[i].id = a[i].id
            BY <3>2, <3>4, DisplayFacts
        <3>7. IdSeq(requests') = Append(IdSeq(w), p)
            BY <3>4, <3>5, <3>6, SameIds
        <3>8. IdSeq(w) \in Seq(Questions)
            BY <1>4, IdSeqFacts
        <3> QED BY <3>7, <3>8
    <2>3. more = <<>> \/ \E p \in Questions \ asked : Form[p] # "file" /\ more = <<Start(p)>>
        BY <1>2
    <2> QED BY <2>1, <2>2, <2>3
<1>9. Abstract!Answer(S, ids)
    BY <1>5, <1>6, <1>7, <1>8 DEF Abstract!Answer, IdSeq, AnsweredOf
<1> QED BY <1>3, <1>8, <1>9, WaitingAreOpen

(* Every step of Requests is one of QuestionQueue, or none.                *)
LEMMA StepImplements ==
    ASSUME RequestsInv, [RequestsNext]_requestsVars
    PROVE  [Abstract!Next]_(Abstract!vars)
<1>1. ASSUME IdSeq(requests') = IdSeq(requests), AnsweredOf(ran') = AnsweredOf(ran)
      PROVE  UNCHANGED Abstract!vars
    BY <1>1 DEF Abstract!vars, IdSeq, AnsweredOf
<1>2. CASE UNCHANGED requestsVars
    BY <1>1, <1>2 DEF requestsVars, purpleVars
<1>3. ASSUME NEW q \in Questions, Ask(q) \/ request_fields(q) PROVE Abstract!Next
    <2>1. /\ q \notin asked /\ Form[q] # "file" /\ AddRequest(q) /\ UNCHANGED <<values, ran>>
        BY <1>3 DEF Ask, request_fields
    <2>2. Abstract!Ask(q)
        BY <2>1, AddImplements
    <2> QED BY <2>2 DEF Abstract!Next
<1>4. ASSUME NEW q \in Questions, request_file(q) PROVE UNCHANGED Abstract!vars
    <2>1. Form[q] = "file" /\ ran' = [ran EXCEPT ![q] = @ + 1] /\ requests' = requests
        BY <1>4 DEF request_file, Ran
    <2>2. ran \in [Questions -> Nat]
        BY DEF RequestsInv, RequestTypes
    <2>3. AnsweredOf(ran') = AnsweredOf(ran)
        BY <2>1, <2>2 DEF AnsweredOf
    <2> QED BY <1>1, <2>1, <2>3
<1>5. ASSUME NEW q \in Questions, request_close(q) PROVE Abstract!Next
    <2>1. {q} \in SUBSET handles /\ CloseRequests(requests, {q}) /\ UNCHANGED purpleVars
        BY <1>5 DEF request_close
    <2>2. {q} \in SUBSET Abstract!Waiting /\ Abstract!Withdraw({q})
        BY <2>1, CloseImplements
    <2> QED BY <2>2 DEF Abstract!Next
<1>6. ASSUME NEW h \in Handles, CloseWithHandle(h) PROVE Abstract!Next
    <2>0. PICK S \in SUBSET handles : S = {q \in handles : HandleOf[q] = h}
        OBVIOUS
    <2>1. CloseRequests(requests, S) /\ UNCHANGED purpleVars
        BY <1>6, <2>0 DEF CloseWithHandle
    <2>2. S \in SUBSET Abstract!Waiting /\ Abstract!Withdraw(S)
        BY <2>1, CloseImplements
    <2> QED BY <2>2 DEF Abstract!Next
<1>7. CASE WrongAnswer
    <2>1. /\ requests \in Seq(Request) /\ QueueOf(requests, handles)
          /\ WaitingWell(requests, values, ran)
        BY DEF RequestsInv, RequestTypes
    <2>2. Display(requests) /\ ran' = ran
        BY <1>7 DEF WrongAnswer, purpleVars
    <2>3. /\ requests' \in Seq(Request) /\ Len(requests') = Len(requests)
          /\ \A i \in 1..Len(requests) : requests'[i].id = requests[i].id
        BY <2>1, <2>2, DisplayFacts
    <2> QED BY <1>1, <2>1, <2>2, <2>3, SameIds
<1>8. CASE AnswerField
    <2>1. requests \in Seq(Request)
        BY DEF RequestsInv, RequestTypes
    <2>2. /\ requests' \in Seq(Request) /\ Len(requests') = Len(requests)
          /\ \A i \in 1..Len(requests) : requests'[i].id = requests[i].id
        BY <1>8, FieldKeeps
    <2>3. ran' = ran
        BY <1>8 DEF AnswerField
    <2> QED BY <1>1, <2>1, <2>2, <2>3, SameIds
<1>9. CASE AnswerQuestion
    BY <1>9, AnswerImplements DEF Abstract!Next
<1> QED BY <1>2, <1>3, <1>4, <1>5, <1>6, <1>7, <1>8, <1>9 DEF RequestsNext, RequestsStep

(* RequestNick::send(), addRequest(), closeRequest(): the requests are a   *)
(* queue of questions in the order they came, of which only the first is   *)
(* answered, and no question twice.                                        *)
THEOREM AnswersInOrderHolds == RequestsSpec => AnswersInOrder
<1>1. RequestsInit => Abstract!Init
    <2> SUFFICES ASSUME RequestsInit PROVE Abstract!Init
        OBVIOUS
    <2>1. IdSeq(requests) = <<>> /\ AnsweredOf(ran) = {}
        BY DEF RequestsInit, IdSeq, AnsweredOf
    <2> QED BY <2>1 DEF Abstract!Init, IdSeq, AnsweredOf
<1>2. RequestsInv /\ [RequestsNext]_requestsVars => [Abstract!Next]_(Abstract!vars)
    BY StepImplements
<1> QED BY <1>1, <1>2, RequestsInvHolds, PTL DEF RequestsSpec, AnswersInOrder, Abstract!Spec
=============================================================================
