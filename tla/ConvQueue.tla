----------------------------- MODULE ConvQueue -----------------------------
(***************************************************************************)
(* The messages the user sends to nicks and rooms on their way to          *)
(* libpurple (src/src/irc/conv_entity.cpp): with a send_delay they wait in *)
(* the entity until a timer sends the consecutive lines of text as one     *)
(* message.  Neither the entity nor its conversation lives as long as the  *)
(* timer: nothing ever cancels it.                                         *)
(***************************************************************************)
EXTENDS Integers, Sequences, FiniteSets

CONSTANTS Entities,  \* nicks and channels with a conversation
          Kinds,     \* their classes: "buddy", "chat", "unknown", "room"
          MaxMsgs    \* bound: messages the user sends to each

ASSUME ConvQueueAssumption ==
    /\ Kinds \subseteq {"buddy", "chat", "unknown", "room"}
    /\ MaxMsgs \in Nat

(* A message, numbered by its entity: text, or between \001 an action or a *)
(* typing notice.  Empty lines, which libpurple discards, are left out.    *)
Message == [n : Nat \ {0}, kind : {"text", "action", "typing"}]

VARIABLES
    kind,       \* the class of each entity
    exists,     \* the entity has not been deleted
    conv,       \* ConvEntity::conv is valid
    queue,      \* ConvEntity::enqueued_messages
    armed,      \* timers that will call flush_messages() of the entity
    delay,      \* send_delay is not 0
    taken,      \* messages the entity has accepted
    sent,       \* the lines it has handed to libpurple, and in which message
    overtaken,  \* history: a message was sent while others waited
    lost,       \* history: what waited in the entity when it was deleted
    up          \* the process has not crashed

convVars == <<kind, exists, conv>>
queueVars == <<convVars, queue, armed, delay, taken, sent, overtaken, lost, up>>
-----------------------------------------------------------------------------
ConvInit ==
    /\ kind \in [Entities -> Kinds]
    /\ exists = [e \in Entities |-> TRUE]
    /\ conv = [e \in Entities |-> kind[e] \in {"unknown", "room"}]
    /\ queue = [e \in Entities |-> <<>>] /\ armed = [e \in Entities |-> 0]
    /\ delay = TRUE
    /\ taken = [e \in Entities |-> 0] /\ sent = [e \in Entities |-> <<>>]
    /\ overtaken = [e \in Entities |-> FALSE] /\ lost = [e \in Entities |-> <<>>]
    /\ up = TRUE

(* flush_messages() makes messages of the lines of a queue: text joins the *)
(* text before it, what begins with \001 goes alone.                       *)
Starts(q, i) == i = 1 \/ q[i].kind # "text" \/ q[i - 1].kind # "text"

(* Mutant: lines of text are joined whatever stands between them.          *)
JoinedAll(q, last) ==
    [i \in 1..Len(q) |-> [n |-> q[i].n, kind |-> q[i].kind, part |-> last + 1]]

(* The lines of q, with the number of the message each is part of, when    *)
(* `last` messages have been sent.                                         *)
JoinedLines(q, last) ==
    [i \in 1..Len(q) |-> [n |-> q[i].n, kind |-> q[i].kind,
                          part |-> last + Cardinality({j \in 1..i : Starts(q, j)})]]

LastPart(s) == IF s = <<>> THEN 0 ELSE s[Len(s)].part

SendMessages(e, q) ==
    sent' = [sent EXCEPT ![e] = @ \o JoinedLines(q, LastPart(@))]

(* Mutant: every message arms a timer.                                     *)
EnqueueArmsAlways(e, m) ==
    /\ IF delay
       THEN /\ queue' = [queue EXCEPT ![e] = Append(@, m)]
            /\ armed' = [armed EXCEPT ![e] = @ + 1]
            /\ UNCHANGED <<sent, overtaken>>
       ELSE /\ SendMessages(e, <<m>>)
            /\ overtaken' = [overtaken EXCEPT ![e] = @ \/ queue[e] # <<>>]
            /\ UNCHANGED <<queue, armed>>

(* ConvEntity::enqueueMessage(): the first message that waits arms the     *)
(* timer; without a delay nothing waits.                                   *)
EnqueueMessage(e, m) ==
    IF delay
    THEN /\ queue' = [queue EXCEPT ![e] = Append(@, m)]
         /\ armed' = [armed EXCEPT ![e] = IF queue[e] = <<>> THEN @ + 1 ELSE @]
         /\ UNCHANGED <<sent, overtaken>>
    ELSE /\ SendMessages(e, <<m>>)
         /\ overtaken' = [overtaken EXCEPT ![e] = @ \/ queue[e] # <<>>]
         /\ UNCHANGED <<queue, armed>>

(* UnknownBuddy::send() drops what is said to it without a conversation.   *)
Takes(e) == kind[e] = "unknown" => conv[e]

(* PRIVMSG: Buddy::send() and ChatBuddy::send() make the conversation they *)
(* lack, a room has one.                                                   *)
m_privmsg(e, k) ==
    /\ up /\ exists[e] /\ Takes(e) /\ taken[e] < MaxMsgs
    /\ conv' = [conv EXCEPT ![e] = TRUE]
    /\ taken' = [taken EXCEPT ![e] = @ + 1]
    /\ EnqueueMessage(e, [n |-> taken[e] + 1, kind |-> k])
    /\ UNCHANGED <<kind, exists, delay, lost, up>>

(* SET send_delay                                                          *)
SetSendDelay ==
    /\ up
    /\ delay' = ~delay
    /\ UNCHANGED <<convVars, queue, armed, taken, sent, overtaken, lost, up>>

(* Mutant: the timer starts again without sending once the delay is 0.     *)
FlushWithDelay(e) ==
    /\ up /\ armed[e] > 0 /\ exists[e] /\ (conv[e] \/ queue[e] = <<>>)
    /\ delay
    /\ armed' = [armed EXCEPT ![e] = @ - 1]
    /\ SendMessages(e, queue[e])
    /\ queue' = [queue EXCEPT ![e] = <<>>]
    /\ UNCHANGED <<convVars, delay, taken, overtaken, lost, up>>

(* ConvEntity::flush_messages(), called by the timer.                      *)
flush_messages(e) ==
    /\ up /\ armed[e] > 0 /\ exists[e] /\ (conv[e] \/ queue[e] = <<>>)
    /\ armed' = [armed EXCEPT ![e] = @ - 1]
    /\ SendMessages(e, queue[e])
    /\ queue' = [queue EXCEPT ![e] = <<>>]
    /\ UNCHANGED <<convVars, delay, taken, overtaken, lost, up>>

(* The timer of an entity that has been deleted, or whose conversation is  *)
(* gone: the freed object is used, or the assertion of sendMessage() fails.*)
FlushCrashes(e) ==
    /\ up /\ armed[e] > 0 /\ (~exists[e] \/ (~conv[e] /\ queue[e] # <<>>))
    /\ up' = FALSE
    /\ UNCHANGED <<convVars, queue, armed, delay, taken, sent, overtaken, lost>>
-----------------------------------------------------------------------------
(* The entity is deleted and its messages with it, its timer is not.       *)
Deleted(e) ==
    /\ exists' = [exists EXCEPT ![e] = FALSE]
    /\ lost' = [lost EXCEPT ![e] = queue[e]]
    /\ queue' = [queue EXCEPT ![e] = <<>>]

(* PART of a room, the end of a connection, KILL.                          *)
Removed(e) ==
    /\ up /\ exists[e]
    /\ Deleted(e)
    /\ conv' = [conv EXCEPT ![e] = FALSE]
    /\ UNCHANGED <<kind, armed, delay, taken, sent, overtaken, up>>

(* Conversation::destroy() of an IM conversation, or another nick takes it *)
(* (setNick()): an unknown buddy goes with it.                             *)
Destroyed(e) ==
    /\ up /\ exists[e] /\ conv[e] /\ kind[e] # "room"
    /\ conv' = [conv EXCEPT ![e] = FALSE]
    /\ IF kind[e] = "unknown" THEN Deleted(e) ELSE UNCHANGED <<exists, queue, lost>>
    /\ UNCHANGED <<kind, armed, delay, taken, sent, overtaken, up>>

ConvNext ==
    \/ \E e \in Entities :
         \/ \E k \in {"text", "action", "typing"} : m_privmsg(e, k)
         \/ flush_messages(e) \/ FlushCrashes(e)
         \/ Removed(e) \/ Destroyed(e)
    \/ SetSendDelay

ConvSpec == ConvInit /\ [][ConvNext]_queueVars

(* GLib serves a timer that is due.                                        *)
ConvFairSpec ==
    /\ ConvSpec
    /\ \A e \in Entities : WF_queueVars(flush_messages(e)) /\ WF_queueVars(FlushCrashes(e))
-----------------------------------------------------------------------------
Numbers(q) == [i \in 1..Len(q) |-> q[i].n]

(* The messages libpurple has not got: they wait, or they are lost.        *)
Unsent(e) == IF exists[e] THEN queue[e] ELSE lost[e]

(***************************************************************************)
(* enqueueMessage(), flush_messages(): what an entity accepted is with     *)
(* libpurple, waits, or was destroyed with the entity, each message once   *)
(* and in the order the user sent it; none is lost while the entity lives, *)
(* and none waits in one that is deleted.  Only messages sent while        *)
(* send_delay was 0 and others still waited have changed places.  An       *)
(* action or a typing notice is never joined with other lines              *)
(* (sendMessage() looks for \001 at the beginning only).                   *)
(***************************************************************************)
EachOnceInOrder ==
    \A e \in Entities :
        LET s == sent[e]
            all == Numbers(s \o Unsent(e))
        IN  /\ Len(all) = taken[e] /\ {all[i] : i \in 1..Len(all)} = 1..taken[e]
            /\ ~overtaken[e] => all = [i \in 1..taken[e] |-> i]
            /\ \A i, j \in 1..Len(s) : i < j =>
                /\ s[i].part <= s[j].part
                /\ s[i].part = s[j].part => s[i].kind = "text" /\ s[j].kind = "text"
            /\ IF exists[e] THEN lost[e] = <<>> ELSE queue[e] = <<>>

(***************************************************************************)
(* enqueueMessage(), flush_messages(): messages wait exactly as long as    *)
(* one timer is armed for them, however send_delay is changed meanwhile.   *)
(* The timer that nothing cancels is left behind by an entity that was     *)
(* deleted, exactly when messages were lost with it: that one flush then   *)
(* runs on the freed object.                                               *)
(***************************************************************************)
OneTimer == \A e \in Entities : armed[e] = IF Unsent(e) = <<>> THEN 0 ELSE 1

(***************************************************************************)
(* flush_messages(): no message waits for ever.  The timer sends it, or    *)
(* the process dies of the timer: that of an entity deleted meanwhile, or  *)
(* of one that has lost its conversation.                                  *)
(***************************************************************************)
NoneWaits ==
    \A e \in Entities : queue[e] # <<>> ~> (exists[e] /\ queue[e] = <<>>) \/ ~up
=============================================================================
