------------------------------ MODULE Coincoin ------------------------------
(***************************************************************************)
(* The protocol plugin of the DaCode boards (src/plugins/coincoin): an     *)
(* account logs in by reading the board, shows it as a chat room, reads it *)
(* again on a timer and after each message it posts, and keeps the last    *)
(* messages to know what it has shown, who is in the room, and which       *)
(* message a clock like 12:00:00:2 stands for.                             *)
(*                                                                         *)
(* Requests overlap and their answers come in any order; every step of a   *)
(* request is one that HttpClient, which Http implements, allows.  The     *)
(* board is a server, modelled from what the plugin reads of it.           *)
(***************************************************************************)
EXTENDS HttpClient, FiniteSets, Sequences, FiniteSetsExt, Ranks

CONSTANTS Others,               \* who posts beside the user
          CC_LAST_MESSAGE_MAX,  \* messages kept when the next ones come
          Listed,               \* posts the board lists
          Day,                  \* seconds after which a clock recurs
          MaxPosts              \* bound: posts ever made

ASSUME CoincoinAssumption ==
    /\ CC_LAST_MESSAGE_MAX \in Nat /\ Listed \in Nat \ {0} /\ MaxPosts \in Nat
    /\ Day \in Nat \ {0}
    /\ {"me", "nobody", "broken"} \cap Others = {}

VARIABLES
    req,       \* of each request in flight: what it is, and what was read
    pc,        \* the connection: "off", "connecting", "connected"
    timer,     \* new_messages_check_timer: "none", "armed", "spent"
    chat,      \* the conversation of the board exists
    messages,  \* cca->messages, newest first
    users,     \* who is in the room
    board,     \* the server's posts: id n is the n-th
    shown,     \* history: what the room has shown since the login
    replies    \* history: whom, of which time, the user's posts answer

roomVars == <<chat, messages, users, shown, replies>>
vars == <<clientVars, req, pc, timer, board, roomVars>>

(* What the user posts: a clock and a number, or none (0).  Which message  *)
(* they were taken from is history.                                        *)
NoText == [clock |-> 0, ref |-> 0, to |-> "nobody", time |-> 0]
NoReq == [what |-> "none", text |-> NoText, body |-> "none", posts |-> 0]

(* What is read of an answer: nothing, headers alone, a body that is no    *)
(* XML (a cut answer is one), XML that is not a board, the board as it was *)
(* with so many posts.                                                     *)
Bodies == {"none", "empty", "junk", "other", "board"}
-----------------------------------------------------------------------------
(* The board, as the plugin sees it: posts in the order of their ids and   *)
(* times.  A post by "nobody" lacks one of its elements; in a "broken" one *)
(* the login or the message is empty, or the id or the time is missing.    *)
Newest == Len(board)
ListedIds(n) == {i \in 1..n : i > n - Listed}

(* localtime_r(): the hour, minute and second of a time; no clock is 0.    *)
ClockOf(t) == 1 + (t % Day)

(* coincoin_message_new(): nothing comes of a post without an element.     *)
Whole(n) == board[n].from \notin {"nobody", "broken"}
WholeOf(ids) == {i \in ids : Whole(i)}

(* The answers on their way are not outrun: while one travels, the last of *)
(* its posts that are whole stays among those listed and those kept.       *)
Paced ==
    \A r \in pending :
        LET whole == WholeOf(ListedIds(req[r].posts))
        IN  req[r].body = "board" /\ whole # {} =>
                /\ Newest + 1 - Max(whole) < Listed
                /\ Newest + 1 - Max(whole) <= CC_LAST_MESSAGE_MAX

(* From one post to the next: the same second, another one, the same clock *)
(* of a later day.                                                         *)
Gaps == {0, 1, Day}
TimeAfter(d) == IF Newest = 0 THEN 1 ELSE board[Newest].time + d

Posted(who, text, d) ==
    board' = Append(board, [from |-> who, time |-> TimeAfter(d),
                            clock |-> text.clock, ref |-> text.ref])

SomeonePosts ==
    /\ Newest < MaxPosts /\ Paced
    /\ \E who \in Others \union {"nobody", "broken"}, d \in Gaps : Posted(who, NoText, d)
    /\ UNCHANGED <<clientVars, req, pc, timer, roomVars>>
-----------------------------------------------------------------------------
(* coincoin_message_ref(): the name in front of a clock is that of the     *)
(* newest message of this clock and number behind place k, of any day.     *)
Named(ms, k, post) ==
    LET S == {i \in (k + 1)..Len(ms) : ClockOf(ms[i].time) = post.clock /\ ms[i].ref = post.ref}
    IN  IF S = {} THEN "nobody" ELSE ms[CHOOSE i \in S : \A j \in S : i <= j].from

(* The loop of coincoin_parse_message() numbers a new message within its   *)
(* second by the one before it: those of its second are the new ones of    *)
(* the same time and, as times never go back, the first of the old ones.   *)
Second(new, n) == {i \in new : board[i].time = board[n].time}
Follows(ms, n) == ms # <<>> /\ ms[1].time = board[n].time

MessageNew(new, ms, n) ==
    [id |-> n, from |-> board[n].from, time |-> board[n].time,
     ref |-> Rank(Second(new, n), n) + IF Follows(ms, n) THEN ms[1].ref ELSE 0,
     multiple |-> Follows(ms, n) \/ Second(new, n) # {n}]

(* The new messages put one by one in front of the others.                 *)
Flushed(ms, new) ==
    LET c == Cardinality(new)
    IN  [k \in 1..(c + Len(ms)) |->
            IF k <= c THEN MessageNew(new, ms, Nth(new, c + 1 - k))
            ELSE IF k = c + 1
            THEN [ms[1] EXCEPT !.multiple = @ \/ \E n \in new : Follows(ms, n)]
            ELSE ms[k - c]]

(* Mutant: only the newest message is compared with the posts.             *)
UnseenByHead(ids, ms) ==
    {i \in ids : ms # <<>> /\ ms[1].id \in ids => ms[1].id < i}

(* The posts above the first one that is among the messages.               *)
Unseen(ids, ms) ==
    {i \in ids : \A j \in DOMAIN ms : ms[j].id \in ids => ms[j].id < i}

(* Mutant: who wrote a purged message leaves the room.                     *)
LeftForPurged(ms, cut) == {ms[i].from : i \in (cut + 1)..Len(ms)}

(* The authors of the messages purged below `cut` without one above it.    *)
Left(ms, cut) ==
    {ms[i].from : i \in (cut + 1)..Len(ms)} \ {ms[i].from : i \in 1..cut}

(* coincoin_parse_message() for a board of n posts that lists `ids`: show  *)
(* the new ones, oldest first, then purge what stood below the first       *)
(* CC_LAST_MESSAGE_MAX + 1 messages of before.                             *)
ParseMessage(ms, us, ids) ==
    LET new == WholeOf(Unseen(ids, ms))
        c == Cardinality(new)
        all == Flushed(ms, new)
        keep == c + CC_LAST_MESSAGE_MAX + 1
        cut == IF keep < Len(all) THEN keep ELSE Len(all)
    IN  /\ messages' = SubSeq(all, 1, cut)
        /\ users' = (us \union ({board[i].from : i \in new} \ {"me"})) \ Left(all, cut)
        /\ shown' = shown \o [k \in 1..c |->
               [id |-> Nth(new, k), name |-> Named(all, c + 1 - k, board[Nth(new, k)])]]
-----------------------------------------------------------------------------
Init ==
    /\ InitClient /\ req = [r \in Reqs |-> NoReq]
    /\ pc = "off" /\ timer = "none" /\ chat = FALSE
    /\ messages = <<>> /\ users = {} /\ shown = <<>> /\ replies = {}
    /\ board = <<>>

New(what, text) == [NoReq EXCEPT !.what = what, !.text = text]

(* coincoin_login(): a new account with a new handler reads the board.     *)
coincoin_login ==
    /\ pc = "off" /\ pc' = "connecting"
    /\ \E r \in Reqs : Open(r) /\ req' = [req EXCEPT ![r] = New("login", NoText)]
    /\ messages' = <<>> /\ users' = {} /\ shown' = <<>> /\ replies' = {}
    /\ UNCHANGED <<timer, chat, board>>

(* coincoin_close(), when the user disconnects or libpurple does after an  *)
(* error: the timer, the messages and the handler go.                      *)
coincoin_close ==
    /\ Close /\ req' = [r \in Reqs |-> NoReq]
    /\ pc' = "off" /\ timer' = "none" /\ messages' = <<>>
    /\ UNCHANGED <<chat, users, shown, replies, board>>

(* The answer of r makes coincoin_parse_message() read NULL: the posts     *)
(* above the first one that is among the messages include a broken one.    *)
Fatal(r) ==
    /\ req[r].body = "board" /\ (req[r].what = "check" => chat)
    /\ \E i \in Unseen(ListedIds(req[r].posts), messages) : board[i].from = "broken"

(* The process ends there; the user's next one starts with nothing.        *)
Crash(r) ==
    /\ r \in pending /\ Fatal(r)
    /\ Close /\ req' = [n \in Reqs |-> NoReq]
    /\ pc' = "off" /\ timer' = "none" /\ messages' = <<>>
    /\ chat' = FALSE /\ users' = {}
    /\ UNCHANGED <<shown, replies, board>>

(* coincoin_check_new_messages(), by its timer.  The function returns      *)
(* nothing where GLib expects whether to go on: either may happen.         *)
CheckTimer ==
    /\ timer = "armed" /\ timer' \in {"armed", "spent"}
    /\ \E r \in Reqs : Ask(r) /\ req' = [req EXCEPT ![r] = New("check", NoText)]
    /\ UNCHANGED <<pc, board, roomVars>>

(* Mutant: the number within the second is left out.                       *)
ConvertedBare(nick, k) ==
    LET S == {i \in DOMAIN messages : messages[i].from = nick}
        T == {i \in S : Cardinality({j \in S : j <= i}) = k}
        m == messages[CHOOSE i \in T : TRUE]
    IN  IF T = {} THEN NoText
        ELSE [clock |-> ClockOf(m.time), ref |-> 1, to |-> nick, time |-> m.time]

(* coincoin_convert_message(): "nick:k:" becomes the clock of the k-th     *)
(* newest message of nick, with its number if others have the same clock.  *)
Converted(nick, k) ==
    LET S == {i \in DOMAIN messages : messages[i].from = nick}
        T == {i \in S : Cardinality({j \in S : j <= i}) = k}
        m == messages[CHOOSE i \in T : TRUE]
    IN  IF T = {} THEN NoText
        ELSE [clock |-> ClockOf(m.time), ref |-> IF m.multiple THEN m.ref ELSE 1,
              to |-> nick, time |-> m.time]

(* coincoin_chat_send()                                                    *)
coincoin_chat_send ==
    /\ pc = "connected" /\ chat
    /\ \E r \in Reqs, nick \in Others, k \in {1, 2} :
        Ask(r) /\ req' = [req EXCEPT ![r] = New("post", Converted(nick, k))]
    /\ UNCHANGED <<pc, timer, board, roomVars>>

(* The user leaves the room.                                               *)
LeaveRoom ==
    /\ chat
    /\ chat' = FALSE /\ users' = {}
    /\ UNCHANGED <<clientVars, req, pc, timer, messages, shown, replies, board>>
-----------------------------------------------------------------------------
(* The server answers with the board as it stands, takes a post and        *)
(* answers nothing, or answers with a page that is neither.                *)
ServerAnswers(r) ==
    /\ r \in pending /\ req[r].what \in {"login", "check"} /\ req[r].body = "none"
    /\ req' = [req EXCEPT ![r].body = "board", ![r].posts = Newest]
    /\ UNCHANGED <<clientVars, pc, timer, board, roomVars>>

ServerTakesPost(r) ==
    /\ r \in pending /\ req[r].what = "post" /\ req[r].body = "none"
    /\ Newest < MaxPosts /\ Paced
    /\ \E d \in Gaps : Posted("me", req[r].text, d)
    /\ replies' = replies \union
           {[id |-> Newest + 1, to |-> req[r].text.to, time |-> req[r].text.time]}
    /\ req' = [req EXCEPT ![r].body = "empty"]
    /\ UNCHANGED <<clientVars, pc, timer, chat, messages, users, shown>>

ServerBabbles(r) ==
    /\ r \in pending /\ req[r].body = "none"
    /\ \E b \in {"junk", "other"} : req' = [req EXCEPT ![r].body = b]
    /\ UNCHANGED <<clientVars, pc, timer, board, roomVars>>

Over(r) == req' = [req EXCEPT ![r] = NoReq]

(* The answer to the login is complete: coincoin_login_cb().               *)
coincoin_login_cb(r) ==
    /\ req[r].what = "login" /\ ~Fatal(r) /\ Over(r)
    /\ IF req[r].body = "board"
       THEN /\ Callback(r, err)
            /\ pc' = "connected" /\ timer' = "armed" /\ chat' = TRUE
            /\ ParseMessage(messages, {}, ListedIds(req[r].posts))
            /\ UNCHANGED <<replies, board>>
       ELSE /\ Callback(r, TRUE)
            /\ UNCHANGED <<pc, timer, board, roomVars>>

(* The answer to a check is complete: coincoin_parse_message().  Nothing   *)
(* is done without the room or without XML.                                *)
coincoin_parse_message(r) ==
    /\ req[r].what = "check" /\ ~Fatal(r) /\ Callback(r, err) /\ Over(r)
    /\ UNCHANGED <<pc, timer, board>>
    /\ IF chat /\ req[r].body \in {"other", "board"}
       THEN /\ ParseMessage(messages, users, IF req[r].body = "board"
                                             THEN ListedIds(req[r].posts) ELSE {})
            /\ UNCHANGED <<chat, replies>>
       ELSE UNCHANGED roomVars

(* The answer to a post is complete: coincoin_message_posted() checks the  *)
(* board again unless something was answered.                              *)
coincoin_message_posted(r) ==
    /\ req[r].what = "post"
    /\ IF req[r].body \in {"none", "empty"}
       THEN \E n \in Reqs : /\ CallbackAsks(r, n)
                            /\ req' = [req EXCEPT ![r] = NoReq, ![n] = New("check", NoText)]
       ELSE Callback(r, err) /\ Over(r)
    /\ UNCHANGED <<pc, timer, board, roomVars>>

(* The connection fails, at any point of the request.                      *)
RequestFails(r) ==
    /\ Fail(r) /\ Over(r)
    /\ UNCHANGED <<pc, timer, board, roomVars>>

Next ==
    \/ coincoin_login \/ coincoin_close \/ CheckTimer \/ coincoin_chat_send
    \/ LeaveRoom \/ SomeonePosts
    \/ \E r \in Reqs :
        \/ ServerAnswers(r) \/ ServerTakesPost(r) \/ ServerBabbles(r)
        \/ coincoin_login_cb(r) \/ coincoin_parse_message(r)
        \/ coincoin_message_posted(r) \/ RequestFails(r) \/ Crash(r)

Spec == Init /\ [][Next]_vars
-----------------------------------------------------------------------------
(* Overlapping answers never show a post twice nor after a later one:      *)
(* coincoin_parse_message() knows from its list what was shown.            *)
ShownOnceInOrder ==
    \A i, j \in DOMAIN shown : i < j => shown[i].id < shown[j].id

(* Who is in the room has a message among those that are kept, and who has *)
(* one is in the room, whatever was purged.                                *)
RoomIsAuthors ==
    pc = "connected" /\ chat =>
        users = {messages[i].from : i \in DOMAIN messages} \ {"me"}

(* The clock the user's reply was given is shown with the name of whom it  *)
(* replied to, or with none: messages that came in between do not take     *)
(* over its number.  Only somebody who posted at the same clock of another *)
(* day may be named instead: message.c:312-315 compares no date.           *)
ReplyNamesNick ==
    \A i \in DOMAIN shown, r \in replies :
        r.id = shown[i].id =>
            \/ shown[i].name \in {"nobody", r.to}
            \/ \E j \in 1..(r.id - 1) :
                    /\ board[j].from = shown[i].name /\ board[j].time # r.time
                    /\ ClockOf(board[j].time) = ClockOf(r.time)
=============================================================================
