------------------------------- MODULE IrcNet -------------------------------
(***************************************************************************)
(* The IRC network minbif shows to its user: the maps of irc.cpp and the   *)
(* nicks, channels and servers in them, which point at each other and at   *)
(* libpurple's buddies, rooms and conversations (im/buddy.cpp,             *)
(* im/conversation.cpp, im/account.cpp), which point back at them through  *)
(* their ui_data.  Nothing here is counted: an object is deleted by        *)
(* whoever thinks it is the last to need it.                               *)
(*                                                                         *)
(* A step is one callback of libpurple or one command of the user, with    *)
(* all the calls it makes.  A nick is named by its address.                *)
(***************************************************************************)
EXTENDS Integers, FiniteSets

CONSTANTS
    Accounts,
    People,       \* names on an account: a buddy, a member of a room and the
                  \* other end of a conversation may all be the same person
    AccountOf,    \* the account of each person
    Rooms,
    RoomAccount,  \* the account of each room
    Bases,        \* what nickize() makes of a name
    BaseOf,       \* nickize() of each person's name
    Objs,         \* addresses of nicks
    Me,           \* the address of the user's own nick
    MyName,       \* the user's nickname
    Status,       \* the status channel, which accounts may share
    Null,
    Wanted        \* nicknames the user gives to buddies

(* A nickname: what nickize() returned, and how many "_" follow it.        *)
Names == Bases \X (0..Cardinality(Objs))

Channels == Rooms \cup {Status}

(* A Nick: irc::User, Buddy, ChatBuddy or UnknownBuddy.                    *)
Nick == [kind : {"user", "buddy", "chat", "unknown"},
         name : Names,
         srv : Accounts \cup {Null},     \* Null: minbif itself
         who : People \cup {Null},       \* the person behind it
         conv : People \cup {Null},      \* ConvEntity::conv, by its peer
         chans : SUBSET Channels]        \* Nick::channels

ASSUME IrcNetAssumption ==
    /\ IsFiniteSet(Objs) /\ Me \in Objs /\ MyName \in Names
    /\ AccountOf \in [People -> Accounts] /\ RoomAccount \in [Rooms -> Accounts]
    /\ BaseOf \in [People -> Bases]
    /\ Status \notin Rooms
    /\ Me \notin People
    /\ Null \notin Objs \cup People \cup Accounts \cup Nick
    /\ Wanted \subseteq Names

VARIABLES
    nick,        \* what is at each address, Null once deleted
    users,       \* IRC::users
    servers,     \* IRC::servers: the accounts that have one
    chans,       \* IRC::channels
    chanUsers,   \* Channel::users
    cbuddies,    \* ConversationChannel::cbuddies
    statusAccts, \* StatusChannel::accounts
    blist,       \* libpurple: the people on the buddy list,
    online,      \*            and those of them who are online
    bnick,       \* libpurple: ui_data of each buddy
    convs,       \* libpurple: the people with whom an IM conversation exists
    cnick,       \*            and its ui_data
    inRoom,      \* libpurple: the members of each room, Me for oneself
    alive        \* the process has not crashed

ircVars == <<users, servers>>
chanVars == <<chans, chanUsers, cbuddies, inRoom>>
listVars == <<blist, online>>
vars == <<nick, ircVars, chanVars, statusAccts, listVars, bnick, convs, cnick, alive>>

Alive == {o \in Objs : nick[o] # Null}
Known == {users[n] : n \in Names} \ {Null}
-----------------------------------------------------------------------------
(* while(irc->getNick(n)) n += "_".                                        *)
FreshName(b) ==
    CHOOSE n \in Names :
        /\ n[1] = b /\ users[n] = Null
        /\ \A m \in Names : m[1] = b /\ users[m] = Null => n[2] <= m[2]

(* IRC::addNick() of a nick that is new at o.                              *)
AddNick(o, rec) ==
    /\ nick[o] = Null
    /\ users' = [users EXCEPT ![rec.name] = o]

(* Mutant: the old nickname stays in IRC::users.                           *)
RenamedBoth(o, n) == [users EXCEPT ![n] = o]

(* IRC::users after renameNick().                                          *)
Renamed(o, n) == [users EXCEPT ![nick[o].name] = Null, ![n] = o]

RenameNick(o, n, who) ==
    /\ users' = Renamed(o, n)
    /\ nick' = [nick EXCEPT ![o].name = n, ![o].who = who]
-----------------------------------------------------------------------------
(***************************************************************************)
(* What is left when the nicks of S have been deleted.                     *)
(***************************************************************************)
NickGone(S) == [o \in Objs |-> IF o \in S THEN Null ELSE nick[o]]

UsersGone(S) == [n \in Names |-> IF users[n] \in S THEN Null ELSE users[n]]

(* ~Buddy(): im_buddy.setNick(NULL).                                       *)
BnickGone(S) ==
    [b \in People |-> IF \E o \in S : nick[o].kind = "buddy" /\ nick[o].who = b
                      THEN Null ELSE bnick[b]]

(* The destructors: a conversation that points at its nick forgets it.     *)
CnickGone(S) ==
    [p \in People |-> IF cnick[p] \in S /\ nick[cnick[p]].conv = p
                      THEN Null ELSE cnick[p]]

(* ~Nick(): quit() leaves every channel.                                   *)
ChanGone(S) ==
    [c \in Channels |-> chanUsers[c] \ {o \in S : c \in nick[o].chans}]

(* Mutant: the users of a deleted channel keep their ChanUser.             *)
StillOn(f, C) == f

(* ~Channel(): removeChanUser() for whoever is still on a channel of C.    *)
OffChannels(f, C) ==
    [o \in Objs |-> IF f[o] = Null THEN Null
                    ELSE [f[o] EXCEPT !.chans = @ \ {c \in C : o \in chanUsers[c]}]]

EmptyRooms(R) == [r \in Rooms |-> IF r \in R THEN [p \in People \cup {Me} |-> Null]
                                             ELSE cbuddies[r]]
-----------------------------------------------------------------------------
NewBuddy(b) == [kind |-> "buddy", name |-> FreshName(BaseOf[b]), srv |-> AccountOf[b],
                who |-> b, conv |-> Null, chans |-> {}]

(* Buddy::updated() for the nick rec at o: a buddy who is online joins the *)
(* status channel of his account, one who went offline quits.              *)
Updated(o, rec, on) ==
    LET joins == on /\ rec.srv \in statusAccts
        quits == ~on /\ rec.srv \in statusAccts /\ Status \in rec.chans
    IN  /\ nick' = [nick EXCEPT ![o] =
                      [rec EXCEPT !.chans = IF joins THEN @ \cup {Status}
                                            ELSE IF quits THEN {} ELSE @]]
        /\ chanUsers' = [c \in Channels |->
                          IF joins /\ c = Status THEN chanUsers[c] \cup {o}
                          ELSE IF quits /\ c \in rec.chans THEN chanUsers[c] \ {o}
                          ELSE chanUsers[c]]

(* Buddy::update_node(): libpurple reports a buddy, who is now online or   *)
(* not.  Without a nick and without a server nothing happens.              *)
update_node(b, on) ==
    /\ alive /\ b \in blist /\ AccountOf[b] \in servers
    /\ online' = IF on THEN online \cup {b} ELSE online \ {b}
    /\ \/ /\ bnick[b] # Null
          /\ Updated(bnick[b], nick[bnick[b]], on)
          /\ UNCHANGED <<users, bnick>>
       \/ /\ bnick[b] = Null
          /\ \E o \in Objs : /\ AddNick(o, NewBuddy(b))
                             /\ Updated(o, NewBuddy(b), on)
                             /\ bnick' = [bnick EXCEPT ![b] = o]
    /\ UNCHANGED <<servers, chans, cbuddies, inRoom, statusAccts, blist, convs, cnick, alive>>

(* Account::addBuddy(), or a buddy the IM server adds; update_node() is    *)
(* called next.                                                            *)
AddBuddy(b) ==
    /\ alive /\ b \notin blist
    /\ blist' = blist \cup {b}
    /\ UNCHANGED <<nick, ircVars, chanVars, statusAccts, online, bnick, convs, cnick, alive>>

(* Buddy::removed_node()                                                   *)
removed_node(b) ==
    LET S == {bnick[b]} \ {Null}
    IN  /\ alive /\ b \in blist
        /\ blist' = blist \ {b} /\ online' = online \ {b}
        /\ nick' = NickGone(S) /\ users' = UsersGone(S)
        /\ bnick' = BnickGone(S) /\ cnick' = CnickGone(S) /\ chanUsers' = ChanGone(S)
        /\ UNCHANGED <<servers, chans, cbuddies, inRoom, statusAccts, convs, alive>>

(* KILL and, on the status channel, KICK: the buddy quits or is kicked,    *)
(* then Account::removeBuddy() makes libpurple call removed_node().        *)
m_kill(b) == bnick[b] # Null /\ removed_node(b)

kick(b) ==
    /\ Status \in chans /\ {Me, bnick[b]} \subseteq chanUsers[Status]
    /\ removed_node(b)

(* SVSNICK; the alias it sets is the nickname the nick has by then.        *)
m_svsnick(o, n) ==
    /\ alive /\ o \in Alive /\ nick[o].kind = "buddy"
    /\ users[n] \in {Null, o}
    /\ RenameNick(o, n, nick[o].who)
    /\ UNCHANGED <<servers, chanVars, statusAccts, listVars, bnick, convs, cnick, alive>>
-----------------------------------------------------------------------------
(* Conversation::createChannel(): the user joins at once.                  *)
createChannel(r) ==
    /\ alive /\ RoomAccount[r] \in servers /\ r \notin chans
    /\ chans' = chans \cup {r}
    /\ chanUsers' = [chanUsers EXCEPT ![r] = {Me}]
    /\ nick' = [nick EXCEPT ![Me].chans = @ \cup {r}]
    /\ UNCHANGED <<ircVars, cbuddies, inRoom, statusAccts, listVars, bnick, convs, cnick, alive>>

NewChat(r, p) == [kind |-> "chat", name |-> FreshName(BaseOf[p]), srv |-> RoomAccount[r],
                  who |-> p, conv |-> Null, chans |-> {r}]

(* Conversation::add_users(): addBuddy() for one of them.                  *)
add_users(r, p) ==
    /\ alive /\ r \in chans /\ p \notin inRoom[r]
    /\ inRoom' = [inRoom EXCEPT ![r] = @ \cup {p}]
    /\ \/ /\ p = Me
          /\ nick' = [nick EXCEPT ![Me].chans = @ \cup {r}]
          /\ chanUsers' = [chanUsers EXCEPT ![r] = @ \cup {Me}]
          /\ cbuddies' = [cbuddies EXCEPT ![r][Me] = Me]
          /\ UNCHANGED users
       \/ /\ p # Me /\ AccountOf[p] = RoomAccount[r] /\ cbuddies[r][p] = Null
          /\ \E o \in Objs : /\ AddNick(o, NewChat(r, p))
                             /\ nick' = [nick EXCEPT ![o] = NewChat(r, p)]
                             /\ chanUsers' = [chanUsers EXCEPT ![r] = @ \cup {o}]
                             /\ cbuddies' = [cbuddies EXCEPT ![r][p] = o]
    /\ UNCHANGED <<servers, chans, statusAccts, listVars, bnick, convs, cnick, alive>>

(* Mutant: renameBuddy() without cbuddies.erase().                         *)
RekeyedBoth(r, p, q) == [cbuddies EXCEPT ![r][q] = cbuddies[r][p]]

Rekeyed(r, p, q) == [cbuddies EXCEPT ![r][p] = Null, ![r][q] = cbuddies[r][p]]

(* Conversation::chat_rename_user() and renameBuddy(): p is now called q.  *)
chat_rename_user(r, p, q) ==
    /\ alive /\ r \in chans /\ p \in inRoom[r] \ {Me}
    /\ q \notin inRoom[r] /\ AccountOf[q] = RoomAccount[r]
    /\ inRoom' = [inRoom EXCEPT ![r] = (@ \ {p}) \cup {q}]
    /\ cbuddies' = Rekeyed(r, p, q)
    /\ RenameNick(cbuddies[r][p], FreshName(BaseOf[q]), q)
    /\ UNCHANGED <<servers, chans, chanUsers, statusAccts, listVars, bnick, convs, cnick, alive>>

(* The same for the user's own name in the room: renameBuddy() uses the    *)
(* NULL its dynamic_cast to ChatBuddy returns.                             *)
RenameMe(r) ==
    /\ alive /\ r \in chans /\ Me \in inRoom[r]
    /\ alive' = FALSE
    /\ UNCHANGED <<nick, ircVars, chanVars, statusAccts, listVars, bnick, convs, cnick>>

(* ConversationChannel::delUser() of the user: leave() destroys the        *)
(* conversation, and ~ConversationChannel() the nicks of its members.      *)
LeaveRooms(R, S) ==
    /\ chans' = chans \ R
    /\ nick' = OffChannels(NickGone(S), R)
    /\ chanUsers' = [c \in Channels |-> IF c \in R THEN {} ELSE ChanGone(S)[c]]
    /\ cbuddies' = EmptyRooms(R)
    /\ inRoom' = [r \in Rooms |-> IF r \in R THEN {} ELSE inRoom[r]]
    /\ users' = UsersGone(S)
    /\ bnick' = BnickGone(S) /\ cnick' = CnickGone(S)

(* The nicks ~ConversationChannel() deletes.                               *)
RoomNicks(r) ==
    {o \in {cbuddies[r][p] : p \in People \cup {Me}} \ {Null} : nick[o].kind = "chat"}

LeaveRoom(r) == LeaveRooms({r}, RoomNicks(r))

(* Conversation::remove_user(), the user himself included.                 *)
remove_user(r, p) ==
    /\ alive /\ r \in chans /\ p \in inRoom[r]
    /\ \/ p = Me /\ LeaveRoom(r)
       \/ /\ p # Me
          /\ LET S == {cbuddies[r][p]}
             IN  /\ nick' = NickGone(S) /\ users' = UsersGone(S)
                 /\ chanUsers' = ChanGone(S)
                 /\ bnick' = BnickGone(S) /\ cnick' = CnickGone(S)
          /\ cbuddies' = [cbuddies EXCEPT ![r][p] = Null]
          /\ inRoom' = [inRoom EXCEPT ![r] = @ \ {p}]
          /\ UNCHANGED chans
    /\ UNCHANGED <<servers, statusAccts, listVars, convs, alive>>

(* PART of a room, and PART and JOIN of the status channel.                *)
m_part(c) ==
    /\ alive /\ c \in chans /\ Me \in chanUsers[c]
    /\ \/ c \in Rooms /\ LeaveRoom(c)
       \/ /\ c = Status
          /\ nick' = [nick EXCEPT ![Me].chans = @ \ {Status}]
          /\ chanUsers' = [chanUsers EXCEPT ![Status] = @ \ {Me}]
          /\ UNCHANGED <<users, chans, cbuddies, inRoom, bnick, cnick>>
    /\ UNCHANGED <<servers, statusAccts, listVars, convs, alive>>

m_join ==
    /\ alive /\ Status \in chans
    /\ nick' = [nick EXCEPT ![Me].chans = @ \cup {Status}]
    /\ chanUsers' = [chanUsers EXCEPT ![Status] = @ \cup {Me}]
    /\ UNCHANGED <<ircVars, chans, cbuddies, inRoom, statusAccts, listVars, bnick, convs,
                   cnick, alive>>
-----------------------------------------------------------------------------
(* setConversation(p) of the nick n, when cnick is c.  A buddy first makes *)
(* the conversation he had forget him.                                     *)
Rebound(c, n) ==
    LET old == nick[n].conv
    IN  IF nick[n].kind = "buddy" /\ old # Null /\ c[old] = n
        THEN [c EXCEPT ![old] = Null] ELSE c

NewUnknown(p) == [kind |-> "unknown", name |-> FreshName(BaseOf[p]), srv |-> AccountOf[p],
                  who |-> p, conv |-> p, chans |-> {}]

(***************************************************************************)
(* Conversation::recvMessage() of an IM from p under the name "from".  The *)
(* alias of a buddy is his nickname, anybody else calls himself as he      *)
(* likes.  accept: accept_nobuddies_messages.                              *)
(***************************************************************************)
recvMessage(p, from, accept) ==
    LET byConv == {o \in Known : nick[o].conv = p}
        byName == {o \in {users[from]} \ {Null} : nick[o].kind = "buddy"}
        found == IF byConv # {} THEN byConv ELSE byName
    IN  /\ alive /\ AccountOf[p] \in servers
        /\ p \in blist /\ bnick[p] # Null => from = nick[bnick[p]].name
        /\ convs' = convs \cup {p}
        /\ \/ /\ cnick[p] # Null \/ (found = {} /\ ~accept)
              /\ UNCHANGED <<nick, users, cnick>>
           \/ /\ cnick[p] = Null
              /\ \E n \in found :
                    /\ cnick' = Rebound([cnick EXCEPT ![p] = n], n)
                    /\ nick' = [nick EXCEPT ![n].conv = p]
              /\ UNCHANGED users
           \/ /\ cnick[p] = Null /\ found = {} /\ accept
              /\ \E o \in Objs : /\ AddNick(o, NewUnknown(p))
                                 /\ nick' = [nick EXCEPT ![o] = NewUnknown(p)]
                                 /\ cnick' = [cnick EXCEPT ![p] = o]
        /\ UNCHANGED <<servers, chanVars, statusAccts, listVars, bnick, alive>>

(* Mutant: setNick() does not tell the nick the conversation had.          *)
TakenSilently(f, last) == f

(* setNick(): the nick the conversation had, if any, loses it.             *)
Taken(f, last) == IF last = Null THEN f ELSE [f EXCEPT ![last].conv = Null]

(***************************************************************************)
(* PRIVMSG to o: Buddy::check_conv() or ChatBuddy::send() finds or makes   *)
(* the conversation and takes it from the nick that had it; an             *)
(* UnknownBuddy is deleted.                                                *)
(***************************************************************************)
check_conv(o) ==
    LET p == nick[o].who
        last == cnick[p]
        S == IF last # Null /\ nick[last].kind = "unknown" THEN {last} ELSE {}
    IN  /\ alive /\ o \in Alive /\ nick[o].kind \in {"buddy", "chat"}
        /\ nick[o].conv = Null
        /\ convs' = convs \cup {p}
        /\ cnick' = [cnick EXCEPT ![p] = o]
        /\ nick' = [(IF S = {} THEN Taken(nick, last) ELSE NickGone(S)) EXCEPT ![o].conv = p]
        /\ users' = UsersGone(S)
        /\ UNCHANGED <<servers, chanVars, statusAccts, listVars, bnick, alive>>

(* Conversation::destroy() of an IM conversation.                          *)
destroy(p) ==
    LET last == cnick[p]
        S == IF last # Null /\ nick[last].kind = "unknown" THEN {last} ELSE {}
    IN  /\ alive /\ p \in convs
        /\ convs' = convs \ {p}
        /\ cnick' = [cnick EXCEPT ![p] = Null]
        /\ nick' = [o \in Objs |->
                      IF o \in S \/ nick[o] = Null THEN Null
                      ELSE IF nick[o].conv = p THEN [nick[o] EXCEPT !.conv = Null] ELSE nick[o]]
        /\ users' = UsersGone(S)
        /\ UNCHANGED <<servers, chanVars, statusAccts, listVars, bnick, alive>>
-----------------------------------------------------------------------------
(* Account::connected(); libpurple then calls update_node() for each buddy.*)
connected(a) ==
    /\ alive /\ a \notin servers
    /\ servers' = servers \cup {a}
    /\ UNCHANGED <<nick, users, chanVars, statusAccts, listVars, bnick, convs, cnick,
                   alive>>

(* The nicks removeServer() finds in IRC::users.                           *)
NicksOf(a) == {o \in Known : nick[o].srv = a}

(* Account::disconnected(): the rooms are left, then removeServer() deletes*)
(* the nicks without a word to the server, which goes with its list.       *)
disconnected(a) ==
    /\ alive /\ a \in servers
    /\ servers' = servers \ {a}
    /\ LeaveRooms({r \in Rooms : RoomAccount[r] = a}, NicksOf(a))
    /\ online' = {b \in online : AccountOf[b] # a}
    /\ UNCHANGED <<statusAccts, blist, convs, alive>>

(* The nicks that createStatusChannel() makes join: updated() of each one. *)
Shown(a) == {bnick[b] : b \in {b \in online : AccountOf[b] = a}} \ {Null}

(* Account::setStatusChannelName(): leaveStatusChannel(), which deletes a  *)
(* channel no account is left on, then createStatusChannel() if on.        *)
setStatusChannelName(a, on) ==
    LET mine == {bnick[b] : b \in {b \in blist : AccountOf[b] = a}} \ {Null}
        left == statusAccts \ {a}
        stay == IF left = {} THEN {} ELSE IF a \in statusAccts THEN chanUsers[Status] \ mine
                                          ELSE chanUsers[Status]
        new == IF ~on THEN stay ELSE stay \cup Shown(a) \cup (IF left = {} THEN {Me} ELSE {})
    IN  /\ alive
        /\ statusAccts' = IF on THEN left \cup {a} ELSE left
        /\ chans' = IF statusAccts' = {} THEN chans \ {Status} ELSE chans \cup {Status}
        /\ chanUsers' = [chanUsers EXCEPT ![Status] = new]
        /\ nick' = [o \in Objs |->
                      IF nick[o] = Null THEN Null
                      ELSE [nick[o] EXCEPT !.chans = IF o \in new THEN @ \cup {Status}
                                                     ELSE @ \ {Status}]]
        /\ UNCHANGED <<ircVars, cbuddies, inRoom, listVars, bnick, convs, cnick, alive>>
-----------------------------------------------------------------------------
(* After sendWelcome(): every account has its status channel, none is      *)
(* connected yet.                                                          *)
Init ==
    /\ nick = [o \in Objs |->
                 IF o = Me THEN [kind |-> "user", name |-> MyName, srv |-> Null, who |-> Null,
                                 conv |-> Null, chans |-> {Status}]
                 ELSE Null]
    /\ users = [n \in Names |-> IF n = MyName THEN Me ELSE Null]
    /\ servers = {}
    /\ chans = {Status} /\ statusAccts = Accounts
    /\ chanUsers = [c \in Channels |-> IF c = Status THEN {Me} ELSE {}]
    /\ cbuddies = [r \in Rooms |-> [p \in People \cup {Me} |-> Null]]
    /\ inRoom = [r \in Rooms |-> {}]
    /\ blist \in SUBSET People /\ online = {}
    /\ bnick = [b \in People |-> Null]
    /\ convs = {} /\ cnick = [p \in People |-> Null]
    /\ alive = TRUE

Next ==
    \/ \E b \in People, on \in BOOLEAN : update_node(b, on)
    \/ \E b \in People : AddBuddy(b) \/ removed_node(b) \/ m_kill(b) \/ kick(b)
    \/ \E o \in Objs, n \in Wanted : m_svsnick(o, n)
    \/ \E r \in Rooms : createChannel(r) \/ RenameMe(r)
    \/ \E r \in Rooms, p \in People \cup {Me} : add_users(r, p) \/ remove_user(r, p)
    \/ \E r \in Rooms, p, q \in People : chat_rename_user(r, p, q)
    \/ \E c \in Channels : m_part(c)
    \/ m_join
    \/ \E p \in People, from \in Names, accept \in BOOLEAN : recvMessage(p, from, accept)
    \/ \E o \in Objs : check_conv(o)
    \/ \E p \in People : destroy(p)
    \/ \E a \in Accounts : connected(a) \/ disconnected(a)
    \/ \E a \in Accounts, on \in BOOLEAN : setStatusChannelName(a, on)

Spec == Init /\ [][Next]_vars
-----------------------------------------------------------------------------
TypeOK ==
    /\ nick \in [Objs -> Nick \cup {Null}] /\ nick[Me] # Null
    /\ users \in [Names -> Objs \cup {Null}]
    /\ servers \subseteq Accounts
    /\ chans \subseteq Channels /\ chanUsers \in [Channels -> SUBSET Objs]
    /\ cbuddies \in [Rooms -> [People \cup {Me} -> Objs \cup {Null}]]
    /\ inRoom \in [Rooms -> SUBSET (People \cup {Me})]
    /\ statusAccts \subseteq Accounts
    /\ blist \subseteq People /\ online \subseteq blist
    /\ bnick \in [People -> Objs \cup {Null}]
    /\ convs \subseteq People /\ cnick \in [People -> Objs \cup {Null}]
    /\ alive \in BOOLEAN

(* IRC::users is exact: each entry is a nick that has not been deleted and *)
(* bears that nickname, and no nick is left out of it (removeNick() looks  *)
(* nicks up by their nickname before it deletes them).  Its getServer() is *)
(* a server of IRC::servers: removeServer() deletes the server and leaves  *)
(* no nick behind that points at it.                                       *)
UsersExact ==
    /\ \A n \in Names : users[n] # Null => users[n] \in Alive /\ nick[users[n]].name = n
    /\ \A o \in Alive : users[nick[o].name] = o
    /\ \A o \in Alive \ {Me} : nick[o].srv \in servers

(* A nick is on a channel for itself exactly when it is for the channel,   *)
(* and only nicks that live are on channels that exist: ~Nick() and        *)
(* ~Channel() each clean up on the other side.                             *)
ChannelsAgree ==
    /\ \A c \in Channels : chanUsers[c] = {o \in Alive : c \in nick[o].chans}
    /\ \A c \in Channels \ chans : chanUsers[c] = {}

(* A buddy's ui_data and the irc::Buddy it points at agree, and no         *)
(* irc::Buddy outlives its place in the buddy list.  A conversation and    *)
(* its nick point at each other, so that an answer leaves through the      *)
(* conversation the message came from, and the nick that shows a message   *)
(* has not been deleted.                                                   *)
PointersAgree ==
    /\ \A b \in People : bnick[b] # Null =>
          b \in blist /\ bnick[b] \in Alive /\ nick[bnick[b]].kind = "buddy"
                    /\ nick[bnick[b]].who = b
    /\ \A o \in Alive : nick[o].kind = "buddy" => bnick[nick[o].who] = o
    /\ \A p \in People : cnick[p] # Null =>
          p \in convs /\ cnick[p] \in Alive /\ nick[cnick[p]].conv = p
    /\ \A o \in Alive : nick[o].conv # Null => cnick[nick[o].conv] = o

(* Each room shows exactly its members: every member has a nick of his own *)
(* on the channel, and no chat nick is on the network without a member.    *)
(* The status channel shows exactly the buddies who are online, of the     *)
(* accounts that have it, whatever is connected, renamed or reconfigured.  *)
ChannelsShow ==
    /\ \A r \in chans \ {Status}, p \in People :
          LET o == cbuddies[r][p]
          IN  /\ o # Null <=> p \in inRoom[r]
              /\ o # Null => o \in Alive /\ nick[o].kind = "chat" /\ nick[o].who = p
                                         /\ o \in chanUsers[r]
    /\ \A o \in Alive : nick[o].kind = "chat" =>
          \E r \in chans \ {Status} : cbuddies[r][nick[o].who] = o
    /\ \A b \in blist : bnick[b] # Null =>
          (bnick[b] \in chanUsers[Status] <=> b \in online /\ AccountOf[b] \in statusAccts)
=============================================================================
