------------------------------- MODULE DccGet -------------------------------
(***************************************************************************)
(* Files the IRC user sends with DCC SEND, to a buddy or to the nick       *)
(* buddyicon: class DCCGet of src/src/irc/dcc.cpp, the list IRC::dccs, and *)
(* the two receivers, src/src/irc/buddy.cpp and src/src/irc/buddy_icon.cpp.*)
(* A transfer is written to a path made of its file name alone, and at its *)
(* end a callback of the nick hands that path to libpurple, which reads    *)
(* the file when the other side wants it.  Meanwhile the nick may go, with *)
(* its buddy or with the server of its account.                            *)
(***************************************************************************)
EXTENDS Integers, FiniteSets

CONSTANTS Buddies,    \* nicks of the buddies of one account
          Icon,       \* the nick buddyicon, of the main server
          Paths,      \* files of upload/
          IconPath,   \* a file of buddy_icon/
          MaxSize,    \* bound: units of a file; a read takes one or two
          MaxGets     \* bound: transfers

ASSUME DccGetAssumption ==
    /\ Icon \notin Buddies /\ IconPath \notin Paths
    /\ "nobody" \notin Buddies \union {Icon}
    /\ MaxSize \in Nat /\ MaxGets \in Nat

Nicks == Buddies \union {Icon}
Gets == 1..MaxGets
Nobody == "nobody"

VARIABLES
    nicks,    \* nicks that exist
    get,      \* the DCCGet objects, and how far each transfer is
    dccs,     \* IRC::dccs
    disk,     \* per path: whose fopen() made the file, and what is in it
    handed,   \* transfers whose file libpurple was given, and for whom
    sent      \* what libpurple read of them in the end

getVars == <<nicks, get, dccs, disk, handed, sent>>

(* The members of a DCCGet: callback, fp and sock go together, in deinit().*)
(* stale: the nick of from and callback was deleted.  Then the client's    *)
(* side: units in the socket, and whether it has closed it.                *)
NoGet == [watched |-> FALSE, peer |-> Nobody, to |-> Nobody, stale |-> FALSE,
          path |-> IconPath, size |-> 0, received |-> 0, written |-> 0,
          arrived |-> 0, closed |-> FALSE]

NoFile == [by |-> 0, len |-> 0, mixed |-> FALSE]

GetInit ==
    /\ nicks = Nicks
    /\ get = [t \in Gets |-> NoGet]
    /\ dccs = {}
    /\ disk = [p \in Paths \union {IconPath} |-> NoFile]
    /\ handed = {} /\ sent = {}

Begun(t) == get[t].to # Nobody
Finished(g, t) == ~g[t].watched
New(t) == ~Begun(t) /\ \A u \in 1..(t - 1) : Begun(u)
-----------------------------------------------------------------------------
(* DCCGet::deinit(), where finished is set with the watcher removed.       *)
DeinitGet(g) ==
    [g EXCEPT !.watched = FALSE, !.peer = Nobody, !.arrived = 0, !.closed = FALSE]

(* n units were read and written to fp, w of all of them reached the disk. *)
Got(g, n, w) == [g EXCEPT !.received = @ + n, !.arrived = @ - n, !.written = w]

(* The buffer of fp reaches the disk up to n units: at an offset of its    *)
(* own, into whatever file the path is now.                                *)
Flushed(t, n) ==
    LET p == get[t].path
    IN  IF n = get[t].written THEN disk
        ELSE [disk EXCEPT ![p] = IF @.by = t THEN [@ EXCEPT !.len = n]
                                 ELSE [@ EXCEPT !.mixed = TRUE]]

(* fclose() of these transfers, those for which it reaches the disk.       *)
Closed(T) ==
    [p \in DOMAIN disk |->
        LET W == {t \in T : get[t].path = p /\ get[t].received # get[t].written}
        IN  IF W = {} THEN disk[p]
            ELSE IF W = {disk[p].by}
            THEN [disk[p] EXCEPT !.len = get[disk[p].by].received]
            ELSE [disk[p] EXCEPT !.mixed = TRUE]]

(* updateDCC() and removeNick(): the finished transfers are deleted.       *)
Purged == {t \in dccs : ~Finished(get, t)}

(* What parseDCCSEND() may make of the size the client announces.          *)
Announced == 0..MaxSize

(* IRC::createDCCGet() and the DCCGet constructor: when connect() fails    *)
(* the file is truncated all the same.                                     *)
CreateDCCGet(t, n, p, size) ==
    /\ New(t) /\ n \in nicks
    /\ \E ok \in BOOLEAN :
        /\ get' = [get EXCEPT ![t] =
              [NoGet EXCEPT !.watched = ok, !.peer = IF ok THEN n ELSE Nobody,
                            !.to = n, !.path = p, !.size = size]]
        /\ dccs' = IF ok THEN dccs \union {t} ELSE dccs
    /\ disk' = [disk EXCEPT ![p] = [by |-> t, len |-> 0, mixed |-> FALSE]]
    /\ UNCHANGED <<nicks, handed, sent>>

(* DCC SEND to a buddy, of any name and size, to a file that is writable.  *)
process_dcc_get(t) ==
    \E b \in Buddies, p \in Paths, size \in Announced : CreateDCCGet(t, b, p, size)

(* BuddyIcon::send(): DCC SEND of an icon.                                 *)
IconSend(t) == \E size \in Announced : CreateDCCGet(t, Icon, IconPath, size)

(* The client: it may send more than it has announced, or stop before.     *)
ClientSends(t) ==
    /\ get[t].watched /\ ~get[t].closed
    /\ get[t].received + get[t].arrived < MaxSize + 1
    /\ get' = [get EXCEPT ![t].arrived = @ + 1]
    /\ UNCHANGED <<nicks, dccs, disk, handed, sent>>

ClientStops(t) ==
    /\ get[t].watched /\ ~get[t].closed
    /\ get' = [get EXCEPT ![t].closed = TRUE]
    /\ UNCHANGED <<nicks, dccs, disk, handed, sent>>
-----------------------------------------------------------------------------
(* IM::setBuddyIcon(), Account::setBuddyIcon(): every account reads the    *)
(* icon as the callback finds it on the disk; one that cannot use it only  *)
(* says so.                                                                *)
SetBuddyIcon(t) ==
    sent' \in {sent, sent \union {<<t, disk'[get[t].path]>>}}

(* callback->run(): Buddy::received_file() or BuddyIcon::receivedIcon().   *)
(* On a deleted nick anything may come of it.  libpurple may report the    *)
(* new transfer at once, and updateDCC() then purges the list.             *)
RunCallback(t) ==
    /\ \E to \in IF get[t].stale THEN Nicks \union {Nobody} ELSE {get[t].peer} :
        handed' = handed \union {<<t, to>>}
    /\ IF get[t].to = Icon THEN SetBuddyIcon(t) ELSE sent' = sent
    /\ dccs' \in {dccs, Purged}

(* Mutant: the file is handed over before fflush().                        *)
LastReadUnflushed(t, n) ==
    /\ get[t].received + n >= get[t].size
    /\ disk' = disk
    /\ RunCallback(t)
    /\ get' = [get EXCEPT ![t] = DeinitGet(Got(@, n, get[t].written))]
    /\ UNCHANGED nicks

(* DCCGet::dcc_read(): the read that completes the file.  Acknowledge,     *)
(* flush, call back, deinit().                                             *)
LastRead(t, n) ==
    /\ get[t].received + n >= get[t].size
    /\ disk' = Flushed(t, get[t].received + n)
    /\ RunCallback(t)
    /\ get' = [get EXCEPT ![t] = DeinitGet(Got(@, n, get[t].received + n))]
    /\ UNCHANGED nicks

(* DCCGet::dcc_read(): one more piece, on the disk or still in the buffer. *)
PieceRead(t, n) ==
    /\ get[t].received + n < get[t].size
    /\ \E w \in {get[t].written, get[t].received + n} :
        /\ disk' = Flushed(t, w)
        /\ get' = [get EXCEPT ![t] = Got(@, n, w)]
    /\ UNCHANGED <<nicks, dccs, handed, sent>>

dcc_read(t) ==
    /\ get[t].watched
    /\ \E n \in {1, 2} : n <= get[t].arrived /\ (LastRead(t, n) \/ PieceRead(t, n))

(* Mutant: the end of the connection is taken for EAGAIN.                  *)
ReadFailsReturns(t) == get[t].watched /\ get[t].closed /\ UNCHANGED getVars

(* DCCGet::dcc_read(): the connection is over, or the piece cannot be      *)
(* written.                                                                *)
ReadFails(t) ==
    /\ get[t].watched
    /\ get[t].arrived > 0 \/ get[t].closed
    /\ disk' \in {disk, Closed({t})}
    /\ get' = [get EXCEPT ![t] = DeinitGet(@)]
    /\ UNCHANGED <<nicks, dccs, handed, sent>>
-----------------------------------------------------------------------------
(* IRC::updateDCC(), whenever libpurple reports some transfer.             *)
updateDCC ==
    /\ dccs' = Purged
    /\ UNCHANGED <<nicks, get, disk, handed, sent>>

(* Mutant: removeNick() does not look at the transfers.                    *)
RemoveNickAlone(b) ==
    /\ b \in nicks \ {Icon}
    /\ dccs' = Purged
    /\ nicks' = nicks \ {b}
    /\ UNCHANGED <<get, disk, handed, sent>>

(* Buddy::removed_node(), IRC::removeNick(): finished transfers go, those  *)
(* of this nick are told by setPeer(NULL).  A transfer whose nick is       *)
(* deleted is told too when the allocator gave its address to this one.    *)
removeNick(b) ==
    /\ b \in nicks \ {Icon}
    /\ dccs' = Purged
    /\ \E S \in SUBSET {t \in dccs : get[t].watched /\ get[t].stale} :
        LET Told == S \union {t \in dccs : get[t].watched /\ ~get[t].stale /\ get[t].peer = b}
        IN  /\ get' = [t \in Gets |-> IF t \in Told THEN DeinitGet(get[t]) ELSE get[t]]
            /\ \E T \in SUBSET Told : disk' = Closed(T)
    /\ nicks' = nicks \ {b}
    /\ UNCHANGED <<handed, sent>>

(* Account::disconnected(), IRC::removeServer(): the nicks of the account  *)
(* are deleted and no transfer is told.                                    *)
removeServer ==
    /\ nicks \intersect Buddies # {}
    /\ nicks' = {Icon}
    /\ get' = [t \in Gets |->
                 IF get[t].watched /\ get[t].peer \in nicks \ {Icon}
                 THEN [get[t] EXCEPT !.stale = TRUE] ELSE get[t]]
    /\ UNCHANGED <<dccs, disk, handed, sent>>

(* The account connects again: its buddies are new nicks.                  *)
NicksBack ==
    /\ nicks = {Icon} /\ nicks' = Nicks
    /\ UNCHANGED <<get, dccs, disk, handed, sent>>

(* IRC::~IRC(): cleanUpNicks(), and cleanUpDCC() before the main loop runs *)
(* again.                                                                  *)
CleanUp ==
    /\ nicks # {} /\ nicks' = {}
    /\ get' = [t \in Gets |-> DeinitGet(get[t])]
    /\ dccs' = {}
    /\ \E T \in SUBSET {t \in dccs : get[t].watched} : disk' = Closed(T)
    /\ UNCHANGED <<handed, sent>>

(* libpurple opens the path a buddy's callback gave it, whenever the other *)
(* side accepts, and sends what it finds there.                            *)
PurpleReads(t) ==
    /\ get[t].to # Icon
    /\ t \in {h[1] : h \in handed} /\ t \notin {s[1] : s \in sent}
    /\ sent' = sent \union {<<t, disk[get[t].path]>>}
    /\ UNCHANGED <<nicks, get, dccs, disk, handed>>

GetNext ==
    \/ \E t \in Gets :
        \/ process_dcc_get(t) \/ IconSend(t)
        \/ ClientSends(t) \/ ClientStops(t)
        \/ dcc_read(t) \/ ReadFails(t) \/ PurpleReads(t)
    \/ updateDCC \/ removeServer \/ NicksBack \/ CleanUp
    \/ \E b \in Buddies : removeNick(b)

GetSpec == GetInit /\ [][GetNext]_getVars

(* The main loop comes back to a socket that has something to read.        *)
Fairness == \A t \in Gets : WF_getVars(dcc_read(t) \/ ReadFails(t))

GetFairSpec == GetSpec /\ Fairness
-----------------------------------------------------------------------------
(* What the main loop and IRC::dccs hold exists: the callback of a watcher *)
(* is a transfer still listed, its callback a nick still there unless the  *)
(* whole server was removed under it, and a transfer that came to its end  *)
(* has no nick to call.                                                    *)
NothingDangles ==
    \A t \in Gets :
        /\ get[t].watched => t \in dccs /\ (get[t].stale \/ get[t].peer \in nicks)
        /\ ~get[t].watched => get[t].peer = Nobody

(* Another upload has the same name.                                       *)
Shared(t) == \E u \in Gets \ {t} : get[u].path = get[t].path /\ Begun(u)

(* A file goes to the buddy it was sent to, once, and only when all that   *)
(* was announced has come; libpurple then finds all of it in the file and  *)
(* nothing else, unless another upload of the same name shares it.         *)
HandedWhole ==
    /\ \A h \in handed :
        /\ ~get[h[1]].stale => h[2] = get[h[1]].to
        /\ get[h[1]].received >= get[h[1]].size
        /\ \A k \in handed : k[1] = h[1] => k = h
    /\ \A s \in sent : ~Shared(s[1]) =>
        s[2] = [by |-> s[1], len |-> get[s[1]].received, mixed |-> FALSE]

(* A transfer comes to an end once the client has sent what it announced   *)
(* or has closed the connection.                                           *)
Ends ==
    \A t \in Gets :
        /\ get[t].watched
        /\ \/ get[t].closed
           \/ get[t].arrived > 0 /\ get[t].received + get[t].arrived >= get[t].size
        ~> ~get[t].watched
=============================================================================
