----------------------------- MODULE DaemonFork -----------------------------
(***************************************************************************)
(* The daemon-fork server poll (src/src/server_poll/daemon_fork.cpp): one  *)
(* master process listens, forks one process per client connection and     *)
(* talks to it over a Unix socket pair with a small text protocol (WALLOPS,*)
(* REHASH, DIE, OPER, USER).  Master and children run the same object of   *)
(* the same class, forked, so every process has its own copy of "childs".  *)
(*                                                                         *)
(* A step is one dispatch of the GLib main loop of one process, or one     *)
(* event of the environment (a client connects or sends a command, a       *)
(* signal, a crash).                                                       *)
(***************************************************************************)
EXTENDS Integers, Sequences, FiniteSets

CONSTANTS Master,           \* the listening process
          Conns,            \* client connections; each names the process forked for it
          Users,            \* user names, up to the case strcasecmp() ignores
          MaxCon,           \* irc/daemon/maxcon, 0 for no limit
          IpcCap,           \* messages one direction of a socket pair can hold
          Opers,            \* the connections whose user knows an irc/oper password
          Texts,            \* the texts users type: see Text
          Signals,          \* the signals somebody sends: "HUP", "TERM", "fatal"
          SocketpairFails,  \* whether socketpair() may fail
          NoUser            \* a child_t whose username is still empty

ASSUME DaemonForkAssumption ==
    /\ Master \notin Conns
    /\ IsFiniteSet(Conns)
    /\ MaxCon \in Nat
    /\ IpcCap \in Nat \ {0}
    /\ SocketpairFails \in BOOLEAN
    /\ NoUser \notin Users
    /\ Opers \subseteq Conns
    /\ Signals \subseteq {"HUP", "TERM", "fatal"}
    /\ Texts \subseteq {"plain", "empty", "long"}

Procs == {Master} \cup Conns

(***************************************************************************)
(* What the last argument of a message does to the line that carries it.   *)
(* "plain" and "relogin" (the text m_user writes) go through; "empty" is   *)
(* lost by Message::parse, so the line arrives with one argument too few;  *)
(* "long" puts the end of line beyond the 511 bytes ipc_read() peeks at.   *)
(***************************************************************************)
Text == {"plain", "empty", "long", "relogin"}

Msg == [cmd : {"USER", "OPER", "WALLOPS", "DIE", "REHASH"},
        nick : Users \cup {NoUser}, text : Text]

VARIABLES
    proc,      \* proc[p]: "none", "run", "quit" (g_main_quit() called, the current
               \* loop iteration ends), "exited"; "refused" for a rejected client
    irc,       \* irc[p]: "null", "open", "closing" (quit() called, stop timer armed)
    sock,      \* sock[c]: the child's end of the socket pair is open
    childs,    \* childs[p]: the connections p has a child_t (and a watched fd) for
    username,  \* username[p][c]: child_t::username in the memory of p
    toMaster,  \* toMaster[c]: the stream from child c
    toChild,   \* toChild[c]: the stream to child c
    user,      \* user[c]: nickname of the registered user of c
    oper,      \* oper[c]: the user of c has the OPER flag
    logins,    \* history: the connections in the order their USER was handled
    lost,      \* history: the children m_user() could not write a DIE to
    cutOff     \* history: the children forked without a socket pair

histVars == <<logins, lost, cutOff>>
vars == <<proc, irc, sock, childs, username, toMaster, toChild, user, oper, histVars>>
-----------------------------------------------------------------------------
(* A process dispatches sources until the iteration in which it called     *)
(* g_main_quit() is over.                                                  *)
InLoop(p) == proc[p] \in {"run", "quit"}

(* Somebody still holds the master's end of the socket pair of c.          *)
MasterEndOpen(c) == \E p \in Procs : c \in childs[p]

(* write() on a non-blocking stream socket: EPIPE without a peer, EAGAIN   *)
(* when it is full; either way the message is gone.                        *)
RoomFor(c) == sock[c] /\ Len(toChild[c]) < IpcCap

CanChildSend(c) == sock[c] /\ MasterEndOpen(c) /\ Len(toMaster[c]) < IpcCap

(* ipc_master_send() to each child of S.                                   *)
MasterSend(S, m) ==
    /\ toChild' = [c \in Conns |-> IF c \in S /\ RoomFor(c)
                                   THEN Append(toChild[c], m) ELSE toChild[c]]
    /\ lost' = IF m.text = "relogin" THEN lost \cup {c \in S : ~RoomFor(c)} ELSE lost

(* ipc_child_send(); the stream is left alone when the write fails.        *)
ChildSend(c, m) ==
    toMaster' = IF CanChildSend(c)
                THEN [toMaster EXCEPT ![c] = Append(@, m)] ELSE toMaster

(* irc->quit() where the process has a session, Minbif::quit() otherwise.  *)
QuitProcess(p) ==
    IF irc[p] # "null"
    THEN irc' = [irc EXCEPT ![p] = "closing"] /\ UNCHANGED proc
    ELSE proc' = [proc EXCEPT ![p] = "quit"] /\ UNCHANGED irc
-----------------------------------------------------------------------------
Init ==
    /\ proc = [p \in Procs |-> IF p = Master THEN "run" ELSE "none"]
    /\ irc = [p \in Procs |-> "null"]
    /\ sock = [c \in Conns |-> FALSE]
    /\ childs = [p \in Procs |-> {}]
    /\ username = [p \in Procs |-> [c \in Conns |-> NoUser]]
    /\ toMaster = [c \in Conns |-> <<>>]
    /\ toChild = [c \in Conns |-> <<>>]
    /\ user = [c \in Conns |-> NoUser]
    /\ oper = [c \in Conns |-> FALSE]
    /\ logins = <<>>
    /\ lost = {} /\ cutOff = {}

(* Mutant: the limit is checked with > instead of >=.                      *)
AtLimitOffByOne == MaxCon > 0 /\ Cardinality(childs[Master]) > MaxCon

(* new_client_cb(): the limit is on the child_t the master knows of.       *)
AtLimit == MaxCon > 0 /\ Cardinality(childs[Master]) >= MaxCon

Refuse(c) ==
    /\ InLoop(Master) /\ proc[c] = "none"
    /\ AtLimit
    /\ proc' = [proc EXCEPT ![c] = "refused"]
    /\ UNCHANGED <<irc, sock, childs, username, toMaster, toChild, user, oper, histVars>>

ForkFails(c) ==
    /\ InLoop(Master) /\ proc[c] = "none"
    /\ ~AtLimit
    /\ proc' = [proc EXCEPT ![c] = "refused"]
    /\ UNCHANGED <<irc, sock, childs, username, toMaster, toChild, user, oper, histVars>>

(* Mutant: the child never closes the child_t it inherits.                 *)
ForkKeepsInherited(c, pair, up) ==
    /\ InLoop(Master) /\ proc[c] = "none"
    /\ ~AtLimit
    /\ pair \/ SocketpairFails
    /\ proc' = [proc EXCEPT ![c] = IF up THEN proc[Master] ELSE "quit"]
    /\ irc' = [irc EXCEPT ![c] = IF up THEN "open" ELSE "null"]
    /\ sock' = [sock EXCEPT ![c] = pair]
    /\ childs' = [childs EXCEPT ![Master] = IF pair THEN @ \cup {c} ELSE @,
                                ![c] = childs[Master]]
    /\ username' = [username EXCEPT ![c] = username[Master]]
    /\ cutOff' = IF pair THEN cutOff ELSE cutOff \cup {c}
    /\ UNCHANGED <<toMaster, toChild, user, oper, logins, lost>>

(***************************************************************************)
(* A successful fork().  pair: socketpair() succeeded; only then does the  *)
(* master keep a child_t and does the child close the ones it inherited.   *)
(* up: the IRC object could be built; else the child leaves its main loop. *)
(* The child also inherits a main loop that was told to stop.              *)
(***************************************************************************)
Fork(c, pair, up) ==
    /\ InLoop(Master) /\ proc[c] = "none"
    /\ ~AtLimit
    /\ pair \/ SocketpairFails
    /\ proc' = [proc EXCEPT ![c] = IF up THEN proc[Master] ELSE "quit"]
    /\ irc' = [irc EXCEPT ![c] = IF up THEN "open" ELSE "null"]
    /\ sock' = [sock EXCEPT ![c] = pair]
    /\ childs' = [childs EXCEPT ![Master] = IF pair THEN @ \cup {c} ELSE @,
                                ![c] = IF pair THEN {} ELSE childs[Master]]
    /\ username' = [username EXCEPT ![c] = IF pair THEN @ ELSE username[Master]]
    /\ cutOff' = IF pair THEN cutOff ELSE cutOff \cup {c}
    /\ UNCHANGED <<toMaster, toChild, user, oper, logins, lost>>
-----------------------------------------------------------------------------
(* Commands of the user of c.  readIO() goes on with the lines it has read *)
(* after a quit(), hence "closing" does not disable them.                  *)
Session(c) == InLoop(c) /\ irc[c] # "null"

(* IRC::sendWelcome() succeeds: the process tells the master its user.     *)
Register(c, u) ==
    /\ Session(c) /\ user[c] = NoUser
    /\ user' = [user EXCEPT ![c] = u]
    /\ ChildSend(c, [cmd |-> "USER", nick |-> u, text |-> "plain"])
    /\ UNCHANGED <<proc, irc, sock, childs, username, toChild, oper, histVars>>

(* OPER with the right password.                                           *)
BecomeOper(c) ==
    /\ Session(c) /\ user[c] # NoUser /\ ~oper[c] /\ c \in Opers
    /\ oper' = [oper EXCEPT ![c] = TRUE]
    /\ ChildSend(c, [cmd |-> "OPER", nick |-> user[c], text |-> "plain"])
    /\ UNCHANGED <<proc, irc, sock, childs, username, toChild, user, histVars>>

Wallops(c, t) ==
    /\ Session(c) /\ oper[c]
    /\ ChildSend(c, [cmd |-> "WALLOPS", nick |-> user[c], text |-> t])
    /\ UNCHANGED <<proc, irc, sock, childs, username, toChild, user, oper, histVars>>

(* DIE: when the master cannot be told, only this instance dies.           *)
Die(c, t) ==
    /\ Session(c) /\ oper[c]
    /\ ChildSend(c, [cmd |-> "DIE", nick |-> user[c], text |-> t])
    /\ irc' = [irc EXCEPT ![c] = IF CanChildSend(c) THEN @ ELSE "closing"]
    /\ UNCHANGED <<proc, sock, childs, username, toChild, user, oper, histVars>>

(* QUIT, a closed or broken client connection, a ping timeout.             *)
ClientQuits(c) ==
    /\ InLoop(c) /\ irc[c] = "open"
    /\ irc' = [irc EXCEPT ![c] = "closing"]
    /\ UNCHANGED <<proc, sock, childs, username, toMaster, toChild, user, oper, histVars>>
-----------------------------------------------------------------------------
(* The handlers of a message that process p read from child c.             *)
Relayed(p, c, m) == IF m.cmd = "OPER" THEN childs[p] \ {c} ELSE childs[p]

(* OPER, WALLOPS: only passed on.                                          *)
RelayFromChild(p, c, m) ==
    /\ m.cmd \in {"OPER", "WALLOPS"}
    /\ MasterSend(Relayed(p, c, m), m)
    /\ UNCHANGED <<proc, irc, username, logins>>

(* Mutant: m_die() passes DIE on and goes on serving.                      *)
DieFromChildOnlyRelays(p, m) ==
    /\ m.cmd = "DIE"
    /\ MasterSend(childs[p], m)
    /\ UNCHANGED <<proc, irc, username, logins>>

(* DIE: passed on to every child, then this process stops too.             *)
DieFromChild(p, m) ==
    /\ m.cmd = "DIE"
    /\ MasterSend(childs[p], m)
    /\ QuitProcess(p)
    /\ UNCHANGED <<username, logins>>

(* Mutant: the comparison does not skip the child that just logged in.     *)
SameUserOrItself(p, c, u) == {d \in childs[p] : d = c \/ username[p][d] = u}

(* The other children logged in as u, in the eyes of p.                    *)
SameUser(p, c, u) == {d \in childs[p] \ {c} : username[p][d] = u}

(* Mutant: m_user() stores the wrong argument.                             *)
UserFromChildWrongArg(p, c, m) ==
    /\ m.cmd = "USER"
    /\ username' = [username EXCEPT ![p][c] = m.text]
    /\ MasterSend(SameUser(p, c, m.nick),
                  [cmd |-> "DIE", nick |-> m.nick, text |-> "relogin"])
    /\ logins' = Append(logins, c)
    /\ UNCHANGED <<proc, irc>>

(* Mutant: m_user() does not remember the name.                            *)
UserFromChildForgets(p, c, m) ==
    /\ m.cmd = "USER"
    /\ MasterSend(SameUser(p, c, m.nick),
                  [cmd |-> "DIE", nick |-> m.nick, text |-> "relogin"])
    /\ logins' = Append(logins, c)
    /\ UNCHANGED <<proc, irc, username>>

(* USER: disconnect the other instances of that user.                      *)
UserFromChild(p, c, m) ==
    /\ m.cmd = "USER"
    /\ username' = [username EXCEPT ![p][c] = m.nick]
    /\ MasterSend(SameUser(p, c, m.nick),
                  [cmd |-> "DIE", nick |-> m.nick, text |-> "relogin"])
    /\ logins' = Append(logins, c)
    /\ UNCHANGED <<proc, irc>>

(* Too few arguments: a warning, and nothing else.                         *)
DropMalformed(m) ==
    /\ m.text = "empty"
    /\ UNCHANGED <<proc, irc, username, toChild, histVars>>

(***************************************************************************)
(* ipc_read() on the fd of child c.  A line whose end is not among the     *)
(* bytes peeked at is left where it is, for good.  Any process that has a  *)
(* child_t for c watches the fd, whether it is the master or not.          *)
(***************************************************************************)
ReadChild(p, c) ==
    /\ InLoop(p) /\ c \in childs[p]
    /\ toMaster[c] # <<>> /\ Head(toMaster[c]).text # "long"
    /\ toMaster' = [toMaster EXCEPT ![c] = Tail(@)]
    /\ LET m == Head(toMaster[c])
       IN  \/ DropMalformed(m)
           \/ m.text # "empty" /\ ( \/ RelayFromChild(p, c, m)
                                    \/ DieFromChild(p, m)
                                    \/ UserFromChild(p, c, m) )
    /\ UNCHANGED <<sock, childs, user, oper, cutOff>>

(* Mutant: the loop over childs does not find the child_t to erase.        *)
ChildLeftNotErased(p, c) ==
    /\ InLoop(p) /\ c \in childs[p]
    /\ toMaster[c] = <<>> /\ ~sock[c]
    /\ username' = [username EXCEPT ![p][c] = NoUser]
    /\ UNCHANGED <<proc, irc, sock, childs, toMaster, toChild, user, oper, histVars>>

(* ipc_read() on a stream that ended: the child_t is dropped.              *)
ChildLeft(p, c) ==
    /\ InLoop(p) /\ c \in childs[p]
    /\ toMaster[c] = <<>> /\ ~sock[c]
    /\ childs' = [childs EXCEPT ![p] = @ \ {c}]
    /\ username' = [username EXCEPT ![p][c] = NoUser]
    /\ UNCHANGED <<proc, irc, sock, toMaster, toChild, user, oper, histVars>>

(***************************************************************************)
(* ipc_read() where two processes watch one fd: the other one took the     *)
(* line first, recv() says EAGAIN, which is none of the errors             *)
(* sockerr_again() knows, and the child_t is dropped as if c had left.     *)
(***************************************************************************)
LostRace(p, c) ==
    /\ InLoop(p) /\ c \in childs[p]
    /\ toMaster[c] = <<>> /\ sock[c]
    /\ \E q \in Procs \ {p} : c \in childs[q]
    /\ childs' = [childs EXCEPT ![p] = @ \ {c}]
    /\ username' = [username EXCEPT ![p][c] = NoUser]
    /\ UNCHANGED <<proc, irc, sock, toMaster, toChild, user, oper, histVars>>

(* ipc_read() in a child on the stream of its master.  OPER and WALLOPS    *)
(* end as a line on the user's screen, REHASH as a reload of the MOTD (in  *)
(* a child whose session is gone, as a broadcast to its own child_t, and a *)
(* child with a socket pair has none).                                     *)
ReadMaster(c) ==
    /\ InLoop(c) /\ sock[c]
    /\ toChild[c] # <<>> /\ Head(toChild[c]).text # "long"
    /\ LET m == Head(toChild[c])
       IN  \/ m.cmd = "DIE" /\ QuitProcess(c)
           \/ m.cmd # "DIE" /\ UNCHANGED <<proc, irc>>
    /\ toChild' = [toChild EXCEPT ![c] = Tail(@)]
    /\ UNCHANGED <<sock, childs, username, toMaster, user, oper, histVars>>

(* ipc_read() in a child: the master's end is closed everywhere.           *)
MasterLeft(c) ==
    /\ InLoop(c) /\ sock[c]
    /\ toChild[c] = <<>> /\ ~MasterEndOpen(c)
    /\ sock' = [sock EXCEPT ![c] = FALSE]
    /\ UNCHANGED <<proc, irc, childs, username, toMaster, toChild, user, oper, histVars>>
-----------------------------------------------------------------------------
(* Mutant: stopServer_cb() deletes the session and leaves the loop running.*)
StopServerKeepsLoop(c) ==
    /\ InLoop(c) /\ irc[c] = "closing"
    /\ irc' = [irc EXCEPT ![c] = "null"]
    /\ UNCHANGED <<proc, sock, childs, username, toMaster, toChild, user, oper, histVars>>

(* The timer IRC::quit() armed: the session is deleted, the loop ends.     *)
StopServer(c) ==
    /\ InLoop(c) /\ irc[c] = "closing"
    /\ irc' = [irc EXCEPT ![c] = "null"]
    /\ proc' = [proc EXCEPT ![c] = "quit"]
    /\ UNCHANGED <<sock, childs, username, toMaster, toChild, user, oper, histVars>>

(* SIGTERM: Minbif::quit() from a timer.                                   *)
SigTerm(p) ==
    /\ proc[p] = "run"
    /\ proc' = [proc EXCEPT ![p] = "quit"]
    /\ UNCHANGED <<irc, sock, childs, username, toMaster, toChild, user, oper, histVars>>

(* SIGHUP: reload the configuration (ok or not, the poll is rehashed), and *)
(* the process without a session tells its children.                       *)
SigHup(p, ok) ==
    /\ InLoop(p)
    /\ proc' = [proc EXCEPT ![p] = IF ok THEN @ ELSE "quit"]
    /\ IF irc[p] = "null"
       THEN MasterSend(childs[p], [cmd |-> "REHASH", nick |-> NoUser, text |-> "plain"])
       ELSE UNCHANGED <<toChild, lost>>
    /\ UNCHANGED <<irc, sock, childs, username, toMaster, user, oper, logins, cutOff>>

(* The process is gone: every fd it had is closed, its memory is lost.     *)
Gone(p) ==
    /\ proc' = [proc EXCEPT ![p] = "exited"]
    /\ irc' = [irc EXCEPT ![p] = "null"]
    /\ childs' = [childs EXCEPT ![p] = {}]
    /\ username' = [username EXCEPT ![p] = [c \in Conns |-> NoUser]]
    /\ sock' = [c \in Conns |-> IF c = p THEN FALSE ELSE sock[c]]
    /\ toChild' = [c \in Conns |-> IF c = p THEN <<>> ELSE toChild[c]]
    /\ UNCHANGED <<toMaster, user, oper, histVars>>

(* main() returns and ~DaemonForkServerPoll() runs.                        *)
Exit(p) == proc[p] = "quit" /\ Gone(p)

(* A fatal signal, which SigHandler::handler() raises again.               *)
Crash(p) == InLoop(p) /\ Gone(p)
-----------------------------------------------------------------------------
ClientStep(c) ==
    \/ \E u \in Users : Register(c, u)
    \/ BecomeOper(c)
    \/ \E t \in Texts : Wallops(c, t) \/ Die(c, t)
    \/ ClientQuits(c)

NewClient(c) ==
    \/ Refuse(c)
    \/ ForkFails(c)
    \/ \E pair, up \in BOOLEAN : Fork(c, pair, up)

Signal(p) ==
    \/ "TERM" \in Signals /\ SigTerm(p)
    \/ "HUP" \in Signals /\ \E ok \in BOOLEAN : SigHup(p, ok)
    \/ "fatal" \in Signals /\ Crash(p)

(* What the main loop of p does by itself.                                 *)
LoopStep(p) ==
    \/ \E c \in Conns : ReadChild(p, c)
    \/ \E c \in Conns : ChildLeft(p, c) \/ LostRace(p, c)
    \/ p \in Conns /\ ReadMaster(p)
    \/ p \in Conns /\ MasterLeft(p)
    \/ p \in Conns /\ StopServer(p)
    \/ Exit(p)

Next ==
    \/ \E c \in Conns : NewClient(c) \/ ClientStep(c)
    \/ \E p \in Procs : Signal(p) \/ LoopStep(p)

Spec == Init /\ [][Next]_vars

(***************************************************************************)
(* GLib serves every ready source of a main loop, round after round: each  *)
(* watched stream, the stop timer and the end of the loop get their turn.  *)
(***************************************************************************)
Fairness ==
    /\ \A p \in Procs : WF_vars(Exit(p))
    /\ \A p \in Procs, c \in Conns : WF_vars(ReadChild(p, c)) /\ WF_vars(ChildLeft(p, c))
    /\ \A c \in Conns : /\ WF_vars(ReadMaster(c))
                        /\ WF_vars(MasterLeft(c))
                        /\ WF_vars(StopServer(c))

FairSpec == Spec /\ Fairness
-----------------------------------------------------------------------------
(* The variables hold what the fields and streams they stand for can hold. *)
TypeOK ==
    /\ proc \in [Procs -> {"none", "run", "quit", "exited", "refused"}]
    /\ irc \in [Procs -> {"null", "open", "closing"}]
    /\ sock \in [Conns -> BOOLEAN]
    /\ childs \in [Procs -> SUBSET Conns]
    /\ username \in [Procs -> [Conns -> Users \cup {NoUser}]]
    /\ toMaster \in [Conns -> Seq(Msg)]
    /\ toChild \in [Conns -> Seq(Msg)]
    /\ user \in [Conns -> Users \cup {NoUser}]
    /\ oper \in [Conns -> BOOLEAN]
    /\ logins \in Seq(Conns)
    /\ lost \subseteq Conns /\ cutOff \subseteq Conns

(***************************************************************************)
(* new_client_cb() counts child_t, not processes: "maxcon" nevertheless    *)
(* limits the processes that serve a client, however their exits, the end  *)
(* of their streams and new connections interleave, for as long as every   *)
(* fork has had its socket pair.                                           *)
(***************************************************************************)
MaxConRespected ==
    MaxCon > 0 /\ cutOff = {} => Cardinality({c \in Conns : InLoop(c)}) <= MaxCon

(* The session of c is over or on its way out.                             *)
Leaving(c) == ~InLoop(c) \/ irc[c] # "open"

HasDie(c) == \E k \in 1..Len(toChild[c]) : toChild[c][k].cmd = "DIE"

(* Positions i < j of logins name two sessions of the same user.           *)
SameLogin(i, j) == i < j /\ user[logins[i]] = user[logins[j]]

(***************************************************************************)
(* m_user(): when a later session of the same user has been announced, the *)
(* earlier one is leaving or has a DIE on its way, unless the write to it  *)
(* failed.  The username m_user() compares must not be forgotten early, as *)
(* it may be once a child without a socket pair has read a stream.         *)
(***************************************************************************)
DuplicateLoginDoomed ==
    cutOff = {} => \A i, j \in 1..Len(logins) :
        SameLogin(i, j) => \/ Leaving(logins[i])
                           \/ HasDie(logins[i])
                           \/ logins[i] \in lost

(***************************************************************************)
(* m_user(): a session is only told "You are logged from another location."*)
(* because of a later login of its own user, so two sessions of one user   *)
(* never disconnect each other.                                            *)
(***************************************************************************)
ReloginJustified ==
    \A c \in Conns :
        (\E k \in 1..Len(toChild[c]) : toChild[c][k].text = "relogin")
            => \E i, j \in 1..Len(logins) : SameLogin(i, j) /\ logins[i] = c

(* ipc_read() peeks at 511 bytes and waits for the end of the line in them:*)
(* a longer one stays in the stream of child c, and all behind it.         *)
Blocked(c) == \E k \in 1..Len(toMaster[c]) : toMaster[c][k].text = "long"

(***************************************************************************)
(* ipc_read(), m_die(): a process that has been sent DIE ends, also when   *)
(* the master closes its end right after the broadcast.                    *)
(***************************************************************************)
DieObeyed == \A c \in Conns : HasDie(c) ~> ~InLoop(c)

(***************************************************************************)
(* m_die(), "Close server.": a DIE an operator could write to the stream   *)
(* of the master ends the master.  Excepted is a DIE without a reason,     *)
(* which has too few arguments once it is parsed again                     *)
(* (daemon_fork.cpp:395), and one too long for ipc_read() to find its end, *)
(* or behind such a line.                                                  *)
(***************************************************************************)
DieClosesServer ==
    \A c \in Conns :
        (/\ c \in childs[Master]
         /\ \E k \in 1..Len(toMaster[c]) :
                /\ toMaster[c][k].cmd = "DIE" /\ toMaster[c][k].text # "empty"
                /\ \A j \in 1..k : toMaster[c][j].text # "long")
            ~> ~InLoop(Master)

(***************************************************************************)
(* ipc_read(): a running master forgets a child that has exited, so that   *)
(* its place under "maxcon" is free again.  Excepted is a child whose      *)
(* stream is blocked by a line too long for the buffer                     *)
(* (daemon_fork.cpp:334): its end is never seen.                           *)
(***************************************************************************)
ChildReaped == \A c \in Conns : ~InLoop(c) ~> (c \notin childs[Master] \/ Blocked(c))

(***************************************************************************)
(* ipc_read(): once the master is gone its children find out and close     *)
(* their end, so that a later DIE stops at least their own session.        *)
(***************************************************************************)
MasterMissed ==
    \A c \in Conns : proc[Master] = "exited" ~> ~sock[c]
=============================================================================
