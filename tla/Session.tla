------------------------------ MODULE Session ------------------------------
(***************************************************************************)
(* One client connection of minbif: src/src/irc/irc.cpp and cmds.cpp with  *)
(* the socket wrapper (sockwrap_plain.cpp), the authentication mechanisms  *)
(* (im/auth*.cpp) and the single libpurple instance (im/im.cpp, purple.cpp)*)
(* behind it.  It covers the registration of the user, the loop over the   *)
(* lines of a read, the ping timer, and the way the session ends.          *)
(*                                                                         *)
(* readIO() is one callback: nothing else runs before it has gone through  *)
(* all the lines it has read, so every other action waits for buf = <<>>.  *)
(***************************************************************************)
EXTENDS Integers, Sequences

CONSTANTS Names,       \* nicknames, which are account names too
          NoName,      \* no valid name; "*", the nickname at first
          Passwords,   \* passwords m_pass() accepts
          NoPass,      \* no PASS yet, or an account without a password
          NoDir,       \* no directory, hence no account, of that name
          MechSets,    \* the mechanisms an aaa section may enable together
          PamUsers,    \* the pairs of name and password PAM accepts
          CertName,    \* GetClientUsername(): a name, or NoName
          GlobalPass,  \* irc/password: a password, or NoPass for none
          PingFreq,    \* irc/ping, in seconds
          MaxLines     \* lines one read may return

ASSUME SessionAssumption ==
    /\ NoName \notin Names /\ CertName \in Names \cup {NoName}
    /\ NoPass \notin Passwords /\ NoDir \notin Passwords \cup {NoPass}
    /\ MechSets \subseteq SUBSET {"connection", "pam", "local"}
    /\ PamUsers \subseteq Names \X (Passwords \cup {NoPass})
    /\ GlobalPass \in Passwords \cup {NoPass}
    /\ PingFreq \in Nat \ {0}
    /\ MaxLines \in Nat \ {0}

Line == [cmd : {"PASS"}, arg : Passwords \cup {NoPass}]     \* NoPass: refused
   \cup [cmd : {"NICK"}, arg : Names \cup {NoName}]         \* NoName: invalid
   \cup [cmd : {"USER", "QUIT", "PONG", "other"}, arg : {NoName}]

VARIABLES
    mechs,     \* the mechanisms the aaa section enables
    conn,      \* the client's end: "up", or "reset"
    talks,     \* whether the client will ever send a line again
    buf,       \* the lines the running readIO() has not handled yet
    sockw,     \* IRC::sockw has not been deleted
    stop,      \* a stopServer_cb timer is armed
    irc,       \* the IRC object: "alive", "deleted"; "aborted" with the process
    nick, ident, pass,  \* what the user said; nick is NoName for "*"
    reg, ping,          \* the flags REGISTERED and PING
    purple,    \* Purple::im is set: libpurple has been initialised
    im,        \* IRC::im, by the name of its account, or NoName
    accounts,  \* the directory of users, with the password each one holds
    due,       \* seconds since the ping timer fired
    idle,      \* seconds since last_read, up to PingFreq; -1 for a last_read
               \* in the future, which only an uninitialised one can be
    announced, \* history: the names sent to the master with USER
    owed,      \* history: seconds a PING has been without PONG, -1 for none
    timedOut   \* history: ping() closed the session

userVars == <<nick, ident, pass, reg>>
timeVars == <<due, idle, owed>>
authVars == <<purple, im, accounts, announced>>
vars == <<mechs, conn, talks, buf, sockw, stop, irc, userVars, ping, authVars, timeVars, timedOut>>

Never == -1
-----------------------------------------------------------------------------
(* User::last_read is not initialised.                                     *)
Init ==
    /\ mechs \in MechSets
    /\ conn = "up" /\ talks = TRUE /\ buf = <<>>
    /\ sockw = TRUE /\ stop = FALSE /\ irc = "alive"
    /\ nick = NoName /\ ident = FALSE /\ pass = NoPass
    /\ reg = FALSE /\ ping = FALSE
    /\ purple = FALSE /\ im = NoName
    /\ accounts \in [Names -> Passwords \cup {NoPass, NoDir}]
    /\ due = 0 /\ idle \in {Never} \cup 0..PingFreq
    /\ announced = <<>> /\ owed = Never /\ timedOut = FALSE

(* User::send() with a client that is gone: write() may fail, Write()      *)
(* throws SockError.  After quit() it writes nothing.                      *)
MayFail == sockw /\ conn = "reset"

(* Mutant: quit() without poll->kill().                                    *)
QuitForgetsKill == sockw' = FALSE /\ UNCHANGED stop

(* IRC::quit()                                                             *)
Quit == sockw' = FALSE /\ stop' = TRUE

Stays == UNCHANGED <<sockw, stop>>

(***************************************************************************)
(* The end of a line of readIO().  A SockError leaves the loop with the    *)
(* other lines unread; its handler quits, and does not fail again, as      *)
(* Write() has cleared sock_ok.  quits: the command called quit() itself.  *)
(***************************************************************************)
EndLine(sends, quits) ==
    \/ /\ sends /\ MayFail
       /\ Quit /\ buf' = <<>>
    \/ /\ IF quits THEN Quit ELSE Stays
       /\ buf' = Tail(buf)

(* readIO() dispatches the line at the head of buf; user->setLastReadNow() *)
(* comes before the command.                                               *)
Handling(cmd) ==
    /\ irc = "alive" /\ buf # <<>> /\ Head(buf).cmd = cmd
    /\ idle' = 0
    /\ UNCHANGED <<mechs, conn, talks, due, timedOut>>

Arg == Head(buf).arg
-----------------------------------------------------------------------------
HasDir(n) == accounts[n] # NoDir

(* AuthConnection: the certificate of the client names a known user.       *)
ConnectionKnows(n) == HasDir(n) /\ CertName = n

(* AuthPAM::checkPassword()                                                *)
PamKnows(n, p) == <<n, p>> \in PamUsers

(* AuthLocal::create() does not make an account without a password.        *)
LocalCreates(p) == "local" \in mechs /\ p # NoPass

(***************************************************************************)
(* Auth::validate(): connection, PAM, local, in that order.  A mechanism   *)
(* that accepts creates the IM, and local creates it before it compares    *)
(* passwords.  "throws" is an IMError, "crash" the use of a deleted sockw, *)
(* "twice" an IM in a process that has its libpurple already.              *)
(***************************************************************************)
Validate(n, p) ==
    LET certified == "connection" \in mechs /\ ConnectionKnows(n)
        byPam == "pam" \in mechs /\ PamKnows(n, p)
        tries == certified \/ byPam \/ ("local" \in mechs /\ HasDir(n))
    IN  IF mechs = {} THEN "throws"
        ELSE IF "connection" \in mechs /\ HasDir(n) /\ ~sockw THEN "crash"
        ELSE IF ~tries THEN "unknown"
        ELSE IF purple THEN "twice"
        ELSE IF certified \/ byPam \/ accounts[n] = p THEN "valid" ELSE "mismatch"

(***************************************************************************)
(* Auth::generate() for a name without a directory.  exists() is always    *)
(* true for connection and PAM, so Auth::create() only works for local;    *)
(* the other two throw when they do not know the user, before local is     *)
(* tried.                                                                  *)
(***************************************************************************)
Generate(n, p) ==
    IF "connection" \in mechs /\ ~sockw THEN "crash"
    ELSE IF \/ "connection" \in mechs /\ CertName # n
            \/ "pam" \in mechs /\ ~PamKnows(n, p)
            \/ ~LocalCreates(p)
    THEN "throws"
    ELSE IF purple THEN "twice" ELSE "created"

(* irc/password is asked of who has no account yet.                        *)
GlobalRefuses(p) == GlobalPass # NoPass /\ p # GlobalPass

(* Mutant: sendWelcome() goes on after "Incorrect credentials".            *)
VerdictNoReturn(n, p) ==
    LET v == Validate(n, p)
    IN  IF v \notin {"unknown", "mismatch"} THEN v
        ELSE IF HasDir(n) THEN "valid"
        ELSE IF GlobalRefuses(p) THEN "refused" ELSE Generate(n, p)

(* What sendWelcome() comes to, given what the user has said so far.       *)
Verdict(n, p) ==
    LET v == Validate(n, p)
    IN  IF v \notin {"unknown", "mismatch"} THEN v
        ELSE IF HasDir(n) \/ GlobalRefuses(p) THEN "refused" ELSE Generate(n, p)

(* The user is in: REGISTERED, the master is told, then the replies.       *)
Welcome(n, p) ==
    /\ reg' = TRUE /\ im' = n /\ purple' = TRUE
    /\ announced' = Append(announced, n)
    /\ accounts' = [accounts EXCEPT ![n] =
                      IF Verdict(n, p) = "created" THEN p
                      ELSE IF @ = NoDir THEN NoPass ELSE @]
    /\ EndLine(TRUE, FALSE)
    /\ UNCHANGED irc

(* "Incorrect credentials", the global password, or an IMError.  A local   *)
(* account with another password has left libpurple initialised.           *)
Reject(n, p) ==
    /\ purple' = (purple \/ Validate(n, p) = "mismatch")
    /\ EndLine(TRUE, TRUE)
    /\ UNCHANGED <<irc, reg, im, announced, accounts>>

(* IM::IM() cannot create the directory, or cannot start libpurple after   *)
(* it has created it: an IMError, and the directory stays.                 *)
InitFails(n, p) ==
    /\ \/ accounts[n] = NoDir /\ UNCHANGED <<purple, accounts>>
       \/ /\ purple' = TRUE
          /\ accounts' = [accounts EXCEPT ![n] = IF @ = NoDir THEN NoPass ELSE @]
    /\ EndLine(TRUE, TRUE)
    /\ UNCHANGED <<irc, reg, im, announced>>

Segfault ==
    /\ irc' = "aborted" /\ buf' = <<>>
    /\ UNCHANGED <<sockw, stop, reg, authVars>>

SendWelcome(n, id, p) ==
    IF reg \/ n = NoName \/ ~id
    THEN EndLine(FALSE, FALSE) /\ UNCHANGED <<irc, reg, authVars>>
    ELSE \/ Verdict(n, p) \in {"valid", "created"} /\ Welcome(n, p)
         \/ Verdict(n, p) \in {"valid", "created", "twice"} /\ InitFails(n, p)
         \/ Verdict(n, p) \in {"throws", "refused"} /\ Reject(n, p)
         \/ Verdict(n, p) = "crash" /\ Segfault
-----------------------------------------------------------------------------
(* m_pass(): too short, or with a space: quit.                             *)
Pass ==
    /\ Handling("PASS")
    /\ pass' = IF reg \/ Arg = NoPass THEN pass ELSE Arg
    /\ EndLine(reg \/ Arg = NoPass, ~reg /\ Arg = NoPass)
    /\ UNCHANGED <<irc, nick, ident, reg, ping, authVars, owed>>

(* Mutant: m_nick() lets a registered user change its nickname.            *)
NickAnyTime ==
    /\ Handling("NICK")
    /\ IF Arg = NoName
       THEN /\ EndLine(TRUE, FALSE)
            /\ UNCHANGED <<irc, nick, reg, authVars>>
       ELSE /\ nick' = Arg
            /\ SendWelcome(Arg, ident, pass)
    /\ UNCHANGED <<ident, pass, ping, owed>>

(* m_nick(): renameNick(), then sendWelcome().                             *)
Nick ==
    /\ Handling("NICK")
    /\ IF reg \/ Arg = NoName
       THEN /\ EndLine(TRUE, FALSE)
            /\ UNCHANGED <<irc, nick, reg, authVars>>
       ELSE /\ nick' = Arg
            /\ SendWelcome(Arg, ident, pass)
    /\ UNCHANGED <<ident, pass, ping, owed>>

(* m_user()                                                                *)
User ==
    /\ Handling("USER")
    /\ ident' = TRUE
    /\ IF reg
       THEN EndLine(TRUE, FALSE) /\ UNCHANGED <<irc, reg, authVars>>
       ELSE SendWelcome(nick, TRUE, pass)
    /\ UNCHANGED <<nick, pass, ping, owed>>

(* m_quit()                                                                *)
QuitCmd ==
    /\ Handling("QUIT")
    /\ EndLine(TRUE, TRUE)
    /\ UNCHANGED <<irc, userVars, ping, authVars, owed>>

(* Mutant: m_pong() leaves the flag PING set.                              *)
PongKeepsFlag ==
    /\ Handling("PONG")
    /\ owed' = IF reg THEN Never ELSE owed
    /\ EndLine(~reg, FALSE)
    /\ UNCHANGED <<irc, userVars, ping, authVars>>

(* m_pong(); "Register first" without REGISTERED.                          *)
Pong ==
    /\ Handling("PONG")
    /\ ping' = (ping /\ ~reg)
    /\ owed' = IF reg THEN Never ELSE owed
    /\ EndLine(~reg, FALSE)
    /\ UNCHANGED <<irc, userVars, authVars>>

(* Any other command: an answer, or an error.                              *)
OtherCmd ==
    /\ Handling("other")
    /\ EndLine(TRUE, FALSE)
    /\ UNCHANGED <<irc, userVars, ping, authVars, owed>>
-----------------------------------------------------------------------------
(* The main loop may dispatch something for this session.                  *)
Dispatch == irc = "alive" /\ buf = <<>>

(* readIO(): Read() returns some lines.                                    *)
ReadIO ==
    /\ Dispatch /\ sockw /\ conn = "up" /\ talks
    /\ \E n \in 1..MaxLines : buf' \in [1..n -> Line]
    /\ UNCHANGED <<mechs, conn, talks, sockw, stop, irc, userVars, ping, authVars, timeVars, timedOut>>

(* readIO(): Read() throws SockError.  The ERROR line that quit() sends    *)
(* from the handler may throw again, and nobody catches that one.          *)
ReadError ==
    /\ Dispatch /\ sockw /\ conn = "reset"
    /\ \/ Quit /\ UNCHANGED irc
       \/ irc' = "aborted" /\ Stays
    /\ UNCHANGED <<mechs, conn, talks, buf, userVars, ping, authVars, timeVars, timedOut>>

(* A callback of libpurple writes to the user; a SockError ends the process*)
PurpleEvent ==
    /\ Dispatch /\ reg /\ MayFail
    /\ irc' = "aborted"
    /\ UNCHANGED <<mechs, conn, talks, buf, sockw, stop, userVars, ping, authVars, timeVars, timedOut>>

(* Mutant: ping() never gives up on a user that has not registered.        *)
PingTimerSparesUnregistered ==
    /\ Dispatch /\ due = PingFreq /\ ~timedOut
    /\ due' = 0
    /\ IF idle < PingFreq \/ ~reg
       THEN UNCHANGED <<sockw, stop, irc, ping, owed, timedOut>>
       ELSE \/ /\ MayFail /\ irc' = "aborted"
               /\ UNCHANGED <<sockw, stop, ping, owed, timedOut>>
            \/ /\ ping
               /\ Quit /\ timedOut' = TRUE
               /\ UNCHANGED <<irc, ping, owed>>
            \/ /\ ~ping
               /\ ping' = TRUE /\ owed' = 0
               /\ UNCHANGED <<sockw, stop, irc, timedOut>>
    /\ UNCHANGED <<mechs, conn, talks, buf, userVars, authVars, idle>>

(***************************************************************************)
(* ping().  The flag PING of the last time, or no REGISTERED: the session  *)
(* is closed, and the timer with it.  Both branches write to the client.   *)
(***************************************************************************)
PingTimer ==
    /\ Dispatch /\ due = PingFreq /\ ~timedOut
    /\ due' = 0
    /\ IF idle < PingFreq
       THEN UNCHANGED <<sockw, stop, irc, ping, owed, timedOut>>
       ELSE \/ /\ MayFail /\ irc' = "aborted"
               /\ UNCHANGED <<sockw, stop, ping, owed, timedOut>>
            \/ /\ ~reg \/ ping
               /\ Quit /\ timedOut' = TRUE
               /\ UNCHANGED <<irc, ping, owed>>
            \/ /\ reg /\ ~ping
               /\ ping' = TRUE /\ owed' = 0
               /\ UNCHANGED <<sockw, stop, irc, timedOut>>
    /\ UNCHANGED <<mechs, conn, talks, buf, userVars, authVars, idle>>

(* stopServer_cb(): delete irc, and with it im.                            *)
StopServer ==
    /\ Dispatch /\ stop
    /\ irc' = "deleted" /\ sockw' = FALSE
    /\ UNCHANGED <<mechs, conn, talks, buf, stop, userVars, ping, authVars, timeVars, timedOut>>

(* A second passes; a timer that is due is served first.                   *)
Tick ==
    /\ Dispatch /\ due < PingFreq
    /\ due' = due + 1
    /\ idle' = IF idle = Never \/ idle = PingFreq THEN idle ELSE idle + 1
    /\ owed' = IF owed = Never \/ owed = PingFreq THEN owed ELSE owed + 1
    /\ UNCHANGED <<mechs, conn, talks, buf, sockw, stop, irc, userVars, ping, authVars, timedOut>>

(* The client goes: its end is closed, or it says nothing any more.        *)
ClientGone ==
    /\ Dispatch /\ conn = "up"
    /\ \/ conn' = "reset" /\ UNCHANGED talks
       \/ talks' = FALSE /\ UNCHANGED conn
    /\ UNCHANGED <<mechs, buf, sockw, stop, irc, userVars, ping, authVars, timeVars, timedOut>>
-----------------------------------------------------------------------------
HandleLine == Pass \/ Nick \/ User \/ QuitCmd \/ Pong \/ OtherCmd

Next ==
    \/ HandleLine
    \/ ReadIO \/ ReadError \/ PurpleEvent
    \/ PingTimer \/ StopServer \/ Tick
    \/ ClientGone

Spec == Init /\ [][Next]_vars

(* The loop over the lines ends, GLib dispatches what is due, time passes. *)
FairSpec ==
    /\ Spec
    /\ WF_vars(HandleLine) /\ WF_vars(ReadError)
    /\ WF_vars(PingTimer) /\ WF_vars(StopServer) /\ WF_vars(Tick)
-----------------------------------------------------------------------------
(* The variables hold what the fields they stand for can hold.             *)
TypeOK ==
    /\ mechs \in MechSets
    /\ conn \in {"up", "reset"} /\ talks \in BOOLEAN
    /\ buf \in Seq(Line)
    /\ sockw \in BOOLEAN /\ stop \in BOOLEAN
    /\ irc \in {"alive", "deleted", "aborted"}
    /\ nick \in Names \cup {NoName} /\ ident \in BOOLEAN
    /\ pass \in Passwords \cup {NoPass}
    /\ reg \in BOOLEAN /\ ping \in BOOLEAN
    /\ purple \in BOOLEAN /\ im \in Names \cup {NoName}
    /\ accounts \in [Names -> Passwords \cup {NoPass, NoDir}]
    /\ due \in 0..PingFreq
    /\ idle \in {Never} \cup 0..PingFreq /\ owed \in {Never} \cup 0..PingFreq
    /\ announced \in Seq(Names) /\ timedOut \in BOOLEAN

(***************************************************************************)
(* sendWelcome(), m_nick(): the master is told one name, once, and it is   *)
(* the one of the account the session runs and of its nickname ever after; *)
(* commands that need REGISTERED find libpurple running.                   *)
(***************************************************************************)
AnnouncedIsAccount ==
    IF reg THEN announced = <<nick>> /\ im = nick /\ purple
    ELSE announced = <<>> /\ im = NoName

(***************************************************************************)
(* sendWelcome(), Auth::validate(), Auth::generate(): who gets in has      *)
(* given the password that his account holds from then on, or one PAM      *)
(* accepts, or has shown a certificate of that name; and on a server with  *)
(* a global password no account comes to be without it, except those of    *)
(* the users PAM knows.                                                    *)
(***************************************************************************)
CredentialsFit ==
    [][/\ ~reg /\ reg' => \/ accounts'[nick'] = pass'
                          \/ "pam" \in mechs /\ <<nick', pass'>> \in PamUsers
                          \/ "connection" \in mechs /\ CertName = nick'
       /\ \A n \in Names : accounts[n] = NoDir /\ accounts'[n] # NoDir =>
             \/ GlobalPass = NoPass \/ pass' = GlobalPass
             \/ "pam" \in mechs /\ <<n, pass'>> \in PamUsers]_vars

(***************************************************************************)
(* ping(), m_pong(): a registered user is only timed out when it has left  *)
(* a PING unanswered for a whole period.                                   *)
(***************************************************************************)
TimeoutDeserved == timedOut /\ reg => owed = PingFreq

(***************************************************************************)
(* quit(), stopServer_cb(): a session whose socket was closed is deleted,  *)
(* or the process has died before.                                         *)
(***************************************************************************)
QuitEnds == ~sockw ~> irc # "alive"

(***************************************************************************)
(* ping(): a client that has stopped talking does not keep its session,    *)
(* provided last_read was set or is a time in the past.                    *)
(***************************************************************************)
SilentDropped == ~talks /\ idle # Never ~> irc # "alive"
=============================================================================
