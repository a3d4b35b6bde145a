--------------------------- MODULE Session_proofs ---------------------------
(***************************************************************************)
(* What Session guarantees for any names, passwords, mechanisms, PAM users,*)
(* period of the ping and number of lines in a read.                       *)
(***************************************************************************)
EXTENDS Session, SequenceTheorems, TLAPS

USE SessionAssumption DEF Never

(* The flag PING is only set on a registered user, who owes a PONG for at  *)
(* least as long as the ping timer has been running.                       *)
Pinged == ping => reg /\ owed # Never /\ owed >= due

(* After a timeout the socket is closed and no line will be handled.       *)
Cut == timedOut => ~sockw /\ buf = <<>> /\ (reg => owed = PingFreq)

SessionInv == TypeOK /\ AnnouncedIsAccount /\ Pinged /\ Cut

(* What the end of a line does to the socket and the lines left.           *)
LEMMA EndLineType ==
    ASSUME TypeOK, buf # <<>>, NEW sends, NEW quits, EndLine(sends, quits)
    PROVE  buf' \in Seq(Line) /\ sockw' \in BOOLEAN /\ stop' \in BOOLEAN
<1>1. buf' = <<>> \/ buf' = Tail(buf)
  BY DEF EndLine
<1>2. buf' \in Seq(Line)
  <2> DEFINE L == Line
  <2>1. buf \in Seq(L) BY DEF TypeOK
  <2> HIDE DEF L
  <2>2. <<>> \in Seq(L) OBVIOUS
  <2>3. Tail(buf) \in Seq(L) BY <2>1, HeadTailProperties
  <2>4. buf' \in Seq(L) BY <1>1, <2>2, <2>3
  <2> QED BY <2>4 DEF L
<1>3. sockw' \in BOOLEAN /\ stop' \in BOOLEAN
  BY DEF EndLine, Quit, Stays, TypeOK
<1> QED BY <1>2, <1>3

(* A verdict that lets the user in.                                        *)
Accepted(n, p) == n \in Names /\ Verdict(n, p) \in {"valid", "created"}

(* A verdict on the way to which IM::IM() is called.                       *)
Tried(n, p) == n \in Names /\ Verdict(n, p) \in {"valid", "created", "twice"}

(* The user gets in, once, with an account of the name he gave.            *)
GetsIn(n, p) ==
    /\ ~reg /\ Accepted(n, p)
    /\ reg' = TRUE /\ im' = n /\ purple' = TRUE /\ announced' = Append(announced, n)
    /\ accounts' = [accounts EXCEPT ![n] =
                      IF Verdict(n, p) = "created" THEN p
                      ELSE IF accounts[n] = NoDir THEN NoPass ELSE accounts[n]]

(* He does not, and at most libpurple is left running and a directory made.*)
StaysOut(n, p) ==
    /\ UNCHANGED <<reg, im, announced>>
    /\ purple' \in BOOLEAN /\ (purple => purple')
    /\ \/ UNCHANGED accounts
       \/ /\ Tried(n, p)
          /\ accounts' = [accounts EXCEPT ![n] =
                            IF accounts[n] = NoDir THEN NoPass ELSE accounts[n]]

(* sendWelcome() lets the user in or keeps him out.                        *)
LEMMA SendWelcomeEffect ==
    ASSUME TypeOK, buf # <<>>, irc = "alive", NEW n \in Names \cup {NoName},
           NEW id \in BOOLEAN, NEW p \in Passwords \cup {NoPass}, SendWelcome(n, id, p)
    PROVE  /\ GetsIn(n, p) \/ StaysOut(n, p)
           /\ buf' \in Seq(Line) /\ sockw' \in BOOLEAN /\ stop' \in BOOLEAN
           /\ irc' \in {"alive", "deleted", "aborted"}
<1>1. CASE reg \/ n = NoName \/ ~id
  <2>1. EndLine(FALSE, FALSE) /\ UNCHANGED <<irc, reg, authVars>>
    BY <1>1 DEF SendWelcome
  <2> QED BY <2>1, EndLineType DEF StaysOut, authVars, TypeOK
<1>2. CASE ~(reg \/ n = NoName \/ ~id)
  <2>1. n \in Names /\ ~reg BY <1>2
  <2>2. CASE Verdict(n, p) \in {"valid", "created"} /\ Welcome(n, p)
    <3>1. GetsIn(n, p)
      BY <2>1, <2>2 DEF Welcome, GetsIn, Accepted
    <3>2. EndLine(TRUE, FALSE) /\ UNCHANGED irc BY <2>2 DEF Welcome
    <3> QED BY <3>1, <3>2, EndLineType
  <2>3. CASE Verdict(n, p) \in {"valid", "created", "twice"} /\ InitFails(n, p)
    <3>1. StaysOut(n, p)
      <4>1. UNCHANGED <<reg, im, announced>> BY <2>3 DEF InitFails
      <4>2. CASE UNCHANGED <<purple, accounts>>
        BY <4>1, <4>2 DEF StaysOut, TypeOK
      <4>3. CASE /\ purple' = TRUE
                 /\ accounts' = [accounts EXCEPT ![n] = IF accounts[n] = NoDir
                                                       THEN NoPass ELSE accounts[n]]
        BY <2>1, <2>3, <4>1, <4>3 DEF StaysOut, Tried
      <4> QED BY <2>3, <4>2, <4>3 DEF InitFails
    <3>2. EndLine(TRUE, TRUE) /\ UNCHANGED irc BY <2>3 DEF InitFails
    <3> QED BY <3>1, <3>2, EndLineType
  <2>4. CASE Reject(n, p)
    <3>1. StaysOut(n, p)
      BY <2>4 DEF Reject, StaysOut, TypeOK
    <3>2. EndLine(TRUE, TRUE) /\ UNCHANGED irc BY <2>4 DEF Reject
    <3> QED BY <3>1, <3>2, EndLineType
  <2>5. CASE Segfault
    BY <2>5 DEF Segfault, StaysOut, authVars, TypeOK
  <2> QED BY <1>2, <2>2, <2>3, <2>4, <2>5 DEF SendWelcome
<1> QED BY <1>1, <1>2

(* Who gets in is known, with one account of that name.                    *)
LEMMA AccountsType ==
    ASSUME TypeOK, NEW n \in Names \cup {NoName}, NEW p \in Passwords \cup {NoPass},
           GetsIn(n, p) \/ StaysOut(n, p)
    PROVE  /\ accounts' \in [Names -> Passwords \cup {NoPass, NoDir}]
           /\ reg' \in BOOLEAN /\ purple' \in BOOLEAN /\ im' \in Names \cup {NoName}
           /\ announced' \in Seq(Names)
<1>1. accounts \in [Names -> Passwords \cup {NoPass, NoDir}] /\ announced \in Seq(Names)
  BY DEF TypeOK
<1>2. accounts' \in [Names -> Passwords \cup {NoPass, NoDir}]
  <2>1. ASSUME NEW v \in Passwords \cup {NoPass, NoDir}, n \in Names,
               accounts' = [accounts EXCEPT ![n] = v]
        PROVE  accounts' \in [Names -> Passwords \cup {NoPass, NoDir}]
    BY <1>1, <2>1
  <2>2. n \in Names => accounts[n] \in Passwords \cup {NoPass, NoDir} BY <1>1
  <2> QED BY <1>1, <2>1, <2>2 DEF GetsIn, StaysOut, Accepted, Tried
<1>3. CASE GetsIn(n, p)
  BY <1>1, <1>2, <1>3 DEF GetsIn, Accepted
<1>4. CASE StaysOut(n, p)
  BY <1>2, <1>4 DEF StaysOut, TypeOK
<1> QED BY <1>3, <1>4

(* What a line about the user's identity does, when its handler calls      *)
(* sendWelcome() or answers an error: nobody gets in twice.                *)
LEMMA WelcomeKeeps ==
    ASSUME SessionInv, buf # <<>>, irc = "alive", NEW n \in Names \cup {NoName},
           NEW p \in Passwords \cup {NoPass}, GetsIn(n, p) \/ StaysOut(n, p),
           nick' = n, reg => n = nick
    PROVE  AnnouncedIsAccount'
<1>1. CASE GetsIn(n, p)
  <2>1. announced = <<>> BY <1>1 DEF SessionInv, AnnouncedIsAccount, GetsIn
  <2>2. announced' = <<n>> BY <1>1, <2>1 DEF GetsIn
  <2> QED BY <1>1, <2>2 DEF GetsIn, AnnouncedIsAccount
<1>2. CASE StaysOut(n, p)
  BY <1>2 DEF StaysOut, SessionInv, TypeOK, AnnouncedIsAccount
<1> QED BY <1>1, <1>2

(* The first line of the read, and the part of the state its dispatch sets.*)
LEMMA ArgType ==
    ASSUME TypeOK, NEW cmd, Handling(cmd)
    PROVE  /\ cmd = "PASS" => Arg \in Passwords \cup {NoPass}
           /\ cmd = "NICK" => Arg \in Names \cup {NoName}
<1> DEFINE L == Line
<1>1. buf \in Seq(L) /\ buf # <<>> /\ Head(buf).cmd = cmd BY DEF TypeOK, Handling
<1>2. Head(buf) \in L
  <2> HIDE DEF L
  <2> QED BY <1>1, HeadTailProperties
<1>3. ASSUME NEW l \in Line
      PROVE  /\ l.cmd = "PASS" => l.arg \in Passwords \cup {NoPass}
             /\ l.cmd = "NICK" => l.arg \in Names \cup {NoName}
  <2>1. CASE l \in [cmd : {"PASS"}, arg : Passwords \cup {NoPass}]
    BY <2>1
  <2>2. CASE l \in [cmd : {"NICK"}, arg : Names \cup {NoName}]
    BY <2>2
  <2>3. CASE l \in [cmd : {"USER", "QUIT", "PONG", "other"}, arg : {NoName}]
    BY <2>3
  <2> QED BY <1>3, <2>1, <2>2, <2>3 DEF Line
<1> QED BY <1>1, <1>2, <1>3 DEF Arg

(* The part of the state that a command other than NICK, USER and PONG     *)
(* leaves alone.                                                           *)
LEMMA LineKeeps ==
    ASSUME SessionInv, NEW cmd, Handling(cmd), NEW sends, NEW quits, EndLine(sends, quits),
           pass' \in Passwords \cup {NoPass}, ident' \in BOOLEAN,
           UNCHANGED <<irc, nick, reg, authVars>>,
           /\ ping' \in BOOLEAN /\ (ping' => ping)
           /\ owed' = owed \/ (~ping' /\ owed' = Never)
    PROVE  SessionInv'
<1>1. TypeOK /\ buf # <<>> BY DEF SessionInv, Handling
<1>2. ~timedOut BY <1>1 DEF SessionInv, Cut
<1>3. buf' \in Seq(Line) /\ sockw' \in BOOLEAN /\ stop' \in BOOLEAN
  BY <1>1, EndLineType
<1>4. TypeOK'
  BY <1>1, <1>3 DEF TypeOK, Handling, authVars
<1>5. AnnouncedIsAccount'
  BY DEF SessionInv, AnnouncedIsAccount, authVars
<1>6. Pinged'
  BY DEF SessionInv, Pinged, Handling
<1>7. Cut'
  BY <1>2 DEF Cut, Handling
<1> QED BY <1>4, <1>5, <1>6, <1>7 DEF SessionInv

(* A line on which sendWelcome() is called for a user not yet registered.  *)
LEMMA WelcomeLine ==
    ASSUME SessionInv, NEW cmd, Handling(cmd), NEW n \in Names \cup {NoName},
           NEW id \in BOOLEAN, SendWelcome(n, id, pass), nick' = n, ~reg,
           ident' \in BOOLEAN, UNCHANGED <<pass, ping, owed>>
    PROVE  SessionInv'
<1>1. TypeOK /\ buf # <<>> /\ irc = "alive" BY DEF SessionInv, Handling
<1>2. pass \in Passwords \cup {NoPass} BY <1>1 DEF TypeOK
<1>3. ~timedOut BY <1>1 DEF SessionInv, Cut
<1>4. /\ GetsIn(n, pass) \/ StaysOut(n, pass)
      /\ buf' \in Seq(Line) /\ sockw' \in BOOLEAN /\ stop' \in BOOLEAN
      /\ irc' \in {"alive", "deleted", "aborted"}
  BY <1>1, <1>2, SendWelcomeEffect
<1>5. /\ accounts' \in [Names -> Passwords \cup {NoPass, NoDir}]
      /\ reg' \in BOOLEAN /\ purple' \in BOOLEAN /\ im' \in Names \cup {NoName}
      /\ announced' \in Seq(Names)
  BY <1>1, <1>2, <1>4, AccountsType
<1>6. TypeOK'
  BY <1>1, <1>4, <1>5 DEF TypeOK, Handling
<1>7. AnnouncedIsAccount'
  BY <1>1, <1>2, <1>4, WelcomeKeeps
<1>8. Pinged'
  BY DEF SessionInv, Pinged
<1>9. Cut'
  BY <1>3 DEF Cut, Handling
<1> QED BY <1>6, <1>7, <1>8, <1>9 DEF SessionInv

(* SessionInv is inductive.                                                *)
LEMMA SessionStep ==
    ASSUME SessionInv, [Next]_vars
    PROVE  SessionInv'
<1>0. TypeOK BY DEF SessionInv
<1>1. CASE Pass
  <2>1. Handling("PASS") BY <1>1 DEF Pass
  <2>2. pass' \in Passwords \cup {NoPass}
    BY <1>0, <1>1, <2>1, ArgType DEF Pass, TypeOK
  <2> QED BY <1>0, <1>1, <2>1, <2>2, LineKeeps DEF Pass, TypeOK
<1>2. CASE Nick
  <2>1. Handling("NICK") BY <1>2 DEF Nick
  <2>2. CASE reg \/ Arg = NoName
    BY <1>0, <1>2, <2>1, <2>2, LineKeeps DEF Nick, TypeOK
  <2>3. CASE ~(reg \/ Arg = NoName)
    BY <1>0, <1>2, <2>1, <2>3, ArgType, WelcomeLine DEF Nick, TypeOK
  <2> QED BY <2>2, <2>3
<1>3. CASE User
  <2>1. Handling("USER") BY <1>3 DEF User
  <2>2. CASE reg
    BY <1>0, <1>3, <2>1, <2>2, LineKeeps DEF User, TypeOK
  <2>3. CASE ~reg
    BY <1>0, <1>3, <2>1, <2>3, WelcomeLine DEF User, TypeOK
  <2> QED BY <2>2, <2>3
<1>4. CASE QuitCmd
  BY <1>0, <1>4, LineKeeps DEF QuitCmd, TypeOK, userVars
<1>5. CASE Pong
  <2>1. Handling("PONG") BY <1>5 DEF Pong
  <2>2. /\ ping' \in BOOLEAN /\ (ping' => ping)
        /\ owed' = owed \/ (~ping' /\ owed' = Never)
    BY <1>0, <1>5 DEF Pong, TypeOK
  <2> QED BY <1>0, <1>5, <2>1, <2>2, LineKeeps DEF Pong, TypeOK, userVars
<1>6. CASE OtherCmd
  BY <1>0, <1>6, LineKeeps DEF OtherCmd, TypeOK, userVars
<1>7. CASE ReadIO
  <2>1. buf' \in Seq(Line)
    <3> DEFINE L == Line
    <3>1. PICK n \in 1..MaxLines : buf' \in [1..n -> L] BY <1>7 DEF ReadIO
    <3>2. n \in Nat OBVIOUS
    <3> HIDE DEF L
    <3>3. buf' \in Seq(L) BY <3>1, <3>2, SeqDef
    <3> QED BY <3>3 DEF L
  <2>2. TypeOK' BY <1>0, <1>7, <2>1 DEF ReadIO, TypeOK, userVars, authVars, timeVars
  <2>3. AnnouncedIsAccount' /\ Pinged'
    BY <1>7 DEF ReadIO, SessionInv, AnnouncedIsAccount, Pinged, userVars, authVars, timeVars
  <2>4. Cut' BY <1>7 DEF ReadIO, SessionInv, Cut, Dispatch
  <2> QED BY <2>2, <2>3, <2>4 DEF SessionInv
<1>8. CASE ReadError
  <2>0. sockw' \in BOOLEAN /\ stop' \in BOOLEAN /\ irc' \in {"alive", "deleted", "aborted"}
    BY <1>0, <1>8 DEF ReadError, Quit, Stays, TypeOK
  <2>1. TypeOK'
    BY <1>0, <1>8, <2>0 DEF ReadError, Quit, Stays, TypeOK, userVars, authVars, timeVars
  <2>2. AnnouncedIsAccount' /\ Pinged' /\ Cut'
    BY <1>8 DEF ReadError, SessionInv, AnnouncedIsAccount, Pinged, Cut, userVars, authVars, timeVars
  <2> QED BY <2>1, <2>2 DEF SessionInv
<1>9. CASE PurpleEvent
  <2>1. TypeOK' BY <1>0, <1>9 DEF PurpleEvent, TypeOK, userVars, authVars, timeVars
  <2>2. AnnouncedIsAccount' /\ Pinged' /\ Cut'
    BY <1>9 DEF PurpleEvent, SessionInv, AnnouncedIsAccount, Pinged, Cut, userVars, authVars, timeVars
  <2> QED BY <2>1, <2>2 DEF SessionInv
<1>10. CASE PingTimer
  <2>0. /\ due = PingFreq /\ due' = 0 /\ buf = <<>> /\ ~timedOut
        /\ UNCHANGED <<mechs, conn, talks, buf, idle, nick, ident, pass, reg>>
        /\ UNCHANGED <<purple, im, accounts, announced>>
    BY <1>10 DEF PingTimer, Dispatch, userVars, authVars
  <2>1. \/ UNCHANGED <<sockw, stop, ping, owed, timedOut>> /\ irc' \in {irc, "aborted"}
        \/ /\ ~reg \/ ping
           /\ sockw' = FALSE /\ stop' = TRUE /\ timedOut' = TRUE /\ UNCHANGED <<irc, ping, owed>>
        \/ reg /\ ping' = TRUE /\ owed' = 0 /\ UNCHANGED <<sockw, stop, irc, timedOut>>
    BY <1>10 DEF PingTimer, Quit
  <2>2. AnnouncedIsAccount'
    BY <2>0 DEF SessionInv, AnnouncedIsAccount
  <2>3. CASE UNCHANGED <<sockw, stop, ping, owed, timedOut>> /\ irc' \in {irc, "aborted"}
    <3>1. irc' \in {"alive", "deleted", "aborted"} BY <1>0, <2>3 DEF TypeOK
    <3>2. TypeOK' BY <1>0, <2>0, <2>3, <3>1 DEF TypeOK
    <3>3. Pinged' BY <1>0, <2>0, <2>3 DEF SessionInv, Pinged, TypeOK
    <3>4. Cut' BY <2>0, <2>3 DEF Cut
    <3> QED BY <2>2, <3>2, <3>3, <3>4 DEF SessionInv
  <2>4. CASE /\ ~reg \/ ping
             /\ sockw' = FALSE /\ stop' = TRUE /\ timedOut' = TRUE /\ UNCHANGED <<irc, ping, owed>>
    <3>1. sockw' \in BOOLEAN /\ stop' \in BOOLEAN /\ timedOut' \in BOOLEAN BY <2>4
    <3>2. TypeOK' BY <1>0, <2>0, <2>4, <3>1 DEF TypeOK
    <3>3. Pinged' BY <1>0, <2>0, <2>4 DEF SessionInv, Pinged, TypeOK
    <3>4. Cut'
      <4>1. reg => owed = PingFreq BY <1>0, <2>0, <2>4 DEF SessionInv, Pinged, TypeOK
      <4> QED BY <2>0, <2>4, <4>1 DEF Cut
    <3> QED BY <2>2, <3>2, <3>3, <3>4 DEF SessionInv
  <2>5. CASE reg /\ ping' = TRUE /\ owed' = 0 /\ UNCHANGED <<sockw, stop, irc, timedOut>>
    <3>1. ping' \in BOOLEAN BY <2>5
    <3>2. TypeOK' BY <1>0, <2>0, <2>5, <3>1 DEF TypeOK
    <3>3. Pinged' BY <2>0, <2>5 DEF Pinged
    <3>4. Cut' BY <2>0, <2>5 DEF Cut
    <3> QED BY <2>2, <3>2, <3>3, <3>4 DEF SessionInv
  <2> QED BY <2>1, <2>3, <2>4, <2>5
<1>11. CASE StopServer
  <2>0. irc' \in {"alive", "deleted", "aborted"} /\ sockw' \in BOOLEAN
    BY <1>11 DEF StopServer
  <2>1. TypeOK' BY <1>0, <1>11, <2>0 DEF StopServer, TypeOK, userVars, authVars, timeVars
  <2>2. AnnouncedIsAccount' /\ Pinged' /\ Cut'
    BY <1>11 DEF StopServer, SessionInv, AnnouncedIsAccount, Pinged, Cut, userVars, authVars, timeVars
  <2> QED BY <2>1, <2>2 DEF SessionInv
<1>12. CASE Tick
  <2>1. TypeOK' BY <1>0, <1>12 DEF Tick, TypeOK, userVars, authVars
  <2>2. AnnouncedIsAccount'
    BY <1>12 DEF Tick, SessionInv, AnnouncedIsAccount, userVars, authVars
  <2>3. Pinged' /\ Cut'
    BY <1>0, <1>12 DEF Tick, SessionInv, Pinged, Cut, TypeOK, userVars
  <2> QED BY <2>1, <2>2, <2>3 DEF SessionInv
<1>13. CASE ClientGone
  <2>0. conn' \in {"up", "reset"} /\ talks' \in BOOLEAN
    BY <1>0, <1>13 DEF ClientGone, TypeOK
  <2>1. TypeOK' BY <1>0, <1>13, <2>0 DEF ClientGone, TypeOK, userVars, authVars, timeVars
  <2>2. AnnouncedIsAccount' /\ Pinged' /\ Cut'
    BY <1>13 DEF ClientGone, SessionInv, AnnouncedIsAccount, Pinged, Cut, userVars, authVars, timeVars
  <2> QED BY <2>1, <2>2 DEF SessionInv
<1>14. CASE UNCHANGED vars
  <2>1. TypeOK' BY <1>0, <1>14 DEF vars, TypeOK, userVars, authVars, timeVars
  <2>2. AnnouncedIsAccount' /\ Pinged' /\ Cut'
    BY <1>14 DEF vars, SessionInv, AnnouncedIsAccount, Pinged, Cut, userVars, authVars, timeVars
  <2> QED BY <2>1, <2>2 DEF SessionInv
<1> QED
  BY <1>1, <1>2, <1>3, <1>4, <1>5, <1>6, <1>7, <1>8, <1>9, <1>10, <1>11, <1>12, <1>13,
     <1>14 DEF Next, HandleLine

(* SessionInv holds at the start.                                          *)
LEMMA SessionInit == Init => SessionInv
<1> SUFFICES ASSUME Init PROVE SessionInv
  OBVIOUS
<1>1. buf \in Seq(Line) /\ announced \in Seq(Names) BY DEF Init
<1>2. TypeOK
  <2>1. /\ mechs \in MechSets /\ accounts \in [Names -> Passwords \cup {NoPass, NoDir}]
        /\ due \in 0..PingFreq
        /\ idle \in {Never} \cup 0..PingFreq /\ owed \in {Never} \cup 0..PingFreq
    BY DEF Init
  <2>2. /\ conn \in {"up", "reset"} /\ talks \in BOOLEAN /\ irc \in {"alive", "deleted", "aborted"}
        /\ sockw \in BOOLEAN /\ stop \in BOOLEAN /\ ident \in BOOLEAN /\ timedOut \in BOOLEAN
        /\ reg \in BOOLEAN /\ ping \in BOOLEAN /\ purple \in BOOLEAN
        /\ nick \in Names \cup {NoName} /\ im \in Names \cup {NoName}
        /\ pass \in Passwords \cup {NoPass}
    BY DEF Init
  <2> QED BY <1>1, <2>1, <2>2 DEF TypeOK
<1>3. AnnouncedIsAccount /\ Pinged /\ Cut BY DEF Init, AnnouncedIsAccount, Pinged, Cut
<1> QED BY <1>2, <1>3 DEF SessionInv

(* Every state of a session is one SessionInv describes.                   *)
THEOREM SessionInvariant == Spec => []SessionInv
BY SessionInit, SessionStep, PTL DEF Spec

(* sendWelcome(), m_nick(): the master is told one name, once, the one of  *)
(* the account and of the nickname ever after.                             *)
THEOREM AnnouncedHolds == Spec => []AnnouncedIsAccount
<1>1. SessionInv => AnnouncedIsAccount BY DEF SessionInv
<1> QED BY <1>1, SessionInvariant, PTL

(* ping(), m_pong(): nobody who answers the PING in time is timed out.     *)
THEOREM TimeoutHolds == Spec => []TimeoutDeserved
<1>1. SessionInv => TimeoutDeserved BY DEF SessionInv, Cut, TimeoutDeserved
<1> QED BY <1>1, SessionInvariant, PTL
-----------------------------------------------------------------------------
(* What a verdict that lets the user in rests on.                          *)
Vouched(n, p) ==
    \/ accounts[n] = p
    \/ "pam" \in mechs /\ <<n, p>> \in PamUsers
    \/ "connection" \in mechs /\ CertName = n

(* A verdict that makes an account rests on the global password, or on PAM.*)
MayCreate(n, p) ==
    \/ GlobalPass = NoPass \/ p = GlobalPass
    \/ "pam" \in mechs /\ <<n, p>> \in PamUsers

(* What Auth::validate() and Auth::generate() have checked of who is let   *)
(* in, and of who has a directory made for him.                            *)
LEMMA VerdictSound ==
    ASSUME TypeOK, NEW n \in Names, NEW p \in Passwords \cup {NoPass},
           Verdict(n, p) \in {"valid", "created", "twice"}
    PROVE  /\ Verdict(n, p) = "valid" => Vouched(n, p)
           /\ accounts[n] = NoDir => MayCreate(n, p)
<1>1. p # NoDir OBVIOUS
<1>2. Generate(n, p) # "valid"
  BY DEF Generate
<1>3. Validate(n, p) # "created"
  BY DEF Validate
<1>4. Validate(n, p) = "valid" =>
        \/ accounts[n] = p
        \/ "pam" \in mechs /\ <<n, p>> \in PamUsers
        \/ "connection" \in mechs /\ CertName = n /\ accounts[n] # NoDir
  BY DEF Validate, ConnectionKnows, PamKnows, HasDir
<1>5. Validate(n, p) = "twice" =>
        \/ "pam" \in mechs /\ <<n, p>> \in PamUsers
        \/ accounts[n] # NoDir
  BY DEF Validate, ConnectionKnows, PamKnows, HasDir
<1>6. Verdict(n, p) = "twice" => Validate(n, p) = "twice" \/ ~GlobalRefuses(p)
  BY DEF Verdict
<1>7. Verdict(n, p) = "valid" => Validate(n, p) = "valid"
  BY <1>2 DEF Verdict
<1>8. Verdict(n, p) = "created" => ~GlobalRefuses(p)
  BY <1>3 DEF Verdict
<1>9. Verdict(n, p) = "valid" => Vouched(n, p)
  BY <1>4, <1>7 DEF Vouched
<1>10. accounts[n] = NoDir => MayCreate(n, p)
  <2> SUFFICES ASSUME accounts[n] = NoDir PROVE MayCreate(n, p)
    OBVIOUS
  <2>1. CASE Verdict(n, p) = "valid"
    BY <1>1, <1>4, <1>7, <2>1 DEF MayCreate
  <2>2. CASE Verdict(n, p) = "created"
    BY <1>8, <2>2 DEF MayCreate, GlobalRefuses
  <2>3. CASE Verdict(n, p) = "twice"
    BY <1>5, <1>6, <2>3 DEF MayCreate, GlobalRefuses
  <2> QED BY <2>1, <2>2, <2>3
<1> QED BY <1>9, <1>10

(* What one step may do to who is in and to the accounts.                  *)
Fits ==
    /\ ~reg /\ reg' => \/ accounts'[nick'] = pass'
                       \/ "pam" \in mechs /\ <<nick', pass'>> \in PamUsers
                       \/ "connection" \in mechs /\ CertName = nick'
    /\ \A n \in Names : accounts[n] = NoDir /\ accounts'[n] # NoDir =>
          \/ GlobalPass = NoPass \/ pass' = GlobalPass
          \/ "pam" \in mechs /\ <<n, pass'>> \in PamUsers

(* A line on which sendWelcome() is called fits.                           *)
LEMMA WelcomeFits ==
    ASSUME TypeOK, buf # <<>>, irc = "alive", NEW n \in Names \cup {NoName},
           NEW id \in BOOLEAN, SendWelcome(n, id, pass), nick' = n, UNCHANGED pass
    PROVE  Fits
<1>1. /\ pass \in Passwords \cup {NoPass}
      /\ accounts \in [Names -> Passwords \cup {NoPass, NoDir}]
      /\ reg \in BOOLEAN
  BY DEF TypeOK
<1>2. GetsIn(n, pass) \/ StaysOut(n, pass) BY <1>1, SendWelcomeEffect
<1>3. /\ Accepted(n, pass) /\ Verdict(n, pass) = "valid" => Vouched(n, pass)
      /\ Tried(n, pass) /\ accounts[n] = NoDir => MayCreate(n, pass)
      /\ Accepted(n, pass) => Tried(n, pass)
  BY <1>1, VerdictSound DEF Accepted, Tried
<1>4. CASE GetsIn(n, pass)
  <2>1. n \in Names /\ Accepted(n, pass) BY <1>4 DEF GetsIn, Accepted
  <2>2. \/ accounts'[n] = pass
        \/ "pam" \in mechs /\ <<n, pass>> \in PamUsers
        \/ "connection" \in mechs /\ CertName = n
    <3>1. CASE Verdict(n, pass) = "created"
      BY <1>1, <1>4, <2>1, <3>1 DEF GetsIn
    <3>2. CASE Verdict(n, pass) = "valid"
      <4>1. Vouched(n, pass) BY <1>3, <2>1, <3>2
      <4>2. accounts[n] = pass => accounts'[n] = pass
        BY <1>1, <1>4, <2>1, <3>2 DEF GetsIn
      <4> QED BY <4>1, <4>2 DEF Vouched
    <3> QED BY <2>1, <3>1, <3>2 DEF Accepted
  <2>3. ASSUME NEW m \in Names, accounts[m] = NoDir, accounts'[m] # NoDir
        PROVE  MayCreate(m, pass)
    <3>1. m = n BY <1>1, <1>4, <2>1, <2>3 DEF GetsIn
    <3> QED BY <1>3, <2>1, <2>3, <3>1
  <2> QED BY <2>2, <2>3 DEF Fits, MayCreate
<1>5. CASE StaysOut(n, pass)
  <2>1. reg' = reg BY <1>5 DEF StaysOut
  <2>2. ASSUME NEW m \in Names, accounts[m] = NoDir, accounts'[m] # NoDir
        PROVE  MayCreate(m, pass)
    <3>1. m = n /\ Tried(n, pass) BY <1>1, <1>5, <2>2 DEF StaysOut, Tried
    <3> QED BY <1>3, <2>2, <3>1
  <2> QED BY <2>1, <2>2 DEF Fits, MayCreate
<1> QED BY <1>2, <1>4, <1>5

(* Every step of the session fits.                                         *)
LEMMA CredentialsStep ==
    ASSUME TypeOK, [Next]_vars
    PROVE  Fits
<1>1. CASE Nick /\ ~(reg \/ Arg = NoName)
  BY <1>1, ArgType, WelcomeFits DEF Nick, Handling, TypeOK
<1>2. CASE User /\ ~reg
  BY <1>2, WelcomeFits DEF User, Handling, TypeOK
<1>3. ASSUME UNCHANGED <<reg, accounts>> PROVE Fits
  BY <1>3 DEF Fits
<1>4. CASE (Nick /\ (reg \/ Arg = NoName)) \/ (User /\ reg)
  BY <1>3, <1>4 DEF Nick, User, authVars
<1>5. CASE Pass \/ QuitCmd \/ Pong \/ OtherCmd
  BY <1>3, <1>5 DEF Pass, QuitCmd, Pong, OtherCmd, userVars, authVars
<1>6. CASE ReadIO \/ ReadError \/ PurpleEvent \/ StopServer \/ Tick \/ ClientGone
  BY <1>3, <1>6 DEF ReadIO, ReadError, PurpleEvent, StopServer, Tick, ClientGone, userVars, authVars
<1>7. CASE PingTimer
  BY <1>3, <1>7 DEF PingTimer, userVars, authVars
<1>8. CASE UNCHANGED vars
  BY <1>3, <1>8 DEF vars, userVars, authVars
<1> QED BY <1>1, <1>2, <1>4, <1>5, <1>6, <1>7, <1>8 DEF Next, HandleLine

(* sendWelcome(), Auth::validate(), Auth::generate(): who gets in has given*)
(* what one of the mechanisms asks of him, and no account comes to be      *)
(* without the global password except those PAM vouches for.               *)
THEOREM CredentialsHold == Spec => CredentialsFit
<1>1. TypeOK /\ [Next]_vars => [Fits]_vars BY CredentialsStep
<1>2. SessionInv => TypeOK BY DEF SessionInv
<1> QED BY <1>1, <1>2, SessionInvariant, PTL DEF Spec, CredentialsFit, Fits
=============================================================================
