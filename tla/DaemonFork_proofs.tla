-------------------------- MODULE DaemonFork_proofs --------------------------
(***************************************************************************)
(* What DaemonFork guarantees for every number of connections, every       *)
(* limit, every size of the socket pairs and every set of operators, texts *)
(* and signals.                                                            *)
(***************************************************************************)
EXTENDS DaemonFork, FiniteSetTheorems, TLAPS

USE DaemonForkAssumption DEF Procs

(* A message appended to a stream leaves a stream.                         *)
LEMMA MasterSendType ==
    ASSUME TypeOK, NEW S \in SUBSET Conns, NEW m \in Msg, MasterSend(S, m)
    PROVE  toChild' \in [Conns -> Seq(Msg)] /\ lost' \subseteq Conns
BY DEF TypeOK, MasterSend

(* A message of a child is appended to its own stream only.                *)
LEMMA ChildSendType ==
    ASSUME TypeOK, NEW c \in Conns, NEW m \in Msg, ChildSend(c, m)
    PROVE  toMaster' \in [Conns -> Seq(Msg)]
BY DEF TypeOK, ChildSend

(* irc->quit() and Minbif::quit() leave a phase of the session and the     *)
(* process.                                                                *)
LEMMA QuitProcessType ==
    ASSUME TypeOK, NEW p \in Procs, QuitProcess(p)
    PROVE  /\ proc' \in [Procs -> {"none", "run", "quit", "exited", "refused"}]
           /\ irc' \in [Procs -> {"null", "open", "closing"}]
BY DEF TypeOK, QuitProcess

(* new_client_cb(), refused, failed or forked, keeps the types.            *)
LEMMA NewClientType ==
    ASSUME TypeOK, NEW c \in Conns, NewClient(c)
    PROVE  TypeOK'
<1>1. CASE Refuse(c) \/ ForkFails(c)
  BY <1>1, ZenonT(60) DEF TypeOK, Refuse, ForkFails, histVars
<1>2. ASSUME NEW pair \in BOOLEAN, NEW up \in BOOLEAN, Fork(c, pair, up)
      PROVE  TypeOK'
  BY <1>2 DEF TypeOK, Fork, histVars, InLoop
<1> QED BY <1>1, <1>2 DEF NewClient

(* The commands of a user keep the types.                                  *)
LEMMA ClientStepType ==
    ASSUME TypeOK, NEW c \in Conns, ClientStep(c)
    PROVE  TypeOK'
<1>1. ASSUME NEW u \in Users, Register(c, u) PROVE TypeOK'
  <2> DEFINE m == [cmd |-> "USER", nick |-> u, text |-> "plain"]
  <2>1. m \in Msg BY DEF Msg, Text
  <2>2. toMaster' \in [Conns -> Seq(Msg)]
    BY <1>1, <2>1, ChildSendType DEF Register
  <2> QED BY <1>1, <2>2 DEF TypeOK, Register, histVars
<1>2. CASE BecomeOper(c)
  <2> DEFINE m == [cmd |-> "OPER", nick |-> user[c], text |-> "plain"]
  <2>1. m \in Msg BY DEF Msg, Text, TypeOK
  <2>2. toMaster' \in [Conns -> Seq(Msg)]
    BY <1>2, <2>1, ChildSendType DEF BecomeOper
  <2> QED BY <1>2, <2>2 DEF TypeOK, BecomeOper, histVars
<1>3. ASSUME NEW t \in Texts, Wallops(c, t) \/ Die(c, t) PROVE TypeOK'
  <2>1. ASSUME NEW cmd \in {"WALLOPS", "DIE"}
        PROVE  [cmd |-> cmd, nick |-> user[c], text |-> t] \in Msg
    BY DEF Msg, Text, TypeOK
  <2>2. toMaster' \in [Conns -> Seq(Msg)]
    BY <1>3, <2>1, ChildSendType DEF Wallops, Die
  <2> QED BY <1>3, <2>2 DEF TypeOK, Wallops, Die, histVars
<1>4. CASE ClientQuits(c)
  BY <1>4 DEF TypeOK, ClientQuits, histVars
<1> QED BY <1>1, <1>2, <1>3, <1>4 DEF ClientStep

(* Each handler of a message of a child keeps the types.                   *)
LEMMA ReadChildType ==
    ASSUME TypeOK, NEW p \in Procs, NEW c \in Conns, ReadChild(p, c)
    PROVE  TypeOK'
<1> DEFINE m == Head(toMaster[c])
<1>1. m \in Msg /\ toMaster' \in [Conns -> Seq(Msg)] /\ childs[p] \subseteq Conns
  BY DEF TypeOK, ReadChild
<1> HIDE DEF m
<1>2. CASE DropMalformed(m)
  BY <1>1, <1>2 DEF TypeOK, ReadChild, DropMalformed, histVars
<1>3. CASE RelayFromChild(p, c, m)
  <2>1. Relayed(p, c, m) \in SUBSET Conns BY <1>1 DEF Relayed
  <2>2. toChild' \in [Conns -> Seq(Msg)] /\ lost' \subseteq Conns
    BY <1>1, <1>3, <2>1, MasterSendType DEF RelayFromChild
  <2> QED BY <1>1, <1>3, <2>2 DEF TypeOK, ReadChild, RelayFromChild
<1>4. CASE DieFromChild(p, m)
  <2>1. toChild' \in [Conns -> Seq(Msg)] /\ lost' \subseteq Conns
    BY <1>1, <1>4, MasterSendType DEF DieFromChild
  <2>2. /\ proc' \in [Procs -> {"none", "run", "quit", "exited", "refused"}]
        /\ irc' \in [Procs -> {"null", "open", "closing"}]
    BY <1>4, QuitProcessType DEF DieFromChild
  <2> QED BY <1>1, <1>4, <2>1, <2>2 DEF TypeOK, ReadChild, DieFromChild
<1>5. CASE UserFromChild(p, c, m)
  <2> DEFINE d == [cmd |-> "DIE", nick |-> m.nick, text |-> "relogin"]
  <2>1. d \in Msg /\ SameUser(p, c, m.nick) \in SUBSET Conns
    BY <1>1 DEF Msg, Text, SameUser
  <2>2. toChild' \in [Conns -> Seq(Msg)] /\ lost' \subseteq Conns
    BY <1>5, <2>1, MasterSendType DEF UserFromChild
  <2>3. m.nick \in Users \cup {NoUser} BY <1>1 DEF Msg
  <2>4. username' \in [Procs -> [Conns -> Users \cup {NoUser}]]
    BY <1>5, <2>3 DEF UserFromChild, TypeOK
  <2>5. logins' \in Seq(Conns)
    BY <1>5 DEF UserFromChild, TypeOK
  <2> QED BY <1>1, <1>5, <2>2, <2>4, <2>5 DEF TypeOK, ReadChild, UserFromChild
<1> QED BY <1>2, <1>3, <1>4, <1>5 DEF ReadChild, m

(* The end of a process keeps the types.                                   *)
LEMMA GoneType ==
    ASSUME TypeOK, NEW p \in Procs, Gone(p)
    PROVE  TypeOK'
<1>1. /\ proc' \in [Procs -> {"none", "run", "quit", "exited", "refused"}]
      /\ irc' \in [Procs -> {"null", "open", "closing"}]
      /\ childs' \in [Procs -> SUBSET Conns]
  BY DEF TypeOK, Gone
<1>2. username' \in [Procs -> [Conns -> Users \cup {NoUser}]]
  <2>1. [c \in Conns |-> NoUser] \in [Conns -> Users \cup {NoUser}]
    OBVIOUS
  <2> QED BY <2>1 DEF TypeOK, Gone
<1>3. sock' \in [Conns -> BOOLEAN]
  BY DEF TypeOK, Gone
<1>4. toChild' \in [Conns -> Seq(Msg)]
  BY DEF TypeOK, Gone
<1> QED BY <1>1, <1>2, <1>3, <1>4 DEF TypeOK, Gone, histVars

(* What a main loop does by itself keeps the types.                        *)
LEMMA LoopStepType ==
    ASSUME TypeOK, NEW p \in Procs, LoopStep(p)
    PROVE  TypeOK'
<1>1. ASSUME NEW c \in Conns, ChildLeft(p, c) \/ LostRace(p, c) PROVE TypeOK'
  <2>1. username' \in [Procs -> [Conns -> Users \cup {NoUser}]]
    <3> DEFINE forgot == [username[p] EXCEPT ![c] = NoUser]
    <3>1. username' = [username EXCEPT ![p] = forgot]
      BY <1>1 DEF ChildLeft, LostRace
    <3>2. forgot \in [Conns -> Users \cup {NoUser}]
      BY DEF TypeOK
    <3> QED BY <3>1, <3>2 DEF TypeOK
  <2>2. childs' \in [Procs -> SUBSET Conns]
    BY <1>1 DEF TypeOK, ChildLeft, LostRace
  <2> QED BY <1>1, <2>1, <2>2 DEF TypeOK, ChildLeft, LostRace, histVars
<1>2. CASE p \in Conns /\ ReadMaster(p)
  <2>1. toChild' \in [Conns -> Seq(Msg)]
    BY <1>2 DEF TypeOK, ReadMaster
  <2>2. /\ proc' \in [Procs -> {"none", "run", "quit", "exited", "refused"}]
        /\ irc' \in [Procs -> {"null", "open", "closing"}]
    BY <1>2, QuitProcessType DEF ReadMaster, TypeOK
  <2> QED BY <1>2, <2>1, <2>2 DEF TypeOK, ReadMaster, histVars
<1>3. CASE p \in Conns /\ (MasterLeft(p) \/ StopServer(p))
  BY <1>3, ZenonT(60) DEF TypeOK, MasterLeft, StopServer, histVars
<1>4. CASE Exit(p)
  BY <1>4, GoneType DEF Exit
<1> QED BY <1>1, <1>2, <1>3, <1>4, ReadChildType DEF LoopStep

(* The signals keep the types.                                             *)
LEMMA SignalType ==
    ASSUME TypeOK, NEW p \in Procs, Signal(p)
    PROVE  TypeOK'
<1>1. CASE SigTerm(p)
  BY <1>1 DEF TypeOK, SigTerm, histVars
<1>2. ASSUME NEW ok \in BOOLEAN, SigHup(p, ok) PROVE TypeOK'
  <2> DEFINE m == [cmd |-> "REHASH", nick |-> NoUser, text |-> "plain"]
  <2>1. m \in Msg /\ childs[p] \in SUBSET Conns BY DEF Msg, Text, TypeOK
  <2>2. toChild' \in [Conns -> Seq(Msg)] /\ lost' \subseteq Conns
    BY <1>2, <2>1, MasterSendType DEF SigHup, TypeOK
  <2> QED BY <1>2, <2>2 DEF TypeOK, SigHup
<1>3. CASE Crash(p)
  BY <1>3, GoneType DEF Crash
<1> QED BY <1>1, <1>2, <1>3 DEF Signal

(***************************************************************************)
(* Every process state, child_t and message of a reachable state is one    *)
(* the code knows: no handler stores or sends anything else.               *)
(***************************************************************************)
THEOREM TypeCorrect == Spec => []TypeOK
<1>1. Init => TypeOK
  BY DEF Init, TypeOK
<1>2. TypeOK /\ [Next]_vars => TypeOK'
  <2> SUFFICES ASSUME TypeOK, [Next]_vars PROVE TypeOK'
    OBVIOUS
  <2>1. ASSUME NEW c \in Conns, NewClient(c) \/ ClientStep(c) PROVE TypeOK'
    BY <2>1, NewClientType, ClientStepType
  <2>2. ASSUME NEW p \in Procs, Signal(p) \/ LoopStep(p) PROVE TypeOK'
    BY <2>2, SignalType, LoopStepType
  <2>3. CASE UNCHANGED vars
    BY <2>3 DEF TypeOK, vars, histVars
  <2> QED BY <2>1, <2>2, <2>3 DEF Next
<1> QED BY <1>1, <1>2, PTL DEF Spec
-----------------------------------------------------------------------------
(* The processes that serve a client.                                      *)
Live == {c \in Conns : InLoop(c)}

(***************************************************************************)
(* What makes the number of child_t a bound on the number of processes, as *)
(* long as socketpair() has worked: only the master has child_t, and while *)
(* it runs it has one for each live process, whose end of the socket pair  *)
(* is open, so that its stream has no end for ipc_read() to see.           *)
(***************************************************************************)
Tracked ==
    /\ \A c \in Conns : childs[c] = {}
    /\ InLoop(Master) => \A c \in Live : c \in childs[Master] /\ sock[c]

Bounded ==
    /\ Cardinality(childs[Master]) <= MaxCon
    /\ Cardinality(Live) <= MaxCon

MaxConInv == TypeOK /\ (cutOff = {} => Tracked /\ Bounded)

(* A step that adds neither a child_t nor a live process keeps the bound.  *)
LEMMA FewerIsBounded ==
    ASSUME TypeOK, Bounded,
           childs'[Master] \subseteq childs[Master], Live' \subseteq Live
    PROVE  Bounded'
<1>1. IsFiniteSet(childs[Master]) /\ IsFiniteSet(Live)
  BY FS_Subset DEF TypeOK, Live
<1>2. /\ IsFiniteSet(childs'[Master])
      /\ Cardinality(childs'[Master]) <= Cardinality(childs[Master])
  BY <1>1, FS_Subset
<1>3. IsFiniteSet(Live') /\ Cardinality(Live') <= Cardinality(Live)
  BY <1>1, FS_Subset
<1>4. /\ Cardinality(childs[Master]) \in Nat /\ Cardinality(childs'[Master]) \in Nat
      /\ Cardinality(Live) \in Nat /\ Cardinality(Live') \in Nat
  BY <1>1, <1>2, <1>3, FS_CardinalityType
<1> QED BY <1>2, <1>3, <1>4 DEF Bounded

(* A fork with a socket pair gives the master the child_t of the process.  *)
LEMMA ForkWithPair ==
    ASSUME TypeOK, Tracked, cutOff' = {}, NEW c \in Conns,
           NEW pair \in BOOLEAN, NEW up \in BOOLEAN, Fork(c, pair, up)
    PROVE  /\ Tracked' /\ Live' \subseteq Live \cup {c}
           /\ childs'[Master] = childs[Master] \cup {c}
           /\ Live' \subseteq childs'[Master]
<1>1. pair = TRUE
  BY DEF Fork, TypeOK
<1>2. /\ sock' = [sock EXCEPT ![c] = TRUE]
      /\ childs' = [childs EXCEPT ![Master] = @ \cup {c}, ![c] = {}]
      /\ InLoop(Master)
  BY <1>1 DEF Fork
<1>3. childs'[Master] = childs[Master] \cup {c}
  BY <1>2 DEF TypeOK
<1>4. Live' \subseteq Live \cup {c}
  BY DEF Fork, Live, InLoop, TypeOK
<1>5. Tracked'
  <2>1. ASSUME NEW d \in Conns PROVE childs'[d] = {}
    BY <1>2 DEF Tracked, TypeOK
  <2>2. ASSUME NEW d \in Live' PROVE d \in childs'[Master] /\ sock'[d]
    BY <1>2, <1>3, <1>4, <2>2 DEF Tracked, TypeOK, Live
  <2> QED BY <2>1, <2>2 DEF Tracked
<1> QED BY <1>2, <1>3, <1>4, <1>5 DEF Tracked

(* A refused or failed connection changes nothing that is tracked.         *)
LEMMA NoForkTracked ==
    ASSUME TypeOK, Tracked, NEW c \in Conns, Refuse(c) \/ ForkFails(c)
    PROVE  Tracked' /\ childs' = childs /\ Live' \subseteq Live
<1>1. /\ UNCHANGED <<childs, sock>> /\ Live' \subseteq Live
      /\ InLoop(Master)' = InLoop(Master)
  BY DEF Refuse, ForkFails, Live, InLoop, TypeOK
<1> QED BY <1>1 DEF Tracked

(* A new process comes with its child_t, below the limit.                  *)
LEMMA NewClientTracked ==
    ASSUME MaxCon > 0, TypeOK, Tracked, Bounded, cutOff' = {}, NEW c \in Conns, NewClient(c)
    PROVE  Tracked' /\ Bounded'
<1>1. CASE Refuse(c) \/ ForkFails(c)
  BY <1>1, NoForkTracked, FewerIsBounded
<1>2. ASSUME NEW pair \in BOOLEAN, NEW up \in BOOLEAN, Fork(c, pair, up)
      PROVE  Tracked' /\ Bounded'
  <2>1. IsFiniteSet(childs[Master]) BY FS_Subset DEF TypeOK
  <2>2. Cardinality(childs[Master]) \in Nat BY <2>1, FS_CardinalityType
  <2>3. Cardinality(childs[Master]) < MaxCon
    BY <1>2, <2>2 DEF Fork, AtLimit
  <2>4. /\ Tracked' /\ Live' \subseteq childs'[Master]
        /\ childs'[Master] = childs[Master] \cup {c}
    BY <1>2, ForkWithPair
  <2>5. /\ IsFiniteSet(childs'[Master])
        /\ Cardinality(childs'[Master]) <= Cardinality(childs[Master]) + 1
    <3>1. /\ IsFiniteSet(childs[Master] \cup {c})
          /\ Cardinality(childs[Master] \cup {c}) =
               IF c \in childs[Master] THEN Cardinality(childs[Master])
               ELSE Cardinality(childs[Master]) + 1
      BY <2>1, FS_AddElement
    <3> QED BY <2>2, <2>4, <3>1
  <2>6. IsFiniteSet(Live') /\ Cardinality(Live') <= Cardinality(childs'[Master])
    BY <2>4, <2>5, FS_Subset
  <2>7. Cardinality(childs'[Master]) \in Nat /\ Cardinality(Live') \in Nat
    BY <2>5, <2>6, FS_CardinalityType
  <2> QED BY <2>2, <2>3, <2>4, <2>5, <2>6, <2>7 DEF Bounded
<1> QED BY <1>1, <1>2 DEF NewClient

(* Nothing but NewClient() adds a child_t or a live process.               *)
LEMMA OtherStepsTracked ==
    ASSUME TypeOK, Tracked,
           \/ \E c \in Conns : ClientStep(c)
           \/ \E p \in Procs : Signal(p) \/ LoopStep(p)
    PROVE  Tracked' /\ childs'[Master] \subseteq childs[Master] /\ Live' \subseteq Live
<1>1. ASSUME NEW c \in Conns, ClientStep(c)
      PROVE  Tracked' /\ childs' = childs /\ Live' = Live
  <2>1. UNCHANGED <<proc, childs, sock>>
    BY <1>1 DEF ClientStep, Register, BecomeOper, Wallops, Die, ClientQuits
  <2> QED BY <2>1 DEF Tracked, Live, InLoop
<1>2. ASSUME NEW p \in Procs, NEW phase \in {"run", "quit"}, proc[p] # "none",
             InLoop(p), UNCHANGED <<childs, sock>>,
             proc' = proc \/ proc' = [proc EXCEPT ![p] = phase]
      PROVE  Tracked' /\ Live' = Live
  BY <1>2 DEF Tracked, Live, InLoop, TypeOK
<1>3. ASSUME NEW p \in Procs, Gone(p)
      PROVE  Tracked' /\ childs'[Master] \subseteq childs[Master] /\ Live' \subseteq Live
  <2>1. Live' \subseteq Live /\ (p \in Conns => p \notin Live')
    BY <1>3 DEF Gone, Live, InLoop, TypeOK
  <2>2. /\ childs' = [childs EXCEPT ![p] = {}]
        /\ InLoop(Master)' => InLoop(Master) /\ p # Master
        /\ \A c \in Conns : c # p => sock'[c] = sock[c]
    BY <1>3 DEF Gone, InLoop, TypeOK
  <2>3. childs'[Master] \subseteq childs[Master] BY <2>2 DEF TypeOK
  <2>4. Tracked' BY <2>1, <2>2 DEF Tracked, TypeOK, Live
  <2> QED BY <2>1, <2>3, <2>4
<1>4. ASSUME NEW p \in Procs, Signal(p)
      PROVE  Tracked' /\ childs'[Master] \subseteq childs[Master] /\ Live' \subseteq Live
  <2>1. CASE SigTerm(p)
    BY <1>2, <2>1 DEF SigTerm, InLoop
  <2>2. ASSUME NEW ok \in BOOLEAN, SigHup(p, ok)
        PROVE  Tracked' /\ childs' = childs /\ Live' = Live
    <3>1. /\ InLoop(p) /\ UNCHANGED <<childs, sock>>
          /\ proc' = proc \/ proc' = [proc EXCEPT ![p] = "quit"]
      BY <2>2 DEF SigHup, TypeOK
    <3> QED BY <1>2, <3>1 DEF InLoop
  <2>3. CASE Crash(p)
    BY <1>3, <2>3 DEF Crash
  <2> QED BY <1>4, <2>1, <2>2, <2>3 DEF Signal
<1>5. ASSUME NEW p \in Procs, LoopStep(p)
      PROVE  Tracked' /\ childs'[Master] \subseteq childs[Master] /\ Live' \subseteq Live
  <2>1. ASSUME NEW c \in Conns, ReadChild(p, c)
        PROVE  Tracked' /\ childs' = childs /\ Live' = Live
    <3>1. /\ InLoop(p) /\ UNCHANGED <<childs, sock>>
          /\ proc' = proc \/ proc' = [proc EXCEPT ![p] = "quit"]
      BY <2>1 DEF ReadChild, DropMalformed, RelayFromChild, DieFromChild,
                  UserFromChild, QuitProcess
    <3> QED BY <1>2, <3>1 DEF InLoop
  <2>2. ASSUME NEW c \in Conns, ChildLeft(p, c)
        PROVE  Tracked' /\ childs'[Master] \subseteq childs[Master] /\ Live' = Live
    <3>1. p = Master /\ ~sock[c] /\ InLoop(Master)
      BY <2>2 DEF ChildLeft, Tracked
    <3>2. c \notin Live BY <3>1 DEF Tracked
    <3>3. /\ childs' = [childs EXCEPT ![Master] = @ \ {c}]
          /\ UNCHANGED <<proc, sock>>
      BY <2>2, <3>1 DEF ChildLeft
    <3> QED BY <3>2, <3>3 DEF Tracked, Live, InLoop, TypeOK
  <2>3. ASSUME NEW c \in Conns PROVE ~LostRace(p, c)
    BY DEF LostRace, Tracked
  <2>4. CASE p \in Conns /\ ReadMaster(p)
    <3>1. /\ InLoop(p) /\ UNCHANGED <<childs, sock>>
          /\ proc' = proc \/ proc' = [proc EXCEPT ![p] = "quit"]
      BY <2>4 DEF ReadMaster, QuitProcess
    <3> QED BY <1>2, <3>1 DEF InLoop
  <2>5. CASE p \in Conns /\ MasterLeft(p)
    <3>1. ~InLoop(Master)
      BY <2>5 DEF MasterLeft, MasterEndOpen, Tracked, Live
    <3> QED BY <2>5, <3>1 DEF MasterLeft, Tracked, Live, InLoop
  <2>6. CASE p \in Conns /\ StopServer(p)
    BY <1>2, <2>6 DEF StopServer, InLoop
  <2>7. CASE Exit(p)
    BY <1>3, <2>7 DEF Exit
  <2> QED BY <1>5, <2>1, <2>2, <2>3, <2>4, <2>5, <2>6, <2>7 DEF LoopStep
<1> QED BY <1>1, <1>4, <1>5

(* No step makes a fork without a socket pair forgotten.                   *)
LEMMA CutOffGrows ==
    ASSUME Next, cutOff' = {}
    PROVE  cutOff = {}
<1>1. ASSUME NEW c \in Conns, NewClient(c) \/ ClientStep(c) PROVE cutOff \subseteq cutOff'
  BY <1>1 DEF NewClient, Refuse, ForkFails, Fork, ClientStep, Register, BecomeOper,
              Wallops, Die, ClientQuits, histVars
<1>2. ASSUME NEW p \in Procs, Signal(p) PROVE cutOff' = cutOff
  BY <1>2 DEF Signal, SigTerm, SigHup, Crash, Gone, histVars
<1>3. ASSUME NEW p \in Procs, LoopStep(p) PROVE cutOff' = cutOff
  BY <1>3 DEF LoopStep, ReadChild, ChildLeft, LostRace, ReadMaster, MasterLeft,
              StopServer, Exit, Gone, histVars
<1> QED BY <1>1, <1>2, <1>3 DEF Next

(***************************************************************************)
(* As long as socketpair() has not failed, "maxcon" bounds the number of   *)
(* processes that serve a client, for every limit and every number of      *)
(* connections.                                                            *)
(***************************************************************************)
THEOREM MaxConHolds == Spec => []MaxConRespected
<1>1. CASE MaxCon > 0
  <2>1. Init => MaxConInv
    <3> SUFFICES ASSUME Init PROVE MaxConInv OBVIOUS
    <3>1. TypeOK BY DEF Init, TypeOK
    <3>2. childs[Master] = {} /\ Live = {} /\ \A c \in Conns : childs[c] = {}
      BY DEF Init, Live, InLoop
    <3>3. Cardinality({}) = 0 BY FS_EmptySet
    <3> QED BY <3>1, <3>2, <3>3 DEF MaxConInv, Tracked, Bounded
  <2>2. MaxConInv /\ TypeOK' /\ [Next]_vars => MaxConInv'
    <3> SUFFICES ASSUME MaxConInv, TypeOK', [Next]_vars, cutOff' = {}
                 PROVE  Tracked' /\ Bounded'
      BY DEF MaxConInv
    <3>1. CASE UNCHANGED vars
      BY <3>1 DEF vars, histVars, MaxConInv, Tracked, Bounded, Live, InLoop
    <3>2. CASE Next
      <4>1. TypeOK /\ Tracked /\ Bounded
        BY <3>2, CutOffGrows DEF MaxConInv
      <4>2. ASSUME NEW c \in Conns, NewClient(c) PROVE Tracked' /\ Bounded'
        BY <1>1, <4>1, <4>2, NewClientTracked
      <4> QED BY <3>2, <4>1, <4>2, OtherStepsTracked, FewerIsBounded DEF Next
    <3> QED BY <3>1, <3>2
  <2>3. MaxConInv => MaxConRespected
    BY DEF MaxConInv, Bounded, Live, MaxConRespected
  <2> QED BY <2>1, <2>2, <2>3, TypeCorrect, PTL DEF Spec
<1>2. CASE ~(MaxCon > 0)
  <2>1. MaxConRespected BY <1>2 DEF MaxConRespected
  <2> QED BY <2>1, PTL
<1> QED BY <1>1, <1>2
-----------------------------------------------------------------------------
(* Some process has handled the USER of c.                                 *)
LoggedIn(c) == \E i \in 1..Len(logins) : logins[i] = c

(***************************************************************************)
(* What ties the names that processes remember to the users who are there: *)
(* a connection without a user has said nothing; the streams carry one     *)
(* USER per user, first, with his name, and no text of m_user(); a         *)
(* username that somebody remembers is the user of that connection and was *)
(* announced.                                                              *)
(***************************************************************************)
Anonymous ==
    \A c \in Conns :
        /\ user[c] = NoUser => toMaster[c] = <<>> /\ ~LoggedIn(c) /\ ~oper[c]
        /\ proc[c] = "none" => user[c] = NoUser

UserOnce ==
    \A c \in Conns : \A k \in 1..Len(toMaster[c]) :
        /\ toMaster[c][k].text # "relogin"
        /\ toMaster[c][k].cmd = "USER" =>
              k = 1 /\ toMaster[c][k].nick = user[c] /\ ~LoggedIn(c)

Remembered ==
    \A p \in Procs, c \in Conns :
        username[p][c] # NoUser => username[p][c] = user[c] /\ LoggedIn(c)

LoginInv == Anonymous /\ UserOnce /\ Remembered

(* No process becomes one that was never forked.                           *)
LEMMA ForkedStays ==
    ASSUME TypeOK, Next, NEW c \in Conns, proc[c] # "none"
    PROVE  proc'[c] # "none"
<1>1. ASSUME NEW d \in Conns, NewClient(d) PROVE proc'[c] # "none"
  BY <1>1 DEF NewClient, Refuse, ForkFails, Fork, InLoop, TypeOK
<1>2. ASSUME NEW d \in Conns, ClientStep(d) PROVE proc' = proc
  BY <1>2 DEF ClientStep, Register, BecomeOper, Wallops, Die, ClientQuits
<1>3. ASSUME NEW p \in Procs, Signal(p) PROVE proc'[c] # "none"
  BY <1>3 DEF Signal, SigTerm, SigHup, Crash, Gone, TypeOK
<1>4. ASSUME NEW p \in Procs, LoopStep(p) PROVE proc'[c] # "none"
  BY <1>4, ZenonT(60) DEF LoopStep, ReadChild, DropMalformed, RelayFromChild, DieFromChild,
              UserFromChild, QuitProcess, ChildLeft, LostRace, ReadMaster,
              MasterLeft, StopServer, Exit, Gone, TypeOK
<1> QED BY <1>1, <1>2, <1>3, <1>4 DEF Next

(* A step that reads and announces nothing at most forgets names, or hands *)
(* those of the master to a fork.                                          *)
LEMMA QuietLogin ==
    ASSUME TypeOK, LoginInv, UNCHANGED <<toMaster, user, oper, logins>>,
           \A c \in Conns : proc'[c] = "none" => proc[c] = "none",
           \A p \in Procs, c \in Conns :
               username'[p][c] \in {NoUser, username[p][c], username[Master][c]}
    PROVE  LoginInv'
<1>1. Anonymous' /\ UserOnce'
  BY DEF LoginInv, Anonymous, UserOnce, LoggedIn
<1>2. Remembered'
  BY DEF LoginInv, Remembered, LoggedIn
<1> QED BY <1>1, <1>2 DEF LoginInv

(* The commands of a user: only Register() sends a USER, as the first      *)
(* message of its connection.                                              *)
LEMMA ClientStepLogin ==
    ASSUME TypeOK, LoginInv, NEW c \in Conns, ClientStep(c)
    PROVE  LoginInv'
<1>1. UNCHANGED <<proc, username, logins>>
  BY DEF ClientStep, Register, BecomeOper, Wallops, Die, ClientQuits, histVars
<1>2. ASSUME NEW m \in Msg, m.text # "relogin", m.cmd # "USER", user[c] # NoUser,
             ChildSend(c, m), UNCHANGED user,
             \A d \in Conns : user[d] = NoUser => oper'[d] = oper[d]
      PROVE  LoginInv'
  <2>1. \A d \in Conns : d # c => toMaster'[d] = toMaster[d]
    BY <1>2 DEF ChildSend, TypeOK
  <2>2. toMaster'[c] = toMaster[c] \/ toMaster'[c] = Append(toMaster[c], m)
    BY <1>2 DEF ChildSend, TypeOK
  <2>3. Anonymous'
    BY <1>1, <1>2, <2>1 DEF LoginInv, Anonymous, LoggedIn
  <2>4. UserOnce'
    <3> SUFFICES ASSUME NEW d \in Conns, NEW k \in 1..Len(toMaster'[d])
                 PROVE  /\ toMaster'[d][k].text # "relogin"
                        /\ toMaster'[d][k].cmd = "USER" =>
                             k = 1 /\ toMaster'[d][k].nick = user[d] /\ ~LoggedIn(d)
      BY <1>1, <1>2 DEF UserOnce, LoggedIn
    <3>1. CASE toMaster'[d] = toMaster[d]
      BY <3>1 DEF LoginInv, UserOnce
    <3>2. CASE d = c /\ toMaster'[c] = Append(toMaster[c], m)
      <4>1. toMaster[c] \in Seq(Msg) BY DEF TypeOK
      <4>2. CASE k = Len(toMaster[c]) + 1
        BY <1>2, <3>2, <4>1, <4>2
      <4>3. CASE k # Len(toMaster[c]) + 1
        <5>1. k \in 1..Len(toMaster[c]) /\ toMaster'[d][k] = toMaster[c][k]
          BY <3>2, <4>1, <4>3
        <5> QED BY <3>2, <5>1 DEF LoginInv, UserOnce
      <4> QED BY <4>2, <4>3
    <3> QED BY <2>1, <2>2, <3>1, <3>2
  <2>5. Remembered' BY <1>1, <1>2 DEF LoginInv, Remembered, LoggedIn
  <2> QED BY <2>3, <2>4, <2>5 DEF LoginInv
<1>3. ASSUME NEW u \in Users, Register(c, u) PROVE LoginInv'
  <2> DEFINE m == [cmd |-> "USER", nick |-> u, text |-> "plain"]
  <2>1. /\ user' = [user EXCEPT ![c] = u] /\ user[c] = NoUser
        /\ u # NoUser /\ proc[c] # "none" /\ UNCHANGED oper
    BY <1>3 DEF Register, Session, InLoop
  <2>2. toMaster[c] = <<>> /\ ~LoggedIn(c)
    BY <2>1 DEF LoginInv, Anonymous
  <2>3. \A d \in Conns : d # c => toMaster'[d] = toMaster[d]
    BY <1>3 DEF Register, ChildSend, TypeOK
  <2>4. toMaster'[c] = <<>> \/ toMaster'[c] = <<m>>
    BY <1>3, <2>2 DEF Register, ChildSend, TypeOK
  <2>5. Anonymous'
    BY <1>1, <2>1, <2>3 DEF LoginInv, Anonymous, LoggedIn, TypeOK
  <2>6. UserOnce'
    <3> SUFFICES ASSUME NEW d \in Conns, NEW k \in 1..Len(toMaster'[d])
                 PROVE  /\ toMaster'[d][k].text # "relogin"
                        /\ toMaster'[d][k].cmd = "USER" =>
                             k = 1 /\ toMaster'[d][k].nick = user'[d] /\ ~LoggedIn(d)
      BY <1>1 DEF UserOnce, LoggedIn
    <3>1. CASE d = c
      <4>1. toMaster'[c] = <<m>> /\ Len(toMaster'[c]) = 1
        <5>1. Len(toMaster'[d]) # 0 OBVIOUS
        <5>2. toMaster'[c] # <<>> BY <3>1, <5>1
        <5> QED BY <2>4, <5>2
      <4>2. k = 1 /\ toMaster'[c][k] = m BY <3>1, <4>1
      <4> QED BY <2>1, <2>2, <3>1, <4>2 DEF TypeOK
    <3>2. CASE d # c
      BY <2>1, <2>3, <3>2 DEF LoginInv, UserOnce, TypeOK
    <3> QED BY <3>1, <3>2
  <2>7. Remembered'
    <3> SUFFICES ASSUME NEW p \in Procs, NEW d \in Conns, username[p][d] # NoUser
                 PROVE  username[p][d] = user'[d] /\ LoggedIn(d)
      BY <1>1 DEF Remembered, LoggedIn
    <3>1. username[p][d] = user[d] /\ LoggedIn(d)
      BY DEF LoginInv, Remembered
    <3> QED BY <2>1, <2>2, <3>1 DEF TypeOK
  <2> QED BY <2>5, <2>6, <2>7 DEF LoginInv
<1>4. CASE BecomeOper(c)
  <2>1. [cmd |-> "OPER", nick |-> user[c], text |-> "plain"] \in Msg
    BY DEF Msg, Text, TypeOK
  <2> QED BY <1>2, <1>4, <2>1 DEF BecomeOper, TypeOK
<1>5. ASSUME NEW t \in Texts, Wallops(c, t) \/ Die(c, t) PROVE LoginInv'
  <2>1. ASSUME NEW cmd \in {"WALLOPS", "DIE"}
        PROVE  [cmd |-> cmd, nick |-> user[c], text |-> t] \in Msg
    BY DEF Msg, Text, TypeOK
  <2>2. user[c] # NoUser
    BY <1>5 DEF Wallops, Die, LoginInv, Anonymous
  <2>3. t # "relogin" OBVIOUS
  <2> QED BY <1>2, <1>5, <2>1, <2>2, <2>3 DEF Wallops, Die
<1>6. CASE ClientQuits(c)
  BY <1>6, QuietLogin DEF ClientQuits, histVars
<1> QED BY <1>3, <1>4, <1>5, <1>6 DEF ClientStep

(* What is left when the first message of a stream was read.               *)
LEMMA TailProp ==
    ASSUME NEW S, NEW q \in Seq(S), q # <<>>, NEW k \in 1..Len(Tail(q))
    PROVE  k + 1 \in 1..Len(q) /\ k + 1 # 1 /\ Tail(q)[k] = q[k + 1]
<1>1. Len(q) \in Nat /\ Len(q) # 0 /\ Len(Tail(q)) = Len(q) - 1
  OBVIOUS
<1> QED BY <1>1

(* What a process does with the first message of a child, as far as logins *)
(* go: only a USER is remembered, with the name of the user.               *)
LEMMA ReadChildEffect ==
    ASSUME TypeOK, LoginInv, NEW p \in Procs, NEW c \in Conns, ReadChild(p, c)
    PROVE  /\ toMaster[c] # <<>> /\ toMaster' = [toMaster EXCEPT ![c] = Tail(@)]
           /\ user[c] # NoUser /\ UNCHANGED <<user, oper>>
           /\ \/ UNCHANGED <<username, logins>>
              \/ /\ Head(toMaster[c]).cmd = "USER"
                 /\ username' = [username EXCEPT ![p][c] = user[c]]
                 /\ logins' = Append(logins, c)
<1> DEFINE m == Head(toMaster[c])
<1>1. toMaster[c] # <<>> /\ toMaster[c] \in Seq(Msg)
  BY DEF ReadChild, TypeOK
<1>2. 1 \in 1..Len(toMaster[c]) /\ m = toMaster[c][1]
  BY <1>1
<1>3. m.cmd = "USER" => m.nick = user[c]
  BY <1>2 DEF LoginInv, UserOnce
<1>4. user[c] # NoUser
  BY <1>1 DEF LoginInv, Anonymous
<1> HIDE DEF m
<1>5. CASE UserFromChild(p, c, m)
  BY <1>1, <1>3, <1>4, <1>5 DEF ReadChild, UserFromChild, m
<1>6. CASE DropMalformed(m) \/ RelayFromChild(p, c, m) \/ DieFromChild(p, m)
  BY <1>1, <1>4, <1>6 DEF ReadChild, DropMalformed, RelayFromChild, DieFromChild, histVars
<1> QED BY <1>5, <1>6 DEF ReadChild, m

(* Reading a message keeps the names and the streams in accord.            *)
LEMMA ReadChildLogin ==
    ASSUME TypeOK, LoginInv, NEW p \in Procs, NEW c \in Conns, ReadChild(p, c),
           \A d \in Conns : proc'[d] = "none" => proc[d] = "none"
    PROVE  LoginInv'
<1>1. /\ toMaster[c] # <<>> /\ toMaster' = [toMaster EXCEPT ![c] = Tail(@)]
      /\ user[c] # NoUser /\ UNCHANGED <<user, oper>>
      /\ \/ UNCHANGED <<username, logins>>
         \/ /\ Head(toMaster[c]).cmd = "USER"
            /\ username' = [username EXCEPT ![p][c] = user[c]]
            /\ logins' = Append(logins, c)
  BY ReadChildEffect
<1>2. logins \in Seq(Conns) /\ toMaster[c] \in Seq(Msg) BY DEF TypeOK
<1>3. ASSUME NEW d \in Conns
      PROVE  (LoggedIn(d) => LoggedIn(d)') /\ (LoggedIn(d)' => LoggedIn(d) \/ d = c)
  BY <1>1, <1>2, SMTT(40) DEF LoggedIn
<1>4. Anonymous'
  BY <1>1, <1>3 DEF LoginInv, Anonymous, TypeOK
<1>5. UserOnce'
  <2> SUFFICES ASSUME NEW d \in Conns, NEW k \in 1..Len(toMaster'[d])
               PROVE  /\ toMaster'[d][k].text # "relogin"
                      /\ toMaster'[d][k].cmd = "USER" =>
                           k = 1 /\ toMaster'[d][k].nick = user[d] /\ ~LoggedIn(d)'
    BY <1>1 DEF UserOnce
  <2>1. CASE d # c
    BY <1>1, <1>3, <2>1 DEF LoginInv, UserOnce, TypeOK
  <2>2. CASE d = c
    <3>1. toMaster'[c] = Tail(toMaster[c]) BY <1>1 DEF TypeOK
    <3>2. /\ k + 1 \in 1..Len(toMaster[c]) /\ k + 1 # 1
          /\ toMaster'[c][k] = toMaster[c][k + 1]
      <4>1. k \in 1..Len(Tail(toMaster[c])) BY <2>2, <3>1
      <4>2. /\ k + 1 \in 1..Len(toMaster[c]) /\ k + 1 # 1
            /\ Tail(toMaster[c])[k] = toMaster[c][k + 1]
        BY <1>1, <1>2, <4>1, TailProp
      <4> QED BY <3>1, <4>2
    <3> QED BY <2>2, <3>2 DEF LoginInv, UserOnce
  <2> QED BY <2>1, <2>2
<1>6. Remembered'
  <2> SUFFICES ASSUME NEW q \in Procs, NEW d \in Conns, username'[q][d] # NoUser
               PROVE  username'[q][d] = user[d] /\ LoggedIn(d)'
    BY <1>1 DEF Remembered
  <2>1. CASE UNCHANGED username
    BY <1>3, <2>1 DEF LoginInv, Remembered
  <2>2. CASE username' = [username EXCEPT ![p][c] = user[c]] /\ logins' = Append(logins, c)
    <3>1. LoggedIn(c)'
      <4>1. Len(logins) + 1 \in 1..Len(logins') /\ logins'[Len(logins) + 1] = c
        BY <1>2, <2>2
      <4> QED BY <4>1 DEF LoggedIn
    <3>2. CASE q = p /\ d = c
      BY <2>2, <3>1, <3>2 DEF TypeOK
    <3>3. CASE ~(q = p /\ d = c)
      <4>1. username'[q][d] = username[q][d]
        BY <2>2, <3>3 DEF TypeOK
      <4> QED BY <1>3, <4>1 DEF LoginInv, Remembered
    <3> QED BY <3>2, <3>3
  <2> QED BY <1>1, <2>1, <2>2
<1> QED BY <1>4, <1>5, <1>6 DEF LoginInv

(* LoginInv is inductive.                                                  *)
LEMMA LoginStep ==
    ASSUME TypeOK, LoginInv, [Next]_vars
    PROVE  LoginInv'
<1>1. CASE UNCHANGED vars
  BY <1>1, QuietLogin DEF vars, histVars
<1>2. CASE Next
  <2>1. \A d \in Conns : proc'[d] = "none" => proc[d] = "none"
    BY <1>2, ForkedStays
  <2>2. ASSUME NEW c \in Conns, NewClient(c) PROVE LoginInv'
    <3>1. \A p \in Procs, d \in Conns :
              username'[p][d] \in {NoUser, username[p][d], username[Master][d]}
      <4>1. ASSUME NEW pair \in BOOLEAN, NEW up \in BOOLEAN, Fork(c, pair, up),
                   NEW p \in Procs, NEW d \in Conns
            PROVE  username'[p][d] \in {username[p][d], username[Master][d]}
        <5>1. username' = [username EXCEPT ![c] = IF pair THEN @ ELSE username[Master]]
          BY <4>1 DEF Fork
        <5>2. username \in [Procs -> [Conns -> Users \cup {NoUser}]] BY DEF TypeOK
        <5>3. username'[p] \in {username[p], username[Master]}
          BY <5>1, <5>2
        <5> QED BY <5>3
      <4>2. CASE UNCHANGED username
        BY <4>2
      <4> QED BY <2>2, <4>1, <4>2 DEF NewClient, Refuse, ForkFails
    <3>2. UNCHANGED <<toMaster, user, oper, logins>>
      BY <2>2 DEF NewClient, Refuse, ForkFails, Fork, histVars
    <3> QED BY <2>1, <3>1, <3>2, QuietLogin
  <2>3. ASSUME NEW p \in Procs, Signal(p) \/ Exit(p) PROVE LoginInv'
    <3>1. UNCHANGED <<toMaster, user, oper, logins>>
      BY <2>3 DEF Signal, SigTerm, SigHup, Crash, Exit, Gone, histVars
    <3>2. \A q \in Procs, d \in Conns : username'[q][d] \in {NoUser, username[q][d]}
      <4>1. CASE Gone(p)
        BY <4>1 DEF Gone, TypeOK
      <4>2. CASE UNCHANGED username
        BY <4>2
      <4> QED BY <2>3, <4>1, <4>2 DEF Signal, SigTerm, SigHup, Crash, Exit
    <3> QED BY <2>1, <3>1, <3>2, QuietLogin
  <2>4. ASSUME NEW p \in Procs, NEW c \in Conns, ChildLeft(p, c) \/ LostRace(p, c)
        PROVE  LoginInv'
    <3>1. UNCHANGED <<toMaster, user, oper, logins>>
      BY <2>4 DEF ChildLeft, LostRace, histVars
    <3>2. \A q \in Procs, d \in Conns : username'[q][d] \in {NoUser, username[q][d]}
      <4>1. username' = [username EXCEPT ![p][c] = NoUser]
        BY <2>4 DEF ChildLeft, LostRace
      <4> QED BY <4>1 DEF TypeOK
    <3> QED BY <2>1, <3>1, <3>2, QuietLogin
  <2>5. ASSUME NEW c \in Conns, ReadMaster(c) \/ MasterLeft(c) \/ StopServer(c)
        PROVE  LoginInv'
    BY <2>1, <2>5, QuietLogin DEF ReadMaster, MasterLeft, StopServer, histVars
  <2> QED BY <1>2, <2>1, <2>2, <2>3, <2>4, <2>5, ClientStepLogin, ReadChildLogin
          DEF Next, LoopStep
<1> QED BY <1>1, <1>2

(* A later session of the user of c was announced.                         *)
Superseded(c) ==
    \E i, j \in 1..Len(logins) : SameLogin(i, j) /\ logins[i] = c

(* The history of logins only grows, and who is in it keeps his user.      *)
LEMMA LoginsGrow ==
    ASSUME TypeOK, LoginInv, [Next]_vars
    PROVE  /\ logins' = logins \/ \E c \in Conns : logins' = Append(logins, c)
           /\ \A d \in Conns : user[d] # NoUser => user'[d] = user[d]
<1>1. CASE UNCHANGED vars
  BY <1>1 DEF vars, histVars
<1>2. ASSUME NEW c \in Conns, NewClient(c) PROVE UNCHANGED <<logins, user>>
  BY <1>2 DEF NewClient, Refuse, ForkFails, Fork, histVars
<1>3. ASSUME NEW c \in Conns, ClientStep(c)
      PROVE  UNCHANGED logins /\ \A d \in Conns : user[d] # NoUser => user'[d] = user[d]
  BY <1>3 DEF ClientStep, Register, BecomeOper, Wallops, Die, ClientQuits, histVars, TypeOK
<1>4. ASSUME NEW p \in Procs, Signal(p) PROVE UNCHANGED <<logins, user>>
  BY <1>4 DEF Signal, SigTerm, SigHup, Crash, Gone, histVars
<1>5. ASSUME NEW p \in Procs, NEW c \in Conns, ReadChild(p, c)
      PROVE  (logins' = logins \/ logins' = Append(logins, c)) /\ UNCHANGED user
  BY <1>5, ReadChildEffect
<1>6. ASSUME NEW p \in Procs, LoopStep(p), \A c \in Conns : ~ReadChild(p, c)
      PROVE  UNCHANGED <<logins, user>>
  BY <1>6 DEF LoopStep, ChildLeft, LostRace, ReadMaster, MasterLeft, StopServer,
              Exit, Gone, histVars
<1>7. ASSUME NEW p \in Procs, LoopStep(p)
      PROVE  /\ logins' = logins \/ \E c \in Conns : logins' = Append(logins, c)
             /\ \A d \in Conns : user[d] # NoUser => user'[d] = user[d]
  BY <1>5, <1>6, <1>7
<1> QED BY <1>1, <1>2, <1>3, <1>4, <1>7 DEF Next

(* Hence what was superseded stays so.                                     *)
LEMMA SupersededStays ==
    ASSUME TypeOK, LoginInv, [Next]_vars, NEW c \in Conns, Superseded(c)
    PROVE  Superseded(c)'
<1>1. PICK i \in 1..Len(logins), j \in 1..Len(logins) : SameLogin(i, j) /\ logins[i] = c
  BY DEF Superseded
<1>2. logins \in Seq(Conns) BY DEF TypeOK
<1>3. /\ i \in 1..Len(logins') /\ j \in 1..Len(logins')
      /\ logins'[i] = logins[i] /\ logins'[j] = logins[j]
  <2>1. CASE logins' = logins BY <2>1
  <2>2. ASSUME NEW d \in Conns, logins' = Append(logins, d)
        PROVE  /\ i \in 1..Len(logins') /\ j \in 1..Len(logins')
               /\ logins'[i] = logins[i] /\ logins'[j] = logins[j]
    BY <1>2, <2>2
  <2> QED BY <2>1, <2>2, LoginsGrow
<1>4. ASSUME NEW k \in 1..Len(logins) PROVE user'[logins[k]] = user[logins[k]]
  <2>1. logins[k] \in Conns /\ LoggedIn(logins[k])
    BY <1>2 DEF LoggedIn
  <2> QED BY <2>1, LoginsGrow DEF LoginInv, Anonymous
<1>5. SameLogin(i, j)'
  BY <1>1, <1>3, <1>4 DEF SameLogin
<1> QED BY <1>1, <1>3, <1>5 DEF Superseded

(* "You are logged from another location." is on its way to c.             *)
ToldRelogin(c) == \E k \in 1..Len(toChild[c]) : toChild[c][k].text = "relogin"

(* A message without that text does not bring it.                          *)
LEMMA SendOther ==
    ASSUME TypeOK, NEW S \in SUBSET Conns, NEW m \in Msg, m.text # "relogin",
           MasterSend(S, m), NEW c \in Conns, ToldRelogin(c)'
    PROVE  ToldRelogin(c)
<1>1. toChild[c] \in Seq(Msg) BY DEF TypeOK
<1>2. toChild'[c] = toChild[c] \/ toChild'[c] = Append(toChild[c], m)
  BY DEF MasterSend
<1>3. PICK k \in 1..Len(toChild'[c]) : toChild'[c][k].text = "relogin"
  BY DEF ToldRelogin
<1>4. k \in 1..Len(toChild[c]) /\ toChild'[c][k] = toChild[c][k]
  BY <1>1, <1>2, <1>3
<1> QED BY <1>3, <1>4 DEF ToldRelogin

(* m_user() writes it to the earlier sessions of the same user.            *)
LEMMA UserTells ==
    ASSUME TypeOK, LoginInv, NEW p \in Procs, NEW c \in Conns, ReadChild(p, c),
           UserFromChild(p, c, Head(toMaster[c])), NEW d \in Conns, ToldRelogin(d)'
    PROVE  ToldRelogin(d) \/ Superseded(d)'
<1> DEFINE m == Head(toMaster[c])
<1>1. /\ m.nick = user[c] /\ user[c] # NoUser /\ UNCHANGED user
      /\ logins' = Append(logins, c)
  <2>1. toMaster[c] # <<>> /\ toMaster[c] \in Seq(Msg)
    BY DEF ReadChild, TypeOK
  <2>2. 1 \in 1..Len(toMaster[c]) /\ m = toMaster[c][1]
    BY <2>1
  <2>3. m.cmd = "USER" => m.nick = user[c]
    BY <2>2 DEF LoginInv, UserOnce
  <2> QED BY <2>1, <2>3 DEF UserFromChild, ReadChild, LoginInv, Anonymous
<1>2. CASE d \notin SameUser(p, c, m.nick)
  <2>1. toChild'[d] = toChild[d]
    BY <1>2 DEF UserFromChild, MasterSend
  <2> QED BY <2>1 DEF ToldRelogin
<1>3. CASE d \in SameUser(p, c, m.nick)
  <2>1. d # c /\ username[p][d] = user[c]
    BY <1>1, <1>3 DEF SameUser
  <2>2. user[d] = user[c] /\ LoggedIn(d)
    BY <1>1, <2>1 DEF LoginInv, Remembered
  <2>3. PICK i \in 1..Len(logins) : logins[i] = d
    BY <2>2 DEF LoggedIn
  <2>4. logins \in Seq(Conns) BY DEF TypeOK
  <2>5. /\ i \in 1..Len(logins') /\ logins'[i] = d
        /\ \E j \in 1..Len(logins') : i < j /\ logins'[j] = c
    <3>1. Len(logins) + 1 \in 1..Len(logins') /\ i < Len(logins) + 1
      BY <1>1, <2>3, <2>4
    <3>2. logins'[Len(logins) + 1] = c
      BY <1>1, <2>4
    <3>3. i \in 1..Len(logins') /\ logins'[i] = d
      BY <1>1, <2>3, <2>4
    <3> QED BY <3>1, <3>2, <3>3
  <2>6. PICK j \in 1..Len(logins') : i < j /\ logins'[j] = c
    BY <2>5
  <2>7. SameLogin(i, j)'
    BY <1>1, <2>2, <2>5, <2>6 DEF SameLogin
  <2> QED BY <2>5, <2>6, <2>7 DEF Superseded
<1> QED BY <1>2, <1>3

(* No step tells a session so unless a later one was announced.            *)
LEMMA ToldStep ==
    ASSUME TypeOK, LoginInv, [Next]_vars, NEW d \in Conns, ToldRelogin(d)'
    PROVE  ToldRelogin(d) \/ Superseded(d)'
<1>1. CASE UNCHANGED toChild
  BY <1>1 DEF ToldRelogin
<1>2. ASSUME NEW p \in Procs, Gone(p) PROVE ToldRelogin(d)
  <2>1. toChild'[d] = toChild[d] \/ toChild'[d] = <<>>
    BY <1>2 DEF Gone
  <2>2. toChild'[d] # <<>> BY DEF ToldRelogin
  <2> QED BY <2>1, <2>2 DEF ToldRelogin
<1>3. ASSUME NEW c \in Conns, ReadMaster(c) PROVE ToldRelogin(d)
  <2>1. CASE d # c
    BY <1>3, <2>1 DEF ReadMaster, ToldRelogin, TypeOK
  <2>2. CASE d = c
    <3>1. /\ toChild[d] # <<>> /\ toChild[d] \in Seq(Msg)
          /\ toChild'[d] = Tail(toChild[d])
      BY <1>3, <2>2 DEF ReadMaster, TypeOK
    <3>2. PICK k \in 1..Len(toChild'[d]) : toChild'[d][k].text = "relogin"
      BY DEF ToldRelogin
    <3>3. k + 1 \in 1..Len(toChild[d]) /\ toChild'[d][k] = toChild[d][k + 1]
      <4>1. k \in 1..Len(Tail(toChild[d])) BY <3>1
      <4>2. k + 1 \in 1..Len(toChild[d]) /\ Tail(toChild[d])[k] = toChild[d][k + 1]
        BY <3>1, <4>1, TailProp
      <4> QED BY <3>1, <4>2
    <3> QED BY <3>2, <3>3 DEF ToldRelogin
  <2> QED BY <2>1, <2>2
<1>4. ASSUME NEW p \in Procs, NEW ok \in BOOLEAN, SigHup(p, ok) PROVE ToldRelogin(d)
  <2>1. [cmd |-> "REHASH", nick |-> NoUser, text |-> "plain"] \in Msg
    BY DEF Msg, Text
  <2>2. childs[p] \in SUBSET Conns BY DEF TypeOK
  <2> QED BY <1>1, <1>4, <2>1, <2>2, SendOther DEF SigHup, ToldRelogin
<1>5. ASSUME NEW p \in Procs, NEW c \in Conns, ReadChild(p, c)
      PROVE  ToldRelogin(d) \/ Superseded(d)'
  <2> DEFINE m == Head(toMaster[c])
  <2>1. m \in Msg /\ m.text # "relogin"
    <3>1. toMaster[c] # <<>> /\ toMaster[c] \in Seq(Msg)
      BY <1>5 DEF ReadChild, TypeOK
    <3>2. 1 \in 1..Len(toMaster[c]) /\ m = toMaster[c][1] BY <3>1
    <3> QED BY <3>1, <3>2 DEF LoginInv, UserOnce
  <2>2. childs[p] \in SUBSET Conns BY DEF TypeOK
  <2> HIDE DEF m
  <2>3. CASE DropMalformed(m)
    BY <1>1, <2>3 DEF DropMalformed
  <2>4. CASE RelayFromChild(p, c, m) \/ DieFromChild(p, m)
    <3>1. \E S \in SUBSET Conns : MasterSend(S, m)
      BY <2>2, <2>4 DEF RelayFromChild, DieFromChild, Relayed
    <3> QED BY <2>1, <3>1, SendOther
  <2>5. CASE UserFromChild(p, c, m)
    BY <1>5, <2>5, UserTells DEF m
  <2> QED BY <1>5, <2>3, <2>4, <2>5 DEF ReadChild, m
<1>6. ASSUME NEW c \in Conns, NewClient(c) \/ ClientStep(c) PROVE UNCHANGED toChild
  BY <1>6 DEF NewClient, Refuse, ForkFails, Fork, ClientStep, Register, BecomeOper,
              Wallops, Die, ClientQuits
<1>7. ASSUME NEW p \in Procs, Signal(p) PROVE ToldRelogin(d)
  BY <1>1, <1>2, <1>4, <1>7 DEF Signal, SigTerm, Crash, ToldRelogin
<1>8. ASSUME NEW p \in Procs, LoopStep(p) PROVE ToldRelogin(d) \/ Superseded(d)'
  BY <1>1, <1>2, <1>3, <1>5, <1>8 DEF LoopStep, ChildLeft, LostRace, MasterLeft,
     StopServer, Exit
<1> QED BY <1>1, <1>6, <1>7, <1>8 DEF Next, vars

(* Nobody has logged in at first.                                          *)
LEMMA LoginInit ==
    ASSUME Init
    PROVE  TypeOK /\ LoginInv
<1>1. TypeOK BY DEF Init, TypeOK
<1>2. logins = <<>> /\ \A c \in Conns : toMaster[c] = <<>>
  BY DEF Init
<1>3. \A c \in Conns : ~LoggedIn(c) BY <1>2 DEF LoggedIn
<1>4. Anonymous /\ Remembered
  BY <1>2, <1>3 DEF Init, Anonymous, Remembered
<1>5. UserOnce BY <1>2 DEF UserOnce
<1> QED BY <1>1, <1>4, <1>5 DEF LoginInv

(***************************************************************************)
(* m_user(): for any number of connections and users, a session is only    *)
(* told that it was superseded because a later login of its own user was   *)
(* announced, also when children have lost their socket pair and read the  *)
(* streams of others.                                                      *)
(***************************************************************************)
THEOREM ReloginHolds == Spec => []ReloginJustified
<1> DEFINE Inv == TypeOK /\ LoginInv /\ ReloginJustified
<1>1. ReloginJustified = \A c \in Conns : ToldRelogin(c) => Superseded(c)
  BY DEF ReloginJustified, ToldRelogin, Superseded
<1>2. Init => Inv
  <2> SUFFICES ASSUME Init PROVE ReloginJustified
    BY LoginInit
  <2>1. \A c \in Conns : ~ToldRelogin(c)
    BY DEF Init, ToldRelogin
  <2> QED BY <1>1, <2>1
<1>3. Inv /\ TypeOK' /\ [Next]_vars => Inv'
  <2> SUFFICES ASSUME Inv, TypeOK', [Next]_vars PROVE Inv'
    OBVIOUS
  <2>1. LoginInv' BY LoginStep
  <2>2. ASSUME NEW c \in Conns, ToldRelogin(c)' PROVE Superseded(c)'
    BY <1>1, <2>2, ToldStep, SupersededStays
  <2>3. ReloginJustified'
    BY <2>2 DEF ReloginJustified, ToldRelogin, Superseded
  <2> QED BY <2>1, <2>3
<1>4. Inv => ReloginJustified OBVIOUS
<1> QED BY <1>2, <1>3, <1>4, TypeCorrect, PTL DEF Spec
-----------------------------------------------------------------------------
(* The session of c is over, on its way out, told to leave, or could not   *)
(* be told.                                                                *)
Doomed(c) == Leaving(c) \/ HasDie(c) \/ c \in lost

(* While socketpair() works, the master remembers the name of every live   *)
(* session whose USER it has handled: m_user() finds it by that name.      *)
Known ==
    InLoop(Master) => \A c \in Live : LoggedIn(c) => username[Master][c] = user[c]

(* An announced session belongs to a process that was forked.              *)
LEMMA LoggedInForked ==
    ASSUME LoginInv, NEW c \in Conns, LoggedIn(c)
    PROVE  user[c] # NoUser /\ proc[c] # "none"
BY DEF LoginInv, Anonymous

(* A session that leaves never comes back.                                 *)
LEMMA LeavingStays ==
    ASSUME TypeOK, Next, NEW c \in Conns, proc[c] # "none", Leaving(c)
    PROVE  Leaving(c)'
<1>1. ASSUME NEW d \in Conns, NewClient(d) PROVE Leaving(c)'
  BY <1>1 DEF NewClient, Refuse, ForkFails, Fork, Leaving, InLoop, TypeOK
<1>2. ASSUME NEW d \in Conns, ClientStep(d) PROVE Leaving(c)'
  BY <1>2 DEF ClientStep, Register, BecomeOper, Wallops, Die, ClientQuits, Leaving,
              InLoop, TypeOK
<1>3. ASSUME NEW p \in Procs, Signal(p) PROVE Leaving(c)'
  BY <1>3 DEF Signal, SigTerm, SigHup, Crash, Gone, Leaving, InLoop, TypeOK
<1>4. ASSUME NEW p \in Procs, NEW d \in Conns, ReadChild(p, d) PROVE Leaving(c)'
  <2>1. UNCHANGED <<proc, irc>> \/ (InLoop(p) /\ QuitProcess(p))
    BY <1>4 DEF ReadChild, DropMalformed, RelayFromChild, DieFromChild, UserFromChild
  <2> QED BY <2>1 DEF QuitProcess, Leaving, InLoop, TypeOK
<1>5. ASSUME NEW p \in Procs, LoopStep(p), \A d \in Conns : ~ReadChild(p, d)
      PROVE  Leaving(c)'
  BY <1>5 DEF LoopStep, QuitProcess, ChildLeft, LostRace, ReadMaster,
              MasterLeft, StopServer, Exit, Gone, Leaving, InLoop, TypeOK
<1> QED BY <1>1, <1>2, <1>3, <1>4, <1>5 DEF Next, LoopStep

(* A broadcast leaves a DIE in its stream.                                 *)
LEMMA SendKeepsDie ==
    ASSUME TypeOK, NEW S, NEW m, MasterSend(S, m), NEW c \in Conns
    PROVE  (HasDie(c) => HasDie(c)') /\ lost \subseteq lost'
<1>1. toChild[c] \in Seq(Msg) BY DEF TypeOK
<1>2. toChild'[c] = toChild[c] \/ toChild'[c] = Append(toChild[c], m)
  BY DEF MasterSend
<1>3. HasDie(c) => HasDie(c)'
  BY <1>1, <1>2, SMTT(40) DEF HasDie
<1> QED BY <1>3 DEF MasterSend

(* A DIE on its way stays there until its process reads it, and leaves.    *)
LEMMA DieStays ==
    ASSUME TypeOK, Next, NEW c \in Conns, HasDie(c) \/ c \in lost
    PROVE  Doomed(c)'
<1>1. CASE UNCHANGED <<toChild, lost>>
  BY <1>1 DEF HasDie, Doomed
<1>2. ASSUME NEW S, NEW m, MasterSend(S, m) PROVE Doomed(c)'
  BY <1>2, SendKeepsDie DEF Doomed
<1>3. ASSUME NEW p \in Procs, Gone(p) PROVE Doomed(c)'
  <2>1. CASE p = c
    BY <1>3, <2>1 DEF Gone, Doomed, Leaving, InLoop, TypeOK
  <2>2. CASE p # c
    BY <1>3, <2>2 DEF Gone, Doomed, HasDie, histVars
  <2> QED BY <2>1, <2>2
<1>4. ASSUME NEW d \in Conns, ReadMaster(d) PROVE Doomed(c)'
  <2>1. CASE c \in lost
    BY <1>4, <2>1 DEF ReadMaster, histVars, Doomed
  <2>2. CASE d # c
    BY <1>4, <2>2 DEF ReadMaster, histVars, Doomed, HasDie, TypeOK
  <2>3. CASE d = c /\ HasDie(c)
    <3>1. toChild[c] \in Seq(Msg) /\ toChild[c] # <<>> /\ toChild'[c] = Tail(toChild[c])
      BY <1>4, <2>3 DEF ReadMaster, TypeOK
    <3>2. CASE Head(toChild[c]).cmd = "DIE"
      BY <1>4, <2>3, <3>2 DEF ReadMaster, QuitProcess, Doomed, Leaving, InLoop, TypeOK
    <3>3. CASE Head(toChild[c]).cmd # "DIE"
      <4>1. PICK k \in 1..Len(toChild[c]) : toChild[c][k].cmd = "DIE"
        BY <2>3 DEF HasDie
      <4>2. k # 1
        BY <3>1, <3>3, <4>1
      <4>3. k - 1 \in 1..Len(toChild'[c]) /\ toChild'[c][k - 1] = toChild[c][k]
        BY <3>1, <4>1, <4>2
      <4> QED BY <4>1, <4>3 DEF Doomed, HasDie
    <3> QED BY <3>2, <3>3
  <2> QED BY <2>1, <2>2, <2>3
<1>5. ASSUME NEW d \in Conns, NewClient(d) \/ ClientStep(d)
      PROVE  UNCHANGED <<toChild, lost>>
  BY <1>5 DEF NewClient, Refuse, ForkFails, Fork, ClientStep, Register, BecomeOper,
              Wallops, Die, ClientQuits, histVars
<1>6. ASSUME NEW p \in Procs, Signal(p) PROVE Doomed(c)'
  BY <1>1, <1>2, <1>3, <1>6 DEF Signal, SigTerm, SigHup, Crash, histVars
<1>7. ASSUME NEW p \in Procs, NEW d \in Conns, ReadChild(p, d) PROVE Doomed(c)'
  BY <1>1, <1>2, <1>7 DEF ReadChild, DropMalformed, RelayFromChild, DieFromChild,
                          UserFromChild, histVars
<1>8. ASSUME NEW p \in Procs, LoopStep(p) PROVE Doomed(c)'
  BY <1>1, <1>3, <1>4, <1>7, <1>8 DEF LoopStep, ChildLeft, LostRace, MasterLeft,
     StopServer, Exit, histVars
<1> QED BY <1>1, <1>5, <1>6, <1>8 DEF Next

(* The master goes on knowing who is logged in.                            *)
LEMMA KnownStep ==
    ASSUME TypeOK, LoginInv, Tracked, Known, Next, cutOff' = {}
    PROVE  Known'
<1>1. ASSUME Live' \subseteq Live, InLoop(Master)' => InLoop(Master),
             UNCHANGED logins,
             \A d \in Live' : LoggedIn(d) => user'[d] = user[d],
             InLoop(Master)' => \A d \in Live' : LoggedIn(d) =>
                                    username'[Master][d] = username[Master][d]
      PROVE  Known'
  BY <1>1 DEF Known, LoggedIn
<1>2. \A d \in Conns : LoggedIn(d) => user[d] # NoUser /\ proc[d] # "none"
  BY LoggedInForked
<1>3. ASSUME NEW c \in Conns, NewClient(c) PROVE Known'
  <2>1. CASE Refuse(c) \/ ForkFails(c)
    <3>1. Live' \subseteq Live BY <2>1, NoForkTracked
    <3> QED BY <1>1, <2>1, <3>1 DEF Refuse, ForkFails, InLoop, histVars
  <2>2. ASSUME NEW pair \in BOOLEAN, NEW up \in BOOLEAN, Fork(c, pair, up) PROVE Known'
    <3>1. Live' \subseteq Live \cup {c} BY <2>2, ForkWithPair
    <3>2. UNCHANGED <<user, logins>> /\ InLoop(Master) /\ ~LoggedIn(c)
      BY <1>2, <2>2 DEF Fork
    <3>3. username'[Master] = username[Master]
      BY <2>2 DEF Fork, TypeOK
    <3> QED BY <3>1, <3>2, <3>3 DEF Known, LoggedIn
  <2> QED BY <1>3, <2>1, <2>2 DEF NewClient
<1>4. ASSUME NEW c \in Conns, ClientStep(c) PROVE Known'
  <2>1. Live' \subseteq Live /\ UNCHANGED <<proc, username, logins>>
    BY <1>4 DEF ClientStep, Register, BecomeOper, Wallops, Die, ClientQuits, histVars,
                Live, InLoop
  <2>2. \A d \in Conns : user[d] # NoUser => user'[d] = user[d]
    BY <1>4, LoginsGrow DEF Next
  <2> QED BY <1>1, <1>2, <2>1, <2>2 DEF InLoop, Live
<1>5. ASSUME NEW p \in Procs, Signal(p) \/ LoopStep(p) PROVE Live' \subseteq Live
  BY <1>5, OtherStepsTracked
<1>6. ASSUME NEW p \in Procs, Gone(p), Live' \subseteq Live PROVE Known'
  <2>1. CASE p = Master
    BY <1>6, <2>1 DEF Gone, Known, InLoop, TypeOK
  <2>2. CASE p # Master
    BY <1>1, <1>6, <2>2 DEF Gone, InLoop, histVars, TypeOK
  <2> QED BY <2>1, <2>2
<1>7. ASSUME NEW p \in Procs, Signal(p) PROVE Known'
  <2>1. CASE Crash(p)
    BY <1>5, <1>6, <1>7, <2>1 DEF Crash
  <2>2. CASE SigTerm(p)
    BY <1>1, <1>5, <1>7, <2>2 DEF SigTerm, histVars, InLoop, TypeOK
  <2>3. ASSUME NEW ok \in BOOLEAN, SigHup(p, ok) PROVE Known'
    BY <1>1, <1>5, <1>7, <2>3 DEF SigHup, InLoop, TypeOK
  <2> QED BY <1>7, <2>1, <2>2, <2>3 DEF Signal
<1>8. ASSUME NEW p \in Procs, NEW c \in Conns, ReadChild(p, c) PROVE Known'
  <2>1. p = Master /\ InLoop(Master) /\ Live' \subseteq Live
    BY <1>5, <1>8 DEF ReadChild, Tracked, LoopStep
  <2>2. CASE UNCHANGED <<username, logins>>
    BY <1>1, <1>8, <2>1, <2>2 DEF ReadChild
  <2>3. CASE username' = [username EXCEPT ![p][c] = user[c]] /\ logins' = Append(logins, c)
    <3>1. ASSUME NEW d \in Live, LoggedIn(d)', d # c PROVE LoggedIn(d)
      <4>1. logins \in Seq(Conns) BY DEF TypeOK
      <4>2. PICK k \in 1..Len(logins') : logins'[k] = d
        BY <3>1 DEF LoggedIn
      <4>3. k \in 1..Len(logins) /\ logins[k] = d
        BY <2>3, <3>1, <4>1, <4>2
      <4> QED BY <4>3 DEF LoggedIn
    <3>2. \A d \in Conns : username'[Master][d] = IF d = c THEN user[c]
                                                  ELSE username[Master][d]
      BY <2>1, <2>3 DEF TypeOK
    <3> QED BY <1>8, <2>1, <3>1, <3>2 DEF Known, ReadChild, Live
  <2> QED BY <1>8, <2>2, <2>3, ReadChildEffect
<1>9. ASSUME NEW p \in Procs, NEW c \in Conns, ChildLeft(p, c) \/ LostRace(p, c)
      PROVE  Known'
  <2>1. /\ p = Master /\ InLoop(Master) /\ ChildLeft(p, c)
    BY <1>9 DEF ChildLeft, LostRace, Tracked
  <2>2. c \notin Live /\ Live' = Live
    BY <2>1 DEF ChildLeft, Tracked, Live, InLoop
  <2>3. ASSUME NEW d \in Live PROVE username'[Master][d] = username[Master][d]
    BY <2>1, <2>2 DEF ChildLeft, Live, TypeOK
  <2> QED BY <1>1, <2>1, <2>2, <2>3 DEF ChildLeft, histVars
<1>10. ASSUME NEW c \in Conns, ReadMaster(c) \/ MasterLeft(c) \/ StopServer(c) PROVE Known'
  <2>1. UNCHANGED <<username, logins, user>> /\ (InLoop(Master)' => InLoop(Master))
    BY <1>10 DEF ReadMaster, QuitProcess, MasterLeft, StopServer, histVars, InLoop, TypeOK
  <2>2. Live' \subseteq Live
    BY <1>5, <1>10 DEF LoopStep
  <2> QED BY <1>1, <2>1, <2>2
<1>11. ASSUME NEW p \in Procs, Exit(p) PROVE Known'
  BY <1>5, <1>6, <1>11 DEF Exit, LoopStep
<1> QED BY <1>3, <1>4, <1>7, <1>8, <1>9, <1>10, <1>11 DEF Next, LoopStep

(* A step that supersedes a session dooms it: m_user() writes to every     *)
(* session of that name.                                                   *)
LEMMA NewlySuperseded ==
    ASSUME TypeOK, LoginInv, Tracked, Known, Next, NEW d \in Conns,
           Superseded(d)', ~Superseded(d)
    PROVE  Doomed(d)'
<1>1. PICK i \in 1..Len(logins'), j \in 1..Len(logins') :
          SameLogin(i, j)' /\ logins'[i] = d
  BY DEF Superseded
<1>2. logins \in Seq(Conns) BY DEF TypeOK
<1>3. ASSUME NEW k \in 1..Len(logins) PROVE user'[logins[k]] = user[logins[k]]
  <2>1. logins[k] \in Conns /\ LoggedIn(logins[k])
    BY <1>2 DEF LoggedIn
  <2> QED BY <2>1, LoginsGrow DEF LoginInv, Anonymous
<1>4. ~(i \in 1..Len(logins) /\ j \in 1..Len(logins)
        /\ logins'[i] = logins[i] /\ logins'[j] = logins[j])
  BY <1>1, <1>3 DEF SameLogin, Superseded
<1>5. ASSUME NEW p \in Procs, NEW c \in Conns, ReadChild(p, c), logins' # logins
      PROVE  Doomed(d)'
  <2> DEFINE m == Head(toMaster[c])
  <2>1. /\ m.cmd = "USER" /\ logins' = Append(logins, c) /\ UNCHANGED user
        /\ user[c] # NoUser
    BY <1>5, ReadChildEffect
  <2>2. p = Master /\ InLoop(Master)
    BY <1>5 DEF ReadChild, Tracked
  <2>3. /\ UserFromChild(p, c, m)
    BY <1>5, <2>1 DEF ReadChild, DropMalformed, RelayFromChild, DieFromChild, histVars
  <2>4. m.nick = user[c] /\ ~LoggedIn(c)
    <3>1. toMaster[c] # <<>> /\ toMaster[c] \in Seq(Msg)
      BY <1>5 DEF ReadChild, TypeOK
    <3>2. 1 \in 1..Len(toMaster[c]) /\ m = toMaster[c][1]
      BY <3>1
    <3> QED BY <2>1, <3>2 DEF LoginInv, UserOnce
  <2>5. i < j /\ user[d] = user[logins'[j]]
    BY <1>1, <2>1 DEF SameLogin
  <2>6. i \in 1..Len(logins) /\ logins[i] = d /\ logins'[j] = c
    BY <1>2, <1>4, <1>1, <2>1, <2>5
  <2>7. LoggedIn(d) /\ d # c /\ user[d] = user[c]
    BY <2>4, <2>5, <2>6 DEF LoggedIn
  <2>8. CASE ~InLoop(d)
    BY <2>3, <2>8 DEF UserFromChild, Doomed, Leaving, InLoop
  <2>9. CASE InLoop(d)
    <3>1. d \in childs[Master] /\ username[Master][d] = user[d]
      BY <2>2, <2>7, <2>9 DEF Tracked, Known, Live
    <3>2. d \in SameUser(p, c, m.nick)
      BY <2>2, <2>4, <2>7, <3>1 DEF SameUser
    <3>3. CASE RoomFor(d)
      <4> DEFINE die == [cmd |-> "DIE", nick |-> m.nick, text |-> "relogin"]
      <4>1. toChild'[d] = Append(toChild[d], die) /\ toChild[d] \in Seq(Msg)
        BY <2>3, <3>2, <3>3 DEF UserFromChild, MasterSend, TypeOK
      <4>2. die.cmd = "DIE" OBVIOUS
      <4> HIDE DEF die
      <4>3. Len(toChild[d]) + 1 \in 1..Len(toChild'[d]) /\ toChild'[d][Len(toChild[d]) + 1] = die
        BY <4>1
      <4> QED BY <4>2, <4>3 DEF Doomed, HasDie
    <3>4. CASE ~RoomFor(d)
      BY <2>3, <3>2, <3>4 DEF UserFromChild, MasterSend, Doomed
    <3> QED BY <3>3, <3>4
  <2> QED BY <2>8, <2>9
<1>6. logins' # logins
  BY <1>1, <1>4
<1>7. ASSUME NEW c \in Conns, NewClient(c) \/ ClientStep(c) PROVE FALSE
  BY <1>6, <1>7 DEF NewClient, Refuse, ForkFails, Fork, ClientStep, Register,
     BecomeOper, Wallops, Die, ClientQuits, histVars
<1>8. ASSUME NEW p \in Procs, Signal(p) PROVE FALSE
  BY <1>6, <1>8 DEF Signal, SigTerm, SigHup, Crash, Gone, histVars
<1>9. ASSUME NEW p \in Procs, LoopStep(p) PROVE \E c \in Conns : ReadChild(p, c)
  BY <1>6, <1>9 DEF LoopStep, ChildLeft, LostRace, ReadMaster, MasterLeft, StopServer,
     Exit, Gone, histVars
<1> QED BY <1>5, <1>6, <1>7, <1>8, <1>9 DEF Next

(***************************************************************************)
(* m_user(): for any number of connections, any user names and any size of *)
(* the socket pairs, once a later session of a user was announced and no   *)
(* fork went without its socket pair, each earlier one is leaving, has a   *)
(* DIE in its stream or is one the DIE could not be written to.  The       *)
(* master needs to have a child_t for every live process (Tracked) and to  *)
(* remember the name of every one it heard a USER of (Known).              *)
(***************************************************************************)
THEOREM DuplicateLoginHolds == Spec => []DuplicateLoginDoomed
<1> DEFINE AllDoomed == \A c \in Conns : Superseded(c) => Doomed(c)
           Inv == /\ TypeOK /\ LoginInv
                  /\ cutOff = {} => Tracked /\ Known /\ AllDoomed
<1>1. Init => Inv
  <2> SUFFICES ASSUME Init PROVE Inv
    OBVIOUS
  <2>1. TypeOK /\ LoginInv BY LoginInit
  <2>2. Live = {} /\ (\A c \in Conns : childs[c] = {}) /\ logins = <<>>
    BY DEF Init, Live, InLoop
  <2>3. \A c \in Conns : ~Superseded(c)
    BY <2>2 DEF Superseded
  <2> QED BY <2>1, <2>2, <2>3 DEF Tracked, Known
<1>2. Inv /\ TypeOK' /\ [Next]_vars => Inv'
  <2> SUFFICES ASSUME Inv, TypeOK', [Next]_vars PROVE Inv'
    OBVIOUS
  <2>1. LoginInv' BY LoginStep
  <2>2. CASE UNCHANGED vars
    BY <2>1, <2>2 DEF vars, histVars, Tracked, Known, Live, InLoop, LoggedIn,
       Superseded, SameLogin, Doomed, Leaving, HasDie
  <2>3. ASSUME Next, cutOff' = {} PROVE Tracked' /\ Known' /\ AllDoomed'
    <3>1. Tracked /\ Known /\ AllDoomed
      BY <2>3, CutOffGrows
    <3>2. Tracked'
      BY <2>3, <3>1, NoForkTracked, ForkWithPair, OtherStepsTracked DEF Next, NewClient
    <3>3. Known' BY <2>3, <3>1, KnownStep
    <3>4. ASSUME NEW c \in Conns, Superseded(c)' PROVE Doomed(c)'
      <4>1. CASE ~Superseded(c)
        BY <2>3, <3>1, <3>4, <4>1, NewlySuperseded
      <4>2. CASE Superseded(c)
        <5>1. LoggedIn(c) BY <4>2 DEF Superseded, LoggedIn
        <5>2. proc[c] # "none" BY <5>1, LoggedInForked
        <5>3. Doomed(c) BY <3>1, <4>2
        <5> QED BY <2>3, <5>2, <5>3, LeavingStays, DieStays DEF Doomed
      <4> QED BY <4>1, <4>2
    <3> QED BY <3>2, <3>3, <3>4
  <2> QED BY <2>1, <2>2, <2>3
<1>3. Inv => DuplicateLoginDoomed
  <2> SUFFICES ASSUME TypeOK, AllDoomed, NEW i \in 1..Len(logins), NEW j \in 1..Len(logins),
                      SameLogin(i, j)
               PROVE  Doomed(logins[i])
    BY DEF DuplicateLoginDoomed, Doomed
  <2>1. logins[i] \in Conns BY DEF TypeOK
  <2> QED BY <2>1 DEF Superseded
<1> QED BY <1>1, <1>2, <1>3, TypeCorrect, PTL DEF Spec
=============================================================================
