--------------------------- MODULE IrcNet_proofs ---------------------------
(***************************************************************************)
(* What IrcNet guarantees for any accounts, people, rooms and addresses.   *)
(***************************************************************************)
EXTENDS IrcNet, FiniteSetTheorems, WellFoundedInduction, TLAPS

USE IrcNetAssumption

(* What each kind of nick is: the user is one, a buddy belongs to the      *)
(* account of his person and is seen on the status channel only, a member  *)
(* of a room is on that room's channel and in its map, and one that only   *)
(* wrote is on none.                                                       *)
Kinds ==
    \A o \in Alive :
        /\ nick[o].kind = "user" <=> o = Me
        /\ o = Me => nick[o].conv = Null /\ nick[o].srv = Null
        /\ o # Me => nick[o].who \in People /\ nick[o].srv \in Accounts
        /\ nick[o].kind = "buddy" => /\ nick[o].srv = AccountOf[nick[o].who]
                                     /\ nick[o].chans \subseteq {Status}
        /\ nick[o].kind = "unknown" => nick[o].chans = {}
        /\ nick[o].kind = "chat" =>
              \E r \in Rooms : /\ r \in chans /\ nick[o].chans = {r}
                               /\ nick[o].srv = RoomAccount[r]
                               /\ cbuddies[r][nick[o].who] = o

(* A room has its channel while its account is connected; without it, it   *)
(* keeps no member.                                                        *)
RoomsKept ==
    \A r \in Rooms :
        /\ r \in chans => RoomAccount[r] \in servers
        /\ r \notin chans => inRoom[r] = {} /\ \A p \in People \cup {Me} : cbuddies[r][p] = Null
        /\ cbuddies[r][Me] \in {Null, Me}

(* The status channel exists while an account has it.                      *)
StatusKept == statusAccts # {} => Status \in chans

NetInv ==
    TypeOK /\ UsersExact /\ ChannelsAgree /\ PointersAgree /\ ChannelsShow
    /\ Kinds /\ RoomsKept /\ StatusKept
-----------------------------------------------------------------------------
(* A set of natural numbers that is not empty has a least one.             *)
LEMMA Least ==
    ASSUME NEW T \in SUBSET Nat, T # {}
    PROVE  \E k \in T : \A m \in T : k <= m
<1>1. IsWellFoundedOn(OpToRel(<, Nat), Nat) BY NatLessThanWellFounded
<1>2. \E k \in T : \A m \in T : ~(<<m, k>> \in OpToRel(<, Nat)) BY <1>1, WFMin
<1>3. PICK k \in T : \A m \in T : ~(<<m, k>> \in OpToRel(<, Nat)) BY <1>2
<1>4. \A m \in T : ~(m < k) BY <1>3 DEF OpToRel
<1> QED BY <1>4

(* addNick(): there are more nicknames of a base than nicks, so that the   *)
(* loop that adds "_" finds one nobody bears.                              *)
LEMMA FreshNameFree ==
    ASSUME TypeOK, UsersExact, NEW b \in Bases
    PROVE  FreshName(b) \in Names /\ users[FreshName(b)] = Null
<1> DEFINE N == Cardinality(Objs)
           T == {k \in 0..N : users[<<b, k>>] = Null}
<1>1. N \in Nat BY FS_CardinalityType
<1>2. T # {}
  <2> SUFFICES ASSUME T = {} PROVE FALSE
    OBVIOUS
  <2> DEFINE f == [k \in 0..N |-> users[<<b, k>>]]
  <2>1. \A k \in 0..N : <<b, k>> \in Names BY DEF Names
  <2>2. \A k \in 0..N : users[<<b, k>>] \in Objs BY <2>1 DEF TypeOK
  <2>3. f \in [0..N -> Objs] BY <2>2
  <2>4. IsFiniteSet(0..N) /\ Cardinality(0..N) = N + 1
    <3>1. 0 \in Int /\ N \in Int /\ ~(0 > N) /\ N - 0 + 1 = N + 1 BY <1>1
    <3> HIDE DEF N
    <3> QED BY <3>1, FS_Interval
  <2>5. Cardinality(Objs) < Cardinality(0..N) BY <1>1, <2>4
  <2>6. \E x, y \in 0..N : x # y /\ f[x] = f[y]
    <3> DEFINE D == 0..N
    <3>1. IsFiniteSet(D) /\ Cardinality(Objs) < Cardinality(D) /\ f \in [D -> Objs]
      BY <2>3, <2>4, <2>5
    <3> HIDE DEF f, D
    <3>2. \E x, y \in D : x # y /\ f[x] = f[y] BY <3>1, FS_PigeonHole
    <3> QED BY <3>2 DEF D
  <2>7. PICK x \in 0..N, y \in 0..N : x # y /\ users[<<b, x>>] = users[<<b, y>>] BY <2>6
  <2>8. nick[users[<<b, x>>]].name = <<b, x>> /\ nick[users[<<b, y>>]].name = <<b, y>>
    BY <2>1, <2>2 DEF UsersExact
  <2> QED BY <2>7, <2>8
<1>3. T \in SUBSET Nat BY <1>1
<1>4. PICK k \in T : \A m \in T : k <= m
  <2> HIDE DEF T
  <2> QED BY <1>2, <1>3, Least
<1>5. /\ <<b, k>> \in Names /\ users[<<b, k>>] = Null
      /\ \A m \in Names : m[1] = b /\ users[m] = Null => <<b, k>>[2] <= m[2]
  <2>1. <<b, k>> \in Names /\ users[<<b, k>>] = Null BY DEF Names
  <2>2. ASSUME NEW m \in Names, m[1] = b, users[m] = Null PROVE k <= m[2]
    <3>1. m = <<b, m[2]>> /\ m[2] \in 0..N BY <2>2 DEF Names
    <3>2. m[2] \in T BY <2>2, <3>1
    <3> QED BY <1>4, <3>2
  <2> QED BY <2>1, <2>2
<1>6. \E n \in Names : /\ n[1] = b /\ users[n] = Null
                       /\ \A m \in Names : m[1] = b /\ users[m] = Null => n[2] <= m[2]
  BY <1>5
<1> QED BY <1>6 DEF FreshName
-----------------------------------------------------------------------------
(* What a step leaves of the nicks: the same ones, of the same kind.       *)
SameNicks ==
    /\ nick' \in [Objs -> Nick \cup {Null}] /\ Alive' = Alive
    /\ \A o \in Alive : nick'[o].kind = nick[o].kind /\ nick'[o].srv = nick[o].srv

SameNames == \A o \in Alive : nick'[o].name = nick[o].name
SameWho == \A o \in Alive : nick'[o].who = nick[o].who
SameConv == \A o \in Alive : nick'[o].conv = nick[o].conv
SameChans == \A o \in Alive : nick'[o].chans = nick[o].chans

(* Who lives has a record.                                                 *)
LEMMA AliveType ==
    ASSUME TypeOK, NEW o \in Alive
    PROVE  o \in Objs /\ nick[o] \in Nick /\ nick[o] # Null
BY DEF Alive, TypeOK

(* A step that leaves the names and the map alone leaves it exact.         *)
LEMMA KeepUsers ==
    ASSUME UsersExact, SameNicks, SameNames, UNCHANGED <<users, servers>>
    PROVE  UsersExact'
BY DEF UsersExact, SameNicks, SameNames

(* A step that leaves the channels alone on both sides.                    *)
LEMMA KeepChannels ==
    ASSUME ChannelsAgree, SameNicks, SameChans, UNCHANGED <<chanUsers, chans>>
    PROVE  ChannelsAgree'
BY DEF ChannelsAgree, SameNicks, SameChans

(* A step that leaves buddies and conversations alone.                     *)
LEMMA KeepPointers ==
    ASSUME PointersAgree, SameNicks, SameWho, SameConv, UNCHANGED <<bnick, cnick, blist, convs>>
    PROVE  PointersAgree'
BY DEF PointersAgree, SameNicks, SameWho, SameConv

(* A step that leaves the members of the rooms and the online buddies      *)
(* alone.                                                                  *)
LEMMA KeepShow ==
    ASSUME ChannelsShow, SameNicks, SameWho,
           UNCHANGED <<cbuddies, inRoom, chanUsers, chans, bnick, blist, online, statusAccts>>
    PROVE  ChannelsShow'
BY DEF ChannelsShow, SameNicks, SameWho

(* A step that leaves who and where a nick is alone.                       *)
LEMMA KeepKinds ==
    ASSUME Kinds, TypeOK, SameNicks, SameWho, SameChans, nick'[Me].conv = nick[Me].conv,
           UNCHANGED <<chans, cbuddies>>
    PROVE  Kinds'
<1>1. Alive' = Alive BY DEF SameNicks
<1>2. \A o \in Alive : /\ nick'[o].kind = nick[o].kind /\ nick'[o].srv = nick[o].srv
                       /\ nick'[o].who = nick[o].who /\ nick'[o].chans = nick[o].chans
  BY DEF SameNicks, SameWho, SameChans
<1> QED BY <1>1, <1>2 DEF Kinds

(* A step that leaves the rooms alone.                                     *)
LEMMA KeepRooms ==
    ASSUME RoomsKept, UNCHANGED <<chans, servers, inRoom, cbuddies>>
    PROVE  RoomsKept'
BY DEF RoomsKept
-----------------------------------------------------------------------------
(* What the destructors of the nicks of S leave, in a sound state.         *)
LEMMA GoneViews ==
    ASSUME NetInv, NEW S \in SUBSET Alive
    PROVE  /\ \A b \in People : BnickGone(S)[b] = IF bnick[b] \in S THEN Null ELSE bnick[b]
           /\ \A p \in People : CnickGone(S)[p] = IF cnick[p] \in S THEN Null ELSE cnick[p]
           /\ \A c \in Channels : ChanGone(S)[c] = chanUsers[c] \ S
           /\ \A n \in Names : UsersGone(S)[n] = IF users[n] \in S THEN Null ELSE users[n]
<1>0. PointersAgree /\ ChannelsAgree /\ TypeOK BY DEF NetInv
<1>1. ASSUME NEW b \in People
      PROVE  BnickGone(S)[b] = IF bnick[b] \in S THEN Null ELSE bnick[b]
  <2>1. (\E o \in S : nick[o].kind = "buddy" /\ nick[o].who = b) <=> bnick[b] \in S
    BY <1>0 DEF PointersAgree, Alive
  <2> QED BY <2>1 DEF BnickGone
<1>2. ASSUME NEW p \in People
      PROVE  CnickGone(S)[p] = IF cnick[p] \in S THEN Null ELSE cnick[p]
  <2>1. cnick[p] \in S => nick[cnick[p]].conv = p
    BY <1>0 DEF PointersAgree, Alive
  <2> QED BY <2>1 DEF CnickGone
<1>3. ASSUME NEW c \in Channels PROVE ChanGone(S)[c] = chanUsers[c] \ S
  <2>1. \A o \in chanUsers[c] : o \in S => c \in nick[o].chans
    BY <1>0 DEF ChannelsAgree
  <2> QED BY <2>1 DEF ChanGone
<1>4. \A n \in Names : UsersGone(S)[n] = IF users[n] \in S THEN Null ELSE users[n]
  BY DEF UsersGone
<1> QED BY <1>1, <1>2, <1>3, <1>4

(* The nicks of S are deleted and the rooms of R are left.                 *)
Deleted(S, R) ==
    /\ S \subseteq Alive \ {Me} /\ R \subseteq Rooms
    /\ nick' \in [Objs -> Nick \cup {Null}] /\ Alive' = Alive \ S
    /\ \A o \in Alive \ S :
        /\ nick'[o].kind = nick[o].kind /\ nick'[o].name = nick[o].name
        /\ nick'[o].srv = nick[o].srv /\ nick'[o].who = nick[o].who
        /\ nick'[o].conv = nick[o].conv /\ nick'[o].chans = nick[o].chans \ R
    /\ users' = UsersGone(S) /\ bnick' = BnickGone(S) /\ cnick' = CnickGone(S)
    /\ chans' = chans \ R
    /\ chanUsers' = [c \in Channels |-> IF c \in R THEN {} ELSE ChanGone(S)[c]]
    /\ UNCHANGED <<statusAccts, convs, alive>>

(* The rooms of R show nobody any more, the others whoever is left.        *)
RoomsLeft(S, R) ==
    /\ cbuddies' \in [Rooms -> [People \cup {Me} -> Objs \cup {Null}]]
    /\ inRoom' \in [Rooms -> SUBSET (People \cup {Me})]
    /\ \A r \in R : inRoom'[r] = {} /\ \A p \in People \cup {Me} : cbuddies'[r][p] = Null
    /\ \A r \in Rooms \ R :
        /\ cbuddies'[r][Me] = cbuddies[r][Me]
        /\ r \notin chans => inRoom'[r] = inRoom[r]
        /\ \A p \in People :
            /\ cbuddies'[r][p] = IF cbuddies[r][p] \in S THEN Null ELSE cbuddies[r][p]
            /\ p \in inRoom'[r] <=> p \in inRoom[r] /\ cbuddies[r][p] \notin S
    /\ \A r \in R, p \in People : cbuddies[r][p] # Null => cbuddies[r][p] \in S

(* The servers and the buddies that are left suffice for what is left.     *)
ListsLeft(S, R) ==
    /\ servers' \subseteq servers
    /\ \A o \in Alive \ (S \cup {Me}) : nick[o].srv \in servers'
    /\ \A r \in chans \ (R \cup {Status}) : RoomAccount[r] \in servers'
    /\ blist' \subseteq blist /\ online' \subseteq blist'
    /\ \A b \in People : bnick[b] # Null /\ bnick[b] \notin S =>
          b \in blist' /\ (b \in online' <=> b \in online)

(* Deleting nicks keeps everything that points at nicks in order.          *)
LEMMA DeletedKeeps ==
    ASSUME NetInv, NEW S, NEW R, Deleted(S, R), RoomsLeft(S, R), ListsLeft(S, R)
    PROVE  NetInv'
<1>0. /\ TypeOK /\ UsersExact /\ ChannelsAgree /\ PointersAgree /\ ChannelsShow
      /\ Kinds /\ RoomsKept /\ StatusKept
  BY DEF NetInv
<1>1. S \in SUBSET Alive /\ Me \notin S /\ Null \notin S BY DEF Deleted, Alive
<1>2. /\ \A b \in People : bnick'[b] = IF bnick[b] \in S THEN Null ELSE bnick[b]
      /\ \A p \in People : cnick'[p] = IF cnick[p] \in S THEN Null ELSE cnick[p]
      /\ \A c \in Channels : chanUsers'[c] = IF c \in R THEN {} ELSE chanUsers[c] \ S
      /\ \A n \in Names : users'[n] = IF users[n] \in S THEN Null ELSE users[n]
  <2>1. /\ users' = UsersGone(S) /\ bnick' = BnickGone(S) /\ cnick' = CnickGone(S)
        /\ chanUsers' = [c \in Channels |-> IF c \in R THEN {} ELSE ChanGone(S)[c]]
    BY DEF Deleted
  <2>2. /\ \A b \in People : BnickGone(S)[b] = IF bnick[b] \in S THEN Null ELSE bnick[b]
        /\ \A p \in People : CnickGone(S)[p] = IF cnick[p] \in S THEN Null ELSE cnick[p]
        /\ \A c \in Channels : ChanGone(S)[c] = chanUsers[c] \ S
        /\ \A n \in Names : UsersGone(S)[n] = IF users[n] \in S THEN Null ELSE users[n]
    BY <1>1, GoneViews
  <2> QED BY <2>1, <2>2
<1>3. TypeOK'
  <2>1. nick' \in [Objs -> Nick \cup {Null}] /\ nick'[Me] # Null
    <3>1. Me \in Alive' BY <1>0, <1>1 DEF Deleted, TypeOK, Alive
    <3> QED BY <3>1 DEF Deleted, Alive
  <2>2. users' \in [Names -> Objs \cup {Null}] BY <1>0, <1>2 DEF Deleted, UsersGone, TypeOK
  <2>3. bnick' \in [People -> Objs \cup {Null}] BY <1>0 DEF Deleted, BnickGone, TypeOK
  <2>4. cnick' \in [People -> Objs \cup {Null}] BY <1>0 DEF Deleted, CnickGone, TypeOK
  <2>5. chanUsers' \in [Channels -> SUBSET Objs] BY <1>0 DEF Deleted, ChanGone, TypeOK
  <2>6. /\ servers' \subseteq Accounts /\ blist' \subseteq People /\ online' \subseteq blist'
        /\ chans' \subseteq Channels
    BY <1>0 DEF Deleted, ListsLeft, TypeOK
  <2>7. statusAccts' \subseteq Accounts /\ convs' \subseteq People /\ alive' \in BOOLEAN
    BY <1>0 DEF Deleted, TypeOK
  <2> QED BY <2>1, <2>2, <2>3, <2>4, <2>5, <2>6, <2>7 DEF TypeOK, RoomsLeft
<1>4. UsersExact'
  <2>1. ASSUME NEW n \in Names, users'[n] # Null
        PROVE  users'[n] \in Alive' /\ nick'[users'[n]].name = n
    BY <1>0, <1>1, <1>2, <2>1 DEF UsersExact, Deleted
  <2>2. ASSUME NEW o \in Alive' PROVE users'[nick'[o].name] = o
    <3>1. o \in Alive \ S /\ nick'[o].name = nick[o].name BY DEF Deleted
    <3>2. nick[o].name \in Names BY <1>0, <3>1, AliveType DEF Nick
    <3> QED BY <1>0, <1>2, <3>1, <3>2 DEF UsersExact
  <2>3. \A o \in Alive' \ {Me} : nick'[o].srv \in servers' BY DEF Deleted, ListsLeft
  <2> QED BY <2>1, <2>2, <2>3 DEF UsersExact
<1>5. ChannelsAgree'
  <2>1. ASSUME NEW c \in Channels PROVE chanUsers'[c] = {o \in Alive' : c \in nick'[o].chans}
    <3>1. chanUsers[c] = {o \in Alive : c \in nick[o].chans} BY <1>0 DEF ChannelsAgree
    <3>2. CASE c \in R BY <1>2, <3>2 DEF Deleted
    <3>3. CASE c \notin R
      <4>1. \A o \in Alive \ S : c \in nick'[o].chans <=> c \in nick[o].chans BY <3>3 DEF Deleted
      <4>2. Alive' = Alive \ S BY DEF Deleted
      <4> QED BY <1>2, <3>1, <3>3, <4>1, <4>2
    <3> QED BY <3>2, <3>3
  <2>2. \A c \in Channels \ chans' : chanUsers'[c] = {}
    BY <1>0, <1>2 DEF ChannelsAgree, Deleted
  <2> QED BY <2>1, <2>2 DEF ChannelsAgree
<1>6. PointersAgree'
  <2>1. ASSUME NEW b \in People, bnick'[b] # Null
        PROVE  b \in blist' /\ bnick'[b] \in Alive' /\ nick'[bnick'[b]].kind = "buddy"
                            /\ nick'[bnick'[b]].who = b
    BY <1>0, <1>2, <2>1 DEF PointersAgree, Deleted, ListsLeft
  <2>2. ASSUME NEW o \in Alive', nick'[o].kind = "buddy" PROVE bnick'[nick'[o].who] = o
    <3>1. o \in Alive \ S /\ nick'[o].who = nick[o].who /\ nick[o].kind = "buddy"
      BY <2>2 DEF Deleted
    <3>2. nick[o].who \in People BY <1>0, <3>1 DEF Kinds
    <3> QED BY <1>0, <1>2, <3>1, <3>2 DEF PointersAgree
  <2>3. ASSUME NEW p \in People, cnick'[p] # Null
        PROVE  p \in convs' /\ cnick'[p] \in Alive' /\ nick'[cnick'[p]].conv = p
    BY <1>0, <1>2, <2>3 DEF PointersAgree, Deleted
  <2>4. ASSUME NEW o \in Alive', nick'[o].conv # Null PROVE cnick'[nick'[o].conv] = o
    <3>1. o \in Alive \ S /\ nick'[o].conv = nick[o].conv BY DEF Deleted
    <3>2. nick[o].conv \in People BY <1>0, <2>4, <3>1, AliveType DEF Nick
    <3> QED BY <1>0, <1>2, <2>4, <3>1, <3>2 DEF PointersAgree
  <2> QED BY <2>1, <2>2, <2>3, <2>4 DEF PointersAgree
<1>7. ChannelsShow'
  <2>1. ASSUME NEW r \in chans' \ {Status}, NEW p \in People
        PROVE  /\ cbuddies'[r][p] # Null <=> p \in inRoom'[r]
               /\ cbuddies'[r][p] # Null =>
                    /\ cbuddies'[r][p] \in Alive' /\ nick'[cbuddies'[r][p]].kind = "chat"
                    /\ nick'[cbuddies'[r][p]].who = p /\ cbuddies'[r][p] \in chanUsers'[r]
    <3>1. r \in Rooms \ R /\ r \in chans \ {Status} BY <1>0 DEF Deleted, TypeOK, Channels
    <3>2. /\ cbuddies[r][p] # Null <=> p \in inRoom[r]
          /\ cbuddies[r][p] # Null =>
                    /\ cbuddies[r][p] \in Alive /\ nick[cbuddies[r][p]].kind = "chat"
                    /\ nick[cbuddies[r][p]].who = p /\ cbuddies[r][p] \in chanUsers[r]
      BY <1>0, <3>1 DEF ChannelsShow
    <3>3. /\ cbuddies'[r][p] = IF cbuddies[r][p] \in S THEN Null ELSE cbuddies[r][p]
          /\ p \in inRoom'[r] <=> p \in inRoom[r] /\ cbuddies[r][p] \notin S
      BY <3>1 DEF RoomsLeft
    <3>4. chanUsers'[r] = chanUsers[r] \ S BY <1>2, <3>1 DEF Channels
    <3> QED BY <1>1, <3>2, <3>3, <3>4 DEF Deleted
  <2>2. ASSUME NEW o \in Alive', nick'[o].kind = "chat"
        PROVE  \E r \in chans' \ {Status} : cbuddies'[r][nick'[o].who] = o
    <3>1. o \in Alive \ S /\ nick'[o].who = nick[o].who /\ nick[o].kind = "chat"
      BY <2>2 DEF Deleted
    <3>2. PICK r \in chans \ {Status} : cbuddies[r][nick[o].who] = o
      BY <1>0, <3>1 DEF ChannelsShow
    <3>3. nick[o].who \in People /\ o # Null BY <1>0, <3>1 DEF Kinds, Alive
    <3>4. r \in Rooms BY <1>0, <3>2 DEF TypeOK, Channels
    <3>5. r \notin R BY <3>1, <3>2, <3>3 DEF RoomsLeft
    <3>6. cbuddies'[r][nick[o].who] = o BY <3>1, <3>2, <3>3, <3>4, <3>5 DEF RoomsLeft
    <3> QED BY <3>1, <3>2, <3>5, <3>6 DEF Deleted
  <2>3. ASSUME NEW b \in blist', bnick'[b] # Null
        PROVE  bnick'[b] \in chanUsers'[Status]
                 <=> b \in online' /\ AccountOf[b] \in statusAccts'
    <3>1. b \in People /\ b \in blist BY <1>0 DEF ListsLeft, TypeOK
    <3>2. bnick'[b] = bnick[b] /\ bnick[b] \notin S BY <1>2, <2>3, <3>1
    <3>3. Status \in Channels /\ Status \notin R BY DEF Channels, Deleted
    <3>4. chanUsers'[Status] = chanUsers[Status] \ S BY <1>2, <3>3
    <3>5. b \in online' <=> b \in online BY <2>3, <3>1, <3>2 DEF ListsLeft
    <3> QED BY <1>0, <2>3, <3>1, <3>2, <3>4, <3>5 DEF ChannelsShow, Deleted
  <2> QED BY <2>1, <2>2, <2>3 DEF ChannelsShow
<1>8. Kinds'
  <2> SUFFICES ASSUME NEW o \in Alive'
               PROVE  /\ nick'[o].kind = "user" <=> o = Me
                      /\ o = Me => nick'[o].conv = Null /\ nick'[o].srv = Null
                      /\ o # Me => nick'[o].who \in People /\ nick'[o].srv \in Accounts
                      /\ nick'[o].kind = "buddy" => /\ nick'[o].srv = AccountOf[nick'[o].who]
                                                    /\ nick'[o].chans \subseteq {Status}
                      /\ nick'[o].kind = "unknown" => nick'[o].chans = {}
                      /\ nick'[o].kind = "chat" =>
                          \E r \in Rooms : /\ r \in chans' /\ nick'[o].chans = {r}
                                           /\ nick'[o].srv = RoomAccount[r]
                                           /\ cbuddies'[r][nick'[o].who] = o
    BY DEF Kinds
  <2>1. /\ o \in Alive \ S
        /\ nick'[o].kind = nick[o].kind /\ nick'[o].srv = nick[o].srv
        /\ nick'[o].who = nick[o].who /\ nick'[o].conv = nick[o].conv
        /\ nick'[o].chans = nick[o].chans \ R
    BY DEF Deleted
  <2>2. /\ nick'[o].kind = "user" <=> o = Me
        /\ o = Me => nick'[o].conv = Null /\ nick'[o].srv = Null
        /\ o # Me => nick'[o].who \in People /\ nick'[o].srv \in Accounts
        /\ nick'[o].kind = "buddy" => /\ nick'[o].srv = AccountOf[nick'[o].who]
                                      /\ nick'[o].chans \subseteq {Status}
        /\ nick'[o].kind = "unknown" => nick'[o].chans = {}
    BY <1>0, <2>1 DEF Kinds
  <2>3. ASSUME nick'[o].kind = "chat"
        PROVE  \E r \in Rooms : /\ r \in chans' /\ nick'[o].chans = {r}
                                /\ nick'[o].srv = RoomAccount[r]
                                /\ cbuddies'[r][nick'[o].who] = o
    <3>1. PICK r \in Rooms : /\ r \in chans /\ nick[o].chans = {r}
                             /\ nick[o].srv = RoomAccount[r]
                             /\ cbuddies[r][nick[o].who] = o
      BY <1>0, <2>1, <2>3 DEF Kinds
    <3>2. nick[o].who \in People /\ o # Null BY <1>0, <2>1, <2>3 DEF Kinds, Alive
    <3>3. r \notin R BY <2>1, <3>1, <3>2 DEF RoomsLeft
    <3>4. cbuddies'[r][nick[o].who] = o BY <2>1, <3>1, <3>2, <3>3 DEF RoomsLeft
    <3> QED BY <2>1, <3>1, <3>3, <3>4 DEF Deleted
  <2> QED BY <2>2, <2>3
<1>9. RoomsKept'
  <2> SUFFICES ASSUME NEW r \in Rooms
               PROVE  /\ r \in chans' => RoomAccount[r] \in servers'
                      /\ r \notin chans' => /\ inRoom'[r] = {}
                                            /\ \A p \in People \cup {Me} : cbuddies'[r][p] = Null
                      /\ cbuddies'[r][Me] \in {Null, Me}
    BY DEF RoomsKept
  <2>1. CASE r \in R BY <2>1 DEF RoomsLeft, Deleted
  <2>2. CASE r \notin R
    BY <1>0, <1>1, <2>2 DEF RoomsKept, RoomsLeft, Deleted, ListsLeft
  <2> QED BY <2>1, <2>2
<1>10. StatusKept' BY <1>0 DEF StatusKept, Deleted
<1> QED BY <1>3, <1>4, <1>5, <1>6, <1>7, <1>8, <1>9, <1>10 DEF NetInv

(* The nicks that are left after some were deleted and the rooms R left.   *)
NicksLeft(S, R) ==
    /\ nick' \in [Objs -> Nick \cup {Null}] /\ Alive' = Alive \ S
    /\ \A o \in Alive \ S :
        /\ nick'[o].kind = nick[o].kind /\ nick'[o].name = nick[o].name
        /\ nick'[o].srv = nick[o].srv /\ nick'[o].who = nick[o].who
        /\ nick'[o].conv = nick[o].conv /\ nick'[o].chans = nick[o].chans \ R

(* delete of nicks, no room left.                                          *)
LEMMA NickGoneLeaves ==
    ASSUME TypeOK, NEW S \in SUBSET Alive, nick' = NickGone(S)
    PROVE  NicksLeft(S, {})
<1>1. nick' \in [Objs -> Nick \cup {Null}] BY DEF NickGone, TypeOK
<1>2. \A o \in Objs : nick'[o] = IF o \in S THEN Null ELSE nick[o] BY DEF NickGone
<1>3. Alive' = Alive \ S BY <1>2 DEF Alive
<1>4. \A o \in Alive \ S : nick'[o] = nick[o] /\ nick[o].chans = nick[o].chans \ {}
  BY <1>2 DEF Alive
<1> QED BY <1>1, <1>3, <1>4 DEF NicksLeft

(* ~Channel() of the rooms, after the delete of nicks.                     *)
LEMMA OffChannelsLeaves ==
    ASSUME TypeOK, ChannelsAgree, NEW S \in SUBSET Alive, NEW R \in SUBSET Rooms,
           nick' = OffChannels(NickGone(S), R)
    PROVE  NicksLeft(S, R)
<1>1. ASSUME NEW o \in Objs, o \in S \/ nick[o] = Null PROVE nick'[o] = Null
  BY <1>1 DEF OffChannels, NickGone
<1>2. ASSUME NEW o \in Alive \ S
      PROVE  /\ nick'[o] \in Nick
             /\ nick'[o].kind = nick[o].kind /\ nick'[o].name = nick[o].name
             /\ nick'[o].srv = nick[o].srv /\ nick'[o].who = nick[o].who
             /\ nick'[o].conv = nick[o].conv /\ nick'[o].chans = nick[o].chans \ R
  <2>1. o \in Objs /\ nick[o] \in Nick /\ nick[o] # Null BY <1>2, AliveType
  <2>2. nick'[o] = [nick[o] EXCEPT !.chans = @ \ {c \in R : o \in chanUsers[c]}]
    BY <1>2, <2>1 DEF OffChannels, NickGone
  <2>3. \A c \in R : c \in nick[o].chans => o \in chanUsers[c]
    BY <1>2 DEF ChannelsAgree, Channels
  <2>4. nick[o].chans \ {c \in R : o \in chanUsers[c]} = nick[o].chans \ R
    BY <2>3
  <2> QED BY <2>1, <2>2, <2>4 DEF Nick
<1>3. nick' \in [Objs -> Nick \cup {Null}]
  <2>1. \A o \in Objs : nick'[o] \in Nick \cup {Null} BY <1>1, <1>2 DEF Alive
  <2>2. nick' = [o \in Objs |-> nick'[o]] BY DEF OffChannels
  <2> QED BY <2>1, <2>2
<1>4. Alive' = Alive \ S
  <2>1. \A o \in Alive \ S : nick'[o] # Null BY <1>2
  <2> QED BY <1>1, <2>1 DEF Alive
<1> QED BY <1>2, <1>3, <1>4 DEF NicksLeft

(* Buddy::removed_node()                                                   *)
LEMMA RemovedNodeKeeps ==
    ASSUME NetInv, NEW b \in People, removed_node(b)
    PROVE  NetInv'
<1>0. TypeOK /\ ChannelsAgree /\ PointersAgree /\ ChannelsShow /\ Kinds /\ RoomsKept /\ UsersExact
  BY DEF NetInv
<1> DEFINE S == {bnick[b]} \ {Null}
<1>1. /\ blist' = blist \ {b} /\ online' = online \ {b}
      /\ nick' = NickGone(S) /\ users' = UsersGone(S)
      /\ bnick' = BnickGone(S) /\ cnick' = CnickGone(S) /\ chanUsers' = ChanGone(S)
      /\ UNCHANGED <<servers, chans, cbuddies, inRoom, statusAccts, convs, alive>>
  BY DEF removed_node
<1>2. S \in SUBSET Alive /\ \A o \in S : nick[o].kind = "buddy" /\ nick[o].who = b
  BY <1>0 DEF PointersAgree
<1>3. S \subseteq Alive \ {Me}
  <2>1. nick[Me].kind = "user" BY <1>0 DEF Kinds, TypeOK, Alive
  <2> QED BY <1>2, <2>1
<1> HIDE DEF S
<1>4. NicksLeft(S, {}) BY <1>0, <1>1, <1>2, NickGoneLeaves
<1>5. Deleted(S, {})
  <2>1. chanUsers' = [c \in Channels |-> IF c \in {} THEN {} ELSE ChanGone(S)[c]]
    BY <1>1 DEF ChanGone
  <2>2. chans' = chans \ {} BY <1>1
  <2> QED BY <1>1, <1>3, <1>4, <2>1, <2>2 DEF Deleted, NicksLeft
<1>6. RoomsLeft(S, {})
  <2>1. \A r \in Rooms, p \in People : cbuddies[r][p] \notin S
    <3> SUFFICES ASSUME NEW r \in Rooms, NEW p \in People, cbuddies[r][p] \in S PROVE FALSE
      OBVIOUS
    <3>1. cbuddies[r][p] # Null BY <1>2 DEF Alive
    <3>2. r \in chans \ {Status} BY <1>0, <3>1 DEF RoomsKept
    <3>3. nick[cbuddies[r][p]].kind = "chat" BY <1>0, <3>1, <3>2 DEF ChannelsShow
    <3> QED BY <1>2, <3>3
  <2> QED BY <1>0, <1>1, <2>1 DEF RoomsLeft, TypeOK
<1>7. ListsLeft(S, {})
  <2>1. \A c \in People : bnick[c] # Null /\ bnick[c] \notin S => c # b /\ c \in blist
    BY <1>0 DEF PointersAgree, S
  <2>2. \A o \in Alive \ {Me} : nick[o].srv \in servers BY <1>0 DEF UsersExact
  <2>3. \A r \in chans \ {Status} : RoomAccount[r] \in servers
    BY <1>0 DEF RoomsKept, TypeOK, Channels
  <2> QED BY <1>0, <1>1, <2>1, <2>2, <2>3 DEF ListsLeft, TypeOK
<1> QED BY <1>5, <1>6, <1>7, DeletedKeeps

(* A nick that the map of a room holds is a member's, and of its account.  *)
LEMMA RoomMember ==
    ASSUME NetInv, NEW r \in Rooms, NEW p \in People, cbuddies[r][p] # Null
    PROVE  /\ r \in chans /\ p \in inRoom[r]
           /\ cbuddies[r][p] \in Alive \ {Me} /\ nick[cbuddies[r][p]].kind = "chat"
           /\ nick[cbuddies[r][p]].who = p /\ nick[cbuddies[r][p]].srv = RoomAccount[r]
           /\ nick[cbuddies[r][p]].chans = {r}
           /\ \A s \in Rooms, q \in People : cbuddies[s][q] = cbuddies[r][p] => s = r /\ q = p
<1>0. TypeOK /\ ChannelsAgree /\ ChannelsShow /\ Kinds /\ RoomsKept BY DEF NetInv
<1>1. ASSUME NEW s \in Rooms, NEW q \in People, cbuddies[s][q] # Null
      PROVE  /\ s \in chans /\ q \in inRoom[s]
             /\ cbuddies[s][q] \in Alive /\ nick[cbuddies[s][q]].kind = "chat"
             /\ nick[cbuddies[s][q]].who = q /\ s \in nick[cbuddies[s][q]].chans
  <2>1. s \in chans \ {Status} BY <1>0, <1>1 DEF RoomsKept
  <2>2. /\ q \in inRoom[s] /\ cbuddies[s][q] \in Alive /\ nick[cbuddies[s][q]].kind = "chat"
        /\ nick[cbuddies[s][q]].who = q /\ cbuddies[s][q] \in chanUsers[s]
    BY <1>0, <1>1, <2>1 DEF ChannelsShow
  <2>3. s \in nick[cbuddies[s][q]].chans BY <1>0, <2>2 DEF ChannelsAgree, Channels
  <2> QED BY <2>1, <2>2, <2>3
<1> DEFINE o == cbuddies[r][p]
<1>2. /\ r \in chans /\ p \in inRoom[r] /\ o \in Alive /\ nick[o].kind = "chat"
      /\ nick[o].who = p /\ r \in nick[o].chans
  BY <1>1
<1>3. o # Me BY <1>0, <1>2 DEF Kinds
<1>4. PICK t \in Rooms : nick[o].chans = {t} /\ nick[o].srv = RoomAccount[t]
  BY <1>0, <1>2 DEF Kinds
<1>5. t = r BY <1>2, <1>4
<1>6. ASSUME NEW s \in Rooms, NEW q \in People, cbuddies[s][q] = o PROVE s = r /\ q = p
  <2>1. cbuddies[s][q] # Null BY <1>2, <1>6 DEF Alive
  <2>2. nick[o].who = q /\ s \in nick[o].chans BY <1>1, <1>6, <2>1
  <2> QED BY <1>2, <1>4, <1>5, <2>2
<1> QED BY <1>2, <1>3, <1>4, <1>5, <1>6

(* The rooms of R are left, and the nicks of S deleted: all of R's, and of *)
(* no other room.                                                          *)
LEMMA LeaveRoomsKeeps ==
    ASSUME NetInv, NEW R \in SUBSET Rooms, NEW S \in SUBSET (Alive \ {Me}), LeaveRooms(R, S),
           \A r \in Rooms, p \in People : cbuddies[r][p] # Null =>
              (cbuddies[r][p] \in S <=> r \in R),
           ListsLeft(S, R), UNCHANGED <<statusAccts, convs, alive>>
    PROVE  NetInv'
<1>0. TypeOK /\ ChannelsAgree /\ RoomsKept BY DEF NetInv
<1>1. S \in SUBSET Alive /\ Null \notin S BY DEF Alive
<1>2. NicksLeft(S, R) BY <1>0, <1>1, OffChannelsLeaves DEF LeaveRooms
<1>3. Deleted(S, R) BY <1>2 DEF LeaveRooms, Deleted, NicksLeft
<1>4. RoomsLeft(S, R)
  <2>1. /\ cbuddies' = [r \in Rooms |-> IF r \in R THEN [p \in People \cup {Me} |-> Null]
                                        ELSE cbuddies[r]]
        /\ inRoom' = [r \in Rooms |-> IF r \in R THEN {} ELSE inRoom[r]]
    BY DEF LeaveRooms, EmptyRooms
  <2>2. cbuddies' \in [Rooms -> [People \cup {Me} -> Objs \cup {Null}]]
    BY <1>0, <2>1 DEF TypeOK
  <2>3. inRoom' \in [Rooms -> SUBSET (People \cup {Me})] BY <1>0, <2>1 DEF TypeOK
  <2>4. \A r \in R : inRoom'[r] = {} /\ \A p \in People \cup {Me} : cbuddies'[r][p] = Null
    BY <2>1
  <2>5. \A r \in Rooms \ R : cbuddies'[r] = cbuddies[r] /\ inRoom'[r] = inRoom[r] BY <2>1
  <2>6. \A r \in Rooms \ R, p \in People : cbuddies[r][p] \notin S BY <1>1
  <2> QED BY <2>2, <2>3, <2>4, <2>5, <2>6 DEF RoomsLeft
<1> QED BY <1>3, <1>4, DeletedKeeps

(* The user leaves a room: remove_user() of himself, or PART.              *)
LEMMA LeaveRoomKeeps ==
    ASSUME NetInv, NEW r \in Rooms, LeaveRoom(r),
           UNCHANGED <<servers, statusAccts, listVars, convs, alive>>
    PROVE  NetInv'
<1>0. TypeOK /\ ChannelsShow /\ Kinds /\ RoomsKept /\ UsersExact /\ PointersAgree BY DEF NetInv
<1> DEFINE S == RoomNicks(r)
<1>1. \A o \in S : nick[o].kind = "chat" /\ o # Null
                   /\ \E p \in People \cup {Me} : cbuddies[r][p] = o
  BY DEF RoomNicks
<1>2. \A o \in S : \E p \in People : cbuddies[r][p] = o
  <2>1. nick[Me].kind = "user" BY <1>0 DEF Kinds, TypeOK, Alive
  <2>2. cbuddies[r][Me] \in {Null, Me} BY <1>0 DEF RoomsKept
  <2> QED BY <1>1, <2>1, <2>2
<1>3. S \in SUBSET (Alive \ {Me})
  <2> SUFFICES ASSUME NEW o \in S PROVE o \in Alive \ {Me}
    OBVIOUS
  <2>1. PICK p \in People : cbuddies[r][p] = o /\ o # Null BY <1>1, <1>2
  <2> QED BY <2>1, RoomMember
<1>4. ASSUME NEW s \in Rooms, NEW p \in People, cbuddies[s][p] # Null
      PROVE  cbuddies[s][p] \in S <=> s \in {r}
  <2>1. nick[cbuddies[s][p]].kind = "chat" BY <1>4, RoomMember
  <2>2. CASE s = r BY <1>4, <2>1, <2>2 DEF RoomNicks
  <2>3. CASE s # r
    <3>1. \A q \in People : cbuddies[r][q] # cbuddies[s][p] BY <1>4, <2>3, RoomMember
    <3> QED BY <1>2, <2>3, <3>1
  <2> QED BY <2>2, <2>3
<1>5. LeaveRooms({r}, S) BY DEF LeaveRoom
<1> HIDE DEF S
<1>6. ListsLeft(S, {r})
  <2>1. \A o \in Alive \ {Me} : nick[o].srv \in servers BY <1>0 DEF UsersExact
  <2>2. \A t \in chans \ {Status} : RoomAccount[t] \in servers
    BY <1>0 DEF RoomsKept, TypeOK, Channels
  <2>3. \A b \in People : bnick[b] # Null => b \in blist BY <1>0 DEF PointersAgree
  <2> QED BY <1>0, <2>1, <2>2, <2>3 DEF ListsLeft, TypeOK, listVars
<1>7. {r} \in SUBSET Rooms OBVIOUS
<1>8. UNCHANGED <<statusAccts, convs, alive>> OBVIOUS
<1> QED BY <1>3, <1>4, <1>5, <1>6, <1>7, <1>8, LeaveRoomsKeeps

(* Account::disconnected(): the rooms of the account, then its nicks.      *)
LEMMA DisconnectedKeeps ==
    ASSUME NetInv, NEW a \in Accounts, disconnected(a)
    PROVE  NetInv'
<1>0. TypeOK /\ ChannelsShow /\ Kinds /\ RoomsKept /\ UsersExact /\ PointersAgree BY DEF NetInv
<1> DEFINE S == NicksOf(a)
           R == {r \in Rooms : RoomAccount[r] = a}
<1>1. S = {o \in Alive : nick[o].srv = a}
  <2>1. Known = Alive
    <3>1. \A n \in Names : users[n] # Null => users[n] \in Alive BY <1>0 DEF UsersExact
    <3>2. \A o \in Alive : nick[o].name \in Names /\ users[nick[o].name] = o /\ o # Null
      BY <1>0, AliveType DEF UsersExact, Nick, Alive
    <3> QED BY <3>1, <3>2 DEF Known
  <2> QED BY <2>1 DEF NicksOf
<1>2. Me \notin S
  <2>1. nick[Me].srv = Null
    BY <1>0 DEF Kinds, TypeOK, Alive
  <2> QED BY <1>1, <2>1
<1>3. S \in SUBSET (Alive \ {Me}) BY <1>1, <1>2
<1>4. ASSUME NEW r \in Rooms, NEW p \in People, cbuddies[r][p] # Null
      PROVE  cbuddies[r][p] \in S <=> r \in R
  BY <1>1, <1>4, RoomMember
<1>5. LeaveRooms(R, S) BY DEF disconnected
<1>6. ListsLeft(S, R)
  <2>1. /\ servers' = servers \ {a} /\ blist' = blist
        /\ online' = {b \in online : AccountOf[b] # a}
    BY DEF disconnected
  <2>2. \A o \in Alive \ (S \cup {Me}) : nick[o].srv \in servers' BY <1>0, <1>1, <2>1 DEF UsersExact
  <2>3. \A r \in chans \ (R \cup {Status}) : RoomAccount[r] \in servers'
    BY <1>0, <2>1 DEF RoomsKept, TypeOK, Channels
  <2>4. ASSUME NEW b \in People, bnick[b] # Null, bnick[b] \notin S
        PROVE  b \in blist' /\ (b \in online' <=> b \in online)
    <3>1. /\ b \in blist /\ bnick[b] \in Alive /\ nick[bnick[b]].kind = "buddy"
          /\ nick[bnick[b]].who = b
      BY <1>0, <2>4 DEF PointersAgree
    <3>2. nick[bnick[b]].srv = AccountOf[b] BY <1>0, <3>1 DEF Kinds
    <3>3. AccountOf[b] # a BY <1>1, <2>4, <3>1, <3>2
    <3> QED BY <2>1, <3>1, <3>3
  <2>5. online' \subseteq blist' BY <1>0, <2>1 DEF TypeOK
  <2> QED BY <2>1, <2>2, <2>3, <2>4, <2>5 DEF ListsLeft
<1>7. R \in SUBSET Rooms OBVIOUS
<1>8. UNCHANGED <<statusAccts, convs, alive>> BY DEF disconnected
<1> HIDE DEF S, R
<1> QED BY <1>3, <1>4, <1>5, <1>6, <1>7, <1>8, LeaveRoomsKeeps

(* Conversation::remove_user(), the user himself included.                 *)
LEMMA RemoveUserKeeps ==
    ASSUME NetInv, NEW r \in Rooms, NEW p \in People \cup {Me}, remove_user(r, p)
    PROVE  NetInv'
<1>0. TypeOK /\ ChannelsShow /\ Kinds /\ RoomsKept /\ UsersExact /\ PointersAgree BY DEF NetInv
<1>1. CASE p = Me /\ LeaveRoom(r)
  BY <1>1, LeaveRoomKeeps DEF remove_user
<1>2. CASE p # Me
  <2> DEFINE S == {cbuddies[r][p]}
  <2>1. /\ p \in People /\ p \in inRoom[r] /\ r \in chans \ {Status}
        /\ nick' = NickGone(S) /\ users' = UsersGone(S) /\ chanUsers' = ChanGone(S)
        /\ bnick' = BnickGone(S) /\ cnick' = CnickGone(S)
        /\ cbuddies' = [cbuddies EXCEPT ![r][p] = Null]
        /\ inRoom' = [inRoom EXCEPT ![r] = @ \ {p}]
        /\ UNCHANGED <<chans, servers, statusAccts, blist, online, convs, alive>>
    BY <1>2 DEF remove_user, listVars
  <2>2. cbuddies[r][p] # Null BY <1>0, <2>1 DEF ChannelsShow
  <2>3. /\ S \in SUBSET (Alive \ {Me})
        /\ \A s \in Rooms, q \in People : cbuddies[s][q] \in S => s = r /\ q = p
    BY <2>1, <2>2, RoomMember
  <2>4. cbuddies[r][p] \in S OBVIOUS
  <2> HIDE DEF S
  <2>5. S \in SUBSET Alive BY <2>3
  <2>6. NicksLeft(S, {}) BY <1>0, <2>1, <2>5, NickGoneLeaves
  <2>7. Deleted(S, {})
    <3>1. chanUsers' = [c \in Channels |-> IF c \in {} THEN {} ELSE ChanGone(S)[c]]
      BY <2>1 DEF ChanGone
    <3>2. chans' = chans \ {} BY <2>1
    <3> QED BY <2>1, <2>3, <2>6, <3>1, <3>2 DEF Deleted, NicksLeft
  <2>8. RoomsLeft(S, {})
    <3>1. /\ cbuddies' \in [Rooms -> [People \cup {Me} -> Objs \cup {Null}]]
          /\ inRoom' \in [Rooms -> SUBSET (People \cup {Me})]
      BY <1>0, <2>1 DEF TypeOK
    <3>2. ASSUME NEW s \in Rooms, NEW q \in People \cup {Me}
          PROVE  /\ cbuddies'[s][q] = IF s = r /\ q = p THEN Null ELSE cbuddies[s][q]
                 /\ inRoom'[s] = IF s = r THEN inRoom[s] \ {p} ELSE inRoom[s]
      BY <1>0, <2>1 DEF TypeOK
    <3>3. \A s \in Rooms : cbuddies'[s][Me] = cbuddies[s][Me] BY <1>2, <3>2
    <3>4. \A s \in Rooms : s \notin chans => inRoom'[s] = inRoom[s] BY <2>1, <3>2
    <3>5. \A s \in Rooms, q \in People :
            /\ cbuddies'[s][q] = IF cbuddies[s][q] \in S THEN Null ELSE cbuddies[s][q]
            /\ q \in inRoom'[s] <=> q \in inRoom[s] /\ cbuddies[s][q] \notin S
      <4> SUFFICES ASSUME NEW s \in Rooms, NEW q \in People
                   PROVE  /\ cbuddies'[s][q] = IF cbuddies[s][q] \in S THEN Null ELSE cbuddies[s][q]
                          /\ q \in inRoom'[s] <=> q \in inRoom[s] /\ cbuddies[s][q] \notin S
        OBVIOUS
      <4>1. cbuddies[s][q] \in S <=> s = r /\ q = p BY <2>3, <2>4
      <4>2. /\ cbuddies'[s][q] = IF s = r /\ q = p THEN Null ELSE cbuddies[s][q]
            /\ inRoom'[s] = IF s = r THEN inRoom[s] \ {p} ELSE inRoom[s]
        BY <3>2
      <4> QED BY <4>1, <4>2
    <3> QED BY <3>1, <3>3, <3>4, <3>5 DEF RoomsLeft
  <2>9. ListsLeft(S, {})
    <3>1. \A o \in Alive \ {Me} : nick[o].srv \in servers BY <1>0 DEF UsersExact
    <3>2. \A t \in chans \ {Status} : RoomAccount[t] \in servers
      BY <1>0 DEF RoomsKept, TypeOK, Channels
    <3>3. \A b \in People : bnick[b] # Null => b \in blist BY <1>0 DEF PointersAgree
    <3> QED BY <1>0, <2>1, <3>1, <3>2, <3>3 DEF ListsLeft, TypeOK
  <2> QED BY <2>7, <2>8, <2>9, DeletedKeeps
<1> QED BY <1>1, <1>2 DEF remove_user
-----------------------------------------------------------------------------
(* A nick rec is made at o, enters IRC::users and joins its channels.      *)
Created(o, rec) ==
    /\ o \in Objs /\ nick[o] = Null /\ rec \in Nick
    /\ users[rec.name] = Null /\ rec.srv \in servers
    /\ rec.chans \subseteq chans
    /\ nick' = [nick EXCEPT ![o] = rec]
    /\ users' = [users EXCEPT ![rec.name] = o]
    /\ chanUsers' = [c \in Channels |-> IF c \in rec.chans THEN chanUsers[c] \cup {o}
                                        ELSE chanUsers[c]]
    /\ UNCHANGED <<servers, chans, statusAccts>>

(* What is known of the new nick and of the others.                        *)
NewNick(o, rec) ==
    /\ o \notin Alive /\ o # Me /\ o # Null
    /\ nick' \in [Objs -> Nick \cup {Null}] /\ Alive' = Alive \cup {o}
    /\ nick'[o] = rec /\ \A x \in Alive : nick'[x] = nick[x]
    /\ \A c \in Channels : o \notin chanUsers[c]
    /\ \A b \in People : bnick[b] # o /\ cnick[b] # o
    /\ \A r \in Rooms, p \in People \cup {Me} : cbuddies[r][p] # o

(* A new nick does not disturb the map of nicks and the channels.          *)
LEMMA CreatedKeeps ==
    ASSUME NetInv, NEW o, NEW rec, Created(o, rec)
    PROVE  /\ NewNick(o, rec) /\ nick'[Me] # Null
           /\ users' \in [Names -> Objs \cup {Null}] /\ chanUsers' \in [Channels -> SUBSET Objs]
           /\ UsersExact' /\ ChannelsAgree' /\ StatusKept'
<1>0. /\ TypeOK /\ UsersExact /\ ChannelsAgree /\ PointersAgree /\ ChannelsShow
      /\ Kinds /\ RoomsKept /\ StatusKept
  BY DEF NetInv
<1>1. o \notin Alive /\ o # Me /\ o # Null BY <1>0 DEF Created, Alive, TypeOK
<1>2. nick' \in [Objs -> Nick \cup {Null}] BY <1>0 DEF Created, TypeOK
<1>3. \A x \in Objs : nick'[x] = IF x = o THEN rec ELSE nick[x] BY <1>0 DEF Created, TypeOK
<1>4. /\ Alive' = Alive \cup {o} /\ nick'[o] = rec
      /\ \A x \in Alive : nick'[x] = nick[x] /\ x # o
  BY <1>1, <1>3 DEF Created, Alive
<1>5. \A c \in Channels : o \notin chanUsers[c] BY <1>0, <1>1 DEF ChannelsAgree
<1>6. \A b \in People : bnick[b] # o /\ cnick[b] # o BY <1>0, <1>1 DEF PointersAgree
<1>7. ASSUME NEW r \in Rooms, NEW p \in People \cup {Me} PROVE cbuddies[r][p] # o
  <2>1. CASE p = Me BY <1>0, <1>1, <2>1 DEF RoomsKept
  <2>2. CASE p \in People
    BY <1>1, <2>2, RoomMember
  <2> QED BY <2>1, <2>2
<1>8. NewNick(o, rec) BY <1>1, <1>2, <1>4, <1>5, <1>6, <1>7 DEF NewNick
<1>9. rec.name \in Names BY DEF Created, Nick
<1>10. users' \in [Names -> Objs \cup {Null}] BY <1>0, <1>9 DEF Created, TypeOK
<1>11. chanUsers' \in [Channels -> SUBSET Objs] BY <1>0 DEF Created, TypeOK
<1>12. UsersExact'
  <2>1. \A n \in Names : users'[n] = IF n = rec.name THEN o ELSE users[n]
    BY <1>0, <1>9 DEF Created, TypeOK
  <2>2. ASSUME NEW n \in Names, users'[n] # Null
        PROVE  users'[n] \in Alive' /\ nick'[users'[n]].name = n
    BY <1>0, <1>4, <2>1, <2>2 DEF UsersExact
  <2>3. ASSUME NEW x \in Alive' PROVE users'[nick'[x].name] = x
    <3>1. CASE x = o BY <1>4, <1>9, <2>1, <3>1
    <3>2. CASE x \in Alive
      <4>1. nick[x].name \in Names /\ users[nick[x].name] = x /\ x # Null
        BY <1>0, <3>2, AliveType DEF UsersExact, Nick, Alive
      <4>2. nick[x].name # rec.name BY <4>1 DEF Created
      <4> QED BY <1>4, <2>1, <3>2, <4>1, <4>2
    <3> QED BY <1>4, <3>1, <3>2
  <2>4. \A x \in Alive' \ {Me} : nick'[x].srv \in servers'
    BY <1>0, <1>4 DEF UsersExact, Created
  <2> QED BY <2>2, <2>3, <2>4 DEF UsersExact
<1>13. ChannelsAgree'
  <2>1. \A c \in Channels : chanUsers'[c] = IF c \in rec.chans THEN chanUsers[c] \cup {o}
                                            ELSE chanUsers[c]
    BY DEF Created
  <2>2. ASSUME NEW c \in Channels PROVE chanUsers'[c] = {x \in Alive' : c \in nick'[x].chans}
    <3>1. chanUsers[c] = {x \in Alive : c \in nick[x].chans} BY <1>0 DEF ChannelsAgree
    <3> QED BY <1>4, <2>1, <3>1
  <2>3. \A c \in Channels \ chans' : chanUsers'[c] = {} BY <1>0, <2>1 DEF ChannelsAgree, Created
  <2> QED BY <2>2, <2>3 DEF ChannelsAgree
<1>14. StatusKept' BY <1>0 DEF StatusKept, Created
<1>15. nick'[Me] # Null BY <1>0, <1>1, <1>3 DEF TypeOK
<1> QED BY <1>8, <1>10, <1>11, <1>12, <1>13, <1>14, <1>15

(* Buddy::update_node() of a buddy without a nick.                         *)
LEMMA NewBuddyKeeps ==
    ASSUME NetInv, NEW b \in People, NEW on \in BOOLEAN, NEW o \in Objs,
           b \in blist, AccountOf[b] \in servers, bnick[b] = Null,
           online' = IF on THEN online \cup {b} ELSE online \ {b},
           AddNick(o, NewBuddy(b)), Updated(o, NewBuddy(b), on),
           bnick' = [bnick EXCEPT ![b] = o],
           UNCHANGED <<servers, chans, cbuddies, inRoom, statusAccts, blist, convs, cnick, alive>>
    PROVE  NetInv'
<1>0. /\ TypeOK /\ UsersExact /\ ChannelsAgree /\ PointersAgree /\ ChannelsShow
      /\ Kinds /\ RoomsKept /\ StatusKept
  BY DEF NetInv
<1> DEFINE n == FreshName(BaseOf[b])
           shown == on /\ AccountOf[b] \in statusAccts
           C == IF shown THEN {Status} ELSE {}
           rec == [NewBuddy(b) EXCEPT !.chans = C]
<1>1. n \in Names /\ users[n] = Null BY <1>0, FreshNameFree
<1> HIDE DEF n
<1>2. Created(o, rec)
  <2>1. rec \in Nick /\ rec.chans = C /\ rec.name = n /\ rec.srv = AccountOf[b]
    <3>1. NewBuddy(b) \in Nick BY <1>1 DEF NewBuddy, Nick, n
    <3>2. NewBuddy(b).name = n /\ NewBuddy(b).srv = AccountOf[b] BY DEF NewBuddy, n
    <3>3. C \in SUBSET Channels BY DEF Channels
    <3> HIDE DEF C
    <3> QED BY <3>1, <3>2, <3>3 DEF Nick
  <2>2. nick' = [nick EXCEPT ![o] = rec]
    <3>1. NewBuddy(b).srv = AccountOf[b] /\ NewBuddy(b).chans = {} BY DEF NewBuddy
    <3>2. (IF shown THEN NewBuddy(b).chans \cup {Status} ELSE NewBuddy(b).chans) = C BY <3>1
    <3> QED BY <3>1, <3>2 DEF Updated
  <2>3. chanUsers' = [c \in Channels |-> IF c \in rec.chans THEN chanUsers[c] \cup {o}
                                         ELSE chanUsers[c]]
    BY <2>1 DEF Updated, NewBuddy
  <2>4. users' = [users EXCEPT ![rec.name] = o] /\ nick[o] = Null
    BY DEF AddNick, NewBuddy, n
  <2>5. rec.chans \subseteq chans BY <1>0 DEF StatusKept
  <2> QED BY <1>1, <2>1, <2>2, <2>3, <2>4, <2>5 DEF Created
<1> HIDE DEF rec
<1>3. /\ NewNick(o, rec) /\ nick'[Me] # Null
      /\ users' \in [Names -> Objs \cup {Null}] /\ chanUsers' \in [Channels -> SUBSET Objs]
      /\ UsersExact' /\ ChannelsAgree' /\ StatusKept'
  BY <1>2, CreatedKeeps
<1>4. /\ rec.kind = "buddy" /\ rec.who = b /\ rec.srv = AccountOf[b] /\ rec.conv = Null
      /\ rec.chans = IF shown THEN {Status} ELSE {}
  BY DEF rec, NewBuddy
<1>5. \A c \in People : bnick'[c] = IF c = b THEN o ELSE bnick[c] BY <1>0 DEF TypeOK
<1>6. \A c \in Channels : chanUsers'[c] = IF c \in rec.chans THEN chanUsers[c] \cup {o}
                                          ELSE chanUsers[c]
  BY <1>2 DEF Created
<1>7. TypeOK'
  <2>1. bnick' \in [People -> Objs \cup {Null}] BY <1>0 DEF TypeOK
  <2>2. online' \subseteq blist' BY <1>0 DEF TypeOK
  <2> QED BY <1>0, <1>3, <2>1, <2>2 DEF TypeOK, NewNick
<1>8. PointersAgree'
  <2>1. ASSUME NEW c \in People, bnick'[c] # Null
        PROVE  c \in blist' /\ bnick'[c] \in Alive' /\ nick'[bnick'[c]].kind = "buddy"
                            /\ nick'[bnick'[c]].who = c
    BY <1>0, <1>3, <1>4, <1>5, <2>1 DEF PointersAgree, NewNick
  <2>2. ASSUME NEW x \in Alive', nick'[x].kind = "buddy" PROVE bnick'[nick'[x].who] = x
    <3>1. CASE x = o BY <1>3, <1>4, <1>5, <3>1 DEF NewNick
    <3>2. CASE x # o
      <4>1. x \in Alive /\ nick'[x] = nick[x] BY <1>3, <3>2 DEF NewNick
      <4>2. bnick[nick[x].who] = x /\ nick[x].who \in People
        BY <1>0, <2>2, <4>1 DEF PointersAgree, Kinds
      <4>3. x # Null BY <4>1 DEF Alive
      <4> QED BY <1>5, <4>1, <4>2, <4>3
    <3> QED BY <3>1, <3>2
  <2>3. ASSUME NEW p \in People, cnick'[p] # Null
        PROVE  p \in convs' /\ cnick'[p] \in Alive' /\ nick'[cnick'[p]].conv = p
    BY <1>0, <1>3, <2>3 DEF PointersAgree, NewNick
  <2>4. ASSUME NEW x \in Alive', nick'[x].conv # Null PROVE cnick'[nick'[x].conv] = x
    BY <1>0, <1>3, <1>4, <2>4 DEF PointersAgree, NewNick
  <2> QED BY <2>1, <2>2, <2>3, <2>4 DEF PointersAgree
<1>9. ChannelsShow'
  <2>1. ASSUME NEW r \in chans' \ {Status}, NEW p \in People
        PROVE  /\ cbuddies'[r][p] # Null <=> p \in inRoom'[r]
               /\ cbuddies'[r][p] # Null =>
                    /\ cbuddies'[r][p] \in Alive' /\ nick'[cbuddies'[r][p]].kind = "chat"
                    /\ nick'[cbuddies'[r][p]].who = p /\ cbuddies'[r][p] \in chanUsers'[r]
    <3>1. r \in chans \ {Status} /\ r \in Channels BY <1>0 DEF TypeOK
    <3>2. chanUsers'[r] = chanUsers[r] BY <1>4, <1>6, <3>1
    <3> QED BY <1>0, <1>3, <3>1, <3>2 DEF ChannelsShow, NewNick
  <2>2. ASSUME NEW x \in Alive', nick'[x].kind = "chat"
        PROVE  \E r \in chans' \ {Status} : cbuddies'[r][nick'[x].who] = x
    BY <1>0, <1>3, <1>4, <2>2 DEF ChannelsShow, NewNick
  <2>3. ASSUME NEW c \in blist', bnick'[c] # Null
        PROVE  bnick'[c] \in chanUsers'[Status]
                 <=> c \in online' /\ AccountOf[c] \in statusAccts'
    <3>0. c \in People /\ Status \in Channels BY <1>0 DEF TypeOK, Channels
    <3>1. CASE c = b
      <4>1. o \in chanUsers'[Status] <=> shown BY <1>3, <1>4, <1>6, <3>0 DEF NewNick
      <4>2. c \in online' <=> on BY <3>1
      <4> QED BY <1>5, <3>0, <3>1, <4>1, <4>2
    <3>2. CASE c # b
      <4>1. bnick'[c] = bnick[c] /\ bnick[c] # o BY <1>3, <1>5, <3>0, <3>2 DEF NewNick
      <4>2. bnick[c] \in chanUsers'[Status] <=> bnick[c] \in chanUsers[Status]
        BY <1>6, <3>0, <4>1
      <4>3. c \in online' <=> c \in online BY <3>2
      <4> QED BY <1>0, <2>3, <4>1, <4>2, <4>3 DEF ChannelsShow
    <3> QED BY <3>1, <3>2
  <2> QED BY <2>1, <2>2, <2>3 DEF ChannelsShow
<1>10. Kinds'
  <2>1. ASSUME NEW x \in Alive
        PROVE  nick'[x] = nick[x] /\ x # o
    BY <1>3 DEF NewNick
  <2>2. Alive' = Alive \cup {o} /\ nick'[o] = rec /\ o # Me BY <1>3 DEF NewNick
  <2> QED BY <1>0, <1>4, <2>1, <2>2 DEF Kinds
<1>11. RoomsKept' BY <1>0, KeepRooms
<1> QED BY <1>3, <1>7, <1>8, <1>9, <1>10, <1>11 DEF NetInv

(* Conversation::add_users() of somebody else: his nick joins the room.    *)
LEMMA NewChatKeeps ==
    ASSUME NetInv, NEW r \in Rooms, NEW p \in People, NEW o \in Objs,
           r \in chans, p \notin inRoom[r], cbuddies[r][p] = Null,
           inRoom' = [inRoom EXCEPT ![r] = @ \cup {p}],
           AddNick(o, NewChat(r, p)), nick' = [nick EXCEPT ![o] = NewChat(r, p)],
           chanUsers' = [chanUsers EXCEPT ![r] = @ \cup {o}],
           cbuddies' = [cbuddies EXCEPT ![r][p] = o],
           UNCHANGED <<servers, chans, statusAccts, blist, online, bnick, convs, cnick, alive>>
    PROVE  NetInv'
<1>0. /\ TypeOK /\ UsersExact /\ ChannelsAgree /\ PointersAgree /\ ChannelsShow
      /\ Kinds /\ RoomsKept /\ StatusKept
  BY DEF NetInv
<1> DEFINE rec == NewChat(r, p)
<1>1. FreshName(BaseOf[p]) \in Names /\ users[FreshName(BaseOf[p])] = Null
  BY <1>0, FreshNameFree
<1>2. /\ rec.kind = "chat" /\ rec.who = p /\ rec.srv = RoomAccount[r] /\ rec.conv = Null
      /\ rec.chans = {r} /\ rec.name = FreshName(BaseOf[p])
  BY DEF NewChat
<1>3. rec \in Nick BY <1>1 DEF NewChat, Nick, Channels
<1>4. r \in Channels /\ r # Status /\ p # Me BY DEF Channels
<1> HIDE DEF rec
<1>5. Created(o, rec)
  <2>1. chanUsers' = [c \in Channels |-> IF c \in rec.chans THEN chanUsers[c] \cup {o}
                                         ELSE chanUsers[c]]
    BY <1>0, <1>2 DEF TypeOK
  <2>2. nick[o] = Null /\ users' = [users EXCEPT ![rec.name] = o] BY DEF AddNick, rec
  <2>3. rec.srv \in servers BY <1>0, <1>2 DEF RoomsKept
  <2>4. nick' = [nick EXCEPT ![o] = rec] BY DEF rec
  <2> QED BY <1>1, <1>2, <1>3, <2>1, <2>2, <2>3, <2>4 DEF Created
<1>6. /\ NewNick(o, rec) /\ nick'[Me] # Null
      /\ users' \in [Names -> Objs \cup {Null}] /\ chanUsers' \in [Channels -> SUBSET Objs]
      /\ UsersExact' /\ ChannelsAgree' /\ StatusKept'
  BY <1>5, CreatedKeeps
<1>7. \A s \in Rooms, q \in People \cup {Me} :
        cbuddies'[s][q] = IF s = r /\ q = p THEN o ELSE cbuddies[s][q]
  BY <1>0 DEF TypeOK
<1>8. \A s \in Rooms : inRoom'[s] = IF s = r THEN inRoom[s] \cup {p} ELSE inRoom[s]
  BY <1>0 DEF TypeOK
<1>9. \A c \in Channels : chanUsers'[c] = IF c = r THEN chanUsers[c] \cup {o} ELSE chanUsers[c]
  BY <1>0 DEF TypeOK
<1>10. TypeOK'
  <2>1. /\ cbuddies' \in [Rooms -> [People \cup {Me} -> Objs \cup {Null}]]
        /\ inRoom' \in [Rooms -> SUBSET (People \cup {Me})]
    BY <1>0 DEF TypeOK
  <2> QED BY <1>0, <1>6, <2>1 DEF TypeOK, NewNick
<1>11. PointersAgree'
  <2>1. ASSUME NEW b \in People, bnick'[b] # Null
        PROVE  b \in blist' /\ bnick'[b] \in Alive' /\ nick'[bnick'[b]].kind = "buddy"
                            /\ nick'[bnick'[b]].who = b
    BY <1>0, <1>6, <2>1 DEF PointersAgree, NewNick
  <2>2. ASSUME NEW x \in Alive', nick'[x].kind = "buddy" PROVE bnick'[nick'[x].who] = x
    BY <1>0, <1>2, <1>6, <2>2 DEF PointersAgree, NewNick
  <2>3. ASSUME NEW q \in People, cnick'[q] # Null
        PROVE  q \in convs' /\ cnick'[q] \in Alive' /\ nick'[cnick'[q]].conv = q
    BY <1>0, <1>6, <2>3 DEF PointersAgree, NewNick
  <2>4. ASSUME NEW x \in Alive', nick'[x].conv # Null PROVE cnick'[nick'[x].conv] = x
    BY <1>0, <1>2, <1>6, <2>4 DEF PointersAgree, NewNick
  <2> QED BY <2>1, <2>2, <2>3, <2>4 DEF PointersAgree
<1>12. ChannelsShow'
  <2>1. ASSUME NEW s \in chans' \ {Status}, NEW q \in People
        PROVE  /\ cbuddies'[s][q] # Null <=> q \in inRoom'[s]
               /\ cbuddies'[s][q] # Null =>
                    /\ cbuddies'[s][q] \in Alive' /\ nick'[cbuddies'[s][q]].kind = "chat"
                    /\ nick'[cbuddies'[s][q]].who = q /\ cbuddies'[s][q] \in chanUsers'[s]
    <3>1. s \in chans \ {Status} /\ s \in Channels /\ s \in Rooms BY <1>0 DEF TypeOK, Channels
    <3>2. CASE s = r /\ q = p
      <4>1. cbuddies'[r][p] = o BY <1>7
      <4>2. inRoom'[r] = inRoom[r] \cup {p} BY <1>8
      <4>3. chanUsers'[r] = chanUsers[r] \cup {o} BY <1>4, <1>9
      <4> QED BY <1>2, <1>6, <3>2, <4>1, <4>2, <4>3 DEF NewNick
    <3>3. CASE ~(s = r /\ q = p)
      <4>1. /\ cbuddies'[s][q] = cbuddies[s][q] /\ (q \in inRoom'[s] <=> q \in inRoom[s])
            /\ chanUsers[s] \subseteq chanUsers'[s]
        BY <1>7, <1>8, <1>9, <3>1, <3>3
      <4> QED BY <1>0, <1>6, <3>1, <4>1 DEF ChannelsShow, NewNick
    <3> QED BY <3>2, <3>3
  <2>2. ASSUME NEW x \in Alive', nick'[x].kind = "chat"
        PROVE  \E s \in chans' \ {Status} : cbuddies'[s][nick'[x].who] = x
    <3>1. CASE x = o BY <1>2, <1>4, <1>6, <1>7, <3>1 DEF NewNick
    <3>2. CASE x # o
      <4>1. x \in Alive /\ nick'[x] = nick[x] /\ nick[x].kind = "chat" /\ x # Null
        BY <1>6, <2>2, <3>2 DEF NewNick, Alive
      <4>2. nick[x].who \in People BY <1>0, <4>1 DEF Kinds
      <4>3. PICK s \in chans \ {Status} : cbuddies[s][nick[x].who] = x
        BY <1>0, <4>1 DEF ChannelsShow
      <4>4. s \in Rooms BY <1>0 DEF TypeOK, Channels
      <4>5. cbuddies'[s][nick[x].who] = x BY <1>7, <4>1, <4>2, <4>3, <4>4
      <4> QED BY <4>1, <4>5
    <3> QED BY <3>1, <3>2
  <2>3. ASSUME NEW b \in blist', bnick'[b] # Null
        PROVE  bnick'[b] \in chanUsers'[Status]
                 <=> b \in online' /\ AccountOf[b] \in statusAccts'
    <3>1. chanUsers'[Status] = chanUsers[Status] BY <1>4, <1>9 DEF Channels
    <3> QED BY <1>0, <2>3, <3>1 DEF ChannelsShow
  <2> QED BY <2>1, <2>2, <2>3 DEF ChannelsShow
<1>13. Kinds'
  <2>1. \A x \in Alive : nick'[x] = nick[x] /\ x # o BY <1>6 DEF NewNick
  <2>2. Alive' = Alive \cup {o} /\ nick'[o] = rec /\ o # Me BY <1>6 DEF NewNick
  <2>3. ASSUME NEW x \in Alive', nick'[x].kind = "chat"
        PROVE  \E s \in Rooms : /\ s \in chans' /\ nick'[x].chans = {s}
                                /\ nick'[x].srv = RoomAccount[s]
                                /\ cbuddies'[s][nick'[x].who] = x
    <3>1. CASE x = o BY <1>2, <1>7, <2>2, <3>1
    <3>2. CASE x \in Alive
      <4>1. nick'[x] = nick[x] /\ nick[x].who \in People /\ x # Null
        BY <1>0, <2>1, <2>3, <3>2 DEF Kinds, Alive
      <4>2. PICK s \in Rooms : /\ s \in chans /\ nick[x].chans = {s}
                               /\ nick[x].srv = RoomAccount[s]
                               /\ cbuddies[s][nick[x].who] = x
        BY <1>0, <2>3, <3>2, <4>1 DEF Kinds
      <4>3. cbuddies'[s][nick[x].who] = x BY <1>7, <4>1, <4>2
      <4> QED BY <4>1, <4>2, <4>3
    <3> QED BY <2>2, <3>1, <3>2
  <2>4. ASSUME NEW x \in Alive'
        PROVE  /\ nick'[x].kind = "user" <=> x = Me
               /\ x = Me => nick'[x].conv = Null /\ nick'[x].srv = Null
               /\ x # Me => nick'[x].who \in People /\ nick'[x].srv \in Accounts
               /\ nick'[x].kind = "buddy" => /\ nick'[x].srv = AccountOf[nick'[x].who]
                                            /\ nick'[x].chans \subseteq {Status}
               /\ nick'[x].kind = "unknown" => nick'[x].chans = {}
    BY <1>0, <1>2, <2>1, <2>2 DEF Kinds
  <2> QED BY <2>3, <2>4 DEF Kinds
<1>14. RoomsKept'
  <2>1. ASSUME NEW s \in Rooms
        PROVE  /\ s \in chans' => RoomAccount[s] \in servers'
               /\ s \notin chans' => inRoom'[s] = {} /\ \A q \in People \cup {Me} : cbuddies'[s][q] = Null
               /\ cbuddies'[s][Me] \in {Null, Me}
    BY <1>0, <1>4, <1>7, <1>8 DEF RoomsKept
  <2> QED BY <2>1 DEF RoomsKept
<1> QED BY <1>6, <1>10, <1>11, <1>12, <1>13, <1>14 DEF NetInv

(* Conversation::recvMessage() from somebody who has no nick.              *)
LEMMA NewUnknownKeeps ==
    ASSUME NetInv, NEW p \in People, NEW o \in Objs,
           AccountOf[p] \in servers, cnick[p] = Null, convs' = convs \cup {p},
           AddNick(o, NewUnknown(p)), nick' = [nick EXCEPT ![o] = NewUnknown(p)],
           cnick' = [cnick EXCEPT ![p] = o],
           UNCHANGED <<servers, chans, chanUsers, cbuddies, inRoom, statusAccts, blist, online,
                       bnick, alive>>
    PROVE  NetInv'
<1>0. /\ TypeOK /\ UsersExact /\ ChannelsAgree /\ PointersAgree /\ ChannelsShow
      /\ Kinds /\ RoomsKept /\ StatusKept
  BY DEF NetInv
<1> DEFINE rec == NewUnknown(p)
<1>1. FreshName(BaseOf[p]) \in Names /\ users[FreshName(BaseOf[p])] = Null
  BY <1>0, FreshNameFree
<1>2. /\ rec.kind = "unknown" /\ rec.who = p /\ rec.srv = AccountOf[p] /\ rec.conv = p
      /\ rec.chans = {} /\ rec.name = FreshName(BaseOf[p])
  BY DEF NewUnknown
<1>3. rec \in Nick BY <1>1 DEF NewUnknown, Nick
<1> HIDE DEF rec
<1>4. Created(o, rec)
  <2>1. chanUsers' = [c \in Channels |-> IF c \in rec.chans THEN chanUsers[c] \cup {o}
                                         ELSE chanUsers[c]]
    BY <1>0, <1>2 DEF TypeOK
  <2>2. nick[o] = Null /\ users' = [users EXCEPT ![rec.name] = o] BY DEF AddNick, rec
  <2>3. nick' = [nick EXCEPT ![o] = rec] BY DEF rec
  <2> QED BY <1>1, <1>2, <1>3, <2>1, <2>2, <2>3 DEF Created
<1>5. /\ NewNick(o, rec) /\ nick'[Me] # Null
      /\ users' \in [Names -> Objs \cup {Null}] /\ chanUsers' \in [Channels -> SUBSET Objs]
      /\ UsersExact' /\ ChannelsAgree' /\ StatusKept'
  BY <1>4, CreatedKeeps
<1>6. \A q \in People : cnick'[q] = IF q = p THEN o ELSE cnick[q] BY <1>0 DEF TypeOK
<1>7. TypeOK'
  <2>1. cnick' \in [People -> Objs \cup {Null}] BY <1>0 DEF TypeOK
  <2> QED BY <1>0, <1>5, <2>1 DEF TypeOK, NewNick
<1>8. PointersAgree'
  <2>1. ASSUME NEW b \in People, bnick'[b] # Null
        PROVE  b \in blist' /\ bnick'[b] \in Alive' /\ nick'[bnick'[b]].kind = "buddy"
                            /\ nick'[bnick'[b]].who = b
    BY <1>0, <1>5, <2>1 DEF PointersAgree, NewNick
  <2>2. ASSUME NEW x \in Alive', nick'[x].kind = "buddy" PROVE bnick'[nick'[x].who] = x
    BY <1>0, <1>2, <1>5, <2>2 DEF PointersAgree, NewNick
  <2>3. ASSUME NEW q \in People, cnick'[q] # Null
        PROVE  q \in convs' /\ cnick'[q] \in Alive' /\ nick'[cnick'[q]].conv = q
    BY <1>0, <1>2, <1>5, <1>6, <2>3 DEF PointersAgree, NewNick
  <2>4. ASSUME NEW x \in Alive', nick'[x].conv # Null PROVE cnick'[nick'[x].conv] = x
    <3>1. CASE x = o BY <1>2, <1>5, <1>6, <3>1 DEF NewNick
    <3>2. CASE x # o
      <4>1. x \in Alive /\ nick'[x] = nick[x] /\ x # Null BY <1>5, <3>2 DEF NewNick, Alive
      <4>2. nick[x].conv \in People BY <1>0, <2>4, <4>1, AliveType DEF Nick
      <4>3. cnick[nick[x].conv] = x BY <1>0, <2>4, <4>1 DEF PointersAgree
      <4> QED BY <1>6, <4>1, <4>2, <4>3
    <3> QED BY <3>1, <3>2
  <2> QED BY <2>1, <2>2, <2>3, <2>4 DEF PointersAgree
<1>9. ChannelsShow'
  <2>1. ASSUME NEW r \in chans' \ {Status}, NEW q \in People
        PROVE  /\ cbuddies'[r][q] # Null <=> q \in inRoom'[r]
               /\ cbuddies'[r][q] # Null =>
                    /\ cbuddies'[r][q] \in Alive' /\ nick'[cbuddies'[r][q]].kind = "chat"
                    /\ nick'[cbuddies'[r][q]].who = q /\ cbuddies'[r][q] \in chanUsers'[r]
    BY <1>0, <1>5 DEF ChannelsShow, NewNick
  <2>2. ASSUME NEW x \in Alive', nick'[x].kind = "chat"
        PROVE  \E r \in chans' \ {Status} : cbuddies'[r][nick'[x].who] = x
    BY <1>0, <1>2, <1>5, <2>2 DEF ChannelsShow, NewNick
  <2>3. ASSUME NEW b \in blist', bnick'[b] # Null
        PROVE  bnick'[b] \in chanUsers'[Status]
                 <=> b \in online' /\ AccountOf[b] \in statusAccts'
    BY <1>0, <2>3 DEF ChannelsShow
  <2> QED BY <2>1, <2>2, <2>3 DEF ChannelsShow
<1>10. Kinds'
  <2>1. \A x \in Alive : nick'[x] = nick[x] /\ x # o BY <1>5 DEF NewNick
  <2>2. Alive' = Alive \cup {o} /\ nick'[o] = rec /\ o # Me BY <1>5 DEF NewNick
  <2> QED BY <1>0, <1>2, <2>1, <2>2 DEF Kinds
<1>11. RoomsKept' BY <1>0, KeepRooms
<1> QED BY <1>5, <1>7, <1>8, <1>9, <1>10, <1>11 DEF NetInv

(* Conversation::recvMessage() from somebody who has one: the nick that    *)
(* answers to the conversation loses the one it had.                       *)
LEMMA ReboundKeeps ==
    ASSUME NetInv, NEW p \in People, NEW n \in Alive,
           nick[n].kind = "buddy", cnick[p] = Null, convs' = convs \cup {p},
           cnick' = Rebound([cnick EXCEPT ![p] = n], n), nick' = [nick EXCEPT ![n].conv = p],
           UNCHANGED <<users, servers, chans, chanUsers, cbuddies, inRoom, statusAccts, blist,
                       online, bnick, alive>>
    PROVE  NetInv'
<1>0. /\ TypeOK /\ UsersExact /\ ChannelsAgree /\ PointersAgree /\ ChannelsShow
      /\ Kinds /\ RoomsKept /\ StatusKept
  BY DEF NetInv
<1>1. n \in Objs /\ nick[n] \in Nick /\ n # Me /\ n # Null BY <1>0, AliveType DEF Kinds
<1>2. ASSUME NEW x \in Objs
      PROVE  nick'[x] = IF x = n THEN [nick[n] EXCEPT !.conv = p] ELSE nick[x]
  BY <1>0 DEF TypeOK
<1>3. [nick[n] EXCEPT !.conv = p] \in Nick /\ [nick[n] EXCEPT !.conv = p].conv = p
  BY <1>1 DEF Nick
<1>4. nick' \in [Objs -> Nick \cup {Null}] BY <1>0, <1>3 DEF TypeOK
<1>5. Alive' = Alive BY <1>1, <1>2, <1>3 DEF Alive
<1>6. ASSUME NEW x \in Alive
      PROVE  /\ nick'[x].kind = nick[x].kind /\ nick'[x].srv = nick[x].srv
             /\ nick'[x].name = nick[x].name /\ nick'[x].who = nick[x].who
             /\ nick'[x].chans = nick[x].chans
             /\ nick'[x].conv = IF x = n THEN p ELSE nick[x].conv
  BY <1>0, <1>1, <1>2, <1>3, AliveType DEF Nick
<1>7. SameNicks /\ SameNames /\ SameWho /\ SameChans
  BY <1>4, <1>5, <1>6 DEF SameNicks, SameNames, SameWho, SameChans
<1>8. ASSUME NEW q \in People
      PROVE  cnick'[q] = IF q = p THEN n ELSE IF cnick[q] = n THEN Null ELSE cnick[q]
  <2> DEFINE c == [cnick EXCEPT ![p] = n]
             old == nick[n].conv
  <2>1. c \in [People -> Objs \cup {Null}] /\ \A y \in People : c[y] = IF y = p THEN n ELSE cnick[y]
    BY <1>0, <1>1 DEF TypeOK
  <2>2. old \in People \cup {Null} BY <1>1 DEF Nick
  <2>3. old # Null => cnick[old] = n BY <1>0 DEF PointersAgree
  <2>4. \A y \in People : cnick[y] = n => old = y BY <1>0, <1>1 DEF PointersAgree
  <2>5. old # p BY <1>0, <1>1, <2>3
  <2>6. cnick' = IF old # Null /\ c[old] = n THEN [c EXCEPT ![old] = Null] ELSE c
    BY DEF Rebound
  <2> HIDE DEF c, old
  <2>7. CASE old = Null BY <1>1, <2>1, <2>4, <2>6, <2>7
  <2>8. CASE old # Null
    <3>1. cnick' = [c EXCEPT ![old] = Null] BY <2>1, <2>2, <2>3, <2>6, <2>8
    <3>2. cnick'[q] = IF q = old THEN Null ELSE c[q] BY <2>1, <3>1
    <3> QED BY <1>1, <2>1, <2>2, <2>3, <2>4, <2>5, <2>8, <3>2
  <2> QED BY <2>7, <2>8
<1>9. cnick' \in [People -> Objs \cup {Null}] BY <1>0, <1>1 DEF TypeOK, Rebound
<1>10. TypeOK'
  <2>1. nick'[Me] # Null BY <1>0, <1>1, <1>2 DEF TypeOK
  <2> QED BY <1>0, <1>4, <1>9, <2>1 DEF TypeOK
<1>11. PointersAgree'
  <2>1. \A b \in People : bnick'[b] # Null =>
          b \in blist' /\ bnick'[b] \in Alive' /\ nick'[bnick'[b]].kind = "buddy"
                       /\ nick'[bnick'[b]].who = b
    BY <1>0, <1>5, <1>6 DEF PointersAgree
  <2>2. \A x \in Alive' : nick'[x].kind = "buddy" => bnick'[nick'[x].who] = x
    BY <1>0, <1>5, <1>6 DEF PointersAgree
  <2>3. ASSUME NEW q \in People, cnick'[q] # Null
        PROVE  q \in convs' /\ cnick'[q] \in Alive' /\ nick'[cnick'[q]].conv = q
    <3>1. nick'[n].conv = p BY <1>6
    <3>2. CASE q = p BY <1>5, <1>8, <3>1, <3>2
    <3>3. CASE q # p
      <4>1. cnick'[q] = cnick[q] /\ cnick[q] # n /\ cnick[q] # Null BY <1>8, <2>3, <3>3
      <4>2. q \in convs /\ cnick[q] \in Alive /\ nick[cnick[q]].conv = q
        BY <1>0, <4>1 DEF PointersAgree
      <4>3. nick'[cnick[q]].conv = nick[cnick[q]].conv BY <1>6, <4>1, <4>2
      <4> QED BY <1>5, <4>1, <4>2, <4>3
    <3> QED BY <3>2, <3>3
  <2>4. ASSUME NEW x \in Alive', nick'[x].conv # Null PROVE cnick'[nick'[x].conv] = x
    <3>1. CASE x = n
      <4>1. nick'[n].conv = p BY <1>6
      <4>2. cnick'[p] = n BY <1>8
      <4> QED BY <3>1, <4>1, <4>2
    <3>2. CASE x # n
      <4>1. x \in Alive /\ nick'[x].conv = nick[x].conv /\ x # Null
        BY <1>5, <1>6, <3>2 DEF Alive
      <4>2. nick[x].conv \in People BY <1>0, <2>4, <4>1, AliveType DEF Nick
      <4>3. cnick[nick[x].conv] = x BY <1>0, <2>4, <4>1 DEF PointersAgree
      <4> QED BY <1>8, <3>2, <4>1, <4>2, <4>3
    <3> QED BY <3>1, <3>2
  <2> QED BY <2>1, <2>2, <2>3, <2>4 DEF PointersAgree
<1>12. nick'[Me].conv = nick[Me].conv BY <1>0, <1>1, <1>2 DEF TypeOK
<1>13. UsersExact' /\ ChannelsAgree' /\ ChannelsShow' /\ Kinds' /\ RoomsKept' /\ StatusKept'
  BY <1>0, <1>7, <1>12, KeepUsers, KeepChannels, KeepShow, KeepKinds, KeepRooms DEF StatusKept
<1> QED BY <1>10, <1>11, <1>13 DEF NetInv

(* Conversation::recvMessage()                                             *)
LEMMA RecvMessageKeeps ==
    ASSUME NetInv, NEW p \in People, NEW from \in Names, NEW accept \in BOOLEAN,
           recvMessage(p, from, accept)
    PROVE  NetInv'
<1>0. /\ TypeOK /\ UsersExact /\ ChannelsAgree /\ PointersAgree /\ ChannelsShow
      /\ Kinds /\ RoomsKept /\ StatusKept
  BY DEF NetInv
<1> DEFINE byConv == {o \in Known : nick[o].conv = p}
           byName == {o \in {users[from]} \ {Null} : nick[o].kind = "buddy"}
           found == IF byConv # {} THEN byConv ELSE byName
<1>1. /\ AccountOf[p] \in servers /\ convs' = convs \cup {p}
      /\ UNCHANGED <<servers, chans, chanUsers, cbuddies, inRoom, statusAccts, blist, online,
                     bnick, alive>>
  BY DEF recvMessage, chanVars, listVars
<1>2. CASE UNCHANGED <<nick, users, cnick>>
  <2>1. SameNicks /\ SameNames /\ SameWho /\ SameChans /\ SameConv
    BY <1>0, <1>2 DEF SameNicks, SameNames, SameWho, SameChans, SameConv, TypeOK, Alive
  <2>2. TypeOK' BY <1>0, <1>1, <1>2 DEF TypeOK
  <2>3. PointersAgree' BY <1>0, <1>1, <1>2 DEF PointersAgree, Alive
  <2>4. UsersExact' /\ ChannelsAgree' /\ ChannelsShow' /\ Kinds' /\ RoomsKept' /\ StatusKept'
    BY <1>0, <1>1, <1>2, <2>1, KeepUsers, KeepChannels, KeepShow, KeepKinds, KeepRooms
    DEF StatusKept
  <2> QED BY <2>2, <2>3, <2>4 DEF NetInv
<1>3. CASE /\ cnick[p] = Null
           /\ \E n \in found : /\ cnick' = Rebound([cnick EXCEPT ![p] = n], n)
                               /\ nick' = [nick EXCEPT ![n].conv = p]
           /\ UNCHANGED users
  <2>1. PICK n \in found : /\ cnick' = Rebound([cnick EXCEPT ![p] = n], n)
                           /\ nick' = [nick EXCEPT ![n].conv = p]
    BY <1>3
  <2>2. ASSUME NEW o \in byConv PROVE FALSE
    <3>1. o \in Alive /\ nick[o].conv = p /\ o # Null /\ p # Null
      BY <1>0 DEF Known, UsersExact, Alive
    <3> QED BY <1>0, <1>3, <3>1 DEF PointersAgree
  <2>3. n \in byName BY <2>2
  <2>4. n \in Alive /\ nick[n].kind = "buddy" BY <1>0, <2>3 DEF UsersExact
  <2> QED BY <1>1, <1>3, <2>1, <2>4, ReboundKeeps
<1>4. CASE /\ cnick[p] = Null
           /\ \E o \in Objs : /\ AddNick(o, NewUnknown(p))
                              /\ nick' = [nick EXCEPT ![o] = NewUnknown(p)]
                              /\ cnick' = [cnick EXCEPT ![p] = o]
  BY <1>1, <1>4, NewUnknownKeeps
<1> QED BY <1>2, <1>3, <1>4 DEF recvMessage

(* The conversations after a step that deletes the nicks of S, of people   *)
(* who only wrote, and leaves the other nicks on their channels.           *)
ConvsLeft(S) ==
    /\ S \subseteq Alive /\ \A x \in S : nick[x].kind = "unknown"
    /\ nick' \in [Objs -> Nick \cup {Null}] /\ Alive' = Alive \ S
    /\ \A x \in Alive \ S :
        /\ nick'[x].kind = nick[x].kind /\ nick'[x].name = nick[x].name
        /\ nick'[x].srv = nick[x].srv /\ nick'[x].who = nick[x].who
        /\ nick'[x].chans = nick[x].chans
    /\ nick'[Me].conv = nick[Me].conv
    /\ users' = UsersGone(S)
    /\ convs' \subseteq People /\ cnick' \in [People -> Objs \cup {Null}]
    /\ \A p \in People : cnick'[p] # Null =>
          p \in convs' /\ cnick'[p] \in Alive' /\ nick'[cnick'[p]].conv = p
    /\ \A x \in Alive' : nick'[x].conv # Null => cnick'[nick'[x].conv] = x
    /\ UNCHANGED <<servers, chanVars, statusAccts, listVars, bnick, alive>>

(* Such a step keeps everything else in order.                             *)
LEMMA ConvsLeftKeeps ==
    ASSUME NetInv, NEW S, ConvsLeft(S)
    PROVE  NetInv'
<1>0. /\ TypeOK /\ UsersExact /\ ChannelsAgree /\ PointersAgree /\ ChannelsShow
      /\ Kinds /\ RoomsKept /\ StatusKept
  BY DEF NetInv
<1>1. UNCHANGED <<servers, chans, chanUsers, cbuddies, inRoom, statusAccts, blist, online,
                  bnick, alive>>
  BY DEF ConvsLeft, chanVars, listVars
<1>2. /\ S \subseteq Alive /\ \A x \in S : nick[x].kind = "unknown"
      /\ Alive' = Alive \ S
  BY DEF ConvsLeft
<1>3. ASSUME NEW x \in Alive \ S
      PROVE  /\ nick'[x].kind = nick[x].kind /\ nick'[x].name = nick[x].name
             /\ nick'[x].srv = nick[x].srv /\ nick'[x].who = nick[x].who
             /\ nick'[x].chans = nick[x].chans
  BY DEF ConvsLeft
<1>4. \A n \in Names : users'[n] = IF users[n] \in S THEN Null ELSE users[n]
  BY DEF ConvsLeft, UsersGone
<1>5. Me \notin S /\ Null \notin S /\ Me \in Alive BY <1>0, <1>2 DEF Kinds, Alive, TypeOK
<1>6. TypeOK'
  <2>1. nick'[Me] # Null BY <1>2, <1>5 DEF Alive
  <2>2. users' \in [Names -> Objs \cup {Null}] BY <1>0 DEF ConvsLeft, UsersGone, TypeOK
  <2>3. /\ nick' \in [Objs -> Nick \cup {Null}]
        /\ convs' \subseteq People /\ cnick' \in [People -> Objs \cup {Null}]
    BY DEF ConvsLeft
  <2> QED BY <1>0, <1>1, <2>1, <2>2, <2>3 DEF TypeOK
<1>7. UsersExact'
  <2>1. ASSUME NEW n \in Names, users'[n] # Null
        PROVE  users'[n] \in Alive' /\ nick'[users'[n]].name = n
    BY <1>0, <1>2, <1>3, <1>4, <2>1 DEF UsersExact
  <2>2. ASSUME NEW x \in Alive' PROVE users'[nick'[x].name] = x
    <3>1. nick[x].name \in Names BY <1>0, <1>2, AliveType DEF Nick
    <3> QED BY <1>0, <1>2, <1>3, <1>4, <3>1 DEF UsersExact
  <2>3. \A x \in Alive' \ {Me} : nick'[x].srv \in servers'
    BY <1>0, <1>1, <1>2, <1>3 DEF UsersExact
  <2> QED BY <2>1, <2>2, <2>3 DEF UsersExact
<1>8. ChannelsAgree'
  <2>1. ASSUME NEW c \in Channels PROVE chanUsers'[c] = {x \in Alive' : c \in nick'[x].chans}
    <3>1. chanUsers[c] = {x \in Alive : c \in nick[x].chans} BY <1>0 DEF ChannelsAgree
    <3>2. \A x \in S : nick[x].chans = {} BY <1>0, <1>2 DEF Kinds
    <3> QED BY <1>1, <1>2, <1>3, <3>1, <3>2
  <2>2. \A c \in Channels \ chans' : chanUsers'[c] = {} BY <1>0, <1>1 DEF ChannelsAgree
  <2> QED BY <2>1, <2>2 DEF ChannelsAgree
<1>9. PointersAgree'
  <2>1. \A b \in People : bnick'[b] # Null =>
          b \in blist' /\ bnick'[b] \in Alive' /\ nick'[bnick'[b]].kind = "buddy"
                       /\ nick'[bnick'[b]].who = b
    BY <1>0, <1>1, <1>2, <1>3 DEF PointersAgree
  <2>2. \A x \in Alive' : nick'[x].kind = "buddy" => bnick'[nick'[x].who] = x
    BY <1>0, <1>1, <1>2, <1>3 DEF PointersAgree
  <2> QED BY <2>1, <2>2 DEF PointersAgree, ConvsLeft
<1>10. ChannelsShow'
  <2>1. ASSUME NEW r \in chans' \ {Status}, NEW q \in People
        PROVE  /\ cbuddies'[r][q] # Null <=> q \in inRoom'[r]
               /\ cbuddies'[r][q] # Null =>
                    /\ cbuddies'[r][q] \in Alive' /\ nick'[cbuddies'[r][q]].kind = "chat"
                    /\ nick'[cbuddies'[r][q]].who = q /\ cbuddies'[r][q] \in chanUsers'[r]
    BY <1>0, <1>1, <1>2, <1>3 DEF ChannelsShow
  <2>2. ASSUME NEW x \in Alive', nick'[x].kind = "chat"
        PROVE  \E r \in chans' \ {Status} : cbuddies'[r][nick'[x].who] = x
    BY <1>0, <1>1, <1>2, <1>3, <2>2 DEF ChannelsShow
  <2>3. ASSUME NEW b \in blist', bnick'[b] # Null
        PROVE  bnick'[b] \in chanUsers'[Status]
                 <=> b \in online' /\ AccountOf[b] \in statusAccts'
    BY <1>0, <1>1, <2>3 DEF ChannelsShow
  <2> QED BY <2>1, <2>2, <2>3 DEF ChannelsShow
<1>11. Kinds'
  <2>1. nick'[Me].conv = nick[Me].conv BY DEF ConvsLeft
  <2> QED BY <1>0, <1>1, <1>2, <1>3, <2>1 DEF Kinds
<1>12. RoomsKept' /\ StatusKept' BY <1>0, <1>1, KeepRooms DEF StatusKept
<1> QED BY <1>6, <1>7, <1>8, <1>9, <1>10, <1>11, <1>12 DEF NetInv

(* Conversation::destroy() of an IM conversation.                          *)
LEMMA DestroyKeeps ==
    ASSUME NetInv, NEW p \in People, destroy(p)
    PROVE  NetInv'
<1>0. TypeOK /\ UsersExact /\ PointersAgree /\ Kinds BY DEF NetInv
<1> DEFINE last == cnick[p]
           S == IF last # Null /\ nick[last].kind = "unknown" THEN {last} ELSE {}
<1>1. /\ convs' = convs \ {p} /\ cnick' = [cnick EXCEPT ![p] = Null]
      /\ nick' = [o \in Objs |->
                    IF o \in S \/ nick[o] = Null THEN Null
                    ELSE IF nick[o].conv = p THEN [nick[o] EXCEPT !.conv = Null] ELSE nick[o]]
      /\ users' = UsersGone(S)
      /\ UNCHANGED <<servers, chanVars, statusAccts, listVars, bnick, alive>>
  BY DEF destroy
<1>2. S \subseteq Alive /\ \A x \in S : nick[x].kind = "unknown" BY <1>0 DEF PointersAgree
<1>3. \A x \in S : nick[x].conv = p BY <1>0 DEF PointersAgree
<1> HIDE DEF S
<1>4. ASSUME NEW x \in Alive \ S
      PROVE  /\ nick'[x] \in Nick
             /\ nick'[x].kind = nick[x].kind /\ nick'[x].name = nick[x].name
             /\ nick'[x].srv = nick[x].srv /\ nick'[x].who = nick[x].who
             /\ nick'[x].chans = nick[x].chans
             /\ nick'[x].conv = IF nick[x].conv = p THEN Null ELSE nick[x].conv
  <2>1. x \in Objs /\ nick[x] \in Nick /\ nick[x] # Null BY <1>0, AliveType
  <2>2. nick'[x] = IF nick[x].conv = p THEN [nick[x] EXCEPT !.conv = Null] ELSE nick[x]
    BY <1>1, <2>1
  <2> QED BY <2>1, <2>2 DEF Nick
<1>5. \A x \in Objs : x \in S \/ x \notin Alive => nick'[x] = Null BY <1>1 DEF Alive
<1>6. \A x \in Alive \ S : nick'[x] # Null BY <1>4
<1>7. Alive' = Alive \ S BY <1>5, <1>6 DEF Alive
<1>8. nick' \in [Objs -> Nick \cup {Null}]
  <2>1. \A x \in Objs : nick'[x] \in Nick \cup {Null} BY <1>4, <1>5
  <2>2. nick' = [x \in Objs |-> nick'[x]] BY <1>1
  <2> QED BY <2>1, <2>2
<1>9. nick'[Me].conv = nick[Me].conv
  <2>1. Me \in Alive \ S /\ nick[Me].conv = Null
    BY <1>0, <1>2 DEF Kinds, Alive, TypeOK
  <2> QED BY <1>4, <2>1
<1>10. \A q \in People : cnick'[q] = IF q = p THEN Null ELSE cnick[q] BY <1>0, <1>1 DEF TypeOK
<1>11. ASSUME NEW q \in People, cnick'[q] # Null
       PROVE  q \in convs' /\ cnick'[q] \in Alive' /\ nick'[cnick'[q]].conv = q
  <2>1. q # p /\ cnick'[q] = cnick[q] BY <1>10, <1>11
  <2>2. q \in convs /\ cnick[q] \in Alive /\ nick[cnick[q]].conv = q
    BY <1>0, <1>11, <2>1 DEF PointersAgree
  <2>3. cnick[q] \in Alive \ S BY <1>3, <2>1, <2>2
  <2>4. nick'[cnick[q]].conv = q BY <1>4, <2>1, <2>2, <2>3
  <2> QED BY <1>1, <1>7, <2>1, <2>2, <2>3, <2>4
<1>12. ASSUME NEW x \in Alive', nick'[x].conv # Null PROVE cnick'[nick'[x].conv] = x
  <2>1. x \in Alive \ S /\ nick'[x].conv = nick[x].conv /\ nick[x].conv # p
    BY <1>4, <1>7, <1>12
  <2>2. nick[x].conv \in People BY <1>0, <1>12, <2>1, AliveType DEF Nick
  <2> QED BY <1>0, <1>10, <1>12, <2>1, <2>2 DEF PointersAgree
<1>13. convs' \subseteq People /\ cnick' \in [People -> Objs \cup {Null}]
  BY <1>0, <1>1 DEF TypeOK
<1>14. ConvsLeft(S)
  BY <1>1, <1>2, <1>4, <1>7, <1>8, <1>9, <1>11, <1>12, <1>13 DEF ConvsLeft
<1> QED BY <1>14, ConvsLeftKeeps

(* PRIVMSG to a nick without a conversation: Buddy::check_conv() or        *)
(* ChatBuddy::send().                                                      *)
LEMMA CheckConvKeeps ==
    ASSUME NetInv, NEW o \in Objs, check_conv(o)
    PROVE  NetInv'
<1>0. TypeOK /\ UsersExact /\ PointersAgree /\ Kinds BY DEF NetInv
<1> DEFINE p == nick[o].who
           last == cnick[p]
           S == IF last # Null /\ nick[last].kind = "unknown" THEN {last} ELSE {}
           f == IF S = {} THEN Taken(nick, last) ELSE NickGone(S)
<1>1. /\ convs' = convs \cup {p} /\ cnick' = [cnick EXCEPT ![p] = o]
      /\ nick' = [f EXCEPT ![o].conv = p]
      /\ users' = UsersGone(S)
      /\ UNCHANGED <<servers, chanVars, statusAccts, listVars, bnick, alive>>
  BY DEF check_conv
<1>2. o \in Alive /\ nick[o].kind \in {"buddy", "chat"} /\ nick[o].conv = Null
  BY DEF check_conv
<1>3. p \in People /\ p # Null /\ o # Me /\ o # Null BY <1>0, <1>2 DEF Kinds
<1>4. last # Null => last \in Alive /\ nick[last].conv = p /\ last # o
  BY <1>0, <1>2, <1>3 DEF PointersAgree
<1>5. S \subseteq Alive /\ (\A x \in S : nick[x].kind = "unknown") /\ o \notin S BY <1>4
<1>6. ASSUME NEW x \in Objs
      PROVE  f[x] = IF x \in S THEN Null
                    ELSE IF x = last THEN [nick[x] EXCEPT !.conv = Null] ELSE nick[x]
  <2>1. CASE S = {} BY <1>0, <1>4, <2>1 DEF Taken, TypeOK
  <2>2. CASE S # {} BY <2>2 DEF NickGone
  <2> QED BY <2>1, <2>2
<1>7. f = [x \in Objs |-> f[x]] BY <1>0 DEF Taken, NickGone, TypeOK
<1>8. \A x \in S : x = last OBVIOUS
<1> HIDE DEF f, S
<1>9. ASSUME NEW x \in Alive \ S
      PROVE  /\ f[x] \in Nick
             /\ f[x].kind = nick[x].kind /\ f[x].name = nick[x].name
             /\ f[x].srv = nick[x].srv /\ f[x].who = nick[x].who
             /\ f[x].chans = nick[x].chans
             /\ f[x].conv = IF x = last THEN Null ELSE nick[x].conv
  <2>1. x \in Objs /\ nick[x] \in Nick BY <1>0, AliveType
  <2>2. f[x] = IF x = last THEN [nick[x] EXCEPT !.conv = Null] ELSE nick[x]
    BY <1>6, <2>1
  <2> HIDE DEF last
  <2> QED BY <2>1, <2>2 DEF Nick
<1>10. ASSUME NEW x \in Objs
       PROVE  nick'[x] = IF x = o THEN [f[x] EXCEPT !.conv = p] ELSE f[x]
  BY <1>1, <1>7
<1>11. ASSUME NEW x \in Alive \ S
       PROVE  /\ nick'[x] \in Nick
              /\ nick'[x].kind = nick[x].kind /\ nick'[x].name = nick[x].name
              /\ nick'[x].srv = nick[x].srv /\ nick'[x].who = nick[x].who
              /\ nick'[x].chans = nick[x].chans
              /\ nick'[x].conv = IF x = o THEN p ELSE IF x = last THEN Null ELSE nick[x].conv
  <2>1. x \in Objs BY DEF Alive
  <2>2. nick'[x] = IF x = o THEN [f[x] EXCEPT !.conv = p] ELSE f[x] BY <1>10, <2>1
  <2>3. p \in People \cup {Null} BY <1>3
  <2> HIDE DEF p, last
  <2> QED BY <1>9, <2>2, <2>3 DEF Nick
<1>12. ASSUME NEW x \in Objs, x \in S \/ x \notin Alive PROVE nick'[x] = Null
  <2>1. x # o BY <1>2, <1>5, <1>12
  <2>2. nick'[x] = f[x] BY <1>10, <2>1
  <2>3. CASE x \in S BY <1>6, <2>2, <2>3
  <2>4. CASE x \notin Alive
    <3>1. nick[x] = Null /\ x # last BY <1>4, <2>4 DEF Alive
    <3> QED BY <1>6, <2>2, <3>1
  <2> QED BY <1>12, <2>3, <2>4
<1>13. Alive' = Alive \ S BY <1>11, <1>12 DEF Alive
<1>14. nick' \in [Objs -> Nick \cup {Null}]
  <2>1. \A x \in Objs : nick'[x] \in Nick \cup {Null} BY <1>11, <1>12
  <2>2. nick' = [x \in Objs |-> nick'[x]] BY <1>1, <1>7
  <2> QED BY <2>1, <2>2
<1>15. nick'[Me].conv = nick[Me].conv
  <2>1. Me \in Alive \ S /\ nick[Me].conv = Null
    BY <1>0, <1>5 DEF Kinds, Alive, TypeOK
  <2> QED BY <1>3, <1>11, <2>1
<1>16. \A q \in People : cnick'[q] = IF q = p THEN o ELSE cnick[q] BY <1>0, <1>1 DEF TypeOK
<1>17. ASSUME NEW q \in People, cnick'[q] # Null
       PROVE  q \in convs' /\ cnick'[q] \in Alive' /\ nick'[cnick'[q]].conv = q
  <2>1. CASE q = p
    <3>1. cnick'[q] = o /\ o \in Alive \ S BY <1>2, <1>5, <1>16, <2>1
    <3>2. nick'[o].conv = p BY <1>11, <3>1
    <3> QED BY <1>1, <1>13, <2>1, <3>1, <3>2
  <2>2. CASE q # p
    <3>1. cnick'[q] = cnick[q] BY <1>16, <2>2
    <3>2. q \in convs /\ cnick[q] \in Alive /\ nick[cnick[q]].conv = q
      BY <1>0, <1>17, <3>1 DEF PointersAgree
    <3>3. cnick[q] # o /\ cnick[q] # last /\ cnick[q] # Null
      BY <1>2, <1>3, <1>4, <1>17, <2>2, <3>1, <3>2
    <3>4. cnick[q] \in Alive \ S BY <1>8, <3>2, <3>3
    <3> QED BY <1>1, <1>11, <1>13, <3>1, <3>2, <3>3, <3>4
  <2> QED BY <2>1, <2>2
<1>18. ASSUME NEW x \in Alive', nick'[x].conv # Null PROVE cnick'[nick'[x].conv] = x
  <2>1. x \in Alive \ S BY <1>13
  <2>2. CASE x = o BY <1>3, <1>11, <1>16, <2>1, <2>2
  <2>3. CASE x # o
    <3>1. nick'[x].conv = nick[x].conv /\ x # last /\ nick[x].conv # Null
      BY <1>11, <1>18, <2>1, <2>3
    <3>2. nick[x].conv \in People BY <1>0, <2>1, <3>1, AliveType DEF Nick
    <3>3. cnick[nick[x].conv] = x BY <1>0, <2>1, <3>1 DEF PointersAgree
    <3> QED BY <1>16, <3>1, <3>2, <3>3
  <2> QED BY <2>2, <2>3
<1>19. convs' \subseteq People /\ cnick' \in [People -> Objs \cup {Null}]
  BY <1>0, <1>1, <1>3 DEF TypeOK
<1>20. ConvsLeft(S)
  BY <1>1, <1>5, <1>11, <1>13, <1>14, <1>15, <1>17, <1>18, <1>19 DEF ConvsLeft
<1> QED BY <1>20, ConvsLeftKeeps
-----------------------------------------------------------------------------
(* IRC::renameNick() to a nickname nobody else bears.                      *)
LEMMA RenamedKeeps ==
    ASSUME NetInv, NEW o \in Alive \ {Me}, NEW n \in Names, NEW who \in People,
           users[n] \in {Null, o}, RenameNick(o, n, who), UNCHANGED servers
    PROVE  /\ nick' \in [Objs -> Nick \cup {Null}] /\ Alive' = Alive /\ nick'[Me] = nick[Me]
           /\ users' \in [Names -> Objs \cup {Null}] /\ UsersExact'
           /\ \A x \in Alive :
                /\ nick'[x].kind = nick[x].kind /\ nick'[x].srv = nick[x].srv
                /\ nick'[x].conv = nick[x].conv /\ nick'[x].chans = nick[x].chans
                /\ nick'[x].who = IF x = o THEN who ELSE nick[x].who
<1>0. TypeOK /\ UsersExact /\ Kinds BY DEF NetInv
<1>1. o \in Objs /\ nick[o] \in Nick BY <1>0, AliveType
<1> DEFINE rec == [nick[o] EXCEPT !.name = n, !.who = who]
<1>2. /\ rec \in Nick /\ rec.name = n /\ rec.who = who /\ rec.kind = nick[o].kind
      /\ rec.srv = nick[o].srv /\ rec.conv = nick[o].conv /\ rec.chans = nick[o].chans
  BY <1>1 DEF Nick
<1>3. nick' = [nick EXCEPT ![o] = rec] BY <1>0, <1>1 DEF RenameNick, TypeOK
<1> HIDE DEF rec
<1>4. \A x \in Objs : nick'[x] = IF x = o THEN rec ELSE nick[x] BY <1>0, <1>3 DEF TypeOK
<1>5. nick' \in [Objs -> Nick \cup {Null}] BY <1>0, <1>2, <1>3 DEF TypeOK
<1>6. Alive' = Alive BY <1>1, <1>2, <1>4 DEF Alive
<1>7. nick'[Me] = nick[Me] BY <1>4
<1>8. ASSUME NEW x \in Alive
      PROVE  /\ nick'[x].kind = nick[x].kind /\ nick'[x].srv = nick[x].srv
             /\ nick'[x].conv = nick[x].conv /\ nick'[x].chans = nick[x].chans
             /\ nick'[x].who = IF x = o THEN who ELSE nick[x].who
             /\ nick'[x].name = IF x = o THEN n ELSE nick[x].name
  BY <1>2, <1>4 DEF Alive
<1>9. nick[o].name \in Names /\ users[nick[o].name] = o /\ o # Null
  BY <1>0, <1>1 DEF Nick, UsersExact
<1>10. users' \in [Names -> Objs \cup {Null}] BY <1>0, <1>1, <1>9 DEF RenameNick, Renamed, TypeOK
<1>11. \A m \in Names : users'[m] = IF m = n THEN o ELSE IF m = nick[o].name THEN Null ELSE users[m]
  BY <1>0, <1>9 DEF RenameNick, Renamed, TypeOK
<1>12. UsersExact'
  <2>1. ASSUME NEW m \in Names, users'[m] # Null
        PROVE  users'[m] \in Alive' /\ nick'[users'[m]].name = m
    <3>1. CASE m = n BY <1>6, <1>8, <1>11, <3>1
    <3>2. CASE m # n
      <4>1. m # nick[o].name /\ users'[m] = users[m] BY <1>11, <2>1, <3>2
      <4>2. users[m] \in Alive /\ nick[users[m]].name = m BY <1>0, <2>1, <4>1 DEF UsersExact
      <4>3. users[m] # o BY <4>1, <4>2
      <4> QED BY <1>6, <1>8, <4>1, <4>2, <4>3
    <3> QED BY <3>1, <3>2
  <2>2. ASSUME NEW x \in Alive' PROVE users'[nick'[x].name] = x
    <3>1. CASE x = o BY <1>6, <1>8, <1>11, <3>1
    <3>2. CASE x # o
      <4>1. /\ x \in Alive /\ nick'[x].name = nick[x].name /\ nick[x].name \in Names
            /\ users[nick[x].name] = x /\ x # Null
        BY <1>0, <1>6, <1>8, <3>2, AliveType DEF UsersExact, Nick, Alive
      <4>2. nick[x].name # n /\ nick[x].name # nick[o].name BY <1>9, <3>2, <4>1
      <4> QED BY <1>11, <4>1, <4>2
    <3> QED BY <3>1, <3>2
  <2>3. \A x \in Alive' \ {Me} : nick'[x].srv \in servers' BY <1>0, <1>6, <1>8 DEF UsersExact
  <2> QED BY <2>1, <2>2, <2>3 DEF UsersExact
<1> QED BY <1>5, <1>6, <1>7, <1>8, <1>10, <1>12

(* SVSNICK                                                                 *)
LEMMA SvsnickKeeps ==
    ASSUME NetInv, NEW o \in Objs, NEW n \in Wanted, m_svsnick(o, n)
    PROVE  NetInv'
<1>0. /\ TypeOK /\ UsersExact /\ ChannelsAgree /\ PointersAgree /\ ChannelsShow
      /\ Kinds /\ RoomsKept /\ StatusKept
  BY DEF NetInv
<1>1. /\ o \in Alive /\ nick[o].kind = "buddy" /\ users[n] \in {Null, o}
      /\ RenameNick(o, n, nick[o].who)
      /\ UNCHANGED <<servers, chans, chanUsers, cbuddies, inRoom, statusAccts, blist, online,
                     bnick, convs, cnick, alive>>
  BY DEF m_svsnick, chanVars, listVars
<1>2. o \in Alive \ {Me} /\ n \in Names /\ nick[o].who \in People BY <1>0, <1>1 DEF Kinds
<1>3. /\ nick' \in [Objs -> Nick \cup {Null}] /\ Alive' = Alive /\ nick'[Me] = nick[Me]
      /\ users' \in [Names -> Objs \cup {Null}] /\ UsersExact'
      /\ \A x \in Alive :
           /\ nick'[x].kind = nick[x].kind /\ nick'[x].srv = nick[x].srv
           /\ nick'[x].conv = nick[x].conv /\ nick'[x].chans = nick[x].chans
           /\ nick'[x].who = IF x = o THEN nick[o].who ELSE nick[x].who
  <2> DEFINE who == nick[o].who
  <2>1. who \in People /\ RenameNick(o, n, who) BY <1>1, <1>2
  <2> HIDE DEF who
  <2>2. /\ nick' \in [Objs -> Nick \cup {Null}] /\ Alive' = Alive /\ nick'[Me] = nick[Me]
        /\ users' \in [Names -> Objs \cup {Null}] /\ UsersExact'
        /\ \A x \in Alive :
             /\ nick'[x].kind = nick[x].kind /\ nick'[x].srv = nick[x].srv
             /\ nick'[x].conv = nick[x].conv /\ nick'[x].chans = nick[x].chans
             /\ nick'[x].who = IF x = o THEN who ELSE nick[x].who
    BY <1>1, <1>2, <2>1, RenamedKeeps
  <2> QED BY <2>2 DEF who
<1>4. SameNicks /\ SameWho /\ SameChans /\ SameConv
  BY <1>3 DEF SameNicks, SameWho, SameChans, SameConv
<1>5. TypeOK' BY <1>0, <1>1, <1>3 DEF TypeOK
<1>6. ChannelsAgree' /\ PointersAgree' /\ ChannelsShow' /\ Kinds' /\ RoomsKept' /\ StatusKept'
  BY <1>0, <1>1, <1>3, <1>4, KeepChannels, KeepPointers, KeepShow, KeepKinds, KeepRooms
  DEF StatusKept
<1> QED BY <1>3, <1>5, <1>6 DEF NetInv

(* Conversation::chat_rename_user()                                        *)
LEMMA ChatRenameKeeps ==
    ASSUME NetInv, NEW r \in Rooms, NEW p \in People, NEW q \in People, chat_rename_user(r, p, q)
    PROVE  NetInv'
<1>0. /\ TypeOK /\ UsersExact /\ ChannelsAgree /\ PointersAgree /\ ChannelsShow
      /\ Kinds /\ RoomsKept /\ StatusKept
  BY DEF NetInv
<1> DEFINE o == cbuddies[r][p]
           n == FreshName(BaseOf[q])
<1>1. /\ r \in chans /\ p \in inRoom[r] /\ q \notin inRoom[r]
      /\ inRoom' = [inRoom EXCEPT ![r] = (@ \ {p}) \cup {q}]
      /\ cbuddies' = Rekeyed(r, p, q) /\ RenameNick(o, n, q)
      /\ UNCHANGED <<servers, chans, chanUsers, statusAccts, blist, online, bnick, convs, cnick,
                     alive>>
  BY DEF chat_rename_user, listVars
<1>2. r \in Channels /\ r # Status /\ p # Me /\ q # Me /\ p # q BY <1>1 DEF Channels
<1>3. o # Null BY <1>0, <1>1, <1>2 DEF ChannelsShow
<1>4. cbuddies[r][q] = Null BY <1>0, <1>1, <1>2 DEF ChannelsShow
<1>5. /\ o \in Alive \ {Me} /\ nick[o].kind = "chat" /\ nick[o].who = p
      /\ nick[o].srv = RoomAccount[r] /\ nick[o].chans = {r}
      /\ \A s \in Rooms, m \in People : cbuddies[s][m] = o => s = r /\ m = p
  BY <1>3, RoomMember
<1>6. n \in Names /\ users[n] \in {Null, o} BY <1>0, FreshNameFree
<1>7. \A s \in Rooms, m \in People \cup {Me} :
        cbuddies'[s][m] = IF s = r /\ m = q THEN o
                          ELSE IF s = r /\ m = p THEN Null ELSE cbuddies[s][m]
  BY <1>0, <1>1 DEF Rekeyed, TypeOK
<1>8. \A s \in Rooms : inRoom'[s] = IF s = r THEN (inRoom[s] \ {p}) \cup {q} ELSE inRoom[s]
  BY <1>0, <1>1 DEF TypeOK
<1>9. /\ cbuddies' \in [Rooms -> [People \cup {Me} -> Objs \cup {Null}]]
      /\ inRoom' \in [Rooms -> SUBSET (People \cup {Me})]
  <2>1. inRoom' \in [Rooms -> SUBSET (People \cup {Me})] BY <1>0, <1>1 DEF TypeOK
  <2>2. o \in Objs BY <1>5 DEF Alive
  <2>3. cbuddies' = [cbuddies EXCEPT ![r][p] = Null, ![r][q] = o] BY <1>1 DEF Rekeyed
  <2> HIDE DEF o
  <2>4. cbuddies' \in [Rooms -> [People \cup {Me} -> Objs \cup {Null}]]
    BY <1>0, <2>2, <2>3 DEF TypeOK
  <2> QED BY <2>1, <2>4
<1> HIDE DEF o, n
<1>10. /\ nick' \in [Objs -> Nick \cup {Null}] /\ Alive' = Alive /\ nick'[Me] = nick[Me]
       /\ users' \in [Names -> Objs \cup {Null}] /\ UsersExact'
       /\ \A x \in Alive :
            /\ nick'[x].kind = nick[x].kind /\ nick'[x].srv = nick[x].srv
            /\ nick'[x].conv = nick[x].conv /\ nick'[x].chans = nick[x].chans
            /\ nick'[x].who = IF x = o THEN q ELSE nick[x].who
  BY <1>1, <1>5, <1>6, RenamedKeeps
<1>11. TypeOK' BY <1>0, <1>1, <1>9, <1>10 DEF TypeOK
<1>12. ChannelsAgree'
  <2>1. SameNicks /\ SameChans BY <1>10 DEF SameNicks, SameChans
  <2> QED BY <1>0, <1>1, <2>1, KeepChannels
<1>13. PointersAgree'
  <2>1. ASSUME NEW b \in People, bnick'[b] # Null
        PROVE  b \in blist' /\ bnick'[b] \in Alive' /\ nick'[bnick'[b]].kind = "buddy"
                            /\ nick'[bnick'[b]].who = b
    BY <1>0, <1>1, <1>5, <1>10, <2>1 DEF PointersAgree
  <2>2. ASSUME NEW x \in Alive', nick'[x].kind = "buddy" PROVE bnick'[nick'[x].who] = x
    BY <1>0, <1>1, <1>5, <1>10, <2>2 DEF PointersAgree
  <2>3. \A m \in People : cnick'[m] # Null =>
          m \in convs' /\ cnick'[m] \in Alive' /\ nick'[cnick'[m]].conv = m
    BY <1>0, <1>1, <1>10 DEF PointersAgree
  <2>4. \A x \in Alive' : nick'[x].conv # Null => cnick'[nick'[x].conv] = x
    BY <1>0, <1>1, <1>10 DEF PointersAgree
  <2> QED BY <2>1, <2>2, <2>3, <2>4 DEF PointersAgree
<1>14. ChannelsShow'
  <2>1. ASSUME NEW s \in chans' \ {Status}, NEW m \in People
        PROVE  /\ cbuddies'[s][m] # Null <=> m \in inRoom'[s]
               /\ cbuddies'[s][m] # Null =>
                    /\ cbuddies'[s][m] \in Alive' /\ nick'[cbuddies'[s][m]].kind = "chat"
                    /\ nick'[cbuddies'[s][m]].who = m /\ cbuddies'[s][m] \in chanUsers'[s]
    <3>1. s \in chans \ {Status} /\ s \in Rooms BY <1>0, <1>1 DEF TypeOK, Channels
    <3>2. CASE s = r /\ m = q
      <4>1. cbuddies'[r][q] = o BY <1>7
      <4>2. q \in inRoom'[r] BY <1>8
      <4>3. o \in chanUsers[r] BY <1>0, <1>1, <1>2, <1>3 DEF ChannelsShow, o
      <4>4. nick'[o].who = q /\ nick'[o].kind = "chat" BY <1>5, <1>10
      <4> QED BY <1>1, <1>3, <1>5, <1>10, <3>2, <4>1, <4>2, <4>3, <4>4
    <3>3. CASE s = r /\ m = p
      <4>1. cbuddies'[r][p] = Null BY <1>2, <1>7
      <4>2. p \notin inRoom'[r] BY <1>2, <1>8
      <4> QED BY <3>3, <4>1, <4>2
    <3>4. CASE ~(s = r /\ m = q) /\ ~(s = r /\ m = p)
      <4>1. cbuddies'[s][m] = cbuddies[s][m] /\ (m \in inRoom'[s] <=> m \in inRoom[s])
        BY <1>7, <1>8, <3>1, <3>4, ZenonT(60)
      <4>2. cbuddies[s][m] # o BY <1>5, <3>1, <3>4
      <4> QED BY <1>0, <1>1, <1>10, <3>1, <4>1, <4>2 DEF ChannelsShow
    <3> QED BY <3>2, <3>3, <3>4
  <2>2. ASSUME NEW x \in Alive', nick'[x].kind = "chat"
        PROVE  \E s \in chans' \ {Status} : cbuddies'[s][nick'[x].who] = x
    <3>1. CASE x = o
      <4>1. cbuddies'[r][q] = o /\ nick'[o].who = q BY <1>5, <1>7, <1>10
      <4> QED BY <1>1, <1>2, <3>1, <4>1
    <3>2. CASE x # o
      <4>1. x \in Alive /\ nick'[x].who = nick[x].who /\ nick[x].kind = "chat" /\ x # Null
        BY <1>10, <2>2, <3>2 DEF Alive
      <4>2. nick[x].who \in People BY <1>0, <4>1 DEF Kinds
      <4>3. PICK s \in chans \ {Status} : cbuddies[s][nick[x].who] = x
        BY <1>0, <4>1 DEF ChannelsShow
      <4>4. s \in Rooms BY <1>0 DEF TypeOK, Channels
      <4>5. ~(s = r /\ nick[x].who = p) /\ ~(s = r /\ nick[x].who = q)
        BY <1>4, <3>2, <4>1, <4>3 DEF o
      <4>6. cbuddies'[s][nick[x].who] = x BY <1>7, <4>2, <4>3, <4>4, <4>5
      <4> QED BY <1>1, <4>1, <4>6
    <3> QED BY <3>1, <3>2
  <2>3. \A b \in blist' : bnick'[b] # Null =>
          (bnick'[b] \in chanUsers'[Status] <=> b \in online' /\ AccountOf[b] \in statusAccts')
    BY <1>0, <1>1 DEF ChannelsShow
  <2> QED BY <2>1, <2>2, <2>3 DEF ChannelsShow
<1>15. Kinds'
  <2>1. ASSUME NEW x \in Alive', nick'[x].kind = "chat"
        PROVE  \E s \in Rooms : /\ s \in chans' /\ nick'[x].chans = {s}
                                /\ nick'[x].srv = RoomAccount[s]
                                /\ cbuddies'[s][nick'[x].who] = x
    <3>1. CASE x = o
      <4>1. cbuddies'[r][q] = o /\ nick'[o].who = q BY <1>5, <1>7, <1>10
      <4>2. nick'[o].chans = {r} /\ nick'[o].srv = RoomAccount[r] BY <1>5, <1>10
      <4> QED BY <1>1, <3>1, <4>1, <4>2
    <3>2. CASE x # o
      <4>1. /\ x \in Alive /\ nick'[x].who = nick[x].who /\ nick[x].kind = "chat" /\ x # Null
            /\ nick'[x].chans = nick[x].chans /\ nick'[x].srv = nick[x].srv
        BY <1>10, <2>1, <3>2 DEF Alive
      <4>2. nick[x].who \in People BY <1>0, <4>1 DEF Kinds
      <4>3. PICK s \in Rooms : /\ s \in chans /\ nick[x].chans = {s}
                               /\ nick[x].srv = RoomAccount[s]
                               /\ cbuddies[s][nick[x].who] = x
        BY <1>0, <4>1 DEF Kinds
      <4>4. ~(s = r /\ nick[x].who = p) /\ ~(s = r /\ nick[x].who = q)
        BY <1>4, <3>2, <4>1, <4>3 DEF o
      <4>5. cbuddies'[s][nick[x].who] = x BY <1>7, <4>2, <4>3, <4>4
      <4> QED BY <1>1, <4>1, <4>3, <4>5
    <3> QED BY <3>1, <3>2
  <2>2. ASSUME NEW x \in Alive'
        PROVE  /\ nick'[x].kind = "user" <=> x = Me
               /\ x = Me => nick'[x].conv = Null /\ nick'[x].srv = Null
               /\ x # Me => nick'[x].who \in People /\ nick'[x].srv \in Accounts
               /\ nick'[x].kind = "buddy" => /\ nick'[x].srv = AccountOf[nick'[x].who]
                                            /\ nick'[x].chans \subseteq {Status}
               /\ nick'[x].kind = "unknown" => nick'[x].chans = {}
    BY <1>0, <1>5, <1>10 DEF Kinds
  <2> QED BY <2>1, <2>2 DEF Kinds
<1>16. RoomsKept'
  <2>1. ASSUME NEW s \in Rooms
        PROVE  /\ s \in chans' => RoomAccount[s] \in servers'
               /\ s \notin chans' => inRoom'[s] = {} /\ \A m \in People \cup {Me} : cbuddies'[s][m] = Null
               /\ cbuddies'[s][Me] \in {Null, Me}
    BY <1>0, <1>1, <1>2, <1>7, <1>8 DEF RoomsKept
  <2> QED BY <2>1 DEF RoomsKept
<1>17. StatusKept' BY <1>0, <1>1 DEF StatusKept
<1> QED BY <1>10, <1>11, <1>12, <1>13, <1>14, <1>15, <1>16, <1>17 DEF NetInv
-----------------------------------------------------------------------------
(* Nicks join and leave channels, which may be made or deleted meanwhile;  *)
(* the members of the rooms stay on their channels.                        *)
Moved ==
    /\ SameNicks /\ SameNames /\ SameWho /\ SameConv
    /\ chanUsers' \in [Channels -> SUBSET Objs] /\ chans' \subseteq Channels
    /\ \A c \in Channels : /\ chanUsers'[c] \subseteq Alive
                           /\ c \notin chans' => chanUsers'[c] = {}
    /\ \A c \in Channels, x \in Alive : x \in chanUsers'[c] <=> c \in nick'[x].chans
    /\ \A x \in Alive : nick[x].kind \in {"chat", "unknown"} => nick'[x].chans = nick[x].chans
    /\ \A x \in Alive : nick[x].kind = "buddy" => nick'[x].chans \subseteq {Status}
    /\ \A r \in Rooms : r \in chans => r \in chans'
    /\ UNCHANGED <<users, servers, bnick, convs, cnick, blist, alive>>

(* The same people are in the same rooms.                                  *)
SameMembers ==
    /\ cbuddies' \in [Rooms -> [People \cup {Me} -> Objs \cup {Null}]]
    /\ inRoom' \in [Rooms -> SUBSET (People \cup {Me})]
    /\ \A r \in Rooms, p \in People :
          cbuddies'[r][p] = cbuddies[r][p] /\ (p \in inRoom'[r] <=> p \in inRoom[r])

(* The status channel shows the buddies it should.                         *)
StatusShown ==
    \A b \in blist : bnick[b] # Null =>
        (bnick[b] \in chanUsers[Status] <=> b \in online /\ AccountOf[b] \in statusAccts)

(* Such a step leaves everybody on the channels where he should be.        *)
LEMMA MovedKeeps ==
    ASSUME NetInv, Moved, SameMembers, StatusShown', RoomsKept', StatusKept',
           statusAccts' \subseteq Accounts, online' \subseteq blist
    PROVE  NetInv'
<1>0. /\ TypeOK /\ UsersExact /\ ChannelsAgree /\ PointersAgree /\ ChannelsShow
      /\ Kinds /\ RoomsKept /\ StatusKept
  BY DEF NetInv
<1>1. /\ SameNicks /\ SameNames /\ SameWho /\ SameConv
      /\ UNCHANGED <<users, servers, bnick, convs, cnick, blist, alive>>
  BY DEF Moved
<1>2. Alive' = Alive /\ Me \in Alive BY <1>0, <1>1 DEF SameNicks, Alive, TypeOK
<1>3. ASSUME NEW x \in Alive
      PROVE  /\ nick'[x].kind = nick[x].kind /\ nick'[x].name = nick[x].name
             /\ nick'[x].srv = nick[x].srv /\ nick'[x].who = nick[x].who
             /\ nick'[x].conv = nick[x].conv
  BY <1>1 DEF SameNicks, SameNames, SameWho, SameConv
<1>4. \A r \in Rooms, p \in People :
        cbuddies'[r][p] = cbuddies[r][p] /\ (p \in inRoom'[r] <=> p \in inRoom[r])
  BY DEF SameMembers
<1>5. TypeOK'
  <2>1. nick' \in [Objs -> Nick \cup {Null}] /\ nick'[Me] # Null
    BY <1>1, <1>2 DEF SameNicks, Alive
  <2>2. chanUsers' \in [Channels -> SUBSET Objs] /\ chans' \subseteq Channels BY DEF Moved
  <2>3. /\ cbuddies' \in [Rooms -> [People \cup {Me} -> Objs \cup {Null}]]
        /\ inRoom' \in [Rooms -> SUBSET (People \cup {Me})]
    BY DEF SameMembers
  <2> QED BY <1>0, <1>1, <2>1, <2>2, <2>3 DEF TypeOK
<1>6. ChannelsAgree'
  <2>1. ASSUME NEW c \in Channels PROVE chanUsers'[c] = {x \in Alive' : c \in nick'[x].chans}
    <3>1. chanUsers'[c] \subseteq Alive BY DEF Moved
    <3>2. \A x \in Alive : x \in chanUsers'[c] <=> c \in nick'[x].chans BY DEF Moved
    <3> QED BY <1>2, <3>1, <3>2
  <2>2. \A c \in Channels \ chans' : chanUsers'[c] = {} BY DEF Moved
  <2> QED BY <2>1, <2>2 DEF ChannelsAgree
<1>7. ChannelsShow'
  <2>1. ASSUME NEW r \in chans' \ {Status}, NEW p \in People
        PROVE  /\ cbuddies'[r][p] # Null <=> p \in inRoom'[r]
               /\ cbuddies'[r][p] # Null =>
                    /\ cbuddies'[r][p] \in Alive' /\ nick'[cbuddies'[r][p]].kind = "chat"
                    /\ nick'[cbuddies'[r][p]].who = p /\ cbuddies'[r][p] \in chanUsers'[r]
    <3>1. r \in Rooms /\ r \in Channels BY <1>5 DEF TypeOK, Channels
    <3>2. cbuddies[r][p] # Null <=> p \in inRoom[r]
      BY <1>0, <3>1 DEF ChannelsShow, RoomsKept
    <3>3. ASSUME cbuddies[r][p] # Null
          PROVE  /\ cbuddies[r][p] \in Alive /\ nick[cbuddies[r][p]].kind = "chat"
                 /\ nick[cbuddies[r][p]].who = p /\ r \in nick[cbuddies[r][p]].chans
      BY <3>1, <3>3, RoomMember
    <3>4. ASSUME cbuddies[r][p] # Null PROVE cbuddies[r][p] \in chanUsers'[r]
      <4>1. nick'[cbuddies[r][p]].chans = nick[cbuddies[r][p]].chans BY <3>3, <3>4 DEF Moved
      <4> QED BY <3>1, <3>3, <3>4, <4>1 DEF Moved
    <3> QED BY <1>2, <1>3, <1>4, <3>1, <3>2, <3>3, <3>4
  <2>2. ASSUME NEW x \in Alive', nick'[x].kind = "chat"
        PROVE  \E r \in chans' \ {Status} : cbuddies'[r][nick'[x].who] = x
    <3>1. /\ x \in Alive /\ nick[x].kind = "chat" /\ nick'[x].who = nick[x].who
          /\ nick[x].who \in People
      BY <1>0, <1>2, <1>3, <2>2 DEF Kinds
    <3>2. PICK r \in chans \ {Status} : cbuddies[r][nick[x].who] = x
      BY <1>0, <3>1 DEF ChannelsShow
    <3>3. r \in Rooms /\ r \in chans' BY <1>0 DEF TypeOK, Channels, Moved
    <3> QED BY <1>4, <3>1, <3>2, <3>3
  <2>3. \A b \in blist' : bnick'[b] # Null =>
          (bnick'[b] \in chanUsers'[Status] <=> b \in online' /\ AccountOf[b] \in statusAccts')
    BY DEF StatusShown
  <2> QED BY <2>1, <2>2, <2>3 DEF ChannelsShow
<1>8. Kinds'
  <2>1. ASSUME NEW x \in Alive', nick'[x].kind = "chat"
        PROVE  \E r \in Rooms : /\ r \in chans' /\ nick'[x].chans = {r}
                                /\ nick'[x].srv = RoomAccount[r]
                                /\ cbuddies'[r][nick'[x].who] = x
    <3>1. /\ x \in Alive /\ nick[x].kind = "chat" /\ nick'[x].who = nick[x].who
          /\ nick[x].who \in People /\ nick'[x].srv = nick[x].srv
      BY <1>0, <1>2, <1>3, <2>1 DEF Kinds
    <3>2. nick'[x].chans = nick[x].chans BY <3>1 DEF Moved
    <3>3. PICK r \in Rooms : /\ r \in chans /\ nick[x].chans = {r}
                             /\ nick[x].srv = RoomAccount[r]
                             /\ cbuddies[r][nick[x].who] = x
      BY <1>0, <3>1 DEF Kinds
    <3>4. r \in chans' BY <3>3 DEF Moved
    <3> QED BY <1>4, <3>1, <3>2, <3>3, <3>4
  <2>2. ASSUME NEW x \in Alive'
        PROVE  /\ nick'[x].kind = "user" <=> x = Me
               /\ x = Me => nick'[x].conv = Null /\ nick'[x].srv = Null
               /\ x # Me => nick'[x].who \in People /\ nick'[x].srv \in Accounts
               /\ nick'[x].kind = "buddy" => nick'[x].srv = AccountOf[nick'[x].who]
    BY <1>0, <1>2, <1>3 DEF Kinds
  <2>3. ASSUME NEW x \in Alive'
        PROVE  /\ nick'[x].kind = "buddy" => nick'[x].chans \subseteq {Status}
               /\ nick'[x].kind = "unknown" => nick'[x].chans = {}
    BY <1>0, <1>2, <1>3 DEF Kinds, Moved
  <2> QED BY <2>1, <2>2, <2>3 DEF Kinds
<1>9. UsersExact' /\ PointersAgree' BY <1>0, <1>1, KeepUsers, KeepPointers
<1> QED BY <1>5, <1>6, <1>7, <1>8, <1>9 DEF NetInv

(* One nick that is no member of a room joins or leaves channels.          *)
LEMMA OneMoves ==
    ASSUME NetInv, NEW o \in Alive, NEW C \in SUBSET Channels,
           nick[o].kind \in {"user", "buddy"}, nick[o].kind = "buddy" => C \subseteq {Status},
           nick' = [nick EXCEPT ![o].chans = C],
           chans' \subseteq Channels, chans \subseteq chans', C \subseteq chans',
           chanUsers' \in [Channels -> SUBSET Objs],
           \A c \in Channels : chanUsers'[c] = IF c \in C THEN chanUsers[c] \cup {o}
                                               ELSE chanUsers[c] \ {o},
           UNCHANGED <<users, servers, bnick, convs, cnick, blist, alive>>
    PROVE  Moved
<1>0. TypeOK /\ ChannelsAgree /\ Kinds BY DEF NetInv
<1>1. o \in Objs /\ nick[o] \in Nick BY <1>0, AliveType
<1> DEFINE rec == [nick[o] EXCEPT !.chans = C]
<1>2. /\ rec \in Nick /\ rec.chans = C /\ rec.name = nick[o].name /\ rec.who = nick[o].who
      /\ rec.kind = nick[o].kind /\ rec.srv = nick[o].srv /\ rec.conv = nick[o].conv
  BY <1>1 DEF Nick
<1>3. nick' = [nick EXCEPT ![o] = rec] OBVIOUS
<1> HIDE DEF rec
<1>4. \A x \in Objs : nick'[x] = IF x = o THEN rec ELSE nick[x] BY <1>0, <1>3 DEF TypeOK
<1>5. nick' \in [Objs -> Nick \cup {Null}] BY <1>0, <1>2, <1>3 DEF TypeOK
<1>6. Alive' = Alive BY <1>1, <1>2, <1>4 DEF Alive
<1>7. ASSUME NEW x \in Alive
      PROVE  /\ nick'[x].kind = nick[x].kind /\ nick'[x].name = nick[x].name
             /\ nick'[x].srv = nick[x].srv /\ nick'[x].who = nick[x].who
             /\ nick'[x].conv = nick[x].conv
             /\ nick'[x].chans = IF x = o THEN C ELSE nick[x].chans
  BY <1>2, <1>4 DEF Alive
<1>8. SameNicks /\ SameNames /\ SameWho /\ SameConv
  BY <1>5, <1>6, <1>7 DEF SameNicks, SameNames, SameWho, SameConv
<1>9. ASSUME NEW c \in Channels
      PROVE  /\ chanUsers'[c] \subseteq Alive
             /\ c \notin chans' => chanUsers'[c] = {}
             /\ \A x \in Alive : x \in chanUsers'[c] <=> c \in nick'[x].chans
  <2>1. chanUsers[c] = {x \in Alive : c \in nick[x].chans} BY <1>0 DEF ChannelsAgree
  <2>2. c \notin chans' => c \notin C /\ chanUsers[c] = {} BY <1>0 DEF ChannelsAgree
  <2> QED BY <1>7, <2>1, <2>2
<1>10. \A x \in Alive : nick[x].kind \in {"chat", "unknown"} => nick'[x].chans = nick[x].chans
  BY <1>7
<1>11. \A x \in Alive : nick[x].kind = "buddy" => nick'[x].chans \subseteq {Status}
  BY <1>0, <1>7 DEF Kinds
<1> QED BY <1>8, <1>9, <1>10, <1>11 DEF Moved

(* Buddy::update_node() of a buddy who has a nick.                         *)
LEMMA UpdatedKeeps ==
    ASSUME NetInv, NEW b \in People, NEW on \in BOOLEAN,
           b \in blist, bnick[b] # Null,
           online' = IF on THEN online \cup {b} ELSE online \ {b},
           Updated(bnick[b], nick[bnick[b]], on), UNCHANGED <<users, bnick>>,
           UNCHANGED <<servers, chans, cbuddies, inRoom, statusAccts, blist, convs, cnick, alive>>
    PROVE  NetInv'
<1>0. /\ TypeOK /\ UsersExact /\ ChannelsAgree /\ PointersAgree /\ ChannelsShow
      /\ Kinds /\ RoomsKept /\ StatusKept
  BY DEF NetInv
<1> DEFINE o == bnick[b]
           joins == on /\ nick[o].srv \in statusAccts
           quits == ~on /\ nick[o].srv \in statusAccts /\ Status \in nick[o].chans
           C == IF joins THEN nick[o].chans \cup {Status}
                ELSE IF quits THEN {} ELSE nick[o].chans
<1>1. o \in Alive /\ nick[o].kind = "buddy" /\ nick[o].who = b BY <1>0 DEF PointersAgree
<1>2. nick[o].srv = AccountOf[b] /\ nick[o].chans \subseteq {Status} BY <1>0, <1>1 DEF Kinds
<1>3. nick' = [nick EXCEPT ![o].chans = C] BY DEF Updated
<1>4. \A c \in Channels : chanUsers'[c] = IF joins /\ c = Status THEN chanUsers[c] \cup {o}
                                          ELSE IF quits /\ c \in nick[o].chans
                                               THEN chanUsers[c] \ {o} ELSE chanUsers[c]
  BY DEF Updated
<1>5. chanUsers' \in [Channels -> SUBSET Objs]
  <2>1. ASSUME NEW c \in Channels PROVE chanUsers'[c] \in SUBSET Objs
    <3>1. chanUsers[c] \in SUBSET Objs /\ o \in Objs BY <1>0, <1>1 DEF TypeOK, Alive
    <3> HIDE DEF o, joins, quits
    <3> QED BY <1>4, <3>1
  <2>2. chanUsers' = [c \in Channels |-> chanUsers'[c]] BY DEF Updated
  <2> QED BY <2>1, <2>2
<1>6. \A c \in Channels : o \in chanUsers[c] <=> c \in nick[o].chans
  BY <1>0, <1>1 DEF ChannelsAgree
<1>7. \A c \in Channels : chanUsers'[c] = IF c \in C THEN chanUsers[c] \cup {o}
                                          ELSE chanUsers[c] \ {o}
  BY <1>2, <1>4, <1>6, ZenonT(60)
<1>8. Status \in Channels /\ C \subseteq {Status} BY <1>2 DEF Channels
<1>9. C \subseteq chans
  <2>1. nick[o].chans \subseteq chans BY <1>0, <1>2, <1>6, <1>8 DEF ChannelsAgree
  <2>2. joins => Status \in chans BY <1>0 DEF StatusKept
  <2> QED BY <2>1, <2>2
<1>10. Status \in C <=> on /\ AccountOf[b] \in statusAccts
  <2>1. o \in chanUsers[Status] <=> b \in online /\ AccountOf[b] \in statusAccts
    BY <1>0 DEF ChannelsShow
  <2> QED BY <1>2, <1>6, <1>8, <2>1
<1> HIDE DEF C, joins, quits
<1>11. Moved
  <2> HIDE DEF o
  <2>1. C \in SUBSET Channels /\ chans \subseteq Channels BY <1>0, <1>8 DEF TypeOK
  <2> QED BY <1>1, <1>3, <1>5, <1>7, <1>8, <1>9, <2>1, OneMoves
<1>12. SameMembers BY <1>0 DEF SameMembers, TypeOK
<1>13. StatusShown'
  <2> SUFFICES ASSUME NEW c \in blist', bnick'[c] # Null
               PROVE  bnick'[c] \in chanUsers'[Status]
                        <=> c \in online' /\ AccountOf[c] \in statusAccts'
    BY DEF StatusShown
  <2>1. c \in People /\ bnick'[c] = bnick[c] BY <1>0 DEF TypeOK
  <2>2. CASE c = b
    <3>1. o \in chanUsers'[Status] <=> Status \in C BY <1>7, <1>8
    <3> QED BY <1>10, <2>1, <2>2, <3>1
  <2>3. CASE c # b
    <3>1. bnick[c] # o BY <1>0, <1>1, <2>1, <2>3 DEF PointersAgree
    <3>2. bnick[c] \in chanUsers'[Status] <=> bnick[c] \in chanUsers[Status]
      BY <1>7, <1>8, <3>1
    <3>3. c \in online' <=> c \in online BY <2>3
    <3> QED BY <1>0, <2>1, <3>2, <3>3 DEF ChannelsShow
  <2> QED BY <2>2, <2>3
<1>14. RoomsKept' /\ StatusKept' BY <1>0, KeepRooms DEF StatusKept
<1>15. statusAccts' \subseteq Accounts /\ online' \subseteq blist BY <1>0 DEF TypeOK
<1> QED BY <1>11, <1>12, <1>13, <1>14, <1>15, MovedKeeps

(* The user's own nick joins and leaves channels.                          *)
LEMMA MeMoves ==
    ASSUME NetInv, NEW C \in SUBSET Channels,
           nick' = [nick EXCEPT ![Me].chans = C],
           chans' \subseteq Channels, chans \subseteq chans', C \subseteq chans',
           chanUsers' \in [Channels -> SUBSET Objs],
           \A c \in Channels : chanUsers'[c] = IF c \in C THEN chanUsers[c] \cup {Me}
                                               ELSE chanUsers[c] \ {Me},
           SameMembers, RoomsKept', StatusKept',
           UNCHANGED <<users, servers, statusAccts, bnick, convs, cnick, listVars, alive>>
    PROVE  NetInv'
<1>0. TypeOK /\ PointersAgree /\ ChannelsShow /\ Kinds BY DEF NetInv
<1>1. Me \in Alive /\ nick[Me].kind = "user" BY <1>0 DEF TypeOK, Alive, Kinds
<1>2. UNCHANGED <<blist, online>> BY DEF listVars
<1>3. Moved BY <1>1, <1>2, OneMoves
<1>4. StatusShown'
  <2> SUFFICES ASSUME NEW b \in blist', bnick'[b] # Null
               PROVE  bnick'[b] \in chanUsers'[Status]
                        <=> b \in online' /\ AccountOf[b] \in statusAccts'
    BY DEF StatusShown
  <2>1. b \in People /\ b \in blist BY <1>0, <1>2 DEF TypeOK
  <2>2. bnick[b] # Me BY <1>0, <1>1, <2>1 DEF PointersAgree
  <2>3. chanUsers'[Status] = IF Status \in C THEN chanUsers[Status] \cup {Me}
                             ELSE chanUsers[Status] \ {Me}
    BY DEF Channels
  <2>4. bnick[b] \in chanUsers'[Status] <=> bnick[b] \in chanUsers[Status]
    BY <2>2, <2>3
  <2> QED BY <1>0, <1>2, <2>1, <2>4 DEF ChannelsShow
<1>5. statusAccts' \subseteq Accounts /\ online' \subseteq blist BY <1>0, <1>2 DEF TypeOK
<1> QED BY <1>3, <1>4, <1>5, MovedKeeps

(* Where the user is: the channels that have him exist.                    *)
LEMMA MyChannels ==
    ASSUME NetInv
    PROVE  /\ nick[Me].chans \in SUBSET Channels /\ nick[Me].chans \subseteq chans
           /\ \A c \in Channels : Me \in chanUsers[c] <=> c \in nick[Me].chans
<1>0. TypeOK /\ ChannelsAgree BY DEF NetInv
<1>1. Me \in Alive BY <1>0 DEF TypeOK, Alive
<1>2. nick[Me].chans \in SUBSET Channels BY <1>0, <1>1, AliveType DEF Nick
<1>3. \A c \in Channels : Me \in chanUsers[c] <=> c \in nick[Me].chans
  BY <1>0, <1>1 DEF ChannelsAgree
<1>4. nick[Me].chans \subseteq chans BY <1>0, <1>2, <1>3 DEF ChannelsAgree
<1> QED BY <1>2, <1>3, <1>4

(* Conversation::createChannel()                                           *)
LEMMA CreateChannelKeeps ==
    ASSUME NetInv, NEW r \in Rooms, createChannel(r)
    PROVE  NetInv'
<1>0. TypeOK /\ ChannelsAgree /\ RoomsKept /\ StatusKept BY DEF NetInv
<1>1. /\ RoomAccount[r] \in servers /\ r \notin chans
      /\ chans' = chans \cup {r} /\ chanUsers' = [chanUsers EXCEPT ![r] = {Me}]
      /\ nick' = [nick EXCEPT ![Me].chans = nick[Me].chans \cup {r}]
      /\ UNCHANGED <<users, servers, cbuddies, inRoom, statusAccts, listVars, bnick, convs, cnick,
                     alive>>
  BY DEF createChannel, ircVars
<1> DEFINE C == nick[Me].chans \cup {r}
<1>2. r \in Channels /\ r # Status BY DEF Channels
<1>3. C \in SUBSET Channels /\ C \subseteq chans' BY <1>1, <1>2, MyChannels
<1>4. \A c \in Channels : chanUsers'[c] = IF c = r THEN {Me} ELSE chanUsers[c]
  BY <1>0, <1>1 DEF TypeOK
<1>5. chanUsers[r] = {} BY <1>0, <1>1, <1>2 DEF ChannelsAgree
<1>6. \A c \in Channels : chanUsers'[c] = IF c \in C THEN chanUsers[c] \cup {Me}
                                          ELSE chanUsers[c] \ {Me}
  <2> SUFFICES ASSUME NEW c \in Channels
               PROVE  chanUsers'[c] = IF c \in C THEN chanUsers[c] \cup {Me} ELSE chanUsers[c] \ {Me}
    OBVIOUS
  <2>1. Me \in chanUsers[c] <=> c \in nick[Me].chans BY MyChannels
  <2>2. CASE c = r BY <1>4, <1>5, <2>1, <2>2
  <2>3. CASE c # r
    <3>1. chanUsers'[c] = chanUsers[c] BY <1>4, <2>3
    <3>2. c \in C <=> Me \in chanUsers[c] BY <2>1, <2>3
    <3> QED BY <3>1, <3>2, SMTT(40)
  <2> QED BY <2>2, <2>3
<1>7. chanUsers' \in [Channels -> SUBSET Objs] BY <1>0, <1>1 DEF TypeOK
<1>8. SameMembers BY <1>0, <1>1 DEF SameMembers, TypeOK
<1>9. RoomsKept' BY <1>0, <1>1 DEF RoomsKept
<1>10. StatusKept' BY <1>0, <1>1, <1>2 DEF StatusKept
<1>11. chans' \subseteq Channels /\ chans \subseteq chans' BY <1>0, <1>1, <1>2 DEF TypeOK
<1>12. nick' = [nick EXCEPT ![Me].chans = C] BY <1>1
<1> HIDE DEF C
<1> QED BY <1>1, <1>3, <1>6, <1>7, <1>8, <1>9, <1>10, <1>11, <1>12, MeMoves

(* Conversation::add_users() of the user himself.                          *)
LEMMA AddMeKeeps ==
    ASSUME NetInv, NEW r \in Rooms, r \in chans,
           inRoom' = [inRoom EXCEPT ![r] = @ \cup {Me}],
           nick' = [nick EXCEPT ![Me].chans = @ \cup {r}],
           chanUsers' = [chanUsers EXCEPT ![r] = @ \cup {Me}],
           cbuddies' = [cbuddies EXCEPT ![r][Me] = Me],
           UNCHANGED <<users, servers, chans, statusAccts, listVars, bnick, convs, cnick, alive>>
    PROVE  NetInv'
<1>0. TypeOK /\ ChannelsAgree /\ RoomsKept /\ StatusKept BY DEF NetInv
<1> DEFINE C == nick[Me].chans \cup {r}
<1>1. r \in Channels /\ r # Status BY DEF Channels
<1>2. C \in SUBSET Channels /\ C \subseteq chans' BY <1>1, MyChannels
<1>3. \A c \in Channels : chanUsers'[c] = IF c = r THEN chanUsers[c] \cup {Me} ELSE chanUsers[c]
  BY <1>0 DEF TypeOK
<1>4. \A c \in Channels : chanUsers'[c] = IF c \in C THEN chanUsers[c] \cup {Me}
                                          ELSE chanUsers[c] \ {Me}
  <2> SUFFICES ASSUME NEW c \in Channels
               PROVE  chanUsers'[c] = IF c \in C THEN chanUsers[c] \cup {Me} ELSE chanUsers[c] \ {Me}
    OBVIOUS
  <2>1. Me \in chanUsers[c] <=> c \in nick[Me].chans BY MyChannels
  <2>2. CASE c = r BY <1>3, <2>1, <2>2
  <2>3. CASE c # r
    <3>1. chanUsers'[c] = chanUsers[c] BY <1>3, <2>3
    <3>2. c \in C <=> Me \in chanUsers[c] BY <2>1, <2>3
    <3> DEFINE X == chanUsers[c]
    <3>3. (c \in C /\ X = X \cup {Me}) \/ (c \notin C /\ X = X \ {Me}) BY <3>2
    <3> HIDE DEF C, X
    <3>4. X = IF c \in C THEN X \cup {Me} ELSE X \ {Me} BY <3>3
    <3> QED BY <3>1, <3>4 DEF X
  <2> QED BY <2>2, <2>3
<1>5. chanUsers' \in [Channels -> SUBSET Objs] BY <1>0 DEF TypeOK
<1>6. \A s \in Rooms, p \in People \cup {Me} :
        cbuddies'[s][p] = IF s = r /\ p = Me THEN Me ELSE cbuddies[s][p]
  BY <1>0 DEF TypeOK
<1>7. \A s \in Rooms : inRoom'[s] = IF s = r THEN inRoom[s] \cup {Me} ELSE inRoom[s]
  BY <1>0 DEF TypeOK
<1>8. /\ cbuddies' \in [Rooms -> [People \cup {Me} -> Objs \cup {Null}]]
      /\ inRoom' \in [Rooms -> SUBSET (People \cup {Me})]
  BY <1>0 DEF TypeOK
<1>9. SameMembers
  <2>1. ASSUME NEW s \in Rooms, NEW p \in People
        PROVE  cbuddies'[s][p] = cbuddies[s][p] /\ (p \in inRoom'[s] <=> p \in inRoom[s])
    <3>1. p # Me BY IrcNetAssumption
    <3>2. cbuddies'[s][p] = cbuddies[s][p] BY <1>6, <3>1
    <3>3. CASE s = r BY <1>7, <3>1, <3>2, <3>3
    <3>4. CASE s # r BY <1>7, <3>2, <3>4
    <3> QED BY <3>3, <3>4
  <2> QED BY <1>8, <2>1 DEF SameMembers
<1>10. RoomsKept'
  <2>1. ASSUME NEW s \in Rooms
        PROVE  /\ s \in chans' => RoomAccount[s] \in servers'
               /\ s \notin chans' => inRoom'[s] = {} /\ \A p \in People \cup {Me} : cbuddies'[s][p] = Null
               /\ cbuddies'[s][Me] \in {Null, Me}
    BY <1>0, <1>6, <1>7 DEF RoomsKept
  <2> QED BY <2>1 DEF RoomsKept
<1>11. StatusKept' BY <1>0 DEF StatusKept
<1>12. chans' \subseteq Channels /\ chans \subseteq chans' BY <1>0 DEF TypeOK
<1>13. nick' = [nick EXCEPT ![Me].chans = C] OBVIOUS
<1> HIDE DEF C
<1> QED BY <1>2, <1>4, <1>5, <1>9, <1>10, <1>11, <1>12, <1>13, MeMoves

(* Conversation::add_users()                                               *)
LEMMA AddUsersKeeps ==
    ASSUME NetInv, NEW r \in Rooms, NEW p \in People \cup {Me}, add_users(r, p)
    PROVE  NetInv'
<1>1. /\ r \in chans /\ p \notin inRoom[r] /\ inRoom' = [inRoom EXCEPT ![r] = @ \cup {p}]
      /\ UNCHANGED <<servers, chans, statusAccts, listVars, bnick, convs, cnick, alive>>
  BY DEF add_users
<1>2. CASE /\ p = Me /\ nick' = [nick EXCEPT ![Me].chans = @ \cup {r}]
           /\ chanUsers' = [chanUsers EXCEPT ![r] = @ \cup {Me}]
           /\ cbuddies' = [cbuddies EXCEPT ![r][Me] = Me] /\ UNCHANGED users
  BY <1>1, <1>2, AddMeKeeps
<1>3. CASE /\ p # Me /\ cbuddies[r][p] = Null
           /\ \E o \in Objs : /\ AddNick(o, NewChat(r, p))
                              /\ nick' = [nick EXCEPT ![o] = NewChat(r, p)]
                              /\ chanUsers' = [chanUsers EXCEPT ![r] = @ \cup {o}]
                              /\ cbuddies' = [cbuddies EXCEPT ![r][p] = o]
  <2>1. UNCHANGED <<blist, online>> /\ p \in People BY <1>1, <1>3 DEF listVars
  <2> QED BY <1>1, <1>3, <2>1, NewChatKeeps
<1> QED BY <1>2, <1>3 DEF add_users

(* JOIN of the status channel.                                             *)
LEMMA JoinKeeps ==
    ASSUME NetInv, m_join
    PROVE  NetInv'
<1>0. TypeOK /\ RoomsKept /\ StatusKept BY DEF NetInv
<1>1. /\ Status \in chans
      /\ nick' = [nick EXCEPT ![Me].chans = nick[Me].chans \cup {Status}]
      /\ chanUsers' = [chanUsers EXCEPT ![Status] = @ \cup {Me}]
      /\ UNCHANGED <<users, servers, chans, cbuddies, inRoom, statusAccts, listVars, bnick, convs,
                     cnick, alive>>
  BY DEF m_join, ircVars
<1> DEFINE C == nick[Me].chans \cup {Status}
<1>2. Status \in Channels BY DEF Channels
<1>3. C \in SUBSET Channels /\ C \subseteq chans' BY <1>1, <1>2, MyChannels
<1>4. \A c \in Channels : chanUsers'[c] = IF c = Status THEN chanUsers[c] \cup {Me} ELSE chanUsers[c]
  BY <1>0, <1>1 DEF TypeOK
<1>5. \A c \in Channels : chanUsers'[c] = IF c \in C THEN chanUsers[c] \cup {Me}
                                          ELSE chanUsers[c] \ {Me}
  <2> SUFFICES ASSUME NEW c \in Channels
               PROVE  chanUsers'[c] = IF c \in C THEN chanUsers[c] \cup {Me} ELSE chanUsers[c] \ {Me}
    OBVIOUS
  <2>1. Me \in chanUsers[c] <=> c \in nick[Me].chans BY MyChannels
  <2>2. CASE c = Status BY <1>4, <2>1, <2>2
  <2>3. CASE c # Status
    <3>1. chanUsers'[c] = chanUsers[c] BY <1>4, <2>3
    <3>2. c \in C <=> Me \in chanUsers[c] BY <2>1, <2>3
    <3> QED BY <3>1, <3>2, SMTT(40)
  <2> QED BY <2>2, <2>3
<1>6. chanUsers' \in [Channels -> SUBSET Objs] BY <1>0, <1>1 DEF TypeOK
<1>7. SameMembers BY <1>0, <1>1 DEF SameMembers, TypeOK
<1>8. RoomsKept' /\ StatusKept' BY <1>0, <1>1, KeepRooms DEF StatusKept
<1>9. chans' \subseteq Channels /\ chans \subseteq chans' BY <1>0, <1>1 DEF TypeOK
<1>10. nick' = [nick EXCEPT ![Me].chans = C] BY <1>1
<1> HIDE DEF C
<1> QED BY <1>1, <1>3, <1>5, <1>6, <1>7, <1>8, <1>9, <1>10, MeMoves

(* PART                                                                    *)
LEMMA PartKeeps ==
    ASSUME NetInv, NEW c \in Channels, m_part(c)
    PROVE  NetInv'
<1>0. TypeOK /\ RoomsKept /\ StatusKept BY DEF NetInv
<1>1. UNCHANGED <<servers, statusAccts, listVars, convs, alive>> BY DEF m_part
<1>2. CASE c \in Rooms /\ LeaveRoom(c) BY <1>1, <1>2, LeaveRoomKeeps
<1>3. CASE /\ nick' = [nick EXCEPT ![Me].chans = @ \ {Status}]
           /\ chanUsers' = [chanUsers EXCEPT ![Status] = @ \ {Me}]
           /\ UNCHANGED <<users, chans, cbuddies, inRoom, bnick, cnick>>
  <2> DEFINE C == nick[Me].chans \ {Status}
  <2>1. C \in SUBSET Channels /\ C \subseteq chans' BY <1>3, MyChannels
  <2>2. \A d \in Channels : chanUsers'[d] = IF d = Status THEN chanUsers[d] \ {Me} ELSE chanUsers[d]
    BY <1>0, <1>3 DEF TypeOK
  <2>3. \A d \in Channels : chanUsers'[d] = IF d \in C THEN chanUsers[d] \cup {Me}
                                            ELSE chanUsers[d] \ {Me}
    <3> SUFFICES ASSUME NEW d \in Channels
                 PROVE  chanUsers'[d] = IF d \in C THEN chanUsers[d] \cup {Me} ELSE chanUsers[d] \ {Me}
      OBVIOUS
    <3>1. Me \in chanUsers[d] <=> d \in nick[Me].chans BY MyChannels
    <3>2. CASE d = Status BY <2>2, <3>1, <3>2
    <3>3. CASE d # Status
      <4>1. chanUsers'[d] = chanUsers[d] BY <2>2, <3>3
      <4>2. d \in C <=> Me \in chanUsers[d] BY <3>1, <3>3
      <4> QED BY <4>1, <4>2
    <3> QED BY <3>2, <3>3
  <2>4. chanUsers' \in [Channels -> SUBSET Objs] BY <1>0, <1>3 DEF TypeOK
  <2>5. SameMembers BY <1>0, <1>3 DEF SameMembers, TypeOK
  <2>6. RoomsKept' /\ StatusKept' BY <1>0, <1>1, <1>3, KeepRooms DEF StatusKept
  <2>7. chans' \subseteq Channels /\ chans \subseteq chans' BY <1>0, <1>3 DEF TypeOK
  <2>8. nick' = [nick EXCEPT ![Me].chans = C] BY <1>3
  <2> HIDE DEF C
  <2> QED BY <1>1, <1>3, <2>1, <2>3, <2>4, <2>5, <2>6, <2>7, <2>8, MeMoves
<1> QED BY <1>2, <1>3 DEF m_part

(* Account::setStatusChannelName()                                         *)
LEMMA StatusNameKeeps ==
    ASSUME NetInv, NEW a \in Accounts, NEW on \in BOOLEAN, setStatusChannelName(a, on)
    PROVE  NetInv'
<1>0. /\ TypeOK /\ UsersExact /\ ChannelsAgree /\ PointersAgree /\ ChannelsShow
      /\ Kinds /\ RoomsKept /\ StatusKept
  BY DEF NetInv
<1> DEFINE mine == {bnick[b] : b \in {b \in blist : AccountOf[b] = a}} \ {Null}
           left == statusAccts \ {a}
           stay == IF left = {} THEN {} ELSE IF a \in statusAccts THEN chanUsers[Status] \ mine
                                             ELSE chanUsers[Status]
           new == IF ~on THEN stay
                  ELSE stay \cup Shown(a) \cup (IF left = {} THEN {Me} ELSE {})
<1>1. /\ statusAccts' = IF on THEN left \cup {a} ELSE left
      /\ chans' = IF statusAccts' = {} THEN chans \ {Status} ELSE chans \cup {Status}
      /\ chanUsers' = [chanUsers EXCEPT ![Status] = new]
      /\ nick' = [o \in Objs |->
                    IF nick[o] = Null THEN Null
                    ELSE [nick[o] EXCEPT !.chans = IF o \in new THEN @ \cup {Status}
                                                   ELSE @ \ {Status}]]
      /\ UNCHANGED <<users, servers, cbuddies, inRoom, blist, online, bnick, convs, cnick, alive>>
  BY DEF setStatusChannelName, ircVars, listVars
<1>2. Status \in Channels /\ Me \in Alive BY <1>0 DEF Channels, Alive, TypeOK
<1>3. chanUsers[Status] = {o \in Alive : Status \in nick[o].chans}
  BY <1>0, <1>2 DEF ChannelsAgree
<1>4. ASSUME NEW b \in People, bnick[b] # Null
      PROVE  /\ b \in blist /\ bnick[b] \in Alive /\ bnick[b] # Me
             /\ nick[bnick[b]].kind = "buddy" /\ nick[bnick[b]].who = b
             /\ bnick[b] \in mine <=> AccountOf[b] = a
             /\ bnick[b] \in Shown(a) <=> b \in online /\ AccountOf[b] = a
  <2>1. /\ b \in blist /\ bnick[b] \in Alive /\ nick[bnick[b]].kind = "buddy"
        /\ nick[bnick[b]].who = b
    BY <1>0, <1>4 DEF PointersAgree
  <2>2. bnick[b] # Me BY <1>0, <2>1 DEF Kinds
  <2>3. \A c \in People : bnick[c] = bnick[b] => c = b BY <1>0, <1>4, <2>1 DEF PointersAgree
  <2>4. bnick[b] \in mine <=> AccountOf[b] = a BY <1>0, <1>4, <2>1, <2>3 DEF TypeOK
  <2>5. bnick[b] \in Shown(a) <=> b \in online /\ AccountOf[b] = a
    BY <1>0, <1>4, <2>3 DEF TypeOK, Shown
  <2> QED BY <2>1, <2>2, <2>4, <2>5
<1>5. ASSUME NEW o \in Shown(a) PROVE o \in Alive /\ nick[o].kind = "buddy"
  <2>1. PICK b \in online : o = bnick[b] /\ o # Null BY DEF Shown
  <2>2. b \in People BY <1>0 DEF TypeOK
  <2> QED BY <1>4, <2>1, <2>2
<1>6. ASSUME NEW o \in chanUsers[Status]
      PROVE  o \in Alive /\ nick[o].kind \notin {"chat", "unknown"}
  <2>1. o \in Alive /\ Status \in nick[o].chans BY <1>3
  <2>2. nick[o].kind # "unknown" BY <1>0, <2>1 DEF Kinds
  <2>3. nick[o].kind # "chat" BY <1>0, <2>1 DEF Kinds
  <2> QED BY <2>1, <2>2, <2>3
<1>7. ASSUME NEW o \in new PROVE o \in Alive /\ nick[o].kind \notin {"chat", "unknown"}
  <2>1. o \in chanUsers[Status] \/ o \in Shown(a) \/ o = Me OBVIOUS
  <2>2. nick[Me].kind = "user" BY <1>0, <1>2 DEF Kinds
  <2> QED BY <1>2, <1>5, <1>6, <2>1, <2>2
<1>8. statusAccts' = {} => new = {} BY <1>1
<1>9. ASSUME NEW b \in People, bnick[b] # Null
      PROVE  bnick[b] \in new <=> b \in online /\ AccountOf[b] \in statusAccts'
  <2>1. b \in blist /\ bnick[b] # Me BY <1>4, <1>9
  <2>2. bnick[b] \in chanUsers[Status] <=> b \in online /\ AccountOf[b] \in statusAccts
    BY <1>0, <1>9, <2>1 DEF ChannelsShow
  <2>3. bnick[b] \in mine <=> AccountOf[b] = a BY <1>4, <1>9
  <2>4. bnick[b] \in Shown(a) <=> b \in online /\ AccountOf[b] = a BY <1>4, <1>9
  <2> HIDE DEF mine
  <2>5. bnick[b] \in stay <=> b \in online /\ AccountOf[b] \in left BY <2>2, <2>3
  <2> HIDE DEF stay
  <2>6. bnick[b] \in new <=> bnick[b] \in stay \/ (on /\ bnick[b] \in Shown(a)) BY <2>1
  <2>7. AccountOf[b] \in statusAccts' <=> AccountOf[b] \in left \/ (on /\ AccountOf[b] = a)
    BY <1>1
  <2> QED BY <2>4, <2>5, <2>6, <2>7
<1> HIDE DEF mine, stay, new
<1>10. ASSUME NEW x \in Alive
       PROVE  /\ nick'[x] \in Nick
              /\ nick'[x].kind = nick[x].kind /\ nick'[x].name = nick[x].name
              /\ nick'[x].srv = nick[x].srv /\ nick'[x].who = nick[x].who
              /\ nick'[x].conv = nick[x].conv
              /\ nick'[x].chans = IF x \in new THEN nick[x].chans \cup {Status}
                                  ELSE nick[x].chans \ {Status}
  <2>1. x \in Objs /\ nick[x] \in Nick /\ nick[x] # Null BY <1>0, AliveType
  <2> DEFINE C == IF x \in new THEN nick[x].chans \cup {Status} ELSE nick[x].chans \ {Status}
  <2>2. nick'[x] = [nick[x] EXCEPT !.chans = C] BY <1>1, <2>1
  <2>3. C \in SUBSET Channels BY <1>2, <2>1 DEF Nick
  <2>4. C = IF x \in new THEN nick[x].chans \cup {Status} ELSE nick[x].chans \ {Status} OBVIOUS
  <2> HIDE DEF C
  <2>5. /\ nick'[x] \in Nick
        /\ nick'[x].kind = nick[x].kind /\ nick'[x].name = nick[x].name
        /\ nick'[x].srv = nick[x].srv /\ nick'[x].who = nick[x].who
        /\ nick'[x].conv = nick[x].conv /\ nick'[x].chans = C
    BY <2>1, <2>2, <2>3 DEF Nick
  <2> QED BY <2>4, <2>5
<1>11. \A x \in Objs \ Alive : nick'[x] = Null BY <1>1 DEF Alive
<1>12. Alive' = Alive BY <1>10, <1>11 DEF Alive
<1>13. nick' \in [Objs -> Nick \cup {Null}]
  <2>1. \A x \in Objs : nick'[x] \in Nick \cup {Null} BY <1>10, <1>11
  <2>2. nick' = [x \in Objs |-> nick'[x]] BY <1>1
  <2> QED BY <2>1, <2>2
<1>14. SameNicks /\ SameNames /\ SameWho /\ SameConv
  BY <1>10, <1>12, <1>13 DEF SameNicks, SameNames, SameWho, SameConv
<1>15. \A c \in Channels : chanUsers'[c] = IF c = Status THEN new ELSE chanUsers[c]
  BY <1>0, <1>1 DEF TypeOK
<1>16. chanUsers' \in [Channels -> SUBSET Objs]
  <2>1. new \in SUBSET Objs BY <1>7 DEF Alive
  <2> QED BY <1>0, <1>1, <2>1 DEF TypeOK
<1>17. /\ \A r \in Rooms : r \in chans <=> r \in chans'
       /\ Status \in chans' <=> statusAccts' # {}
  BY <1>1
<1>18. ASSUME NEW c \in Channels
       PROVE  /\ chanUsers'[c] \subseteq Alive
              /\ c \notin chans' => chanUsers'[c] = {}
              /\ \A x \in Alive : x \in chanUsers'[c] <=> c \in nick'[x].chans
  <2>1. CASE c = Status
    <3>1. chanUsers'[c] = new BY <1>15, <2>1
    <3>2. \A x \in Alive : x \in new <=> Status \in nick'[x].chans BY <1>10
    <3> QED BY <1>7, <1>8, <1>17, <2>1, <3>1, <3>2
  <2>2. CASE c # Status
    <3>1. chanUsers'[c] = chanUsers[c] BY <1>15, <2>2
    <3>2. c \in Rooms BY <2>2 DEF Channels
    <3>3. chanUsers[c] = {x \in Alive : c \in nick[x].chans} BY <1>0 DEF ChannelsAgree
    <3>4. ASSUME NEW x \in Alive PROVE c \in nick'[x].chans <=> c \in nick[x].chans
      <4>1. nick'[x].chans = IF x \in new THEN nick[x].chans \cup {Status}
                             ELSE nick[x].chans \ {Status}
        BY <1>10
      <4> QED BY <2>2, <4>1
    <3>5. c \notin chans' => chanUsers[c] = {} BY <1>0, <1>17, <3>2 DEF ChannelsAgree
    <3> QED BY <3>1, <3>3, <3>4, <3>5
  <2> QED BY <2>1, <2>2
<1>19. ASSUME NEW x \in Alive, nick[x].kind \in {"chat", "unknown"}
       PROVE  nick'[x].chans = nick[x].chans
  <2>1. x \notin new /\ x \notin chanUsers[Status] BY <1>6, <1>7, <1>19
  <2>2. Status \notin nick[x].chans BY <1>3, <2>1
  <2>3. nick'[x].chans = nick[x].chans \ {Status} BY <1>10, <2>1
  <2> QED BY <2>2, <2>3
<1>20. ASSUME NEW x \in Alive, nick[x].kind = "buddy" PROVE nick'[x].chans \subseteq {Status}
  <2>1. nick[x].chans \subseteq {Status} BY <1>0, <1>20 DEF Kinds
  <2> QED BY <1>10, <2>1
<1>21. chans' \subseteq Channels BY <1>0, <1>1, <1>2 DEF TypeOK
<1>22. Moved
  BY <1>1, <1>14, <1>16, <1>17, <1>18, <1>19, <1>20, <1>21 DEF Moved
<1>23. SameMembers BY <1>0, <1>1 DEF SameMembers, TypeOK
<1>24. StatusShown'
  <2> SUFFICES ASSUME NEW b \in blist', bnick'[b] # Null
               PROVE  bnick'[b] \in chanUsers'[Status]
                        <=> b \in online' /\ AccountOf[b] \in statusAccts'
    BY DEF StatusShown
  <2>1. b \in People /\ bnick'[b] = bnick[b] BY <1>0, <1>1 DEF TypeOK
  <2> QED BY <1>1, <1>2, <1>9, <1>15, <2>1
<1>25. RoomsKept' /\ StatusKept' BY <1>0, <1>1, <1>17 DEF RoomsKept, StatusKept
<1>26. statusAccts' \subseteq Accounts /\ online' \subseteq blist BY <1>0, <1>1 DEF TypeOK
<1> QED BY <1>22, <1>23, <1>24, <1>25, <1>26, MovedKeeps

(* Account::addBuddy()                                                     *)
LEMMA AddBuddyKeeps ==
    ASSUME NetInv, NEW b \in People, AddBuddy(b)
    PROVE  NetInv'
<1>0. /\ TypeOK /\ UsersExact /\ ChannelsAgree /\ PointersAgree /\ ChannelsShow
      /\ Kinds /\ RoomsKept /\ StatusKept
  BY DEF NetInv
<1>1. /\ b \notin blist /\ blist' = blist \cup {b}
      /\ UNCHANGED <<nick, users, servers, chans, chanUsers, cbuddies, inRoom, statusAccts,
                     online, bnick, convs, cnick, alive>>
  BY DEF AddBuddy, ircVars, chanVars
<1>2. Alive' = Alive BY <1>1 DEF Alive
<1>3. TypeOK' BY <1>0, <1>1 DEF TypeOK
<1>4. bnick[b] = Null BY <1>0, <1>1 DEF PointersAgree
<1>5. PointersAgree' BY <1>0, <1>1, <1>2 DEF PointersAgree
<1>6. ChannelsShow' BY <1>0, <1>1, <1>2, <1>4 DEF ChannelsShow
<1>7. UsersExact' /\ ChannelsAgree' /\ Kinds'
  BY <1>0, <1>1, <1>2 DEF UsersExact, ChannelsAgree, Kinds
<1>8. RoomsKept' /\ StatusKept' BY <1>0, <1>1, KeepRooms DEF StatusKept
<1> QED BY <1>3, <1>5, <1>6, <1>7, <1>8 DEF NetInv

(* Account::connected()                                                    *)
LEMMA ConnectedKeeps ==
    ASSUME NetInv, NEW a \in Accounts, connected(a)
    PROVE  NetInv'
<1>0. /\ TypeOK /\ UsersExact /\ ChannelsAgree /\ PointersAgree /\ ChannelsShow
      /\ Kinds /\ RoomsKept /\ StatusKept
  BY DEF NetInv
<1>1. /\ servers' = servers \cup {a}
      /\ UNCHANGED <<nick, users, chans, chanUsers, cbuddies, inRoom, statusAccts, blist,
                     online, bnick, convs, cnick, alive>>
  BY DEF connected, chanVars, listVars
<1>2. Alive' = Alive BY <1>1 DEF Alive
<1>3. TypeOK' BY <1>0, <1>1 DEF TypeOK
<1>4. UsersExact' BY <1>0, <1>1, <1>2 DEF UsersExact
<1>5. RoomsKept' BY <1>0, <1>1 DEF RoomsKept
<1>6. ChannelsAgree' /\ PointersAgree' /\ Kinds'
  BY <1>0, <1>1, <1>2 DEF ChannelsAgree, PointersAgree, Kinds
<1>7. ChannelsShow' BY <1>0, <1>1, <1>2 DEF ChannelsShow
<1>8. StatusKept' BY <1>0, <1>1 DEF StatusKept
<1> QED BY <1>3, <1>4, <1>5, <1>6, <1>7, <1>8 DEF NetInv

(* A step that leaves the network alone, a crash included.                 *)
LEMMA QuietKeeps ==
    ASSUME NetInv, alive' \in BOOLEAN,
           UNCHANGED <<nick, ircVars, chanVars, statusAccts, listVars, bnick, convs, cnick>>
    PROVE  NetInv'
<1>0. /\ TypeOK /\ UsersExact /\ ChannelsAgree /\ PointersAgree /\ ChannelsShow
      /\ Kinds /\ RoomsKept /\ StatusKept
  BY DEF NetInv
<1>1. UNCHANGED <<nick, users, servers, chans, chanUsers, cbuddies, inRoom, statusAccts, blist,
                  online, bnick, convs, cnick>>
  BY DEF ircVars, chanVars, listVars
<1>2. Alive' = Alive BY <1>1 DEF Alive
<1>3. TypeOK' BY <1>0, <1>1 DEF TypeOK
<1>4. UsersExact' /\ ChannelsAgree' /\ PointersAgree' /\ Kinds'
  BY <1>0, <1>1, <1>2 DEF UsersExact, ChannelsAgree, PointersAgree, Kinds
<1>5. ChannelsShow' BY <1>0, <1>1, <1>2 DEF ChannelsShow
<1>6. RoomsKept' /\ StatusKept' BY <1>0, <1>1 DEF RoomsKept, StatusKept
<1> QED BY <1>3, <1>4, <1>5, <1>6 DEF NetInv
-----------------------------------------------------------------------------
(* After sendWelcome() the network is in order.                            *)
LEMMA NetInit == Init => NetInv
<1> SUFFICES ASSUME Init PROVE NetInv OBVIOUS
<1> DEFINE me == [kind |-> "user", name |-> MyName, srv |-> Null, who |-> Null,
                  conv |-> Null, chans |-> {Status}]
<1>1. me \in Nick /\ me # Null
  <2>1. me \in Nick BY DEF Nick, Channels
  <2> HIDE DEF me
  <2> QED BY <2>1
<1>2. /\ me.kind = "user" /\ me.name = MyName /\ me.srv = Null /\ me.conv = Null
      /\ me.chans = {Status}
  OBVIOUS
<1>3. nick = [o \in Objs |-> IF o = Me THEN me ELSE Null] BY DEF Init
<1> HIDE DEF me
<1>4. Alive = {Me} /\ nick[Me] = me BY <1>1, <1>3 DEF Alive
<1>5. /\ users = [n \in Names |-> IF n = MyName THEN Me ELSE Null] /\ servers = {}
      /\ chans = {Status} /\ statusAccts = Accounts
      /\ chanUsers = [c \in Channels |-> IF c = Status THEN {Me} ELSE {}]
      /\ cbuddies = [r \in Rooms |-> [p \in People \cup {Me} |-> Null]]
      /\ inRoom = [r \in Rooms |-> {}] /\ blist \in SUBSET People /\ online = {}
      /\ bnick = [b \in People |-> Null] /\ convs = {} /\ cnick = [p \in People |-> Null]
      /\ alive = TRUE
  BY DEF Init
<1>6. Status \in Channels BY DEF Channels
<1>7. TypeOK
  <2>1. nick \in [Objs -> Nick \cup {Null}] /\ nick[Me] # Null BY <1>1, <1>3
  <2>2. users \in [Names -> Objs \cup {Null}] /\ chanUsers \in [Channels -> SUBSET Objs]
    BY <1>5
  <2>3. /\ cbuddies \in [Rooms -> [People \cup {Me} -> Objs \cup {Null}]]
        /\ inRoom \in [Rooms -> SUBSET (People \cup {Me})]
    BY <1>5
  <2> QED BY <1>5, <1>6, <2>1, <2>2, <2>3 DEF TypeOK
<1>8. UsersExact BY <1>2, <1>4, <1>5 DEF UsersExact
<1>9. ChannelsAgree BY <1>2, <1>4, <1>5 DEF ChannelsAgree
<1>10. PointersAgree BY <1>2, <1>4, <1>5 DEF PointersAgree
<1>11. ChannelsShow BY <1>2, <1>4, <1>5 DEF ChannelsShow
<1>12. Kinds BY <1>2, <1>4 DEF Kinds
<1>13. RoomsKept /\ StatusKept BY <1>5 DEF RoomsKept, StatusKept
<1> QED BY <1>7, <1>8, <1>9, <1>10, <1>11, <1>12, <1>13 DEF NetInv

(* Every callback and every command keeps the network in order.            *)
LEMMA NetStep == NetInv /\ [Next]_vars => NetInv'
<1> SUFFICES ASSUME NetInv, [Next]_vars PROVE NetInv' OBVIOUS
<1>1. ASSUME NEW b \in People, NEW on \in BOOLEAN, update_node(b, on) PROVE NetInv'
  <2>1. /\ b \in blist /\ AccountOf[b] \in servers
        /\ online' = IF on THEN online \cup {b} ELSE online \ {b}
        /\ UNCHANGED <<servers, chans, cbuddies, inRoom, statusAccts, blist, convs, cnick, alive>>
    BY <1>1 DEF update_node
  <2>2. CASE /\ bnick[b] # Null /\ Updated(bnick[b], nick[bnick[b]], on)
             /\ UNCHANGED <<users, bnick>>
    BY <2>1, <2>2, UpdatedKeeps
  <2>3. CASE /\ bnick[b] = Null
             /\ \E o \in Objs : /\ AddNick(o, NewBuddy(b))
                                /\ Updated(o, NewBuddy(b), on)
                                /\ bnick' = [bnick EXCEPT ![b] = o]
    BY <2>1, <2>3, NewBuddyKeeps
  <2> QED BY <1>1, <2>2, <2>3 DEF update_node
<1>2. ASSUME NEW b \in People, removed_node(b) \/ m_kill(b) \/ kick(b) PROVE NetInv'
  BY <1>2, RemovedNodeKeeps DEF m_kill, kick
<1>3. ASSUME NEW r \in Rooms, RenameMe(r) PROVE NetInv'
  BY <1>3, QuietKeeps DEF RenameMe
<1>4. CASE UNCHANGED vars
  <2>1. alive' \in BOOLEAN BY <1>4 DEF vars, NetInv, TypeOK
  <2> QED BY <1>4, <2>1, QuietKeeps DEF vars
<1>5. CASE m_join BY <1>5, JoinKeeps
<1> QED
  BY <1>1, <1>2, <1>3, <1>4, <1>5, AddBuddyKeeps, SvsnickKeeps, CreateChannelKeeps,
     AddUsersKeeps, RemoveUserKeeps, ChatRenameKeeps, PartKeeps, RecvMessageKeeps,
     CheckConvKeeps, DestroyKeeps, ConnectedKeeps, DisconnectedKeeps, StatusNameKeeps
  DEF Next

(* Whatever the accounts report and the user commands, the network minbif  *)
(* shows is consistent in all its pointers at once.                        *)
THEOREM NetInvariant == Spec => []NetInv
<1> QED BY NetInit, NetStep, PTL DEF Spec

(* IRC::users is exact: no nick is left behind by removeNick(),            *)
(* renameNick() and removeServer(), and no deleted one stays in the map.   *)
THEOREM UsersExactHolds == Spec => []UsersExact
<1>1. NetInv => UsersExact BY DEF NetInv
<1> QED BY <1>1, NetInvariant, PTL

(* A nick and a channel agree on who is where: ~Nick() and ~Channel() each *)
(* clean up on the other side.                                             *)
THEOREM ChannelsAgreeHolds == Spec => []ChannelsAgree
<1>1. NetInv => ChannelsAgree BY DEF NetInv
<1> QED BY <1>1, NetInvariant, PTL

(* The ui_data of buddies and conversations point at nicks that live and   *)
(* that point back: setNick() and setConversation() never leave one side.  *)
THEOREM PointersAgreeHolds == Spec => []PointersAgree
<1>1. NetInv => PointersAgree BY DEF NetInv
<1> QED BY <1>1, NetInvariant, PTL

(* Every room shows its members and the status channel the buddies online. *)
THEOREM ChannelsShowHolds == Spec => []ChannelsShow
<1>1. NetInv => ChannelsShow BY DEF NetInv
<1> QED BY <1>1, NetInvariant, PTL
=============================================================================
