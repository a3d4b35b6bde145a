--------------------------- MODULE Coincoin_proofs ---------------------------
(***************************************************************************)
(* Theorems about Coincoin, for any number of requests, posts, messages    *)
(* kept and posts listed.                                                  *)
(*                                                                         *)
(* That the posts of an answer are shown once and in order although other  *)
(* answers came before needs to know of every answer in flight that its    *)
(* last whole post is either newer than all messages or one of them        *)
(* (Fresh): coincoin_parse_message() stops at the first post it finds in   *)
(* its list. It stays so because a purge leaves CC_LAST_MESSAGE_MAX + 1    *)
(* messages and no answer on its way is outrun by more (Paced in           *)
(* Coincoin). That a reply names whom it was written to needs to know that *)
(* time and number together grow along the list (Above), so that the pair  *)
(* given for a message is never given again (Claim).                       *)
(***************************************************************************)
EXTENDS Coincoin, FiniteSetTheorems, SequenceTheorems, WellFoundedInduction, TLAPS

(* Who posts, and the records of the model.                                *)
Names == Others \union {"me", "nobody", "broken"}
Post == [from : Names, time : Nat \ {0}, clock : Nat, ref : Nat]
Text == [clock : Nat, ref : Nat, to : Names, time : Nat]
Reply == [id : Nat \ {0}, to : Names, time : Nat]
Item == [id : Nat \ {0}, from : Names, time : Nat \ {0}, ref : Nat \ {0}, multiple : BOOLEAN]
Request == [what : {"none", "login", "check", "post"}, text : Text, body : Bodies, posts : Nat]

(* Message x is of a later second than (c, f), or of a higher number in it.*)
Above(x, c, f) == c < x.time \/ (c = x.time /\ f < x.ref)

BoardInv ==
    /\ board \in Seq(Post)
    /\ \A i, j \in 1..Newest : i <= j => board[i].time <= board[j].time

(* A list of messages: posts of the board, the newest first, numbered      *)
(* within their seconds.                                                   *)
ListWell(ms) ==
    /\ \A i \in 1..Len(ms) :
        /\ ms[i].id <= Newest /\ Whole(ms[i].id)
        /\ ms[i].from = board[ms[i].id].from /\ ms[i].time = board[ms[i].id].time
        /\ ~ms[i].multiple => ms[i].ref = 1
    /\ \A i, j \in 1..Len(ms) : i < j =>
        ms[j].id < ms[i].id /\ Above(ms[i], ms[j].time, ms[j].ref)

(* The last whole post x of an answer in flight: it is still listed, the   *)
(* messages that came after it are few or none, and it is among the        *)
(* messages unless they are all older.                                     *)
Fresh(x, ms) ==
    /\ Newest - x < Listed
    /\ Newest - x <= CC_LAST_MESSAGE_MAX \/ \A i \in 1..Newest : x < i => ~Whole(i)
    /\ ms # <<>> /\ x <= ms[1].id => \E i \in 1..Len(ms) : ms[i].id = x

(* The time and number a message of `to` had when its clock was given: no  *)
(* other message has them, nor will one that comes.                        *)
Claim(c, f, to, ms) ==
    c # 0 =>
        /\ ms # <<>>
        /\ c < ms[1].time \/ (c = ms[1].time /\ f <= ms[1].ref)
        /\ \A i \in 1..Len(ms) : ms[i].time = c /\ ms[i].ref = f => ms[i].from = to

(* The clock given for a time, 0 for none.                                 *)
Given(clock, t) == clock = IF t = 0 THEN 0 ELSE ClockOf(t)

(* A request in flight, by the state of the connection and of the list.    *)
Flying(q) ==
    /\ q.posts <= Newest
    /\ q.what = "login" <=> pc = "connecting"
    /\ q.body = "board" => q.what # "post"
    /\ q.body = "board" /\ WholeOf(ListedIds(q.posts)) # {} =>
            Fresh(Max(WholeOf(ListedIds(q.posts))), messages)
    /\ q.what = "post" => /\ Given(q.text.clock, q.text.time)
                          /\ Claim(q.text.time, q.text.ref, q.text.to, messages)

ReqsWell ==
    /\ req \in [Reqs -> Request] /\ pending \subseteq Reqs
    /\ pc \in {"off", "connecting", "connected"}
    /\ up = (pc # "off") /\ (pc = "off" => pending = {})
    /\ timer = "armed" => pc = "connected"
    /\ pc = "connecting" => \A r, s \in pending : r = s
    /\ \A r \in pending : Flying(req[r])

(* The last message shown is the first of the list.                        *)
Shown == [id : Nat \ {0}, name : Names]
ShownWell ==
    /\ shown \in Seq(Shown)
    /\ \A i \in 1..Len(shown) : shown[i].id <= Newest
    /\ \A i, j \in 1..Len(shown) : i < j => shown[i].id < shown[j].id
    /\ pc = "connecting" => messages = <<>> /\ shown = <<>>
    /\ pc # "off" /\ shown # <<>> => messages # <<>> /\ messages[1].id = shown[Len(shown)].id

RepliesWell ==
    /\ replies \subseteq Reply
    /\ \A r \in replies : r.id <= Newest /\ Given(board[r.id].clock, r.time)
    /\ pc # "off" =>
        \A r \in replies : Claim(r.time, board[r.id].ref, r.to, messages)

ChatInv ==
    /\ BoardInv /\ messages \in Seq(Item) /\ ListWell(messages)
    /\ ReqsWell /\ ShownWell /\ RepliesWell
    /\ RoomIsAuthors /\ ReplyNamesNick
-----------------------------------------------------------------------------
(* A clock is a number, and not 0.                                         *)
LEMMA ClockFacts ==
    ASSUME NEW t \in Nat
    PROVE  ClockOf(t) \in Nat /\ ClockOf(t) # 0
<1>1. t % Day \in 0..(Day - 1)
    BY CoincoinAssumption
<1> HIDE DEF ClockOf
<1> QED BY <1>1, CoincoinAssumption DEF ClockOf

(* The members of a set of posts, by their rank.                           *)
LEMMA RankGrows ==
    ASSUME NEW n \in Nat, NEW K \in SUBSET (1..n)
    PROVE  /\ IsFiniteSet(K) /\ Cardinality(K) \in Nat
           /\ \A i \in K : Rank(K, i) \in 1..Cardinality(K)
           /\ \A i, j \in K : i < j => Rank(K, i) < Rank(K, j)
<1>0. \A i \in K : i \in Nat
    OBVIOUS
<1>1. IsFiniteSet(K) /\ Cardinality(K) \in Nat
    <2>1. IsFiniteSet(1..n)
        BY FS_Interval
    <2>2. IsFiniteSet(K)
        BY <2>1, FS_Subset
    <2> QED BY <2>2, FS_CardinalityType
<1>2. ASSUME NEW i \in K
      PROVE  /\ IsFiniteSet({j \in K : j <= i})
             /\ Rank(K, i) \in Nat /\ Rank(K, i) <= Cardinality(K) /\ Rank(K, i) > 0
    <2> DEFINE B == {j \in K : j <= i}
    <2>1. B \in SUBSET K /\ i \in B
        OBVIOUS
    <2>2. IsFiniteSet(B) /\ Cardinality(B) <= Cardinality(K)
        BY <1>1, <2>1, FS_Subset
    <2>3. Cardinality(B) \in Nat /\ Cardinality(B) # 0
        BY <2>1, <2>2, FS_CardinalityType, FS_EmptySet
    <2> QED BY <2>2, <2>3 DEF Rank
<1>3. ASSUME NEW i \in K, NEW j \in K, i < j PROVE Rank(K, i) < Rank(K, j)
    <2> DEFINE B == {x \in K : x <= i}
               C == {x \in K : x <= j}
    <2>0. i \in Nat /\ j \in Nat /\ \A x \in K : x <= i => x <= j
        BY <1>0, <1>3
    <2>1. B \subseteq C /\ j \in C /\ j \notin B
        <3>1. B \subseteq C
            BY <2>0
        <3>2. j <= j /\ ~ (j <= i)
            BY <2>0, <1>3
        <3> QED BY <3>1, <3>2
    <2>2. IsFiniteSet(C) /\ Cardinality(B) \in Nat /\ Cardinality(C) \in Nat
        BY <1>2 DEF Rank
    <2>3. Cardinality(B) <= Cardinality(C) /\ Cardinality(B) # Cardinality(C)
        BY <2>1, <2>2, FS_Subset
    <2> QED BY <2>2, <2>3 DEF Rank
<1>4. \A i \in K : Rank(K, i) \in 1..Cardinality(K)
    <2> TAKE i \in K
    <2>1. Rank(K, i) \in Nat /\ Rank(K, i) <= Cardinality(K) /\ Rank(K, i) > 0
        BY <1>2
    <2> QED BY <1>1, <2>1
<1> QED BY <1>1, <1>3, <1>4

(* The k-th member of a set is the one of rank k, and they grow with k.    *)
LEMMA NthFacts ==
    ASSUME NEW n \in Nat, NEW K \in SUBSET (1..n)
    PROVE  /\ Cardinality(K) \in Nat
           /\ \A k \in 1..Cardinality(K) : Nth(K, k) \in K /\ Rank(K, Nth(K, k)) = k
           /\ \A i \in K : Rank(K, i) \in 1..Cardinality(K) /\ Nth(K, Rank(K, i)) = i
           /\ \A k, l \in 1..Cardinality(K) : k < l => Nth(K, k) < Nth(K, l)
<1> DEFINE c == Cardinality(K)
           f == [i \in K |-> Rank(K, i)]
<1>1. /\ IsFiniteSet(K) /\ c \in Nat
      /\ \A i \in K : Rank(K, i) \in 1..c
      /\ \A i, j \in K : i < j => Rank(K, i) < Rank(K, j)
    BY RankGrows
<1>2. \A i, j \in K : Rank(K, i) = Rank(K, j) => i = j
    BY <1>1
<1>3. f \in Injection(K, 1..c)
    <2>1. f \in [K -> 1..c]
        BY <1>1
    <2>2. \A i, j \in K : f[i] = f[j] => i = j
        BY <1>2
    <2> HIDE DEF f
    <2> QED BY <2>1, <2>2 DEF Injection, IsInjective
<1>4. IsFiniteSet(1..c) /\ Cardinality(1..c) = c
    BY <1>1, FS_Interval
<1>5. f \in Surjection(K, 1..c)
    BY <1>3, <1>4, FS_Injection
<1>6. \A k \in 1..c : \E i \in K : Rank(K, i) = k
    BY <1>5 DEF Surjection
<1>7. \A k \in 1..c : Nth(K, k) \in K /\ Rank(K, Nth(K, k)) = k
    BY <1>6 DEF Nth
<1>8. \A i \in K : Nth(K, Rank(K, i)) = i
    BY <1>1, <1>2, <1>7
<1>9. ASSUME NEW k \in 1..c, NEW l \in 1..c, k < l PROVE Nth(K, k) < Nth(K, l)
    <2>1. Nth(K, k) \in K /\ Nth(K, l) \in K
        BY <1>7
    <2>2. Nth(K, k) \in Int /\ Nth(K, l) \in Int
        <3>1. \A i \in K : i \in Int
            OBVIOUS
        <3> QED BY <2>1, <3>1
    <2>3. Rank(K, Nth(K, k)) = k /\ Rank(K, Nth(K, l)) = l /\ k \in Int /\ l \in Int
        BY <1>1, <1>7
    <2>4. Nth(K, k) # Nth(K, l)
        BY <1>9, <2>3
    <2>5. ~ (Nth(K, l) < Nth(K, k))
        <3>1. Nth(K, l) < Nth(K, k) => Rank(K, Nth(K, l)) < Rank(K, Nth(K, k))
            BY <1>1, <2>1
        <3> QED BY <1>9, <2>3, <3>1
    <2> QED BY <2>2, <2>4, <2>5
<1> QED BY <1>1, <1>7, <1>8, <1>9

(* A set of naturals has a least member.                                   *)
LEMMA LeastOf ==
    ASSUME NEW S \in SUBSET Nat, S # {}
    PROVE  \E m \in S : \A x \in S : m <= x
<1>1. IsWellFoundedOn(OpToRel(<, Nat), Nat)
    BY NatLessThanWellFounded
<1>2. PICK m \in S : \A x \in S : ~(<<x, m>> \in OpToRel(<, Nat))
    BY <1>1, WFMin
<1>3. \A x \in S : ~(x < m)
    BY <1>2 DEF OpToRel
<1> QED BY <1>3

(* The greatest of some posts.                                             *)
LEMMA MaxFacts ==
    ASSUME NEW n \in Nat, NEW S \in SUBSET (1..n), S # {}
    PROVE  Max(S) \in S /\ \A x \in S : x <= Max(S)
<1> DEFINE T == {n - x : x \in S}
<1>0. \A x \in S : x \in Int /\ n - x \in Nat
    OBVIOUS
<1>1. T \in SUBSET Nat /\ T # {}
    BY <1>0
<1>2. PICK m \in T : \A y \in T : m <= y
    BY <1>1, LeastOf
<1>3. PICK x \in S : m = n - x
    BY <1>2
<1>4. \A y \in S : y <= x
    <2> TAKE y \in S
    <2>0. n - y \in T
        OBVIOUS
    <2>1. n - x <= n - y /\ x \in Int /\ y \in Int
        BY <1>0, <1>2, <1>3, <2>0
    <2> QED BY <2>1
<1>5. \E z \in S : \A y \in S : y <= z
    BY <1>4
<1> QED BY <1>5 DEF Max

(* A list whose numbers go down goes down by one at least at each place.   *)
LEMMA Falling ==
    ASSUME NEW ms \in Seq(Item), \A i, j \in 1..Len(ms) : i < j => ms[j].id < ms[i].id
    PROVE  \A i \in 1..Len(ms) : ms[i].id + i <= ms[1].id + 1
<1> DEFINE S == {i \in 1..Len(ms) : ms[1].id + 1 < ms[i].id + i}
<1> SUFFICES ASSUME S # {} PROVE FALSE
    <2>1. \A i \in 1..Len(ms) : ms[i] \in Item /\ i \in Nat
        OBVIOUS
    <2>2. \A i \in 1..Len(ms) : ms[i].id \in Nat /\ i \in Nat
        BY <2>1 DEF Item
    <2>3. Len(ms) \in Nat
        OBVIOUS
    <2>4. \A i \in 1..Len(ms) : 1 \in 1..Len(ms)
        BY <2>3
    <2> QED BY <2>2, <2>4
<1>1. S \in SUBSET Nat
    OBVIOUS
<1>2. PICK m \in S : \A y \in S : m <= y
    BY <1>1, LeastOf
<1>3. Len(ms) \in Nat /\ m \in 1..Len(ms)
    OBVIOUS
<1>4. \A i \in 1..Len(ms) : ms[i] \in Item
    OBVIOUS
<1>5. \A i \in 1..Len(ms) : ms[i].id \in Nat
    BY <1>4 DEF Item
<1>6. 1 \in 1..Len(ms)
    BY <1>3
<1>7. m # 1
    BY <1>2, <1>5, <1>6
<1>8. m - 1 \in 1..Len(ms) /\ m - 1 < m
    BY <1>3, <1>7
<1>9. ms[m].id < ms[m - 1].id
    BY <1>3, <1>8
<1>10. m - 1 \notin S
    BY <1>2, <1>3, <1>8
<1>11. ms[m - 1].id + (m - 1) <= ms[1].id + 1
    BY <1>5, <1>6, <1>8, <1>10, SMTT(40)
<1>12. ms[1].id + 1 < ms[m].id + m
    BY <1>2
<1>13. /\ ms[m].id \in Nat /\ ms[m - 1].id \in Nat /\ ms[1].id \in Nat /\ m \in Nat
    BY <1>3, <1>5, <1>6, <1>8
<1>14. \A a, b, d, k \in Nat : ~(a < b /\ b + (k - 1) <= d + 1 /\ d + 1 < a + k)
    OBVIOUS
<1> QED BY <1>9, <1>11, <1>12, <1>13, <1>14

(* The types of the fields.                                                *)
LEMMA ItemTypes ==
    ASSUME NEW ms \in Seq(Item), NEW i \in 1..Len(ms)
    PROVE  /\ ms[i] \in Item /\ ms[i].id \in Nat \ {0} /\ ms[i].from \in Names
           /\ ms[i].time \in Nat \ {0} /\ ms[i].ref \in Nat \ {0} /\ ms[i].multiple \in BOOLEAN
<1>1. ms[i] \in Item
    OBVIOUS
<1> QED BY <1>1 DEF Item

(* The fields of a post.                                                   *)
LEMMA PostTypes ==
    ASSUME BoardInv, NEW i \in 1..Newest
    PROVE  /\ board[i].from \in Names /\ board[i].time \in Nat \ {0}
           /\ board[i].clock \in Nat /\ board[i].ref \in Nat
<1>1. board[i] \in Post
    BY DEF BoardInv, Newest
<1> QED BY <1>1 DEF Post

(* `new` are whole posts that are not in the list ms yet.                  *)
NewTo(new, ms) ==
    /\ new \in SUBSET (1..Newest)
    /\ \A i \in new : Whole(i) /\ (ms # <<>> => ms[1].id < i)

(* A new message is numbered above the first one of its second.            *)
LEMMA NewFacts ==
    ASSUME BoardInv, NEW ms \in Seq(Item), ListWell(ms), NEW new, NewTo(new, ms), NEW n \in new
    PROVE  LET m == MessageNew(new, ms, n) IN
           /\ m \in Item /\ m.id = n /\ m.from = board[n].from /\ m.time = board[n].time
           /\ m.ref = Rank(Second(new, n), n) + IF Follows(ms, n) THEN ms[1].ref ELSE 0
           /\ ~m.multiple => m.ref = 1
           /\ ms # <<>> => Above(m, ms[1].time, ms[1].ref)
<1> DEFINE m == MessageNew(new, ms, n)
           S == Second(new, n)
           k == Rank(S, n)
<1>0. Newest \in Nat /\ n \in 1..Newest /\ Whole(n)
    BY DEF BoardInv, Newest, NewTo
<1>1. S \in SUBSET (1..Newest) /\ n \in S
    BY DEF Second, NewTo
<1>2. k \in 1..Cardinality(S) /\ Cardinality(S) \in Nat
    BY <1>0, <1>1, RankGrows
<1>3. k \in Nat \ {0}
    BY <1>2
<1>4. board[n].from \in Names /\ board[n].time \in Nat \ {0}
    BY <1>0, PostTypes
<1>5. ms # <<>> => /\ 1 \in 1..Len(ms) /\ ms[1].id \in Nat \ {0} /\ ms[1].time \in Nat \ {0}
                   /\ ms[1].ref \in Nat \ {0}
    <2> SUFFICES ASSUME ms # <<>> PROVE 1 \in 1..Len(ms)
        BY ItemTypes
    <2> QED OBVIOUS
<1> DEFINE g == IF Follows(ms, n) THEN ms[1].ref ELSE 0
<1>6. g \in Nat /\ (Follows(ms, n) => g = ms[1].ref) /\ (~Follows(ms, n) => g = 0)
    BY <1>5 DEF Follows
<1>7. m = [id |-> n, from |-> board[n].from, time |-> board[n].time, ref |-> k + g,
           multiple |-> Follows(ms, n) \/ S # {n}]
    BY DEF MessageNew
<1> HIDE DEF m, g, k
<1>8. /\ m.id = n /\ m.from = board[n].from /\ m.time = board[n].time /\ m.ref = k + g
      /\ m.multiple = (Follows(ms, n) \/ S # {n})
    BY <1>7
<1>9. k + g \in Nat \ {0}
    BY <1>3, <1>6
<1>10. m \in Item
    <2>1. (Follows(ms, n) \/ S # {n}) \in BOOLEAN
        OBVIOUS
    <2>2. n \in Nat \ {0}
        BY <1>0
    <2> QED BY <1>4, <1>7, <1>9, <2>1, <2>2 DEF Item
<1>11. ASSUME ~m.multiple PROVE m.ref = 1
    <2>1. ~Follows(ms, n) /\ S = {n}
        BY <1>8, <1>11
    <2>2. {j \in S : j <= n} = {n}
        BY <1>0, <2>1
    <2>3. k = 1
        BY <2>2, FS_Singleton DEF Rank, k
    <2> QED BY <1>6, <1>8, <2>1, <2>3
<1>12. ASSUME ms # <<>> PROVE Above(m, ms[1].time, ms[1].ref)
    <2>1. ms[1].id < n /\ ms[1].id <= Newest /\ ms[1].time = board[ms[1].id].time
        BY <1>5, <1>12 DEF NewTo, ListWell
    <2>2. ms[1].id \in 1..Newest
        BY <1>0, <1>5, <1>12, <2>1
    <2>3. ms[1].time <= board[n].time
        BY <1>0, <2>1, <2>2 DEF BoardInv
    <2>4. CASE ms[1].time = board[n].time
        <3>1. Follows(ms, n) /\ m.ref = k + ms[1].ref
            BY <1>6, <1>8, <1>12, <2>4 DEF Follows
        <3>2. ms[1].ref < m.ref
            BY <1>3, <1>5, <1>12, <3>1
        <3> QED BY <1>8, <2>4, <3>2 DEF Above
    <2>5. CASE ms[1].time # board[n].time
        <3>1. ms[1].time < board[n].time
            BY <1>4, <1>5, <1>12, <2>3, <2>5
        <3> QED BY <1>8, <3>1 DEF Above
    <2> QED BY <2>4, <2>5
<1> QED BY <1>8, <1>10, <1>11, <1>12 DEF m, g, k

(* Of two new messages the later one is numbered above the other.          *)
LEMMA NewRise ==
    ASSUME BoardInv, NEW ms \in Seq(Item), ListWell(ms), NEW new, NewTo(new, ms),
           NEW i \in new, NEW j \in new, i < j
    PROVE  Above(MessageNew(new, ms, j),
                 MessageNew(new, ms, i).time, MessageNew(new, ms, i).ref)
<1> DEFINE a == MessageNew(new, ms, i)
           b == MessageNew(new, ms, j)
           S == Second(new, i)
<1>0. Newest \in Nat /\ i \in 1..Newest /\ j \in 1..Newest
    BY DEF BoardInv, Newest, NewTo
<1>1. /\ a.time = board[i].time
      /\ a.ref = Rank(Second(new, i), i) + IF Follows(ms, i) THEN ms[1].ref ELSE 0
      /\ b.time = board[j].time
      /\ b.ref = Rank(Second(new, j), j) + IF Follows(ms, j) THEN ms[1].ref ELSE 0
    BY NewFacts
<1> HIDE DEF a, b
<1>2. board[i].time <= board[j].time /\ board[i].time \in Nat /\ board[j].time \in Nat
    <2>1. board[i].time \in Nat /\ board[j].time \in Nat
        BY <1>0, PostTypes
    <2>2. i <= j
        BY <1>0
    <2> QED BY <1>0, <2>1, <2>2 DEF BoardInv
<1>3. CASE board[i].time = board[j].time
    <2>1. Second(new, j) = S /\ i \in S /\ j \in S /\ S \in SUBSET (1..Newest)
        BY <1>3 DEF Second, NewTo
    <2>2. Rank(S, i) < Rank(S, j) /\ Rank(S, i) \in Nat /\ Rank(S, j) \in Nat
        <3>1. /\ Rank(S, i) < Rank(S, j) /\ Rank(S, i) \in 1..Cardinality(S)
              /\ Rank(S, j) \in 1..Cardinality(S)
            BY <1>0, <2>1, RankGrows
        <3> QED BY <3>1
    <2>3. Follows(ms, i) = Follows(ms, j)
        BY <1>3 DEF Follows
    <2> DEFINE g == IF Follows(ms, i) THEN ms[1].ref ELSE 0
    <2>4. g \in Nat
        <3>1. Follows(ms, i) => 1 \in 1..Len(ms)
            BY DEF Follows
        <3>2. Follows(ms, i) => ms[1].ref \in Nat
            BY <3>1, ItemTypes
        <3> QED BY <3>2
    <2>5. a.ref = Rank(S, i) + g /\ b.ref = Rank(S, j) + g
        BY <1>1, <2>1, <2>3
    <2> HIDE DEF g, S
    <2>6. a.ref < b.ref
        BY <2>2, <2>4, <2>5
    <2> QED BY <1>1, <1>3, <2>6 DEF Above, a, b
<1>4. CASE board[i].time # board[j].time
    BY <1>1, <1>2, <1>4 DEF Above, a, b
<1> QED BY <1>3, <1>4

(* The list after the new messages were put in front, place by place.      *)
LEMMA FlushedFacts ==
    ASSUME BoardInv, NEW ms \in Seq(Item), ListWell(ms), NEW new, NewTo(new, ms)
    PROVE  LET c == Cardinality(new)
               all == Flushed(ms, new)
           IN  /\ c \in Nat /\ all \in Seq(Item) /\ Len(all) = c + Len(ms)
               /\ \A k \in 1..c : /\ Nth(new, c + 1 - k) \in new
                                  /\ all[k] = MessageNew(new, ms, Nth(new, c + 1 - k))
               /\ \A k \in 1..Len(ms) :
                    /\ all[c + k].id = ms[k].id /\ all[c + k].from = ms[k].from
                    /\ all[c + k].time = ms[k].time /\ all[c + k].ref = ms[k].ref
                    /\ ms[k].multiple => all[c + k].multiple
<1> DEFINE c == Cardinality(new)
           all == Flushed(ms, new)
           head == [ms[1] EXCEPT !.multiple = @ \/ \E n \in new : Follows(ms, n)]
<1>0. Newest \in Nat /\ new \in SUBSET (1..Newest) /\ Len(ms) \in Nat
    BY DEF BoardInv, Newest, NewTo
<1>1. /\ c \in Nat
      /\ \A k \in 1..c : Nth(new, k) \in new
    BY <1>0, NthFacts
<1>2. \A k \in 1..c : c + 1 - k \in 1..c
    BY <1>1
<1>3. \A k \in 1..c : Nth(new, c + 1 - k) \in new
    BY <1>1, <1>2
<1>4. \A n \in new : MessageNew(new, ms, n) \in Item
    BY NewFacts
<1>5. all = [k \in 1..(c + Len(ms)) |->
                IF k <= c THEN MessageNew(new, ms, Nth(new, c + 1 - k))
                ELSE IF k = c + 1 THEN head ELSE ms[k - c]]
    BY DEF Flushed
<1>6. \A k \in 1..c : k \in 1..(c + Len(ms)) /\ k <= c
    BY <1>0, <1>1
<1> HIDE DEF c, head, all
<1>7. \A k \in 1..c : all[k] = MessageNew(new, ms, Nth(new, c + 1 - k))
    BY <1>5, <1>6
<1>8. ASSUME ms # <<>>
      PROVE  /\ head \in Item /\ head.id = ms[1].id /\ head.from = ms[1].from
             /\ head.time = ms[1].time /\ head.ref = ms[1].ref
             /\ ms[1].multiple => head.multiple
    <2>1. 1 \in 1..Len(ms)
        BY <1>8
    <2>2. ms[1] \in Item /\ ms[1].multiple \in BOOLEAN
        BY <2>1, ItemTypes
    <2>3. (ms[1].multiple \/ \E n \in new : Follows(ms, n)) \in BOOLEAN
        OBVIOUS
    <2> DEFINE b == ms[1].multiple \/ \E n \in new : Follows(ms, n)
    <2>4. head = [ms[1] EXCEPT !.multiple = b]
        BY DEF head
    <2>5. b \in BOOLEAN /\ (ms[1].multiple => b)
        OBVIOUS
    <2> HIDE DEF b
    <2> QED BY <2>2, <2>4, <2>5 DEF Item
<1>9. ASSUME NEW k \in 1..Len(ms)
      PROVE  /\ c + k \in 1..(c + Len(ms)) /\ all[c + k] \in Item
             /\ all[c + k].id = ms[k].id /\ all[c + k].from = ms[k].from
             /\ all[c + k].time = ms[k].time /\ all[c + k].ref = ms[k].ref
             /\ ms[k].multiple => all[c + k].multiple
    <2>1. c + k \in 1..(c + Len(ms)) /\ ~(c + k <= c) /\ (c + k) - c = k
        BY <1>0, <1>1
    <2>2. CASE k = 1
        <3>1. all[c + k] = head /\ ms # <<>>
            BY <1>0, <1>5, <2>1, <2>2
        <3> QED BY <1>8, <2>1, <2>2, <3>1
    <2>3. CASE k # 1
        <3>1. c + k # c + 1
            BY <1>1, <2>3
        <3>2. all[c + k] = ms[(c + k) - c]
            BY <1>5, <2>1, <3>1
        <3>3. all[c + k] = ms[k]
            BY <2>1, <3>2
        <3> QED BY <2>1, <3>3, ItemTypes
    <2> QED BY <2>2, <2>3
<1>10. ASSUME NEW k \in 1..(c + Len(ms)) PROVE all[k] \in Item
    <2>1. CASE k <= c
        BY <1>1, <1>3, <1>4, <1>7, <2>1
    <2>2. CASE ~(k <= c)
        <3>1. k - c \in 1..Len(ms) /\ c + (k - c) = k
            BY <1>0, <1>1, <2>2
        <3> QED BY <1>9, <3>1
    <2> QED BY <2>1, <2>2
<1>11. c + Len(ms) \in Nat
    BY <1>0, <1>1
<1>12. all \in Seq(Item) /\ Len(all) = c + Len(ms)
    BY <1>5, <1>10, <1>11
<1> QED BY <1>1, <1>3, <1>7, <1>9, <1>12 DEF c, all

(* It is a list of messages like the one before.                           *)
LEMMA FlushedWell ==
    ASSUME BoardInv, NEW ms \in Seq(Item), ListWell(ms), NEW new, NewTo(new, ms)
    PROVE  ListWell(Flushed(ms, new))
<1> DEFINE c == Cardinality(new)
           all == Flushed(ms, new)
           N(k) == Nth(new, c + 1 - k)
<1>0. Newest \in Nat /\ new \in SUBSET (1..Newest) /\ Len(ms) \in Nat
    BY DEF BoardInv, Newest, NewTo
<1>1. /\ c \in Nat /\ all \in Seq(Item) /\ Len(all) = c + Len(ms)
      /\ \A k \in 1..c : N(k) \in new /\ all[k] = MessageNew(new, ms, N(k))
      /\ \A k \in 1..Len(ms) :
            /\ all[c + k].id = ms[k].id /\ all[c + k].from = ms[k].from
            /\ all[c + k].time = ms[k].time /\ all[c + k].ref = ms[k].ref
            /\ ms[k].multiple => all[c + k].multiple
    BY FlushedFacts
<1>2. ASSUME NEW i \in 1..c, NEW j \in 1..c, i < j PROVE N(j) < N(i)
    <2>1. c + 1 - j \in 1..c /\ c + 1 - i \in 1..c /\ c + 1 - j < c + 1 - i
        BY <1>1, <1>2
    <2> QED BY <1>0, <2>1, NthFacts
<1> HIDE DEF c, all, N
<1>3. ASSUME NEW i \in 1..(c + Len(ms))
      PROVE  i \in 1..c \/ \E k \in 1..Len(ms) : i = c + k
    <2>1. CASE i <= c
        BY <1>1, <2>1
    <2>2. CASE ~(i <= c)
        <3>1. i - c \in 1..Len(ms) /\ i = c + (i - c)
            BY <1>0, <1>1, <2>2
        <3> QED BY <3>1
    <2> QED BY <2>1, <2>2
<1>4. ASSUME NEW i \in 1..(c + Len(ms))
      PROVE  /\ all[i].id <= Newest /\ Whole(all[i].id)
             /\ all[i].from = board[all[i].id].from /\ all[i].time = board[all[i].id].time
             /\ ~all[i].multiple => all[i].ref = 1
    <2>1. CASE i \in 1..c
        <3>1. N(i) \in new /\ all[i] = MessageNew(new, ms, N(i))
            BY <1>1, <2>1
        <3>2. N(i) \in 1..Newest /\ Whole(N(i))
            BY <3>1 DEF NewTo
        <3>3. /\ all[i].id = N(i) /\ all[i].from = board[N(i)].from
              /\ all[i].time = board[N(i)].time /\ (~all[i].multiple => all[i].ref = 1)
            BY <3>1, NewFacts
        <3> QED BY <1>0, <3>2, <3>3
    <2>2. ASSUME NEW k \in 1..Len(ms), i = c + k
          PROVE  /\ all[i].id <= Newest /\ Whole(all[i].id)
                 /\ all[i].from = board[all[i].id].from /\ all[i].time = board[all[i].id].time
                 /\ ~all[i].multiple => all[i].ref = 1
        <3>1. /\ ms[k].id <= Newest /\ Whole(ms[k].id)
              /\ ms[k].from = board[ms[k].id].from /\ ms[k].time = board[ms[k].id].time
              /\ ~ms[k].multiple => ms[k].ref = 1
            BY DEF ListWell
        <3> QED BY <1>1, <2>2, <3>1
    <2> QED BY <1>3, <2>1, <2>2
<1>5. ASSUME NEW i \in 1..(c + Len(ms)), NEW j \in 1..(c + Len(ms)), i < j
      PROVE  all[j].id < all[i].id /\ Above(all[i], all[j].time, all[j].ref)
    <2>1. CASE i \in 1..c /\ j \in 1..c
        <3>1. /\ N(i) \in new /\ all[i] = MessageNew(new, ms, N(i))
              /\ N(j) \in new /\ all[j] = MessageNew(new, ms, N(j)) /\ N(j) < N(i)
            BY <1>1, <1>2, <1>5, <2>1
        <3>2. all[i].id = N(i) /\ all[j].id = N(j)
            BY <3>1, NewFacts
        <3>3. Above(all[i], all[j].time, all[j].ref)
            BY <3>1, NewRise
        <3> QED BY <3>1, <3>2, <3>3
    <2>2. ASSUME i \in 1..c, NEW k \in 1..Len(ms), j = c + k
          PROVE  all[j].id < all[i].id /\ Above(all[i], all[j].time, all[j].ref)
        <3>1. /\ N(i) \in new /\ all[i] = MessageNew(new, ms, N(i)) /\ ms # <<>>
              /\ 1 \in 1..Len(ms)
            BY <1>0, <1>1, <2>2
        <3>2. all[i].id = N(i) /\ Above(all[i], ms[1].time, ms[1].ref) /\ all[i] \in Item
            BY <3>1, NewFacts
        <3>3. ms[1].id < N(i) /\ N(i) \in 1..Newest
            BY <3>1 DEF NewTo
        <3>4. /\ ms[1].id \in Nat /\ ms[1].time \in Nat /\ ms[1].ref \in Nat
              /\ ms[k].id \in Nat /\ ms[k].time \in Nat /\ ms[k].ref \in Nat
            BY <3>1, ItemTypes
        <3>5. /\ all[j].id = ms[k].id /\ all[j].time = ms[k].time /\ all[j].ref = ms[k].ref
            BY <1>1, <2>2
        <3>6. all[i].time \in Nat /\ all[i].ref \in Nat
            BY <3>2 DEF Item
        <3>7. CASE k = 1
            BY <3>2, <3>3, <3>5, <3>7
        <3>8. CASE k # 1
            <4>1. ms[k].id < ms[1].id /\ Above(ms[1], ms[k].time, ms[k].ref)
                BY <1>0, <3>1, <3>8 DEF ListWell
            <4>2. ms[k].id < N(i)
                BY <3>3, <3>4, <4>1
            <4>3. Above(all[i], ms[k].time, ms[k].ref)
                BY <3>2, <3>4, <3>6, <4>1, SMTT(40) DEF Above
            <4> QED BY <3>2, <3>5, <4>2, <4>3
        <3> QED BY <3>7, <3>8
    <2>3. ASSUME NEW k \in 1..Len(ms), NEW l \in 1..Len(ms), i = c + k, j = c + l
          PROVE  all[j].id < all[i].id /\ Above(all[i], all[j].time, all[j].ref)
        <3>1. k < l
            BY <1>1, <1>5, <2>3
        <3>2. ms[l].id < ms[k].id /\ Above(ms[k], ms[l].time, ms[l].ref)
            BY <3>1 DEF ListWell
        <3>3. /\ all[i].id = ms[k].id /\ all[i].time = ms[k].time /\ all[i].ref = ms[k].ref
              /\ all[j].id = ms[l].id /\ all[j].time = ms[l].time /\ all[j].ref = ms[l].ref
            BY <1>1, <2>3
        <3> QED BY <3>2, <3>3 DEF Above
    <2>4. i \in 1..c \/ ~(j \in 1..c)
        BY <1>1, <1>5
    <2>5. CASE i \in 1..c /\ ~(j \in 1..c)
        BY <1>3, <2>2, <2>5
    <2>6. CASE ~(i \in 1..c) /\ ~(j \in 1..c)
        <3>1. PICK k \in 1..Len(ms) : i = c + k
            BY <1>3, <2>6
        <3>2. PICK l \in 1..Len(ms) : j = c + l
            BY <1>3, <2>6
        <3> QED BY <2>3, <3>1, <3>2
    <2> QED BY <2>1, <2>4, <2>5, <2>6
<1>6. ListWell(all)
    BY <1>1, <1>4, <1>5 DEF ListWell
<1> QED BY <1>6 DEF all

(***************************************************************************)
(* What coincoin_parse_message() leaves of the list: the new messages and  *)
(* the first CC_LAST_MESSAGE_MAX + 1 of the others.                        *)
(***************************************************************************)
Cut(ms, new) ==
    LET keep == Cardinality(new) + CC_LAST_MESSAGE_MAX + 1
    IN  IF keep < Len(Flushed(ms, new)) THEN keep ELSE Len(Flushed(ms, new))
Purged(ms, new) == SubSeq(Flushed(ms, new), 1, Cut(ms, new))

(* It is a list of messages, and which of them stay.                       *)
LEMMA PurgedFacts ==
    ASSUME BoardInv, NEW ms \in Seq(Item), ListWell(ms), NEW new, NewTo(new, ms)
    PROVE  LET c == Cardinality(new)
               all == Flushed(ms, new)
               cut == Cut(ms, new)
           IN  /\ cut \in Nat /\ c <= cut /\ cut <= c + Len(ms)
               /\ \A p \in 1..Len(ms) : p <= CC_LAST_MESSAGE_MAX + 1 => c + p <= cut
               /\ Purged(ms, new) \in Seq(Item) /\ Len(Purged(ms, new)) = cut
               /\ \A i \in 1..cut : i \in 1..Len(all) /\ Purged(ms, new)[i] = all[i]
               /\ ListWell(Purged(ms, new))
<1> DEFINE c == Cardinality(new)
           all == Flushed(ms, new)
           cut == Cut(ms, new)
           ps == Purged(ms, new)
<1>1. c \in Nat /\ all \in Seq(Item) /\ Len(all) = c + Len(ms) /\ Len(ms) \in Nat
    BY FlushedFacts
<1>2. ListWell(all)
    BY FlushedWell
<1>3. CC_LAST_MESSAGE_MAX \in Nat
    BY CoincoinAssumption
<1>4. cut = IF c + CC_LAST_MESSAGE_MAX + 1 < Len(all) THEN c + CC_LAST_MESSAGE_MAX + 1 ELSE Len(all)
    BY DEF Cut
<1>5. ps = SubSeq(all, 1, cut)
    BY DEF Purged
<1> HIDE DEF c, all, cut, ps
<1>6. cut \in Nat /\ c <= cut /\ cut <= Len(all)
    BY <1>1, <1>3, <1>4
<1>7. \A p \in 1..Len(ms) : p <= CC_LAST_MESSAGE_MAX + 1 => c + p <= cut
    BY <1>1, <1>3, <1>4
<1>8. ps \in Seq(Item) /\ Len(ps) = cut /\ \A i \in 1..cut : ps[i] = all[i]
    <2>1. /\ ps = [i \in 1..cut |-> all[i]]
        BY <1>1, <1>5, <1>6
    <2>2. \A i \in 1..cut : i \in 1..Len(all)
        BY <1>1, <1>6
    <2>3. \A i \in 1..cut : all[i] \in Item
        BY <1>1, <2>2
    <2> QED BY <1>6, <2>1, <2>3
<1>9. \A i \in 1..cut : i \in 1..Len(all)
    BY <1>1, <1>6
<1>10. ListWell(ps)
    <2>1. ASSUME NEW i \in 1..Len(ps)
          PROVE  /\ ps[i].id <= Newest /\ Whole(ps[i].id)
                 /\ ps[i].from = board[ps[i].id].from /\ ps[i].time = board[ps[i].id].time
                 /\ ~ps[i].multiple => ps[i].ref = 1
        <3>1. ps[i] = all[i] /\ i \in 1..Len(all)
            BY <1>8, <1>9
        <3> QED BY <1>2, <3>1 DEF ListWell
    <2>2. ASSUME NEW i \in 1..Len(ps), NEW j \in 1..Len(ps), i < j
          PROVE  ps[j].id < ps[i].id /\ Above(ps[i], ps[j].time, ps[j].ref)
        <3>1. /\ ps[i] = all[i] /\ i \in 1..Len(all)
              /\ ps[j] = all[j] /\ j \in 1..Len(all)
            BY <1>8, <1>9
        <3> QED BY <1>2, <2>2, <3>1 DEF ListWell
    <2> QED BY <2>1, <2>2 DEF ListWell
<1> QED BY <1>1, <1>6, <1>7, <1>8, <1>9, <1>10 DEF c, all, cut, ps

(* Its first message: the newest post, or the first message of before.     *)
LEMMA PurgedHead ==
    ASSUME BoardInv, NEW ms \in Seq(Item), ListWell(ms), NEW new, NewTo(new, ms)
    PROVE  LET c == Cardinality(new)
               ps == Purged(ms, new)
           IN  /\ c # 0 => /\ ps # <<>> /\ ps[1].id = Nth(new, c) /\ Nth(new, c) \in new
                           /\ ms # <<>> => Above(ps[1], ms[1].time, ms[1].ref)
               /\ c = 0 /\ ms # <<>> =>
                    /\ ps # <<>> /\ ps[1].id = ms[1].id
                    /\ ps[1].time = ms[1].time /\ ps[1].ref = ms[1].ref
               /\ c = 0 /\ ms = <<>> => ps = <<>>
<1> DEFINE c == Cardinality(new)
           all == Flushed(ms, new)
           ps == Purged(ms, new)
           cut == Cut(ms, new)
<1>1. /\ c \in Nat /\ Len(ms) \in Nat
      /\ \A k \in 1..c : /\ Nth(new, c + 1 - k) \in new
                         /\ all[k] = MessageNew(new, ms, Nth(new, c + 1 - k))
      /\ \A k \in 1..Len(ms) :
            /\ all[c + k].id = ms[k].id
            /\ all[c + k].time = ms[k].time /\ all[c + k].ref = ms[k].ref
    BY FlushedFacts
<1>2. /\ cut \in Nat /\ c <= cut /\ cut <= c + Len(ms)
      /\ \A p \in 1..Len(ms) : p <= CC_LAST_MESSAGE_MAX + 1 => c + p <= cut
      /\ ps \in Seq(Item) /\ Len(ps) = cut
      /\ \A i \in 1..cut : ps[i] = all[i]
    BY PurgedFacts
<1>3. CC_LAST_MESSAGE_MAX \in Nat
    BY CoincoinAssumption
<1> HIDE DEF c, all, cut, ps
<1>4. ASSUME c # 0
      PROVE  /\ ps # <<>> /\ ps[1].id = Nth(new, c) /\ Nth(new, c) \in new
             /\ ms # <<>> => Above(ps[1], ms[1].time, ms[1].ref)
    <2>1. 1 \in 1..c /\ 1 \in 1..cut /\ c + 1 - 1 = c
        BY <1>1, <1>2, <1>4
    <2>2. ps[1] = MessageNew(new, ms, Nth(new, c)) /\ Nth(new, c) \in new
        BY <1>1, <1>2, <2>1
    <2>3. ps # <<>>
        BY <1>2, <2>1
    <2> QED BY <2>2, <2>3, NewFacts
<1>5. ASSUME c = 0, ms # <<>>
      PROVE  /\ ps # <<>> /\ ps[1].id = ms[1].id
             /\ ps[1].time = ms[1].time /\ ps[1].ref = ms[1].ref
    <2>1. 1 \in 1..Len(ms) /\ 1 <= CC_LAST_MESSAGE_MAX + 1 /\ c + 1 = 1
        BY <1>1, <1>3, <1>5
    <2>2. 1 <= cut
        BY <1>2, <2>1
    <2>3. 1 \in 1..cut /\ ps # <<>>
        BY <1>2, <2>2
    <2>4. ps[1] = all[c + 1]
        BY <1>2, <2>1, <2>3
    <2> QED BY <1>1, <2>1, <2>3, <2>4
<1>6. ASSUME c = 0, ms = <<>> PROVE ps = <<>>
    <2>1. cut = 0
        BY <1>2, <1>6
    <2> QED BY <1>2, <2>1
<1> QED BY <1>4, <1>5, <1>6 DEF c, ps

(* The posts taken from an answer are new: none of them is older than the  *)
(* first message, although other answers may have come before.             *)
LEMMA UnseenNew ==
    ASSUME BoardInv, NEW ms \in Seq(Item), ListWell(ms), NEW n \in 0..Newest,
           WholeOf(ListedIds(n)) # {} => Fresh(Max(WholeOf(ListedIds(n))), ms)
    PROVE  NewTo(WholeOf(Unseen(ListedIds(n), ms)), ms)
<1> DEFINE ids == ListedIds(n)
           whole == WholeOf(ids)
           x == Max(whole)
<1>1. Newest \in Nat /\ n \in Nat /\ n <= Newest /\ Listed \in Nat
    BY CoincoinAssumption DEF BoardInv, Newest
<1>2. ids \in SUBSET (1..Newest) /\ \A i \in 1..n : i > n - Listed => i \in ids
    BY <1>1 DEF ListedIds
<1>3. whole \in SUBSET (1..Newest) /\ whole \subseteq ids
    BY <1>2 DEF WholeOf
<1> HIDE DEF ids
<1>4. ASSUME NEW i \in WholeOf(Unseen(ids, ms))
      PROVE  i \in whole /\ i \in 1..Newest /\ Whole(i) /\ (ms # <<>> => ms[1].id < i)
    <2>1. /\ i \in ids /\ Whole(i)
          /\ \A j \in 1..Len(ms) : ms[j].id \in ids => ms[j].id < i
        BY DEF WholeOf, Unseen
    <2>2. i \in whole /\ i \in 1..Newest
        BY <1>2, <2>1 DEF WholeOf
    <2>3. x \in whole /\ i <= x
        BY <1>1, <1>3, <2>2, MaxFacts
    <2>4. ASSUME ms # <<>> PROVE ms[1].id < i
        <3>1. 1 \in 1..Len(ms)
            BY <2>4
        <3>2. ms[1].id \in Nat \ {0} /\ ms[1].id <= Newest
            BY <3>1, ItemTypes DEF ListWell
        <3>3. i \in Nat /\ x \in Nat /\ x \in ids /\ x \in 1..n
            BY <1>1, <1>3, <2>2, <2>3 DEF ids, ListedIds
        <3>4. CASE x <= ms[1].id
            <4>1. PICK j \in 1..Len(ms) : ms[j].id = x
                BY <2>2, <2>4, <3>4 DEF Fresh, ids
            <4>2. x < i
                BY <2>1, <3>3, <4>1
            <4> QED BY <2>3, <3>3, <4>2
        <3>5. CASE ~(x <= ms[1].id)
            <4>1. ms[1].id \in 1..n
                BY <1>1, <3>2, <3>3, <3>5
            <4>2. CASE ms[1].id \in ids
                BY <2>1, <3>1, <4>2
            <4>3. CASE ms[1].id \notin ids
                <5>1. ~(ms[1].id > n - Listed)
                    BY <1>2, <4>1, <4>3
                <5>2. i > n - Listed
                    BY <2>1 DEF ids, ListedIds
                <5> QED BY <1>1, <3>2, <3>3, <5>1, <5>2
            <4> QED BY <4>2, <4>3
        <3> QED BY <3>4, <3>5
    <2> QED BY <2>1, <2>2, <2>4
<1> QED BY <1>4 DEF NewTo, ids

(* Another answer in flight stays fresh.                                   *)
LEMMA PurgedFresh ==
    ASSUME BoardInv, NEW ms \in Seq(Item), ListWell(ms), NEW n \in 0..Newest,
           NEW new, new = WholeOf(Unseen(ListedIds(n), ms)), NewTo(new, ms),
           NEW x \in 1..Newest, Whole(x), Fresh(x, ms)
    PROVE  Fresh(x, Purged(ms, new))
<1> DEFINE c == Cardinality(new)
           all == Flushed(ms, new)
           ps == Purged(ms, new)
           cut == Cut(ms, new)
<1>0. Newest \in Nat /\ Listed \in Nat /\ CC_LAST_MESSAGE_MAX \in Nat /\ n \in Nat /\ n <= Newest
    BY CoincoinAssumption DEF BoardInv, Newest
<1>1. /\ c \in Nat /\ Len(ms) \in Nat
      /\ \A k \in 1..c : /\ Nth(new, c + 1 - k) \in new
                         /\ all[k] = MessageNew(new, ms, Nth(new, c + 1 - k))
      /\ \A k \in 1..Len(ms) : all[c + k].id = ms[k].id
    BY FlushedFacts
<1>2. /\ cut \in Nat /\ c <= cut /\ cut <= c + Len(ms)
      /\ \A p \in 1..Len(ms) : p <= CC_LAST_MESSAGE_MAX + 1 => c + p <= cut
      /\ ps \in Seq(Item) /\ Len(ps) = cut
      /\ \A i \in 1..cut : ps[i] = all[i]
    BY PurgedFacts
<1>3. /\ c # 0 => ps[1].id = Nth(new, c) /\ Nth(new, c) \in new
      /\ c = 0 /\ ms # <<>> => ps[1].id = ms[1].id
      /\ c = 0 /\ ms = <<>> => ps = <<>>
    BY PurgedHead
<1>4. new \in SUBSET (1..Newest)
    BY DEF NewTo
<1>5. /\ Newest - x < Listed
      /\ Newest - x <= CC_LAST_MESSAGE_MAX \/ \A i \in 1..Newest : x < i => ~Whole(i)
      /\ ms # <<>> /\ x <= ms[1].id => \E i \in 1..Len(ms) : ms[i].id = x
    BY DEF Fresh
<1> HIDE DEF c, all, cut, ps
<1>6. ASSUME ps # <<>>, x <= ps[1].id PROVE \E i \in 1..Len(ps) : ps[i].id = x
    <2>1. CASE ms # <<>> /\ x <= ms[1].id
        <3>1. PICK p \in 1..Len(ms) : ms[p].id = x
            BY <1>5, <2>1
        <3>2. 1 \in 1..Len(ms) /\ ms[1].id \in Nat /\ ms[1].id <= Newest /\ Whole(ms[1].id)
            <4>1. 1 \in 1..Len(ms)
                BY <1>1, <3>1
            <4> QED BY <4>1, ItemTypes DEF ListWell
        <3>3. x + p <= ms[1].id + 1
            BY <3>1, Falling DEF ListWell
        <3>4. p <= CC_LAST_MESSAGE_MAX + 1
            <4>1. CASE Newest - x <= CC_LAST_MESSAGE_MAX
                <5>1. \A a, b, h, k, m \in Nat : a + k <= h + 1 /\ h <= b /\ b - a <= m => k <= m + 1
                    OBVIOUS
                <5>2. x \in Nat /\ p \in Nat /\ ms[1].id \in Nat /\ ms[1].id <= Newest
                    BY <3>2
                <5> QED BY <1>0, <3>3, <4>1, <5>1, <5>2
            <4>2. CASE \A i \in 1..Newest : x < i => ~Whole(i)
                <5>1. ms[1].id \in 1..Newest
                    BY <1>0, <2>1, <3>2
                <5>2. ~(x < ms[1].id)
                    BY <3>2, <4>2, <5>1
                <5> QED BY <1>0, <3>2, <3>3, <5>2
            <4> QED BY <1>5, <4>1, <4>2
        <3>5. c + p <= cut
            BY <1>2, <3>4
        <3>6. c + p \in 1..cut
            BY <1>1, <1>2, <3>5
        <3>7. ps[c + p].id = x
            BY <1>1, <1>2, <3>1, <3>6
        <3> QED BY <1>2, <3>6, <3>7
    <2>2. CASE ~(ms # <<>> /\ x <= ms[1].id)
        <3>1. c # 0
            BY <1>3, <1>6, <2>2
        <3>2. Nth(new, c) \in new /\ x <= Nth(new, c)
            BY <1>3, <1>6, <3>1
        <3>3. \A i \in new : i \in 1..n
            BY DEF WholeOf, Unseen, ListedIds
        <3>4. x \in ListedIds(n)
            <4>1. Nth(new, c) \in 1..n
                BY <3>2, <3>3
            <4>2. x \in 1..n /\ x > n - Listed
                BY <1>0, <1>5, <3>2, <4>1
            <4> QED BY <4>2 DEF ListedIds
        <3>5. ASSUME NEW j \in 1..Len(ms) PROVE ms[j].id < x
            <4>1. 1 \in 1..Len(ms) /\ ms # <<>>
                BY <1>1
            <4>2. ms[1].id \in Nat /\ ms[j].id \in Nat
                BY <4>1, ItemTypes
            <4>3. ms[1].id < x
                BY <2>2, <4>1, <4>2
            <4>4. j = 1 \/ ms[j].id < ms[1].id
                BY <1>1, <4>1 DEF ListWell
            <4> QED BY <4>2, <4>3, <4>4
        <3>6. x \in new
            BY <3>4, <3>5 DEF WholeOf, Unseen
        <3> DEFINE k == Rank(new, x)
        <3>7. k \in 1..c /\ Nth(new, k) = x
            BY <1>0, <1>4, <3>6, NthFacts DEF c
        <3> HIDE DEF k
        <3>8. c + 1 - k \in 1..c /\ c + 1 - (c + 1 - k) = k
            BY <1>1, <3>7
        <3>9. all[c + 1 - k] = MessageNew(new, ms, x)
            BY <1>1, <3>7, <3>8
        <3>10. all[c + 1 - k].id = x
            BY <3>6, <3>9, NewFacts
        <3>11. c + 1 - k \in 1..cut
            BY <1>1, <1>2, <3>8
        <3> QED BY <1>2, <3>10, <3>11
    <2> QED BY <2>1, <2>2
<1>7. Fresh(x, ps)
    BY <1>5, <1>6 DEF Fresh
<1> QED BY <1>7 DEF ps

(* A clock given for a message of `to` names nobody else, also among the   *)
(* new messages and behind any place.                                      *)
LEMMA FlushedClaim ==
    ASSUME BoardInv, NEW ms \in Seq(Item), ListWell(ms), NEW new, NewTo(new, ms),
           NEW cl \in Nat, NEW f \in Nat, NEW to, Claim(cl, f, to, ms)
    PROVE  /\ Claim(cl, f, to, Purged(ms, new))
           /\ cl # 0 => \A i \in 1..Len(Flushed(ms, new)) :
                /\ Flushed(ms, new)[i].time = cl /\ Flushed(ms, new)[i].ref = f
                => Flushed(ms, new)[i].from = to
<1> DEFINE c == Cardinality(new)
           all == Flushed(ms, new)
           ps == Purged(ms, new)
           cut == Cut(ms, new)
<1>1. /\ c \in Nat /\ Len(ms) \in Nat /\ all \in Seq(Item) /\ Len(all) = c + Len(ms)
      /\ \A k \in 1..c : /\ Nth(new, c + 1 - k) \in new
                         /\ all[k] = MessageNew(new, ms, Nth(new, c + 1 - k))
      /\ \A k \in 1..Len(ms) :
            /\ all[c + k].from = ms[k].from
            /\ all[c + k].time = ms[k].time /\ all[c + k].ref = ms[k].ref
    BY FlushedFacts
<1>2. /\ cut \in Nat /\ ps \in Seq(Item) /\ Len(ps) = cut
      /\ \A i \in 1..cut : i \in 1..Len(all) /\ ps[i] = all[i]
    BY PurgedFacts
<1>3. /\ c # 0 => ps # <<>> /\ (ms # <<>> => Above(ps[1], ms[1].time, ms[1].ref))
      /\ c = 0 /\ ms # <<>> =>
            ps # <<>> /\ ps[1].time = ms[1].time /\ ps[1].ref = ms[1].ref
    BY PurgedHead
<1> HIDE DEF c, all, cut, ps
<1> SUFFICES ASSUME cl # 0
    PROVE  /\ Claim(cl, f, to, ps)
           /\ \A i \in 1..Len(all) : all[i].time = cl /\ all[i].ref = f => all[i].from = to
    BY DEF Claim, all, ps
<1>4. /\ ms # <<>> /\ (cl < ms[1].time \/ (cl = ms[1].time /\ f <= ms[1].ref))
      /\ \A i \in 1..Len(ms) : ms[i].time = cl /\ ms[i].ref = f => ms[i].from = to
    BY DEF Claim
<1>5. 1 \in 1..Len(ms) /\ ms[1].time \in Nat /\ ms[1].ref \in Nat
    <2>1. 1 \in 1..Len(ms)
        BY <1>4
    <2> QED BY <2>1, ItemTypes
<1>6. ASSUME NEW i \in 1..Len(all), all[i].time = cl, all[i].ref = f PROVE all[i].from = to
    <2>1. CASE i \in 1..c
        <3>1. Above(all[i], ms[1].time, ms[1].ref)
            BY <1>1, <1>4, <2>1, NewFacts
        <3>2. all[i].time \in Nat /\ all[i].ref \in Nat
            BY <1>1, ItemTypes
        <3> QED BY <1>4, <1>5, <1>6, <3>1, <3>2 DEF Above
    <2>2. CASE i \notin 1..c
        <3>1. i - c \in 1..Len(ms) /\ c + (i - c) = i
            BY <1>1, <2>2
        <3>2. ms[i - c].time = cl /\ ms[i - c].ref = f /\ all[i].from = ms[i - c].from
            BY <1>1, <1>6, <3>1
        <3> QED BY <1>4, <3>1, <3>2
    <2> QED BY <2>1, <2>2
<1>7. ps # <<>>
    BY <1>3, <1>4
<1>8. 1 \in 1..Len(ps) /\ ps[1].time \in Nat /\ ps[1].ref \in Nat
    <2>1. 1 \in 1..Len(ps)
        BY <1>2, <1>7
    <2> QED BY <1>2, <2>1, ItemTypes
<1>9. cl < ps[1].time \/ (cl = ps[1].time /\ f <= ps[1].ref)
    <2>1. \/ Above(ps[1], ms[1].time, ms[1].ref)
          \/ ps[1].time = ms[1].time /\ ps[1].ref = ms[1].ref
        BY <1>3, <1>4
    <2>2. \A a, b, d, g, h \in Nat :
            (cl < a \/ (cl = a /\ g <= b)) /\ (a < d \/ (a = d /\ b < h) \/ (d = a /\ h = b))
            => cl < d \/ (cl = d /\ g <= h)
        OBVIOUS
    <2> QED BY <1>4, <1>5, <1>8, <2>1, <2>2 DEF Above
<1>10. \A i \in 1..Len(ps) : ps[i].time = cl /\ ps[i].ref = f => ps[i].from = to
    BY <1>2, <1>6
<1> QED BY <1>6, <1>7, <1>9, <1>10 DEF Claim

(* Who wrote what stays in the list is who is in the room.                 *)
Authors(ms) == {ms[i].from : i \in DOMAIN ms} \ {"me"}

(* Joins and leaves add up to the authors of what is kept.                 *)
LEMMA PurgedAuthors ==
    ASSUME BoardInv, NEW ms \in Seq(Item), ListWell(ms), NEW new, NewTo(new, ms)
    PROVE  (Authors(ms) \union ({board[i].from : i \in new} \ {"me"}))
                \ Left(Flushed(ms, new), Cut(ms, new))
           = Authors(Purged(ms, new))
<1> DEFINE c == Cardinality(new)
           all == Flushed(ms, new)
           ps == Purged(ms, new)
           cut == Cut(ms, new)
           A == Authors(ms) \union ({board[i].from : i \in new} \ {"me"})
<1>1. /\ c \in Nat /\ Len(ms) \in Nat /\ all \in Seq(Item) /\ Len(all) = c + Len(ms)
      /\ \A k \in 1..c : /\ Nth(new, c + 1 - k) \in new
                         /\ all[k] = MessageNew(new, ms, Nth(new, c + 1 - k))
      /\ \A k \in 1..Len(ms) : all[c + k].from = ms[k].from
    BY FlushedFacts
<1>2. /\ cut \in Nat /\ cut <= Len(all) /\ ps \in Seq(Item) /\ Len(ps) = cut
      /\ \A i \in 1..cut : i \in 1..Len(all) /\ ps[i] = all[i]
    BY <1>1, PurgedFacts
<1>3. \A n \in new : \E k \in 1..c : n = Nth(new, c + 1 - k)
    <2> TAKE n \in new
    <2> DEFINE k == Rank(new, n)
    <2>1. Newest \in Nat /\ new \in SUBSET (1..Newest)
        BY DEF BoardInv, Newest, NewTo
    <2>2. k \in 1..c /\ Nth(new, k) = n
        BY <2>1, NthFacts
    <2> HIDE DEF k
    <2>3. c + 1 - k \in 1..c /\ c + 1 - (c + 1 - k) = k
        BY <1>1, <2>2
    <2> QED BY <2>2, <2>3
<1>4. DOMAIN ms = 1..Len(ms) /\ DOMAIN ps = 1..cut
    BY <1>2
<1>5. \A n \in new : MessageNew(new, ms, n).from = board[n].from
    BY NewFacts
<1> HIDE DEF c, all, cut, ps
<1>6. \A k \in 1..c : k \in 1..Len(all) /\ all[k].from \in {board[i].from : i \in new}
    <2> TAKE k \in 1..c
    <2>1. k \in 1..Len(all)
        BY <1>1
    <2> QED BY <1>1, <1>5, <2>1
<1>7. ASSUME NEW a PROVE a \in A <=> a # "me" /\ \E i \in 1..Len(all) : all[i].from = a
    <2>1. ASSUME a \in A PROVE a # "me" /\ \E i \in 1..Len(all) : all[i].from = a
        <3>1. CASE a \in Authors(ms)
            <4>1. PICK k \in 1..Len(ms) : a = ms[k].from /\ a # "me"
                BY <1>4, <3>1 DEF Authors
            <4>2. c + k \in 1..Len(all)
                BY <1>1
            <4> QED BY <1>1, <4>1, <4>2
        <3>2. CASE a \in {board[i].from : i \in new} \ {"me"}
            <4>1. PICK n \in new : a = board[n].from
                BY <3>2
            <4>2. PICK k \in 1..c : n = Nth(new, c + 1 - k)
                BY <1>3
            <4> QED BY <1>1, <1>5, <1>6, <3>2, <4>1, <4>2
        <3> QED BY <2>1, <3>1, <3>2
    <2>2. ASSUME a # "me", NEW i \in 1..Len(all), all[i].from = a PROVE a \in A
        <3>1. CASE i \in 1..c
            BY <1>6, <2>2, <3>1
        <3>2. CASE i \notin 1..c
            <4>1. i - c \in 1..Len(ms) /\ c + (i - c) = i
                BY <1>1, <3>2
            <4>2. ms[i - c].from = a
                BY <1>1, <2>2, <4>1
            <4> QED BY <1>4, <2>2, <4>1, <4>2 DEF Authors
        <3> QED BY <3>1, <3>2
    <2> QED BY <2>1, <2>2
<1>8. ASSUME NEW a
      PROVE  a \in Left(all, cut) <=>
                /\ \E i \in (cut + 1)..Len(all) : all[i].from = a
                /\ ~ \E i \in 1..cut : all[i].from = a
    BY DEF Left
<1>9. ASSUME NEW a PROVE a \in Authors(ps) <=> a # "me" /\ \E i \in 1..cut : all[i].from = a
    BY <1>2, <1>4 DEF Authors
<1>10. \A i \in 1..Len(all) : i \in 1..cut \/ i \in (cut + 1)..Len(all)
    BY <1>1, <1>2
<1> HIDE DEF A
<1>11. ASSUME NEW a PROVE a \in A \ Left(all, cut) <=> a \in Authors(ps)
    <2>1. a \in A \ Left(all, cut) => a \in Authors(ps)
        BY <1>7, <1>8, <1>9, <1>10
    <2>2. a \in Authors(ps) => a \in A \ Left(all, cut)
        BY <1>2, <1>7, <1>8, <1>9
    <2> QED BY <2>1, <2>2
<1>12. A \ Left(all, cut) = Authors(ps)
    BY <1>11
<1> QED BY <1>12 DEF A, all, cut, ps

(* The name in front of a clock is that of a message with this clock.      *)
LEMMA NamedFacts ==
    ASSUME NEW ms \in Seq(Item), NEW k \in Nat, NEW post \in Post
    PROVE  \/ Named(ms, k, post) = "nobody"
           \/ \E i \in 1..Len(ms) :
                    /\ k < i /\ ClockOf(ms[i].time) = post.clock /\ ms[i].ref = post.ref
                    /\ Named(ms, k, post) = ms[i].from
<1> DEFINE S == {i \in (k + 1)..Len(ms) : ClockOf(ms[i].time) = post.clock /\ ms[i].ref = post.ref}
           m == CHOOSE i \in S : \A j \in S : i <= j
<1>1. Len(ms) \in Nat
    OBVIOUS
<1>2. Named(ms, k, post) = IF S = {} THEN "nobody" ELSE ms[m].from
    BY DEF Named
<1>3. ASSUME S # {} PROVE m \in S
    <2>1. S \in SUBSET Nat
        BY <1>1
    <2>2. \E i \in S : \A j \in S : i <= j
        BY <1>3, <2>1, LeastOf
    <2> QED BY <2>2
<1>4. S # {} =>
        /\ m \in 1..Len(ms) /\ k < m
        /\ ClockOf(ms[m].time) = post.clock /\ ms[m].ref = post.ref
    <2>1. \A i \in S : /\ i \in 1..Len(ms) /\ k < i
                      /\ ClockOf(ms[i].time) = post.clock /\ ms[i].ref = post.ref
        BY <1>1
    <2> QED BY <1>3, <2>1
<1> HIDE DEF S, m
<1> QED BY <1>2, <1>4

(***************************************************************************)
(* What coincoin_parse_message() shows.                                    *)
(***************************************************************************)
News(ms, new) ==
    LET c == Cardinality(new)
    IN  [k \in 1..c |-> [id |-> Nth(new, k),
                         name |-> Named(Flushed(ms, new), c + 1 - k, board[Nth(new, k)])]]

(* A name that may stand in front of the clock of post n, which was given  *)
(* for a message of `to` and time t.                                       *)
Rightly(name, n, to, t) ==
    \/ name \in {"nobody", to}
    \/ \E j \in 1..(n - 1) : /\ board[j].from = name /\ board[j].time # t
                             /\ ClockOf(board[j].time) = ClockOf(t)

(* The new posts in their order, a clock of the user's with the name it    *)
(* was given for.                                                          *)
LEMMA NewsFacts ==
    ASSUME BoardInv, NEW ms \in Seq(Item), ListWell(ms), NEW new, NewTo(new, ms)
    PROVE  LET c == Cardinality(new)
               ns == News(ms, new)
           IN  /\ c \in Nat /\ ns \in Seq(Shown) /\ Len(ns) = c
               /\ \A k \in 1..c : ns[k].id \in new /\ ns[k].id = Nth(new, k)
               /\ \A k, l \in 1..c : k < l => ns[k].id < ns[l].id
               /\ \A k \in 1..c, to \in Names, t \in Nat :
                    /\ Given(board[ns[k].id].clock, t)
                    /\ Claim(t, board[ns[k].id].ref, to, ms)
                    => Rightly(ns[k].name, ns[k].id, to, t)
<1> DEFINE c == Cardinality(new)
           all == Flushed(ms, new)
           ns == News(ms, new)
           P(k) == board[Nth(new, k)]
<1>1. Newest \in Nat /\ new \in SUBSET (1..Newest)
    BY DEF BoardInv, Newest, NewTo
<1>2. c \in Nat /\ all \in Seq(Item)
    BY FlushedFacts
<1>3. /\ \A k \in 1..c : Nth(new, k) \in new
      /\ \A k, l \in 1..c : k < l => Nth(new, k) < Nth(new, l)
    BY <1>1, NthFacts
<1>4. \A k \in 1..c : Nth(new, k) \in 1..Newest /\ Nth(new, k) \in Nat \ {0}
    <2>1. \A i \in new : i \in 1..Newest /\ i \in Nat \ {0}
        BY <1>1
    <2> QED BY <1>3, <2>1
<1>5. \A k \in 1..c : c + 1 - k \in Nat
    BY <1>2
<1>6. \A k \in 1..c : P(k).clock \in Nat /\ P(k).ref \in Nat
    BY <1>4, PostTypes
<1> DEFINE name(k) == Named(all, c + 1 - k, P(k))
<1>7. ns = [k \in 1..c |-> [id |-> Nth(new, k), name |-> name(k)]]
    BY DEF News
<1> HIDE DEF c, all, ns
<1>8. ASSUME NEW k \in 1..c
      PROVE  \/ name(k) = "nobody"
             \/ \E i \in 1..Len(all) :
                    /\ c + 1 - k < i /\ ClockOf(all[i].time) = P(k).clock
                    /\ all[i].ref = P(k).ref /\ name(k) = all[i].from
    <2>1. c + 1 - k \in Nat
        BY <1>5
    <2>2. P(k) \in Post
        BY <1>4 DEF BoardInv, Newest
    <2> HIDE DEF P
    <2> QED BY <1>2, <2>1, <2>2, NamedFacts
<1> HIDE DEF name
<1>9. \A i \in 1..Len(all) : all[i].from \in Names /\ all[i].time # 0
    BY <1>2, ItemTypes
<1>10. \A k \in 1..c : name(k) \in Names
    BY <1>8, <1>9 DEF Names
<1>11. \A k \in 1..c : ns[k] = [id |-> Nth(new, k), name |-> name(k)] /\ ns[k] \in Shown
    BY <1>4, <1>7, <1>10 DEF Shown
<1>12. ns \in Seq(Shown) /\ Len(ns) = c
    <2>1. ns = [k \in 1..c |-> ns[k]]
        BY <1>7
    <2> QED BY <1>2, <1>11, <2>1
<1>13. ASSUME NEW k \in 1..c, NEW to \in Names, NEW t \in Nat,
              Given(P(k).clock, t), Claim(t, P(k).ref, to, ms)
       PROVE  Rightly(name(k), Nth(new, k), to, t)
    <2>1. t # 0 => \A i \in 1..Len(all) :
                all[i].time = t /\ all[i].ref = P(k).ref => all[i].from = to
        BY <1>6, <1>13, FlushedClaim DEF all
    <2>2. CASE name(k) = "nobody"
        BY <2>2 DEF Rightly
    <2>3. ASSUME NEW i \in 1..Len(all), c + 1 - k < i, ClockOf(all[i].time) = P(k).clock,
                 all[i].ref = P(k).ref, name(k) = all[i].from
          PROVE  Rightly(name(k), Nth(new, k), to, t)
        <3>1. all[i].time \in Nat /\ all[i].id \in Nat \ {0}
            BY <1>2, ItemTypes
        <3>2. t # 0 /\ ClockOf(all[i].time) = ClockOf(t)
            BY <1>13, <2>3, <3>1, ClockFacts DEF Given
        <3>3. CASE all[i].time = t
            BY <2>1, <2>3, <3>2, <3>3 DEF Rightly
        <3>4. CASE all[i].time # t
            <4> DEFINE j == all[i].id
            <4>1. ListWell(all)
                BY FlushedWell DEF all
            <4>2. c + 1 - k \in 1..Len(all) /\ all[c + 1 - k].id = Nth(new, k)
                <5>1. c + 1 - k \in 1..c /\ c + 1 - (c + 1 - k) = k
                    BY <1>2
                <5>2. Len(all) = c + Len(ms) /\ Len(ms) \in Nat
                    BY FlushedFacts DEF all, c
                <5>3. c + 1 - k \in 1..Len(all)
                    BY <1>2, <5>1, <5>2
                <5>4. all[c + 1 - k] = MessageNew(new, ms, Nth(new, k))
                    BY <5>1, FlushedFacts DEF all, c
                <5>5. MessageNew(new, ms, Nth(new, k)).id = Nth(new, k)
                    BY DEF MessageNew
                <5> QED BY <5>3, <5>4, <5>5
            <4>3. j < Nth(new, k)
                BY <2>3, <4>1, <4>2 DEF ListWell
            <4>4. board[j].from = all[i].from /\ board[j].time = all[i].time
                BY <4>1 DEF ListWell
            <4>5. j \in 1..(Nth(new, k) - 1)
                BY <1>4, <3>1, <4>3
            <4> QED BY <2>3, <3>2, <3>4, <4>4, <4>5 DEF Rightly
        <3> QED BY <3>3, <3>4
    <2> QED BY <1>8, <2>2, <2>3
<1>14. \A k \in 1..c : ns[k].id \in new /\ ns[k].id = Nth(new, k) /\ ns[k].name = name(k)
    <2> TAKE k \in 1..c
    <2>1. ns[k] = [id |-> Nth(new, k), name |-> name(k)]
        BY <1>11
    <2> QED BY <1>3, <2>1
<1>15. \A k, l \in 1..c : k < l => ns[k].id < ns[l].id
    BY <1>3, <1>14
<1>16. \A k \in 1..c, to \in Names, t \in Nat :
            Given(board[ns[k].id].clock, t) /\ Claim(t, board[ns[k].id].ref, to, ms)
            => Rightly(ns[k].name, ns[k].id, to, t)
    BY <1>13, <1>14
<1> QED BY <1>2, <1>12, <1>14, <1>15, <1>16 DEF c, ns

(* What was shown goes on in order, and ends with the first message.       *)
LEMMA ShownGrows ==
    ASSUME BoardInv, NEW ms \in Seq(Item), ListWell(ms), NEW new, NewTo(new, ms),
           NEW sh \in Seq(Shown), \A i \in 1..Len(sh) : sh[i].id <= Newest,
           \A i, j \in 1..Len(sh) : i < j => sh[i].id < sh[j].id,
           sh # <<>> => ms # <<>> /\ ms[1].id = sh[Len(sh)].id
    PROVE  LET all == sh \o News(ms, new)
               ps == Purged(ms, new)
           IN  /\ all \in Seq(Shown) /\ Len(all) = Len(sh) + Cardinality(new)
               /\ \A i \in 1..Len(sh) : all[i] = sh[i]
               /\ \A k \in 1..Cardinality(new) : all[Len(sh) + k] = News(ms, new)[k]
               /\ \A i \in 1..Len(all) : all[i].id <= Newest
               /\ \A i, j \in 1..Len(all) : i < j => all[i].id < all[j].id
               /\ all # <<>> => ps # <<>> /\ ps[1].id = all[Len(all)].id
<1> DEFINE c == Cardinality(new)
           ns == News(ms, new)
           all == sh \o ns
           ps == Purged(ms, new)
           n == Len(sh)
<1>0. Newest \in Nat /\ new \in SUBSET (1..Newest) /\ n \in Nat
    BY DEF BoardInv, Newest, NewTo
<1>1. /\ c \in Nat /\ ns \in Seq(Shown) /\ Len(ns) = c
      /\ \A k \in 1..c : ns[k].id \in new /\ ns[k].id = Nth(new, k)
      /\ \A k, l \in 1..c : k < l => ns[k].id < ns[l].id
    BY NewsFacts
<1>2. /\ c # 0 => ps # <<>> /\ ps[1].id = Nth(new, c)
      /\ c = 0 /\ ms # <<>> => ps # <<>> /\ ps[1].id = ms[1].id
    BY PurgedHead
<1> HIDE DEF c, ns, ps
<1>3. all \in Seq(Shown) /\ Len(all) = n + c
    BY <1>1
<1>4. \A i \in 1..n : all[i] = sh[i]
    BY <1>1
<1>5. \A k \in 1..c : n + k \in 1..(n + c) /\ all[n + k] = ns[k]
    <2> TAKE k \in 1..c
    <2>1. n + k \in 1..(n + c) /\ ~(n + k <= n) /\ (n + k) - n = k
        BY <1>0, <1>1
    <2> QED BY <1>1, <2>1
<1> HIDE DEF all
<1>6. \A i \in 1..(n + c) : i \in 1..n \/ (~(i \in 1..n) /\ i - n \in 1..c /\ n + (i - n) = i)
    BY <1>0, <1>1
<1>7. \A k \in 1..c : ns[k].id \in 1..Newest
    BY <1>0, <1>1
<1>8. \A i \in 1..n : sh[i].id \in Nat
    <2>1. \A i \in 1..n : sh[i] \in Shown
        OBVIOUS
    <2> QED BY <2>1 DEF Shown
<1>9. \A i \in 1..Len(all) : all[i].id <= Newest
    <2> TAKE i \in 1..Len(all)
    <2>1. CASE i \in 1..n
        BY <1>4, <2>1
    <2>2. CASE ~(i \in 1..n)
        <3>1. i - n \in 1..c /\ n + (i - n) = i
            BY <1>3, <1>6, <2>2
        <3>2. all[i].id \in 1..Newest
            BY <1>5, <1>7, <3>1
        <3> QED BY <1>0, <3>2
    <2> QED BY <2>1, <2>2
<1>10. ASSUME NEW i \in 1..n, NEW k \in 1..c PROVE sh[i].id < ns[k].id
    <2>1. sh # <<>> /\ n \in 1..n
        BY <1>0
    <2>2. ms # <<>> /\ ms[1].id = sh[n].id
        BY <2>1
    <2>3. ms[1].id < ns[k].id
        BY <1>1, <2>2 DEF NewTo
    <2>4. sh[i].id <= sh[n].id
        <3>1. i = n \/ i < n
            BY <1>0
        <3> QED BY <1>8, <2>1, <3>1
    <2>5. sh[i].id \in Nat /\ sh[n].id \in Nat /\ ns[k].id \in Nat
        BY <1>7, <1>8, <2>1
    <2> QED BY <2>2, <2>3, <2>4, <2>5
<1>11. ASSUME NEW i \in 1..Len(all), NEW j \in 1..Len(all), i < j PROVE all[i].id < all[j].id
    <2>1. CASE i \in 1..n /\ j \in 1..n
        BY <1>4, <1>11, <2>1
    <2>2. CASE i \in 1..n /\ j \notin 1..n
        <3>1. j - n \in 1..c /\ all[j] = ns[j - n]
            BY <1>3, <1>5, <1>6, <2>2
        <3> QED BY <1>4, <1>10, <2>2, <3>1
    <2>3. CASE i \notin 1..n /\ j \notin 1..n
        <3>1. j - n \in 1..c /\ all[j] = ns[j - n] /\ i - n \in 1..c /\ all[i] = ns[i - n]
            BY <1>3, <1>5, <1>6, <2>3
        <3>2. i - n < j - n
            BY <1>0, <1>11
        <3> QED BY <1>1, <3>1, <3>2
    <2>4. j \in 1..n => i \in 1..n
        BY <1>0, <1>11
    <2> QED BY <2>1, <2>2, <2>3, <2>4
<1>12. ASSUME all # <<>> PROVE ps # <<>> /\ ps[1].id = all[Len(all)].id
    <2>1. CASE c # 0
        <3>1. c \in 1..c
            BY <1>1, <2>1
        <3>2. all[n + c] = ns[c] /\ ns[c].id = Nth(new, c)
            BY <1>1, <1>5, <3>1
        <3> QED BY <1>2, <1>3, <2>1, <3>2
    <2>2. CASE c = 0
        <3>1. Len(all) = n
            BY <1>0, <1>3, <2>2
        <3>2. n # 0
            BY <1>3, <1>12, <3>1
        <3>3. sh # <<>> /\ n \in 1..n
            BY <1>0, <3>2
        <3> QED BY <1>2, <1>4, <2>2, <3>1, <3>3
    <2> QED BY <2>1, <2>2
<1> QED BY <1>3, <1>4, <1>5, <1>9, <1>11, <1>12 DEF c, all, ns, ps

(***************************************************************************)
(* coincoin_parse_message() as a step, for a board of n posts (0 where it  *)
(* finds none).                                                            *)
(***************************************************************************)
LEMMA ParseKeeps ==
    ASSUME ChatInv, pc # "off", NEW n \in 0..Newest, NEW us, us = Authors(messages),
           WholeOf(ListedIds(n)) # {} => Fresh(Max(WholeOf(ListedIds(n))), messages),
           ParseMessage(messages, us, ListedIds(n)), board' = board, replies' = replies
    PROVE  /\ messages' \in Seq(Item) /\ ListWell(messages')
           /\ users' = Authors(messages') /\ shown' \in Seq(Shown)
           /\ \A i \in 1..Len(shown') : shown'[i].id <= Newest
           /\ \A i, j \in 1..Len(shown') : i < j => shown'[i].id < shown'[j].id
           /\ shown' # <<>> => messages' # <<>> /\ messages'[1].id = shown'[Len(shown')].id
           /\ \A x \in 1..Newest : Whole(x) /\ Fresh(x, messages) => Fresh(x, messages')
           /\ \A cl, f \in Nat : \A to \in Names :
                Claim(cl, f, to, messages) => Claim(cl, f, to, messages')
           /\ ReplyNamesNick'
<1> DEFINE new == WholeOf(Unseen(ListedIds(n), messages))
           ps == Purged(messages, new)
           ns == News(messages, new)
           c == Cardinality(new)
<1>1. BoardInv /\ messages \in Seq(Item) /\ ListWell(messages)
    BY DEF ChatInv
<1>2. NewTo(new, messages)
    BY <1>1, UnseenNew
<1>3. messages' = ps /\ shown' = shown \o ns
    BY DEF ParseMessage, Purged, Cut, News
<1>4. users' = (us \union ({board[i].from : i \in new} \ {"me"}))
                    \ Left(Flushed(messages, new), Cut(messages, new))
    BY DEF ParseMessage, Cut
<1>5. /\ shown \in Seq(Shown) /\ \A i \in 1..Len(shown) : shown[i].id <= Newest
      /\ \A i, j \in 1..Len(shown) : i < j => shown[i].id < shown[j].id
      /\ shown # <<>> => messages # <<>> /\ messages[1].id = shown[Len(shown)].id
    BY DEF ChatInv, ShownWell
<1>6. ps \in Seq(Item) /\ ListWell(ps)
    BY <1>1, <1>2, PurgedFacts
<1>7. users' = Authors(ps)
    BY <1>1, <1>2, <1>4, PurgedAuthors
<1>8. ASSUME NEW x \in 1..Newest, Whole(x), Fresh(x, messages) PROVE Fresh(x, ps)
    BY <1>1, <1>2, <1>8, PurgedFresh
<1>9. ASSUME NEW cl \in Nat, NEW f \in Nat, NEW to \in Names, Claim(cl, f, to, messages)
      PROVE  Claim(cl, f, to, ps)
    BY <1>1, <1>2, <1>9, FlushedClaim
<1>10. /\ shown' \in Seq(Shown) /\ Len(shown') = Len(shown) + c
       /\ \A i \in 1..Len(shown) : shown'[i] = shown[i]
       /\ \A k \in 1..c : shown'[Len(shown) + k] = ns[k]
       /\ \A i \in 1..Len(shown') : shown'[i].id <= Newest
       /\ \A i, j \in 1..Len(shown') : i < j => shown'[i].id < shown'[j].id
       /\ shown' # <<>> => ps # <<>> /\ ps[1].id = shown'[Len(shown')].id
    BY <1>1, <1>2, <1>3, <1>5, ShownGrows, ZenonT(60)
<1>11. /\ c \in Nat
       /\ \A k \in 1..c, to \in Names, t \in Nat :
            Given(board[ns[k].id].clock, t) /\ Claim(t, board[ns[k].id].ref, to, messages)
            => Rightly(ns[k].name, ns[k].id, to, t)
    BY <1>1, <1>2, NewsFacts
<1> HIDE DEF new, ps, ns, c
<1>12. ReplyNamesNick'
    <2> SUFFICES ASSUME NEW i \in 1..Len(shown'), NEW r \in replies, r.id = shown'[i].id
        PROVE  Rightly(shown'[i].name, r.id, r.to, r.time)
        <3>1. DOMAIN shown' = 1..Len(shown')
            BY <1>10
        <3> QED BY <3>1 DEF ReplyNamesNick, Rightly
    <2>1. Len(shown) \in Nat /\ DOMAIN shown = 1..Len(shown)
        BY <1>5
    <2>2. CASE i \in 1..Len(shown)
        <3>1. ReplyNamesNick
            BY DEF ChatInv
        <3>2. shown'[i] = shown[i]
            BY <1>10, <2>2
        <3>3. i \in DOMAIN shown /\ r.id = shown[i].id
            BY <2>1, <2>2, <3>2
        <3>4. Rightly(shown[i].name, r.id, r.to, r.time)
            BY <3>1, <3>3, Zenon DEF ReplyNamesNick, Rightly
        <3> QED BY <3>2, <3>4
    <2>3. CASE i \notin 1..Len(shown)
        <3>1. i - Len(shown) \in 1..c /\ Len(shown) + (i - Len(shown)) = i
            BY <1>10, <1>11, <2>1, <2>3
        <3>2. shown'[i] = ns[i - Len(shown)]
            BY <1>10, <3>1
        <3>3. /\ r.to \in Names /\ r.time \in Nat /\ Given(board[r.id].clock, r.time)
              /\ Claim(r.time, board[r.id].ref, r.to, messages)
            BY DEF ChatInv, RepliesWell, Reply
        <3> QED BY <1>11, <3>1, <3>2, <3>3
    <2> QED BY <2>2, <2>3
<1> QED BY <1>3, <1>6, <1>7, <1>8, <1>9, <1>10, <1>12

(* A list stays well while the board does not change.                      *)
LEMMA SameBoard ==
    ASSUME board' = board
    PROVE  /\ BoardInv' = BoardInv /\ Newest' = Newest
           /\ \A n : Whole(n)' = Whole(n)
           /\ \A n : ListedIds(n)' = ListedIds(n)
           /\ \A S : WholeOf(S)' = WholeOf(S)
<1>1. Newest' = Newest
    BY DEF Newest
<1>2. BoardInv' = BoardInv
    BY <1>1 DEF BoardInv
<1>3. \A n : Whole(n)' = Whole(n)
    BY DEF Whole
<1>4. \A n : ListedIds(n)' = ListedIds(n)
    BY DEF ListedIds
<1>5. \A S : WholeOf(S)' = WholeOf(S)
    BY <1>3 DEF WholeOf
<1> QED BY <1>1, <1>2, <1>3, <1>4, <1>5

(***************************************************************************)
(* A step that only touches requests.                                      *)
(***************************************************************************)
LEMMA SameRoom ==
    ASSUME ChatInv, UNCHANGED <<pc, board, roomVars>>
    PROVE  /\ BoardInv' /\ messages' \in Seq(Item) /\ ListWell(messages)'
           /\ ShownWell' /\ RepliesWell' /\ RoomIsAuthors' /\ ReplyNamesNick'
<1>1. /\ pc' = pc /\ board' = board /\ chat' = chat /\ messages' = messages
      /\ users' = users /\ shown' = shown /\ replies' = replies
    BY DEF roomVars
<1>2. BoardInv' /\ Newest' = Newest /\ \A n : Whole(n)' = Whole(n)
    BY <1>1, SameBoard DEF ChatInv
<1>3. messages' \in Seq(Item) /\ ListWell(messages)'
    BY <1>1, <1>2 DEF ChatInv, ListWell, Above
<1>4. ShownWell'
    BY <1>1, <1>2 DEF ChatInv, ShownWell
<1>5. RepliesWell'
    BY <1>1, <1>2 DEF ChatInv, RepliesWell, Claim, Given
<1>6. RoomIsAuthors' /\ ReplyNamesNick'
    BY <1>1 DEF ChatInv, RoomIsAuthors, ReplyNamesNick
<1> QED BY <1>2, <1>3, <1>4, <1>5, <1>6

(* It keeps the invariant if each request it leaves in flight is well.     *)
LEMMA ReqStep ==
    ASSUME ChatInv, UNCHANGED <<pc, board, roomVars>>, up' = up,
           timer' = "armed" => pc = "connected",
           req' \in [Reqs -> Request], pending' \subseteq Reqs, pc = "off" => pending' = {},
           pc = "connecting" => pending' \subseteq pending,
           \A r \in pending' : (r \in pending /\ req'[r] = req[r]) \/ Flying(req'[r])
    PROVE  ChatInv'
<1>1. /\ BoardInv' /\ messages' \in Seq(Item) /\ ListWell(messages)'
      /\ ShownWell' /\ RepliesWell' /\ RoomIsAuthors' /\ ReplyNamesNick'
    BY SameRoom
<1>2. pc' = pc /\ board' = board /\ messages' = messages
    BY DEF roomVars
<1>3. \A r \in pending' : Flying(req'[r])
    BY DEF ChatInv, ReqsWell
<1>4. \A r \in pending' : Flying(req[r])'
    <2> TAKE r \in pending'
    <2>1. Flying(req'[r])
        BY <1>3
    <2> QED BY <1>2, <2>1, SameBoard DEF Flying, Fresh, Claim
<1>5. ReqsWell'
    BY <1>2, <1>4 DEF ChatInv, ReqsWell
<1> QED BY <1>1, <1>5 DEF ChatInv

(* The requests the plugin makes, and the end of one.                      *)
LEMMA RequestTypes ==
    /\ NoText \in Text /\ NoReq \in Request /\ "none" \in Bodies
    /\ \A what \in {"login", "check", "post"}, text \in Text :
        /\ New(what, text) \in Request
        /\ New(what, text).what = what /\ New(what, text).text = text
        /\ New(what, text).body = "none" /\ New(what, text).posts = 0
<1>1. NoText \in Text
    BY DEF NoText, Text, Names
<1>2. NoReq \in Request
    BY <1>1 DEF NoReq, Request, Bodies
<1>3. ASSUME NEW what \in {"login", "check", "post"}, NEW text \in Text
      PROVE  /\ New(what, text) \in Request
             /\ New(what, text).what = what /\ New(what, text).text = text
             /\ New(what, text).body = "none" /\ New(what, text).posts = 0
    BY <1>1 DEF New, NoReq, Request, Bodies
<1> QED BY <1>1, <1>2, <1>3 DEF Bodies

(* A time that was not given claims nothing.                               *)
LEMMA NoClaim ==
    ASSUME NEW ms, NEW to, NEW f
    PROVE  Claim(0, f, to, ms)
BY DEF Claim

(* The check of the board is in flight while connected.                    *)
LEMMA CheckFlies ==
    ASSUME BoardInv, pc # "connecting"
    PROVE  Flying(New("check", NoText))
<1>1. Newest \in Nat
    BY DEF BoardInv, Newest
<1> QED BY <1>1, RequestTypes DEF Flying

(* The clock of a message that coincoin_convert_message() gives is that of *)
(* no other message: its number is given where others share the clock.     *)
LEMMA ConvertedFacts ==
    ASSUME messages \in Seq(Item), ListWell(messages), NEW nick \in Names, NEW k \in Nat
    PROVE  /\ Converted(nick, k) \in Text
           /\ Given(Converted(nick, k).clock, Converted(nick, k).time)
           /\ Claim(Converted(nick, k).time, Converted(nick, k).ref, Converted(nick, k).to,
                    messages)
<1> DEFINE S == {i \in DOMAIN messages : messages[i].from = nick}
           T == {i \in S : Cardinality({j \in S : j <= i}) = k}
           p == CHOOSE i \in T : TRUE
           m == messages[p]
           f == IF m.multiple THEN m.ref ELSE 1
<1>1. Converted(nick, k) =
        IF T = {} THEN NoText
        ELSE [clock |-> ClockOf(m.time), ref |-> f, to |-> nick, time |-> m.time]
    BY DEF Converted
<1>2. CASE T = {}
    <2>1. Converted(nick, k) = NoText
        BY <1>1, <1>2
    <2>2. NoText.time = 0 /\ Given(NoText.clock, NoText.time)
        BY DEF NoText, Given
    <2> QED BY <2>1, <2>2, NoClaim, RequestTypes
<1>3. CASE T # {}
    <2>1. p \in T
        BY <1>3
    <2>2. p \in 1..Len(messages) /\ m.from = nick
        BY <2>1
    <2> HIDE DEF T, S, p
    <2>3. /\ m \in Item /\ m.time \in Nat \ {0} /\ m.ref \in Nat \ {0}
        BY <2>2, ItemTypes
    <2>4. f = m.ref
        BY <2>2 DEF ListWell
    <2> HIDE DEF f
    <2>5. Converted(nick, k) =
            [clock |-> ClockOf(m.time), ref |-> m.ref, to |-> nick, time |-> m.time]
        BY <1>1, <1>3, <2>4
    <2> HIDE DEF m
    <2>6. /\ Converted(nick, k).time = m.time /\ Converted(nick, k).ref = m.ref
          /\ Converted(nick, k).to = nick
          /\ Given(Converted(nick, k).clock, Converted(nick, k).time)
        BY <2>3, <2>5 DEF Given
    <2>7. Converted(nick, k) \in Text
        <3>1. ClockOf(m.time) \in Nat
            BY <2>3, ClockFacts
        <3> HIDE DEF ClockOf
        <3> QED BY <2>3, <2>5, <3>1 DEF Text
    <2>8. messages # <<>> /\ 1 \in 1..Len(messages) /\ messages[1] \in Item
        BY <2>2
    <2>9. messages[1].time \in Nat /\ messages[1].ref \in Nat
        BY <2>8, ItemTypes
    <2>10. m.time < messages[1].time \/ (m.time = messages[1].time /\ m.ref <= messages[1].ref)
        <3>1. CASE p = 1
            BY <2>3, <3>1 DEF m
        <3>2. CASE p # 1
            <4>1. Above(messages[1], m.time, m.ref)
                BY <2>2, <2>8, <3>2 DEF ListWell, m
            <4> QED BY <2>3, <2>9, <4>1 DEF Above
        <3> QED BY <3>1, <3>2
    <2>11. ASSUME NEW j \in 1..Len(messages), messages[j].time = m.time, messages[j].ref = m.ref
           PROVE  messages[j].from = nick
        <3>1. CASE j = p
            BY <2>2, <3>1 DEF m
        <3>2. CASE j < p
            <4>1. Above(messages[j], m.time, m.ref)
                BY <2>2, <3>2 DEF ListWell, m
            <4> QED BY <2>3, <2>11, <4>1 DEF Above
        <3>3. CASE p < j
            <4>1. Above(m, messages[j].time, messages[j].ref)
                BY <2>2, <3>3 DEF ListWell, m
            <4> QED BY <2>3, <2>11, <4>1 DEF Above
        <3> QED BY <2>2, <3>1, <3>2, <3>3
    <2>12. Claim(m.time, m.ref, nick, messages)
        BY <2>8, <2>10, <2>11 DEF Claim
    <2> QED BY <2>6, <2>7, <2>12
<1> QED BY <1>2, <1>3

(***************************************************************************)
(* The steps that only touch requests.                                     *)
(***************************************************************************)
(* A request is over: nothing else is in flight than before.               *)
LEMMA OverKeeps ==
    ASSUME ChatInv, NEW r \in pending, pending' = pending \ {r}, Over(r), up' = up,
           UNCHANGED <<pc, timer, board, roomVars>>
    PROVE  ChatInv'
<1>1. /\ req \in [Reqs -> Request] /\ pending \subseteq Reqs
      /\ pc = "off" => pending = {} /\ (timer = "armed" => pc = "connected")
      /\ timer = "armed" => pc = "connected"
    BY DEF ChatInv, ReqsWell
<1>2. req' \in [Reqs -> Request] /\ \A s \in pending' : req'[s] = req[s]
    BY <1>1, RequestTypes DEF Over
<1> QED BY <1>1, <1>2, ReqStep

(* One more is asked for while connected.                                  *)
LEMMA AskKeeps ==
    ASSUME ChatInv, pc = "connected", NEW n \in Reqs, NEW q \in Request, Flying(q),
           pending' \subseteq pending \union {n}, up' = up,
           req' \in [Reqs -> Request], req'[n] = q, \A s \in pending' \ {n} : req'[s] = req[s],
           UNCHANGED <<pc, board, roomVars>>
    PROVE  ChatInv'
<1>1. pending \subseteq Reqs
    BY DEF ChatInv, ReqsWell
<1>2. pending' \subseteq Reqs
    BY <1>1
<1>3. \A r \in pending' : (r \in pending /\ req'[r] = req[r]) \/ Flying(req'[r])
    OBVIOUS
<1> QED BY <1>2, <1>3, ReqStep

(* The timer asks for the board.                                           *)
LEMMA CheckTimerKeeps == ChatInv /\ CheckTimer => ChatInv'
<1> SUFFICES ASSUME ChatInv, CheckTimer PROVE ChatInv'
    OBVIOUS
<1> DEFINE q == New("check", NoText)
<1>1. PICK r \in Reqs : Ask(r) /\ req' = [req EXCEPT ![r] = q]
    BY DEF CheckTimer
<1>2. pc = "connected" /\ BoardInv /\ req \in [Reqs -> Request]
    BY DEF CheckTimer, ChatInv, ReqsWell
<1>3. q \in Request /\ Flying(q)
    BY <1>2, CheckFlies, RequestTypes
<1> HIDE DEF q
<1>4. pending' = pending \union {r} /\ up' = up
    BY <1>1 DEF Ask
<1>5. req' \in [Reqs -> Request] /\ req'[r] = q /\ \A s \in pending' \ {r} : req'[s] = req[s]
    <2>1. pending \subseteq Reqs
        BY DEF ChatInv, ReqsWell
    <2> QED BY <1>1, <1>2, <1>3, <1>4, <2>1
<1>6. UNCHANGED <<pc, board, roomVars>>
    BY DEF CheckTimer
<1> QED BY <1>2, <1>3, <1>4, <1>5, <1>6, AskKeeps

(* A post is sent with a clock that is claimed.                            *)
LEMMA ChatSendKeeps == ChatInv /\ coincoin_chat_send => ChatInv'
<1> SUFFICES ASSUME ChatInv, coincoin_chat_send PROVE ChatInv'
    OBVIOUS
<1>1. PICK r \in Reqs, nick \in Others, k \in {1, 2} :
            Ask(r) /\ req' = [req EXCEPT ![r] = New("post", Converted(nick, k))]
    BY DEF coincoin_chat_send
<1> DEFINE t == Converted(nick, k)
           q == New("post", t)
<1>2. pc = "connected" /\ BoardInv /\ Newest \in Nat /\ req \in [Reqs -> Request]
    <2>1. pc = "connected" /\ BoardInv /\ req \in [Reqs -> Request]
        BY DEF coincoin_chat_send, ChatInv, ReqsWell
    <2>2. Newest \in Nat
        BY <2>1 DEF BoardInv, Newest
    <2> QED BY <2>1, <2>2
<1>3. t \in Text /\ Given(t.clock, t.time) /\ Claim(t.time, t.ref, t.to, messages)
    <2>1. nick \in Names /\ k \in Nat
        BY DEF Names
    <2> QED BY <2>1, ConvertedFacts DEF ChatInv
<1> HIDE DEF t
<1>4. q \in Request /\ q.what = "post" /\ q.text = t /\ q.body = "none" /\ q.posts = 0
    BY <1>3, RequestTypes
<1> HIDE DEF q
<1>5. Flying(q)
    BY <1>2, <1>3, <1>4 DEF Flying
<1>6. pending' = pending \union {r} /\ up' = up
    BY <1>1 DEF Ask
<1>7. req' \in [Reqs -> Request] /\ req'[r] = q /\ \A s \in pending' \ {r} : req'[s] = req[s]
    <2>1. pending \subseteq Reqs
        BY DEF ChatInv, ReqsWell
    <2> QED BY <1>1, <1>2, <1>4, <1>6, <2>1 DEF q, t
<1>8. UNCHANGED <<pc, board, roomVars>>
    BY DEF coincoin_chat_send
<1> QED BY <1>2, <1>4, <1>5, <1>6, <1>7, <1>8, AskKeeps

(* The board as it stands is fresh: its last whole post is the newest.     *)
LEMMA ServerAnswersKeeps ==
    ASSUME ChatInv, NEW r \in Reqs, ServerAnswers(r)
    PROVE  ChatInv'
<1> DEFINE q == [req[r] EXCEPT !.body = "board", !.posts = Newest]
           whole == WholeOf(ListedIds(Newest))
<1>1. /\ r \in pending /\ req \in [Reqs -> Request] /\ pending \subseteq Reqs
      /\ req[r].what \in {"login", "check"} /\ Flying(req[r]) /\ pending' = pending /\ up' = up
      /\ req' = [req EXCEPT ![r] = q] /\ (timer = "armed" => pc = "connected")
      /\ UNCHANGED <<pc, timer, board, roomVars>> /\ (pc = "off" => pending = {})
    BY DEF ServerAnswers, ChatInv, ReqsWell, clientVars
<1>2. BoardInv /\ messages \in Seq(Item) /\ ListWell(messages) /\ Newest \in Nat
    BY DEF ChatInv, BoardInv, Newest
<1>3. Listed \in Nat \ {0}
    BY CoincoinAssumption
<1>4. whole \in SUBSET (1..Newest)
    BY DEF WholeOf, ListedIds
<1>5. \A i \in 1..Newest : i > Newest - Listed /\ Whole(i) => i \in whole
    BY DEF WholeOf, ListedIds
<1>6. \A i \in whole : Newest - i < Listed
    <2>1. \A i \in whole : i \in 1..Newest /\ i > Newest - Listed
        BY DEF WholeOf, ListedIds
    <2> QED BY <1>2, <1>3, <2>1
<1> HIDE DEF whole
<1>7. ASSUME whole # {} PROVE Fresh(Max(whole), messages)
    <2> DEFINE x == Max(whole)
    <2>1. x \in whole /\ \A i \in whole : i <= x
        BY <1>2, <1>4, <1>7, MaxFacts
    <2> HIDE DEF x
    <2>2. x \in 1..Newest /\ Newest - x < Listed
        BY <1>4, <1>6, <2>1
    <2>3. ASSUME NEW i \in 1..Newest, x < i PROVE ~Whole(i)
        <3>1. i > Newest - Listed
            BY <1>2, <1>3, <2>2, <2>3
        <3> QED BY <1>5, <2>1, <2>2, <2>3, <3>1
    <2>4. ASSUME messages # <<>>, x <= messages[1].id
          PROVE  \E i \in 1..Len(messages) : messages[i].id = x
        <3>1. 1 \in 1..Len(messages)
            BY <1>2, <2>4
        <3>2. messages[1].id \in Nat \ {0} /\ messages[1].id <= Newest /\ Whole(messages[1].id)
            BY <1>2, <3>1, ItemTypes DEF ListWell
        <3>3. messages[1].id \in 1..Newest
            BY <1>2, <3>2
        <3>4. ~(x < messages[1].id)
            BY <2>3, <3>2, <3>3
        <3>5. messages[1].id = x
            BY <2>2, <2>4, <3>3, <3>4
        <3> QED BY <3>1, <3>5
    <2>5. Fresh(x, messages)
        BY <2>2, <2>3, <2>4 DEF Fresh
    <2> QED BY <2>5 DEF x
<1>8. req[r] \in Request
    BY <1>1
<1>9. /\ q \in Request /\ q.body = "board" /\ q.posts = Newest
      /\ q.what = req[r].what /\ q.text = req[r].text
    BY <1>2, <1>8 DEF Request, Bodies
<1> HIDE DEF q
<1>10. Flying(q)
    <2>1. q.what # "post" /\ (q.what = "login" <=> pc = "connecting")
        BY <1>1, <1>9 DEF Flying
    <2> QED BY <1>2, <1>7, <1>9, <2>1 DEF Flying, whole
<1>11. /\ req' \in [Reqs -> Request]
       /\ \A s \in pending' : (s \in pending /\ req'[s] = req[s]) \/ Flying(req'[s])
    BY <1>1, <1>9, <1>10
<1>12. UNCHANGED <<pc, board, roomVars>> /\ (timer' = "armed" => pc = "connected")
    BY <1>1
<1> QED BY <1>1, <1>11, <1>12, ReqStep

(* A page that is no board.                                                *)
LEMMA ServerBabblesKeeps ==
    ASSUME ChatInv, NEW r \in Reqs, ServerBabbles(r)
    PROVE  ChatInv'
<1>1. PICK b \in {"junk", "other"} : req' = [req EXCEPT ![r].body = b]
    BY DEF ServerBabbles
<1> DEFINE q == [req[r] EXCEPT !.body = b]
<1>2. /\ r \in pending /\ req \in [Reqs -> Request] /\ pending \subseteq Reqs
      /\ Flying(req[r]) /\ pending' = pending /\ up' = up
      /\ req' = [req EXCEPT ![r] = q] /\ (timer = "armed" => pc = "connected")
      /\ UNCHANGED <<pc, timer, board, roomVars>> /\ (pc = "off" => pending = {})
    BY <1>1 DEF ServerBabbles, ChatInv, ReqsWell, clientVars
<1>3. req[r] \in Request
    BY <1>2
<1>4. /\ q \in Request /\ q.body # "board" /\ q.posts = req[r].posts
      /\ q.what = req[r].what /\ q.text = req[r].text
    BY <1>3 DEF Request, Bodies
<1> HIDE DEF q
<1>5. Flying(q)
    BY <1>2, <1>4 DEF Flying
<1>6. /\ req' \in [Reqs -> Request]
      /\ \A s \in pending' : (s \in pending /\ req'[s] = req[s]) \/ Flying(req'[s])
    BY <1>2, <1>4, <1>5
<1>7. UNCHANGED <<pc, board, roomVars>> /\ (timer' = "armed" => pc = "connected")
    BY <1>2
<1> QED BY <1>2, <1>6, <1>7, ReqStep

(* The connection of a request fails.                                      *)
LEMMA RequestFailsKeeps ==
    ASSUME ChatInv, NEW r \in Reqs, RequestFails(r)
    PROVE  ChatInv'
<1>1. r \in pending /\ pending' = pending \ {r} /\ up' = up /\ Over(r)
    BY DEF RequestFails, Fail
<1>2. UNCHANGED <<pc, timer, board, roomVars>>
    BY DEF RequestFails
<1> QED BY <1>1, <1>2, OverKeeps

(* A post was taken, or refused: the board is asked for, or not.           *)
LEMMA MessagePostedKeeps ==
    ASSUME ChatInv, NEW r \in Reqs, coincoin_message_posted(r)
    PROVE  ChatInv'
<1>0. UNCHANGED <<pc, timer, board, roomVars>> /\ req[r].what = "post"
    BY DEF coincoin_message_posted
<1>1. CASE req[r].body \in {"none", "empty"}
    <2> DEFINE q == New("check", NoText)
    <2>1. PICK n \in Reqs : /\ CallbackAsks(r, n)
                            /\ req' = [req EXCEPT ![r] = NoReq, ![n] = q]
        BY <1>1 DEF coincoin_message_posted
    <2>2. /\ r \in pending /\ n \notin pending /\ up' = up
          /\ pending' = (pending \ {r}) \union {n}
        BY <2>1 DEF CallbackAsks
    <2>3. /\ Flying(req[r]) /\ pending \subseteq Reqs /\ req \in [Reqs -> Request]
          /\ pc \in {"off", "connecting", "connected"} /\ (pc = "off" => pending = {}) /\ BoardInv
        BY <2>2 DEF ChatInv, ReqsWell
    <2>4. pc = "connected"
        BY <1>0, <2>2, <2>3 DEF Flying
    <2>5. q \in Request /\ Flying(q) /\ NoReq \in Request
        BY <2>3, <2>4, CheckFlies, RequestTypes
    <2> HIDE DEF q
    <2>6. req' \in [Reqs -> Request] /\ req'[n] = q /\ \A s \in pending' \ {n} : req'[s] = req[s]
        BY <2>1, <2>2, <2>3, <2>5
    <2> QED BY <1>0, <2>2, <2>4, <2>5, <2>6, AskKeeps
<1>2. CASE req[r].body \notin {"none", "empty"}
    <2>1. r \in pending /\ pending' = pending \ {r} /\ up' = up /\ Over(r)
        BY <1>2 DEF coincoin_message_posted, Callback
    <2> QED BY <1>0, <2>1, OverKeeps
<1> QED BY <1>1, <1>2

(***************************************************************************)
(* The account logs in, closes, leaves its room.                           *)
(***************************************************************************)
(* An empty list.                                                          *)
LEMMA NoMessages == <<>> \in Seq(Item) /\ ListWell(<<>>) /\ <<>> \in Seq(Shown)
BY DEF ListWell

(* Nobody is logged in and the board is empty at first.                    *)
LEMMA InitChat == Init => ChatInv
<1> SUFFICES ASSUME Init PROVE ChatInv
    OBVIOUS
<1>1. BoardInv /\ Newest = 0
    BY DEF Init, BoardInv, Newest
<1>2. messages \in Seq(Item) /\ ListWell(messages)
    BY NoMessages DEF Init
<1>3. ReqsWell
    BY RequestTypes DEF Init, InitClient, ReqsWell
<1>4. ShownWell /\ RepliesWell /\ RoomIsAuthors /\ ReplyNamesNick
    BY NoMessages DEF Init, ShownWell, RepliesWell, RoomIsAuthors, ReplyNamesNick
<1> QED BY <1>1, <1>2, <1>3, <1>4 DEF ChatInv

(* A login starts with nothing shown nor kept.                             *)
LEMMA LoginKeeps == ChatInv /\ coincoin_login => ChatInv'
<1> SUFFICES ASSUME ChatInv, coincoin_login PROVE ChatInv'
    OBVIOUS
<1> DEFINE q == New("login", NoText)
<1>1. PICK r \in Reqs : Open(r) /\ req' = [req EXCEPT ![r] = q]
    BY DEF coincoin_login
<1>2. /\ pc = "off" /\ pc' = "connecting" /\ messages' = <<>> /\ users' = {} /\ shown' = <<>>
      /\ replies' = {} /\ timer' = timer /\ board' = board /\ up' = TRUE /\ pending' = {r}
    BY <1>1 DEF coincoin_login, Open
<1>3. BoardInv' /\ Newest' = Newest /\ Newest \in Nat
    BY <1>2, SameBoard DEF ChatInv, BoardInv, Newest
<1>4. messages' \in Seq(Item) /\ ListWell(messages)'
    BY <1>2, NoMessages DEF ListWell
<1>5. /\ q \in Request /\ q.what = "login" /\ q.body = "none" /\ q.posts = 0
    BY RequestTypes
<1> HIDE DEF q
<1>6. req' \in [Reqs -> Request] /\ req'[r] = q
    BY <1>1, <1>5 DEF ChatInv, ReqsWell
<1>7. Flying(req[r])'
    BY <1>2, <1>3, <1>5, <1>6 DEF Flying
<1>8. ReqsWell'
    <2>1. timer' # "armed"
        BY <1>2 DEF ChatInv, ReqsWell
    <2> QED BY <1>2, <1>6, <1>7, <2>1 DEF ReqsWell
<1>9. ShownWell' /\ RepliesWell' /\ RoomIsAuthors' /\ ReplyNamesNick'
    BY <1>2, NoMessages DEF ShownWell, RepliesWell, RoomIsAuthors, ReplyNamesNick
<1> QED BY <1>3, <1>4, <1>8, <1>9 DEF ChatInv

(* Closing leaves what was shown, and nothing in flight.                   *)
LEMMA OffKeeps ==
    ASSUME ChatInv, pc' = "off", timer' = "none", messages' = <<>>, shown' = shown,
           replies' = replies, board' = board, up' = FALSE, pending' = {},
           req' = [r \in Reqs |-> NoReq]
    PROVE  ChatInv'
<1>1. BoardInv' /\ Newest' = Newest
    BY SameBoard DEF ChatInv
<1>2. messages' \in Seq(Item) /\ ListWell(messages)'
    BY NoMessages DEF ListWell
<1>3. ReqsWell'
    BY RequestTypes DEF ReqsWell
<1>4. ShownWell'
    BY <1>1 DEF ChatInv, ShownWell
<1>5. RepliesWell' /\ RoomIsAuthors' /\ ReplyNamesNick'
    BY <1>1 DEF ChatInv, RepliesWell, Given, RoomIsAuthors, ReplyNamesNick
<1> QED BY <1>1, <1>2, <1>3, <1>4, <1>5 DEF ChatInv

LEMMA CloseKeeps == ChatInv /\ coincoin_close => ChatInv'
<1> SUFFICES ASSUME ChatInv, coincoin_close PROVE ChatInv'
    OBVIOUS
<1>1. /\ pc' = "off" /\ timer' = "none" /\ messages' = <<>> /\ shown' = shown
      /\ replies' = replies /\ board' = board /\ up' = FALSE /\ pending' = {}
      /\ req' = [r \in Reqs |-> NoReq]
    BY DEF coincoin_close, Close
<1> QED BY <1>1, OffKeeps

(* So does a crash.                                                        *)
LEMMA CrashKeeps ==
    ASSUME ChatInv, NEW n \in Reqs, Crash(n)
    PROVE  ChatInv'
<1>1. /\ pc' = "off" /\ timer' = "none" /\ messages' = <<>> /\ shown' = shown
      /\ replies' = replies /\ board' = board /\ up' = FALSE /\ pending' = {}
      /\ req' = [r \in Reqs |-> NoReq]
    BY DEF Crash, Close
<1> QED BY <1>1, OffKeeps

(* The room is left.                                                       *)
LEMMA LeaveRoomKeeps == ChatInv /\ LeaveRoom => ChatInv'
<1> SUFFICES ASSUME ChatInv, LeaveRoom PROVE ChatInv'
    OBVIOUS
<1>1. /\ chat' = FALSE /\ pc' = pc /\ timer' = timer /\ messages' = messages /\ shown' = shown
      /\ replies' = replies /\ board' = board /\ up' = up /\ pending' = pending /\ req' = req
    BY DEF LeaveRoom, clientVars
<1>2. BoardInv' /\ Newest' = Newest /\ \A n : Whole(n)' = Whole(n)
    BY <1>1, SameBoard DEF ChatInv
<1>3. messages' \in Seq(Item) /\ ListWell(messages)'
    BY <1>1, <1>2 DEF ChatInv, ListWell, Above
<1>4. ReqsWell'
    <2>1. \A r \in pending : Flying(req[r])
        BY DEF ChatInv, ReqsWell
    <2>2. \A r \in pending' : Flying(req[r])'
        BY <1>1, <2>1, SameBoard DEF Flying, Fresh, Claim
    <2> QED BY <1>1, <2>2 DEF ChatInv, ReqsWell
<1>5. ShownWell' /\ RepliesWell'
    BY <1>1, <1>2 DEF ChatInv, ShownWell, RepliesWell, Claim
<1>6. RoomIsAuthors' /\ ReplyNamesNick'
    BY <1>1 DEF ChatInv, RoomIsAuthors, ReplyNamesNick
<1> QED BY <1>2, <1>3, <1>4, <1>5, <1>6 DEF ChatInv

(***************************************************************************)
(* A new post on the board.                                                *)
(***************************************************************************)
LEMMA PostedKeeps ==
    ASSUME ChatInv, Paced, NEW who \in Names, NEW text \in Text, NEW d \in Gaps,
           Posted(who, text, d), UNCHANGED <<pc, messages, shown>>
    PROVE  /\ BoardInv' /\ Newest' = Newest + 1 /\ Newest \in Nat
           /\ \A i \in 1..Newest : board'[i] = board[i]
           /\ board'[Newest + 1].clock = text.clock /\ board'[Newest + 1].ref = text.ref
           /\ messages' \in Seq(Item) /\ ListWell(messages)' /\ ShownWell'
           /\ \A r \in pending : \A q : q = req[r] => Flying(q)'
<1> DEFINE t == TimeAfter(d)
           p == [from |-> who, time |-> t, clock |-> text.clock, ref |-> text.ref]
<1>1. BoardInv /\ Newest \in Nat /\ board \in Seq(Post) /\ Len(board) = Newest
    BY DEF ChatInv, BoardInv, Newest
<1>2. d \in Nat
    BY CoincoinAssumption DEF Gaps
<1>3. t \in Nat \ {0} /\ \A i \in 1..Newest : board[i].time <= t
    <2>1. CASE Newest = 0
        BY <2>1 DEF TimeAfter
    <2>2. CASE Newest # 0
        <3>1. Newest \in 1..Newest
            BY <1>1, <2>2
        <3>2. TimeAfter(d) = board[Newest].time + d
            BY <2>2 DEF TimeAfter
        <3>3. board[Newest].time \in Nat \ {0}
            BY <1>1, <3>1, PostTypes
        <3>4. \A i \in 1..Newest : board[i].time <= board[Newest].time /\ board[i].time \in Nat
            <4>1. \A i \in 1..Newest : i <= Newest
                BY <1>1
            <4> QED BY <1>1, <3>1, <4>1, PostTypes DEF BoardInv
        <3> HIDE DEF ChatInv, Paced
        <3> QED BY <1>2, <3>2, <3>3, <3>4
    <2> QED BY <2>1, <2>2
<1>4. board' = Append(board, p)
    BY DEF Posted
<1> HIDE DEF t
<1>5. p \in Post
    BY <1>3 DEF Post, Text
<1>6. p.time = t /\ p.clock = text.clock /\ p.ref = text.ref
    OBVIOUS
<1> HIDE DEF p
<1>7. /\ board' \in Seq(Post) /\ Newest' = Newest + 1
      /\ \A i \in 1..Newest : board'[i] = board[i]
      /\ board'[Newest + 1] = p
    BY <1>1, <1>4, <1>5 DEF Newest
<1>8. BoardInv'
    <2> SUFFICES ASSUME NEW i \in 1..(Newest + 1), NEW j \in 1..(Newest + 1), i <= j
        PROVE  board'[i].time <= board'[j].time
        BY <1>7 DEF BoardInv
    <2>1. CASE i \in 1..Newest /\ j \in 1..Newest
        BY <1>1, <1>7, <2>1 DEF BoardInv
    <2>2. CASE i \in 1..Newest /\ j = Newest + 1
        BY <1>3, <1>6, <1>7, <2>2
    <2>3. CASE i = Newest + 1 /\ j = Newest + 1
        BY <1>3, <1>6, <1>7, <2>3
    <2>4. (i \in 1..Newest \/ i = Newest + 1) /\ (j \in 1..Newest \/ j = Newest + 1)
        BY <1>1
    <2>5. ~(i = Newest + 1 /\ j \in 1..Newest)
        BY <1>1
    <2> QED BY <2>1, <2>2, <2>3, <2>4, <2>5
<1>9. \A i \in 1..Newest : Whole(i)' = Whole(i)
    BY <1>7 DEF Whole
<1>10. ListWell(messages) /\ messages \in Seq(Item) /\ messages' = messages /\ pc' = pc
    BY DEF ChatInv
<1>11. ListWell(messages)'
    <2>1. ASSUME NEW i \in 1..Len(messages)
          PROVE  /\ messages[i].id <= Newest' /\ Whole(messages[i].id)'
                 /\ messages[i].from = board'[messages[i].id].from
                 /\ messages[i].time = board'[messages[i].id].time
                 /\ ~messages[i].multiple => messages[i].ref = 1
        <3>1. messages[i].id \in Nat \ {0} /\ messages[i].id <= Newest
            BY <1>10, ItemTypes DEF ListWell
        <3>2. messages[i].id \in 1..Newest
            BY <1>1, <3>1
        <3>3. Whole(messages[i].id)' = Whole(messages[i].id)
            BY <1>7, <1>10, <3>2 DEF Whole
        <3>4. board'[messages[i].id] = board[messages[i].id]
            BY <1>7, <3>2
        <3>5. messages[i].id <= Newest'
            BY <1>1, <1>7, <3>2
        <3> QED BY <1>10, <3>3, <3>4, <3>5 DEF ListWell
    <2>2. ASSUME NEW i \in 1..Len(messages), NEW j \in 1..Len(messages), i < j
          PROVE  messages[j].id < messages[i].id
                 /\ Above(messages[i], messages[j].time, messages[j].ref)
        BY <1>10, <2>2 DEF ListWell
    <2> QED BY <1>10, <2>1, <2>2 DEF ListWell, Above
<1>12. ShownWell'
    <2>1. ASSUME NEW i \in 1..Len(shown) PROVE shown[i].id <= Newest + 1
        <3>1. shown \in Seq(Shown) /\ shown[i].id <= Newest
            BY DEF ChatInv, ShownWell
        <3>2. shown[i] \in Shown
            BY <3>1
        <3>3. shown[i].id \in Nat
            BY <3>2 DEF Shown
        <3> QED BY <1>1, <3>1, <3>3
    <2> QED BY <1>7, <1>10, <2>1 DEF ChatInv, ShownWell
<1>13. ASSUME NEW r \in pending, NEW q, q = req[r] PROVE Flying(q)'
    <2> DEFINE whole == WholeOf(ListedIds(q.posts))
    <2>1. Flying(q) /\ q.posts \in Nat /\ q.posts <= Newest
        <3>1. Flying(q) /\ q \in Request
            BY <1>13 DEF ChatInv, ReqsWell
        <3> QED BY <3>1 DEF Request, Flying
    <2>2. ListedIds(q.posts) \in SUBSET (1..Newest)
        BY <1>1, <2>1 DEF ListedIds
    <2>3. ListedIds(q.posts)' = ListedIds(q.posts)
        BY DEF ListedIds
    <2>4. WholeOf(ListedIds(q.posts))' = whole
        BY <1>7, <2>2, <2>3 DEF WholeOf, Whole
    <2>5. whole \in SUBSET (1..Newest)
        BY <2>2 DEF WholeOf
    <2>6. ASSUME q.body = "board", whole # {} PROVE Fresh(Max(whole), messages)'
        <3> DEFINE x == Max(whole)
        <3>1. x \in 1..Newest
            BY <1>1, <2>5, <2>6, MaxFacts
        <3>2. Fresh(x, messages)
            BY <2>1, <2>6 DEF Flying
        <3>3. Newest + 1 - x < Listed /\ Newest + 1 - x <= CC_LAST_MESSAGE_MAX
            BY <1>13, <2>6 DEF Paced
        <3> HIDE DEF x
        <3>4. Newest' - x = Newest + 1 - x
            BY <1>1, <1>7, <3>1
        <3>5. Newest' - x < Listed /\ Newest' - x <= CC_LAST_MESSAGE_MAX
            BY <3>3, <3>4
        <3>6. messages # <<>> /\ x <= messages[1].id =>
                    \E i \in 1..Len(messages) : messages[i].id = x
            BY <3>2 DEF Fresh
        <3>7. /\ messages' # <<>> /\ x <= messages'[1].id =>
                    \E i \in 1..Len(messages') : messages'[i].id = x
            BY <1>10, <3>6
        <3>8. Max(whole)' = x
            BY <2>4 DEF Max, x
        <3> QED BY <3>5, <3>7, <3>8 DEF Fresh
    <2>7. Newest' >= Newest /\ Newest' \in Nat
        BY <1>1, <1>7
    <2>8. q.posts <= Newest'
        BY <1>1, <2>1, <2>7
    <2>9. q.what = "post" => /\ Given(q.text.clock, q.text.time)
                             /\ Claim(q.text.time, q.text.ref, q.text.to, messages)'
        BY <1>10, <2>1 DEF Flying, Claim
    <2>10. q.what = "login" <=> pc' = "connecting"
        BY <1>10, <2>1 DEF Flying
    <2>11. q.body = "board" => q.what # "post"
        BY <2>1 DEF Flying
    <2> QED BY <2>4, <2>6, <2>8, <2>9, <2>10, <2>11 DEF Flying
<1> QED BY <1>1, <1>6, <1>7, <1>8, <1>10, <1>11, <1>12, <1>13

(* A name that may stand where it does still may when the board has grown. *)
LEMMA NamesStay ==
    ASSUME ChatInv, \A i \in 1..Newest : board'[i] = board[i], Newest \in Nat,
           NEW i \in DOMAIN shown, NEW s \in replies, s.id = shown[i].id
    PROVE  \/ shown[i].name \in {"nobody", s.to}
           \/ \E j \in 1..(s.id - 1) :
                /\ board'[j].from = shown[i].name /\ board'[j].time # s.time
                /\ ClockOf(board'[j].time) = ClockOf(s.time)
<1>1. s.id \in Nat /\ s.id <= Newest
    BY DEF ChatInv, RepliesWell, Reply
<1>2. \A j \in 1..(s.id - 1) : board'[j] = board[j]
    <2>1. \A j \in 1..(s.id - 1) : j \in 1..Newest
        BY <1>1
    <2> QED BY <2>1
<1> QED BY <1>2 DEF ChatInv, ReplyNamesNick

(* A post of somebody else, or one that lacks a field.                     *)
LEMMA SomeonePostsKeeps == ChatInv /\ SomeonePosts => ChatInv'
<1> SUFFICES ASSUME ChatInv, SomeonePosts PROVE ChatInv'
    OBVIOUS
<1>1. PICK who \in Others \union {"nobody", "broken"}, d \in Gaps : Posted(who, NoText, d)
    BY DEF SomeonePosts
<1>2. /\ Paced /\ pc' = pc /\ timer' = timer /\ chat' = chat /\ messages' = messages
      /\ users' = users /\ shown' = shown /\ replies' = replies
      /\ up' = up /\ pending' = pending /\ req' = req
    BY DEF SomeonePosts, roomVars, clientVars
<1>3. /\ BoardInv' /\ Newest' = Newest + 1 /\ Newest \in Nat
      /\ \A i \in 1..Newest : board'[i] = board[i]
      /\ messages' \in Seq(Item) /\ ListWell(messages)' /\ ShownWell'
      /\ \A r \in pending : \A q : q = req[r] => Flying(q)'
    <2>1. who \in Names /\ NoText \in Text
        BY RequestTypes DEF Names
    <2> QED BY <1>1, <1>2, <2>1, PostedKeeps
<1>4. ReqsWell'
    <2>1. \A r \in pending' : Flying(req[r])'
        BY <1>2, <1>3 DEF Flying
    <2> QED BY <1>2, <2>1 DEF ChatInv, ReqsWell
<1>5. RepliesWell'
    <2>1. ASSUME NEW r \in replies PROVE r.id \in 1..Newest /\ r.id <= Newest'
        <3>1. r \in Reply /\ r.id <= Newest
            BY DEF ChatInv, RepliesWell
        <3>2. r.id \in Nat \ {0}
            BY <3>1 DEF Reply
        <3> QED BY <1>3, <3>1, <3>2
    <2>2. \A r \in replies : board'[r.id] = board[r.id]
        BY <1>3, <2>1
    <2> QED BY <1>2, <2>1, <2>2 DEF ChatInv, RepliesWell, Claim, Given
<1>6. RoomIsAuthors'
    BY <1>2 DEF ChatInv, RoomIsAuthors
<1>7. ReplyNamesNick'
    BY <1>2, <1>3, NamesStay DEF ReplyNamesNick
<1> QED BY <1>3, <1>4, <1>5, <1>6, <1>7 DEF ChatInv

(* The post of the user's takes over what the request claims.              *)
LEMMA ServerTakesPostKeeps ==
    ASSUME ChatInv, NEW r \in Reqs, ServerTakesPost(r)
    PROVE  ChatInv'
<1>1. PICK d \in Gaps : Posted("me", req[r].text, d)
    BY DEF ServerTakesPost
<1>2. /\ Paced /\ pc' = pc /\ timer' = timer /\ chat' = chat /\ messages' = messages
      /\ users' = users /\ shown' = shown /\ up' = up /\ pending' = pending
      /\ replies' = replies \union
            {[id |-> Newest + 1, to |-> req[r].text.to, time |-> req[r].text.time]}
      /\ req' = [req EXCEPT ![r] = [req[r] EXCEPT !.body = "empty"]]
      /\ r \in pending /\ req[r].what = "post"
    BY DEF ServerTakesPost, clientVars
<1>3. Flying(req[r]) /\ req[r] \in Request /\ req \in [Reqs -> Request] /\ pending \subseteq Reqs
    BY <1>2 DEF ChatInv, ReqsWell
<1>4. req[r].text \in Text /\ req[r].text.to \in Names /\ req[r].text.time \in Nat
    BY <1>3 DEF Request, Text
<1>5. /\ BoardInv' /\ Newest' = Newest + 1 /\ Newest \in Nat
      /\ \A i \in 1..Newest : board'[i] = board[i]
      /\ board'[Newest + 1].clock = req[r].text.clock /\ board'[Newest + 1].ref = req[r].text.ref
      /\ messages' \in Seq(Item) /\ ListWell(messages)' /\ ShownWell'
      /\ \A s \in pending : \A q : q = req[s] => Flying(q)'
    <2>1. "me" \in Names
        BY DEF Names
    <2> QED BY <1>1, <1>2, <1>4, <2>1, PostedKeeps
<1>6. ReqsWell'
    <2> DEFINE e == [req[r] EXCEPT !.body = "empty"]
    <2>1. /\ e \in Request /\ e.body = "empty" /\ e.what = "post" /\ e.text = req[r].text
          /\ e.posts = req[r].posts
        BY <1>2, <1>3 DEF Request, Bodies
    <2>2. req' \in [Reqs -> Request] /\ req'[r] = e /\ \A s \in pending \ {r} : req'[s] = req[s]
        BY <1>2, <1>3, <2>1
    <2> HIDE DEF e
    <2>3. ASSUME NEW s \in pending' PROVE Flying(req[s])'
        <3>1. CASE s = r
            <4>1. PICK q : q = req[r]
                OBVIOUS
            <4>2. Flying(q)'
                BY <1>2, <1>5, <4>1
            <4>3. q.posts = e.posts /\ q.what = e.what /\ q.text = e.text
                BY <1>2, <2>1, <4>1
            <4>4. /\ e.posts <= Newest' /\ (e.what = "login" <=> pc' = "connecting")
                  /\ Given(e.text.clock, e.text.time)
                  /\ Claim(e.text.time, e.text.ref, e.text.to, messages')
                BY <2>1, <4>2, <4>3 DEF Flying, Claim
            <4> QED BY <2>1, <2>2, <3>1, <4>4 DEF Flying, Claim
        <3>2. CASE s # r
            <4>1. req'[s] = req[s] /\ \A q : q = req[s] => Flying(q)'
                BY <1>2, <1>5, <2>2, <3>2
            <4> QED BY <4>1 DEF Flying
        <3> QED BY <3>1, <3>2
    <2> QED BY <1>2, <2>2, <2>3 DEF ChatInv, ReqsWell
<1>7. RepliesWell'
    <2> DEFINE n == [id |-> Newest + 1, to |-> req[r].text.to, time |-> req[r].text.time]
    <2>1. /\ n \in Reply /\ n.id = Newest + 1 /\ n.to = req[r].text.to
          /\ n.time = req[r].text.time
        BY <1>4, <1>5 DEF Reply
    <2>2. Given(board'[n.id].clock, n.time) /\ Claim(n.time, board'[n.id].ref, n.to, messages')
        BY <1>2, <1>3, <1>5, <2>1 DEF Flying
    <2> HIDE DEF n
    <2>3. ASSUME NEW s \in replies
          PROVE  /\ s \in Reply /\ s.id \in 1..Newest /\ s.id <= Newest'
                 /\ board'[s.id] = board[s.id] /\ Given(board[s.id].clock, s.time)
                 /\ pc # "off" => Claim(s.time, board[s.id].ref, s.to, messages)
        <3>1. /\ s \in Reply /\ s.id <= Newest /\ Given(board[s.id].clock, s.time)
              /\ pc # "off" => Claim(s.time, board[s.id].ref, s.to, messages)
            BY DEF ChatInv, RepliesWell
        <3>2. s.id \in Nat \ {0}
            BY <3>1 DEF Reply
        <3>3. s.id \in 1..Newest /\ s.id <= Newest'
            BY <1>5, <3>1, <3>2
        <3> QED BY <1>5, <3>1, <3>3
    <2>4. replies' = replies \union {n}
        BY <1>2 DEF n
    <2>5. /\ replies' \subseteq Reply
          /\ \A s \in replies' : s.id <= Newest' /\ Given(board'[s.id].clock, s.time)
        <3>1. n.id <= Newest'
            BY <1>5, <2>1
        <3> QED BY <2>1, <2>2, <2>3, <2>4, <3>1
    <2>6. ASSUME pc' # "off", NEW s \in replies'
          PROVE  Claim(s.time, board'[s.id].ref, s.to, messages')
        BY <1>2, <2>2, <2>3, <2>4, <2>6
    <2> QED BY <2>5, <2>6 DEF RepliesWell, Claim, Given
<1>8. RoomIsAuthors'
    BY <1>2 DEF ChatInv, RoomIsAuthors
<1>9. ReplyNamesNick'
    <2> SUFFICES ASSUME NEW i \in DOMAIN shown, NEW s \in replies', s.id = shown[i].id
        PROVE  \/ shown[i].name \in {"nobody", s.to}
               \/ \E j \in 1..(s.id - 1) :
                    /\ board'[j].from = shown[i].name /\ board'[j].time # s.time
                    /\ ClockOf(board'[j].time) = ClockOf(s.time)
        BY <1>2 DEF ReplyNamesNick
    <2>1. shown[i].id <= Newest
        <3>1. DOMAIN shown = 1..Len(shown)
            BY DEF ChatInv, ShownWell
        <3> QED BY <3>1 DEF ChatInv, ShownWell
    <2>2. s \in replies
        <3>1. CASE s \notin replies
            <4>1. s = [id |-> Newest + 1, to |-> req[r].text.to, time |-> req[r].text.time]
                BY <1>2, <3>1
            <4>2. s.id = Newest + 1
                BY <4>1
            <4> QED BY <1>5, <2>1, <4>2
        <3> QED BY <3>1
    <2> QED BY <1>5, <2>2, NamesStay
<1> QED BY <1>5, <1>6, <1>7, <1>8, <1>9 DEF ChatInv

(***************************************************************************)
(* An answer of the board is read.                                         *)
(***************************************************************************)
(* After coincoin_parse_message(), whatever it read.                       *)
LEMMA ReadKeeps ==
    ASSUME ChatInv, NEW r \in pending, NEW n \in 0..Newest,
           WholeOf(ListedIds(n)) # {} => Fresh(Max(WholeOf(ListedIds(n))), messages),
           ParseMessage(messages, Authors(messages), ListedIds(n)),
           pc \in {"connecting", "connected"}, pc' = "connected", up' = up,
           pending' = pending \ {r}, pc = "connecting" => pending' = {}, Over(r),
           board' = board, replies' = replies
    PROVE  ChatInv'
<1>1. pc # "off"
    OBVIOUS
<1>2. /\ messages' \in Seq(Item) /\ ListWell(messages')
      /\ users' = Authors(messages') /\ shown' \in Seq(Shown)
      /\ \A i \in 1..Len(shown') : shown'[i].id <= Newest
      /\ \A i, j \in 1..Len(shown') : i < j => shown'[i].id < shown'[j].id
      /\ shown' # <<>> => messages' # <<>> /\ messages'[1].id = shown'[Len(shown')].id
      /\ \A x \in 1..Newest : Whole(x) /\ Fresh(x, messages) => Fresh(x, messages')
      /\ \A cl, f \in Nat : \A to \in Names :
            Claim(cl, f, to, messages) => Claim(cl, f, to, messages')
      /\ ReplyNamesNick'
    BY <1>1, ParseKeeps
<1>3. /\ BoardInv /\ Newest \in Nat /\ BoardInv' /\ Newest' = Newest
      /\ \A i : Whole(i)' = Whole(i)
      /\ \A i : ListedIds(i)' = ListedIds(i)
      /\ \A S : WholeOf(S)' = WholeOf(S)
    BY SameBoard DEF ChatInv, BoardInv, Newest
<1>4. ListWell(messages)'
    BY <1>2, <1>3 DEF ListWell, Above
<1>5. /\ req \in [Reqs -> Request] /\ pending \subseteq Reqs
      /\ up = (pc # "off") /\ \A s \in pending : Flying(req[s])
    BY DEF ChatInv, ReqsWell
<1>6. req' \in [Reqs -> Request] /\ \A s \in pending' : req'[s] = req[s] /\ s \in pending
    BY <1>5, RequestTypes DEF Over
<1>7. ASSUME NEW s \in pending' PROVE Flying(req[s])'
    <2> DEFINE q == req[s]
               whole == WholeOf(ListedIds(q.posts))
    <2>1. Flying(q) /\ q \in Request /\ req'[s] = q /\ pc = "connected"
        BY <1>5, <1>6
    <2>2. q.posts \in Nat /\ q.posts <= Newest /\ q.text \in Text
        BY <2>1 DEF Request, Flying
    <2>3. q.text.time \in Nat /\ q.text.ref \in Nat /\ q.text.to \in Names
        BY <2>2 DEF Text
    <2> HIDE DEF q
    <2>4. whole \in SUBSET (1..Newest) /\ \A i \in whole : Whole(i)
        BY <1>3, <2>2 DEF WholeOf, ListedIds
    <2>5. ASSUME q.body = "board", whole # {} PROVE Fresh(Max(whole), messages')
        <3>1. Max(whole) \in 1..Newest /\ Whole(Max(whole))
            BY <1>3, <2>4, <2>5, MaxFacts
        <3> QED BY <1>2, <2>1, <2>5, <3>1 DEF Flying
    <2>6. q.what = "post" => /\ Given(q.text.clock, q.text.time)
                             /\ Claim(q.text.time, q.text.ref, q.text.to, messages')
        BY <1>2, <2>1, <2>3 DEF Flying
    <2>7. q.what # "login" /\ (q.body = "board" => q.what # "post")
        BY <2>1 DEF Flying
    <2> QED BY <1>3, <2>1, <2>2, <2>5, <2>6, <2>7 DEF Flying, Fresh, Claim
<1>8. ReqsWell'
    BY <1>5, <1>6, <1>7 DEF ReqsWell
<1>9. ShownWell'
    BY <1>2, <1>3 DEF ShownWell
<1>10. RepliesWell'
    <2>1. /\ replies \subseteq Reply
          /\ \A s \in replies : s.id <= Newest /\ Given(board[s.id].clock, s.time)
          /\ \A s \in replies : Claim(s.time, board[s.id].ref, s.to, messages)
        BY <1>1 DEF ChatInv, RepliesWell
    <2>2. ASSUME NEW s \in replies
          PROVE  Claim(s.time, board[s.id].ref, s.to, messages')
        <3>1. s \in Reply /\ s.id <= Newest
            BY <2>1
        <3>2. s.id \in Nat \ {0} /\ s.to \in Names /\ s.time \in Nat
            BY <3>1 DEF Reply
        <3>3. s.id \in 1..Newest
            BY <1>3, <3>1, <3>2
        <3>4. board[s.id].ref \in Nat
            BY <1>3, <3>3, PostTypes
        <3> QED BY <1>2, <2>1, <3>2, <3>4
    <2> QED BY <1>3, <2>1, <2>2 DEF RepliesWell, Claim, Given
<1>11. RoomIsAuthors'
    BY <1>2 DEF RoomIsAuthors, Authors
<1> QED BY <1>2, <1>3, <1>4, <1>8, <1>9, <1>10, <1>11 DEF ChatInv

(* The first board is read into an empty room.                             *)
LEMMA LoginCbKeeps ==
    ASSUME ChatInv, NEW r \in Reqs, coincoin_login_cb(r)
    PROVE  ChatInv'
<1>1. req[r].what = "login" /\ Over(r)
    BY DEF coincoin_login_cb
<1>2. CASE req[r].body # "board"
    <2>1. /\ r \in pending /\ pending' = pending \ {r} /\ up' = up
          /\ UNCHANGED <<pc, timer, board, roomVars>>
        BY <1>2 DEF coincoin_login_cb, Callback
    <2> QED BY <1>1, <2>1, OverKeeps
<1>3. CASE req[r].body = "board"
    <2>1. /\ r \in pending /\ pending' = pending \ {r} /\ up' = up /\ pc' = "connected"
          /\ ParseMessage(messages, {}, ListedIds(req[r].posts))
          /\ board' = board /\ replies' = replies
        BY <1>3 DEF coincoin_login_cb, Callback
    <2>2. /\ Flying(req[r]) /\ req[r] \in Request
          /\ pc = "connecting" => \A s, t \in pending : s = t
        BY <2>1 DEF ChatInv, ReqsWell
    <2>3. pc = "connecting" /\ pending' = {}
        BY <1>1, <2>1, <2>2 DEF Flying
    <2>4. {} = Authors(messages)
        BY <2>3 DEF ChatInv, ShownWell, Authors
    <2>5. /\ req[r].posts \in 0..Newest
          /\ WholeOf(ListedIds(req[r].posts)) # {} =>
                Fresh(Max(WholeOf(ListedIds(req[r].posts))), messages)
        <3>1. req[r].posts \in Nat /\ req[r].posts <= Newest /\ Newest \in Nat
            BY <2>2 DEF Request, Flying, ChatInv, BoardInv, Newest
        <3> QED BY <1>3, <2>2, <3>1 DEF Flying
    <2> QED BY <1>1, <2>1, <2>3, <2>4, <2>5, ReadKeeps
<1> QED BY <1>2, <1>3

(* A later board is read while the room is there.                          *)
LEMMA ParseMessageKeeps ==
    ASSUME ChatInv, NEW r \in Reqs, coincoin_parse_message(r)
    PROVE  ChatInv'
<1>1. /\ req[r].what = "check" /\ Over(r) /\ r \in pending /\ pending' = pending \ {r}
      /\ up' = up /\ UNCHANGED <<pc, timer, board>>
    BY DEF coincoin_parse_message, Callback
<1>2. CASE ~(chat /\ req[r].body \in {"other", "board"})
    <2>1. UNCHANGED <<pc, timer, board, roomVars>>
        BY <1>1, <1>2 DEF coincoin_parse_message
    <2> QED BY <1>1, <2>1, OverKeeps
<1>3. CASE chat /\ req[r].body \in {"other", "board"}
    <2> DEFINE ids == IF req[r].body = "board" THEN ListedIds(req[r].posts) ELSE {}
               n == IF req[r].body = "board" THEN req[r].posts ELSE 0
    <2>1. ParseMessage(messages, users, ids) /\ replies' = replies
        BY <1>3 DEF coincoin_parse_message
    <2>2. /\ Flying(req[r]) /\ req[r] \in Request /\ (pc = "off" => pending = {})
          /\ pc \in {"off", "connecting", "connected"} /\ Newest \in Nat
        BY <1>1 DEF ChatInv, ReqsWell, BoardInv, Newest
    <2>3. pc = "connected"
        BY <1>1, <2>2 DEF Flying
    <2>4. users = Authors(messages)
        BY <1>3, <2>3 DEF ChatInv, RoomIsAuthors, Authors
    <2>5. ListedIds(0) = {}
        BY DEF ListedIds
    <2>6. ids = ListedIds(n)
        BY <2>5
    <2>7. n \in 0..Newest
        BY <2>2 DEF Request, Flying
    <2>8. WholeOf(ListedIds(n)) # {} => Fresh(Max(WholeOf(ListedIds(n))), messages)
        <3>1. WholeOf({}) = {}
            BY DEF WholeOf
        <3> QED BY <2>2, <2>5, <3>1 DEF Flying
    <2> HIDE DEF ids, n
    <2>9. ParseMessage(messages, Authors(messages), ListedIds(n))
        BY <2>1, <2>4, <2>6
    <2> QED BY <1>1, <2>1, <2>3, <2>7, <2>8, <2>9, ReadKeeps
<1> QED BY <1>2, <1>3
-----------------------------------------------------------------------------
(* Every step keeps the invariant.                                         *)
LEMMA NextChat == ChatInv /\ [Next]_vars => ChatInv'
<1> SUFFICES ASSUME ChatInv, [Next]_vars PROVE ChatInv'
    OBVIOUS
<1>1. CASE coincoin_login
    BY <1>1, LoginKeeps
<1>2. CASE coincoin_close
    BY <1>2, CloseKeeps
<1>3. CASE CheckTimer
    BY <1>3, CheckTimerKeeps
<1>4. CASE coincoin_chat_send
    BY <1>4, ChatSendKeeps
<1>5. CASE LeaveRoom
    BY <1>5, LeaveRoomKeeps
<1>6. CASE SomeonePosts
    BY <1>6, SomeonePostsKeeps
<1>7. ASSUME NEW r \in Reqs, ServerAnswers(r) PROVE ChatInv'
    BY <1>7, ServerAnswersKeeps
<1>8. ASSUME NEW r \in Reqs, ServerTakesPost(r) PROVE ChatInv'
    BY <1>8, ServerTakesPostKeeps
<1>9. ASSUME NEW r \in Reqs, ServerBabbles(r) PROVE ChatInv'
    BY <1>9, ServerBabblesKeeps
<1>10. ASSUME NEW r \in Reqs, coincoin_login_cb(r) PROVE ChatInv'
    BY <1>10, LoginCbKeeps
<1>11. ASSUME NEW r \in Reqs, coincoin_parse_message(r) PROVE ChatInv'
    BY <1>11, ParseMessageKeeps
<1>12. ASSUME NEW r \in Reqs, coincoin_message_posted(r) PROVE ChatInv'
    BY <1>12, MessagePostedKeeps
<1>13. ASSUME NEW r \in Reqs, RequestFails(r) PROVE ChatInv'
    BY <1>13, RequestFailsKeeps
<1>15. ASSUME NEW r \in Reqs, Crash(r) PROVE ChatInv'
    BY <1>15, CrashKeeps
<1>14. CASE UNCHANGED vars
    <2>1. /\ UNCHANGED <<pc, board, roomVars>> /\ up' = up /\ timer' = timer
          /\ req' = req /\ pending' = pending
        BY <1>14 DEF vars, clientVars
    <2>2. /\ timer = "armed" => pc = "connected"
          /\ req \in [Reqs -> Request] /\ pending \subseteq Reqs /\ (pc = "off" => pending = {})
        BY DEF ChatInv, ReqsWell
    <2> QED BY <2>1, <2>2, ReqStep
<1> QED BY <1>1, <1>2, <1>3, <1>4, <1>5, <1>6, <1>7, <1>8, <1>9, <1>10, <1>11, <1>12, <1>13,
           <1>14, <1>15 DEF Next

(* The invariant of the plugin.                                            *)
LEMMA ChatHolds == Spec => []ChatInv
BY InitChat, NextChat, PTL DEF Spec

(* However the answers of a board overlap, coincoin_parse_message() shows  *)
(* every post once and in order, for any number of posts, requests and     *)
(* messages kept, as long as no answer on its way is outrun.               *)
THEOREM ShownOnceInOrderHolds == Spec => []ShownOnceInOrder
<1>1. ChatInv => ShownOnceInOrder
    <2> SUFFICES ASSUME ChatInv PROVE ShownOnceInOrder
        OBVIOUS
    <2>1. DOMAIN shown = 1..Len(shown)
        BY DEF ChatInv, ShownWell
    <2> QED BY <2>1 DEF ChatInv, ShownWell, ShownOnceInOrder
<1> QED BY <1>1, ChatHolds, PTL

(* Who is in the room is who wrote one of the messages kept: the joins and *)
(* the leaves of coincoin_parse_message() never lose nor leave anyone.     *)
THEOREM RoomIsAuthorsHolds == Spec => []RoomIsAuthors
<1>1. ChatInv => RoomIsAuthors
    BY DEF ChatInv
<1> QED BY <1>1, ChatHolds, PTL

(* The number coincoin_convert_message() puts behind a clock stays that of *)
(* the message it was taken from: no message of its day that comes while   *)
(* the post is on its way is shown under it.  Another name can only be of  *)
(* a post at the same clock of another day.                                *)
THEOREM ReplyNamesNickHolds == Spec => []ReplyNamesNick
<1>1. ChatInv => ReplyNamesNick
    BY DEF ChatInv
<1> QED BY <1>1, ChatHolds, PTL
=============================================================================
