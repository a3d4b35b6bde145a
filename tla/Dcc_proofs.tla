------------------------------ MODULE Dcc_proofs ------------------------------
(***************************************************************************)
(* Theorems about the two ways of a file: DccSend, for a file, a piece and *)
(* a connection of any size, and DccGet, for any buddies, files, sizes and *)
(* number of transfers.                                                    *)
(*                                                                         *)
(* DccSend: InOrder is not inductive. The units the user has and those on  *)
(* the wire stay in order because none is beyond pos, the place in the     *)
(* file from which dcc_send() reads on, and pos never goes back (Follows); *)
(* they are in the file because pos is (Within). That an acknowledged      *)
(* transfer is whole takes the acknowledgements: no half on its way or     *)
(* kept in rxqueue names more units than the user has (Honest), and as     *)
(* many rising units as the file has are all of them (RisingWhole).        *)
(*                                                                         *)
(* DccGet: a file is handed over whole because what a transfer that shares *)
(* its name with no other has on the disk is what it has written (OnDisk), *)
(* and a transfer that was handed over has written all that was announced  *)
(* (CompleteGet).                                                          *)
(***************************************************************************)
EXTENDS DccSend, DccGet, SequenceTheorems, WellFoundedInduction, TLAPS

USE DccSendAssumption

(* Numbers in increasing order.                                            *)
Rising(s) == \A i, j \in 1..Len(s) : i < j => s[i] < s[j]

(* What dcc_send() has read stays within the file, which it opens once     *)
(* libpurple has made it.                                                  *)
Within == (fp => fileLen >= 0) /\ (pos > 0 => pos <= fileLen)

(* The units on the wire follow those the user has.                        *)
Follows ==
    /\ Rising(got) /\ Rising(wire)
    /\ \A i \in 1..Len(got) : got[i] <= pos
    /\ \A j \in 1..Len(wire) : wire[j] <= pos
    /\ \A i \in 1..Len(got), j \in 1..Len(wire) : got[i] < wire[j]

(* The user acknowledges what he has got.                                  *)
Honest ==
    /\ \A k \in 1..Len(acks) : acks[k].n <= Len(got)
    /\ \A k \in 1..Len(rxqueue) : rxqueue[k].n <= Len(got)

(* An acknowledgement that ended the transfer was one of total_size units. *)
Whole == done => Len(got) >= total

(* The inductive invariant.                                                *)
SendInv == TypeOK /\ Within /\ Follows /\ Honest /\ Whole
-----------------------------------------------------------------------------
(* A set of numbers that is not empty has a least one.                     *)
LEMMA Least ==
    ASSUME NEW T \in SUBSET Nat, T # {}
    PROVE  \E k \in T : \A m \in T : k <= m
<1>1. IsWellFoundedOn(OpToRel(<, Nat), Nat) BY NatLessThanWellFounded
<1>2. \E k \in T : \A m \in T : ~(<<m, k>> \in OpToRel(<, Nat)) BY <1>1, WFMin
<1>3. PICK k \in T : \A m \in T : ~(<<m, k>> \in OpToRel(<, Nat)) BY <1>2
<1>4. \A m \in T : ~(m < k) BY <1>3 DEF OpToRel
<1> QED BY <1>4

(* Rising numbers that begin with 1 or more are no less than their place.  *)
LEMMA RisingAbove ==
    ASSUME NEW s \in Seq(1..Size), Rising(s)
    PROVE  \A i \in 1..Len(s) : i <= s[i]
<1> DEFINE T == {i \in 1..Len(s) : s[i] < i}
<1> SUFFICES ASSUME T # {} PROVE FALSE
  <2>1. \A i \in 1..Len(s) : s[i] \in 1..Size OBVIOUS
  <2> QED BY <2>1
<1>1. T \in SUBSET Nat OBVIOUS
<1>2. PICK k \in T : \A m \in T : k <= m
  <2> HIDE DEF T
  <2> QED BY <1>1, Least
<1>3. k \in 1..Len(s) /\ s[k] < k /\ s[k] \in 1..Size OBVIOUS
<1>4. k - 1 \in 1..Len(s) BY <1>3
<1>5. k - 1 \notin T BY <1>2, <1>3
<1>6. s[k - 1] \in 1..Size /\ s[k - 1] >= k - 1 BY <1>4, <1>5
<1>7. s[k - 1] < s[k] BY <1>3, <1>4, SMTT(40) DEF Rising
<1> QED BY <1>3, <1>6, <1>7

(* Size of them in 1..Size are all there are.                            *)
LEMMA RisingWhole ==
    ASSUME NEW s \in Seq(1..Size), Rising(s)
    PROVE  Len(s) <= Size /\ (Len(s) = Size => s = [i \in 1..Size |-> i])
<1>1. \A i \in 1..Len(s) : i <= s[i] /\ s[i] \in 1..Size BY RisingAbove
<1>2. Len(s) \in Nat OBVIOUS
<1>3. Len(s) <= Size
  <2>1. CASE Len(s) = 0 BY <2>1
  <2>2. CASE Len(s) > 0
    <3>1. Len(s) \in 1..Len(s) BY <1>2, <2>2
    <3> QED BY <1>1, <1>2, <3>1
  <2> QED BY <1>2, <2>1, <2>2
<1>4. ASSUME Len(s) = Size PROVE s = [i \in 1..Size |-> i]
  <2> DEFINE T == {Size - i : i \in {i \in 1..Size : s[i] > i}}
  <2>1. T = {}
    <3> SUFFICES ASSUME T # {} PROVE FALSE OBVIOUS
    <3>1. T \in SUBSET Nat OBVIOUS
    <3>2. PICK d \in T : \A m \in T : d <= m
      <4> HIDE DEF T
      <4> QED BY <3>1, Least
    <3>3. PICK k \in 1..Size : d = Size - k /\ s[k] > k OBVIOUS
    <3>4. k # Size BY <1>1, <1>4, <3>3
    <3>5. k + 1 \in 1..Size BY <3>3, <3>4
    <3>6. Size - (k + 1) \notin T
      <4> HIDE DEF T
      <4> SUFFICES ASSUME Size - (k + 1) \in T PROVE FALSE OBVIOUS
      <4>1. d <= Size - (k + 1) BY <3>2
      <4> QED BY <3>3, <4>1
    <3>7. s[k + 1] <= k + 1 BY <1>1, <1>4, <3>5, <3>6
    <3>8. s[k] < s[k + 1] BY <1>4, <3>3, <3>5 DEF Rising
    <3> QED BY <1>1, <1>4, <3>3, <3>5, <3>7, <3>8
  <2>2. ASSUME NEW i \in 1..Size PROVE s[i] = i
    <3>1. i <= s[i] /\ s[i] \in 1..Size BY <1>1, <1>4
    <3>2. s[i] > i => Size - i \in T OBVIOUS
    <3> QED BY <2>1, <3>1, <3>2
  <2>3. s = [i \in 1..Len(s) |-> s[i]] OBVIOUS
  <2> QED BY <1>4, <2>2, <2>3
<1> QED BY <1>3, <1>4
-----------------------------------------------------------------------------
(* The transfer starts with nothing read, sent or acknowledged.            *)
LEMMA SendInit == Init => SendInv
<1> SUFFICES ASSUME Init PROVE SendInv OBVIOUS
<1>1. TypeOK
  <2>1. wire = <<>> /\ got = <<>> /\ acks = <<>> /\ rxqueue = <<>> BY DEF Init
  <2>2. /\ wire \in Seq(1..Size) /\ Len(wire) = 0 /\ got \in Seq(1..Size)
        /\ acks \in Seq([n : 1..Size, half : {1, 2}])
        /\ rxqueue \in Seq([n : 1..Size, half : {1, 2}]) /\ Len(rxqueue) = 0
    BY <2>1
  <2>3. /\ phase = "opening" /\ total \in {0, Size} /\ sticky \in BOOLEAN
        /\ xfer = "running" /\ fileLen = -1
        /\ fp = FALSE /\ pos = 0 /\ eof = FALSE
        /\ client = "away" /\ expired = FALSE /\ done = FALSE /\ missed = FALSE
    BY DEF Init
  <2>4. pos \in 0..Size /\ Len(wire) <= WireCap /\ Len(rxqueue) <= 1 BY <2>2, <2>3
  <2> QED BY <2>2, <2>3, <2>4 DEF TypeOK
<1>2. Within /\ Follows /\ Honest /\ Whole
  BY DEF Init, Within, Follows, Honest, Whole, Rising
<1> QED BY <1>1, <1>2 DEF SendInv

(* dcc_send(): the next piece follows all the others.                      *)
LEMMA PieceSent ==
    ASSUME SendInv, NEW ph, NEW len \in {-1} \cup 0..Size, len >= fileLen,
           SendPiece(ph, len)
    PROVE  /\ fp' \in BOOLEAN /\ pos' \in 0..Size /\ eof' \in BOOLEAN /\ missed' \in BOOLEAN
           /\ wire' \in Seq(1..Size) /\ Len(wire') <= WireCap /\ Rising(wire')
           /\ (fp' => len >= 0) /\ (pos' > 0 => pos' <= len) /\ pos <= pos'
           /\ \A j \in 1..Len(wire') : /\ wire'[j] <= pos'
                                       /\ \A i \in 1..Len(got) : got[i] < wire'[j]
<1>0. TypeOK /\ Within /\ Follows BY DEF SendInv
<1> DEFINE reads == ph \in {"listening", "connected"} /\ (fp \/ len >= 0)
           n == IF reads /\ ~(sticky /\ eof) THEN Min2(Chunk, len - pos) ELSE 0
           k == IF ph = "connected" THEN Min2(n, WireCap - Len(wire)) ELSE 0
           piece == [i \in 1..k |-> pos + i]
<1>1. /\ fp' = (fp \/ reads) /\ pos' = pos + n /\ eof' = (eof \/ (reads /\ n < Chunk))
      /\ wire' = wire \o piece /\ missed' = (missed \/ k < n)
  BY DEF SendPiece
<1>2. /\ pos \in 0..Size /\ fileLen \in {-1} \cup 0..Size /\ wire \in Seq(1..Size)
      /\ Len(wire) <= WireCap /\ fp \in BOOLEAN /\ eof \in BOOLEAN /\ missed \in BOOLEAN
      /\ got \in Seq(1..Size) /\ Len(wire) \in Nat
  BY <1>0 DEF TypeOK
<1>3. reads => len >= 0 /\ pos <= len BY <1>0, <1>2 DEF Within
<1>4. n \in Nat /\ pos + n <= Size /\ (pos + n > 0 => pos + n <= len)
  <2>1. CASE reads BY <1>0, <1>2, <1>3, <2>1 DEF Min2, Within
  <2>2. CASE ~reads BY <1>0, <1>2, <2>2 DEF Within
  <2> QED BY <2>1, <2>2
<1> HIDE DEF n
<1>5. k \in Nat /\ k <= n /\ Len(wire) + k <= WireCap BY <1>2, <1>4 DEF Min2
<1>6. fp' \in BOOLEAN /\ eof' \in BOOLEAN /\ missed' \in BOOLEAN
  BY <1>1, <1>2
<1>7. fp' => len >= 0 BY <1>0, <1>1, <1>2 DEF Within
<1> HIDE DEF k, reads
<1>8. piece \in Seq(1..Size) /\ Len(piece) = k /\ \A i \in 1..k : piece[i] = pos + i
  <2>1. \A i \in 1..k : pos + i \in 1..Size BY <1>2, <1>4, <1>5
  <2> QED BY <1>5, <2>1
<1> HIDE DEF piece
<1>9. /\ wire' \in Seq(1..Size) /\ Len(wire') = Len(wire) + k
      /\ \A j \in 1..Len(wire') : wire'[j] = IF j <= Len(wire) THEN wire[j]
                                             ELSE pos + (j - Len(wire))
  <2>1. wire' \in Seq(1..Size) /\ Len(wire') = Len(wire) + k BY <1>1, <1>2, <1>8
  <2>2. ASSUME NEW j \in 1..Len(wire')
        PROVE  wire'[j] = IF j <= Len(wire) THEN wire[j] ELSE pos + (j - Len(wire))
    <3>1. CASE j <= Len(wire) BY <1>1, <1>2, <1>8, <2>1, <3>1
    <3>2. CASE ~(j <= Len(wire))
      <4>1. wire'[j] = piece[j - Len(wire)] BY <1>1, <1>2, <1>5, <1>8, <2>1, <3>2
      <4>2. j - Len(wire) \in 1..k BY <1>2, <1>5, <2>1, <3>2
      <4> QED BY <1>8, <3>2, <4>1, <4>2
    <3> QED BY <3>1, <3>2
  <2> QED BY <2>1, <2>2
<1>10. Rising(wire')
  <2> SUFFICES ASSUME NEW i \in 1..Len(wire'), NEW j \in 1..Len(wire'), i < j
               PROVE  wire'[i] < wire'[j]
    BY DEF Rising
  <2>1. /\ wire'[i] = IF i <= Len(wire) THEN wire[i] ELSE pos + (i - Len(wire))
        /\ wire'[j] = IF j <= Len(wire) THEN wire[j] ELSE pos + (j - Len(wire))
    BY <1>9
  <2>2. CASE j <= Len(wire)
    <3>1. i \in 1..Len(wire) /\ j \in 1..Len(wire) BY <1>2, <2>2
    <3> QED BY <1>0, <2>1, <2>2, <3>1 DEF Follows, Rising
  <2>3. CASE ~(j <= Len(wire)) /\ i <= Len(wire)
    <3>1. i \in 1..Len(wire) BY <1>2, <2>3
    <3>2. wire[i] <= pos /\ wire[i] \in 1..Size BY <1>0, <1>2, <3>1 DEF Follows
    <3> QED BY <1>2, <1>9, <2>1, <2>3, <3>2, SMTT(40)
  <2>4. CASE ~(j <= Len(wire)) /\ ~(i <= Len(wire))
    BY <1>2, <1>5, <1>9, <2>1, <2>4
  <2> QED BY <2>2, <2>3, <2>4
<1>11. ASSUME NEW j \in 1..Len(wire')
       PROVE  /\ wire'[j] <= pos' /\ \A i \in 1..Len(got) : got[i] < wire'[j]
  <2>1. wire'[j] = IF j <= Len(wire) THEN wire[j] ELSE pos + (j - Len(wire)) BY <1>9
  <2>2. CASE j <= Len(wire)
    <3>1. j \in 1..Len(wire) BY <1>2, <2>2
    <3>2. wire[j] <= pos /\ wire[j] \in 1..Size /\ \A i \in 1..Len(got) : got[i] < wire[j]
      BY <1>0, <1>2, <3>1 DEF Follows
    <3> QED BY <1>1, <1>2, <1>4, <2>1, <2>2, <3>2
  <2>3. CASE ~(j <= Len(wire))
    <3>1. wire'[j] = pos + (j - Len(wire)) /\ j - Len(wire) \in 1..k
      BY <1>2, <1>5, <1>9, <2>1, <2>3
    <3>2. \A i \in 1..Len(got) : got[i] <= pos /\ got[i] \in 1..Size
      BY <1>0, <1>2 DEF Follows
    <3> QED BY <1>1, <1>2, <1>4, <1>5, <3>1, <3>2, SMTT(40)
  <2> QED BY <2>2, <2>3
<1>12. pos' \in 0..Size /\ (pos' > 0 => pos' <= len) /\ pos <= pos' BY <1>1, <1>2, <1>4
<1>13. Len(wire') <= WireCap BY <1>5, <1>9
<1> QED BY <1>6, <1>7, <1>9, <1>10, <1>11, <1>12, <1>13

(* Halves of acknowledgements.                                             *)
Ack == [n : 1..Size, half : {1, 2}]

(* The fields a step may set as it likes.                                  *)
FreeTypes ==
    /\ phase \in {"opening", "listening", "connected", "broken", "finished"}
    /\ xfer \in {"running", "complete", "cancelled"}
    /\ client \in {"away", "connected", "closed"}
    /\ expired \in BOOLEAN

(* A step that sends nothing, and may close the file.                      *)
LEMMA IdleKeeps ==
    ASSUME SendInv, FreeTypes', UNCHANGED <<pos, eof, missed, wire, got, acks, done, total, sticky>>,
           fp' \in {fp, FALSE}, rxqueue' \in {rxqueue, <<>>},
           fileLen' \in {-1} \cup 0..Size, fileLen' >= fileLen
    PROVE  SendInv'
<1>0. TypeOK /\ Within /\ Follows /\ Honest /\ Whole BY DEF SendInv
<1>1. rxqueue' \in Seq(Ack) /\ Len(rxqueue') <= 1
  <2>1. rxqueue \in Seq(Ack) /\ Len(rxqueue) <= 1 BY <1>0 DEF TypeOK, Ack
  <2>2. <<>> \in Seq(Ack) /\ Len(<<>>) = 0 OBVIOUS
  <2>3. CASE rxqueue' = rxqueue BY <2>1, <2>3, Zenon
  <2>4. CASE rxqueue' = <<>> BY <2>2, <2>4
  <2> QED BY <2>3, <2>4
<1>2. TypeOK' BY <1>0, <1>1 DEF TypeOK, FreeTypes, Ack
<1>3. Within'
  <2>1. fileLen \in Int /\ fileLen' \in Int /\ pos \in Int BY <1>0 DEF TypeOK
  <2>2. fp' => fp BY Zenon
  <2>3. fileLen >= 0 => fileLen' >= 0 BY <2>1
  <2>4. pos' > 0 => pos' <= fileLen' BY <1>0, <2>1 DEF Within
  <2>5. fp' => fileLen' >= 0 BY <1>0, <2>2, <2>3, Zenon DEF Within
  <2> QED BY <2>4, <2>5 DEF Within
<1>4. Follows' BY <1>0 DEF Follows, Rising
<1>5. Honest'
  <2>1. CASE rxqueue' = rxqueue BY <1>0, <2>1 DEF Honest
  <2>2. CASE rxqueue' = <<>> BY <1>0, <2>2 DEF Honest
  <2> QED BY <2>1, <2>2
<1>6. Whole' BY <1>0 DEF Whole
<1> QED BY <1>2, <1>3, <1>4, <1>5, <1>6 DEF SendInv

(* A step that sends a piece of a file that has not become shorter.        *)
LEMMA SentKeeps ==
    ASSUME SendInv, NEW ph, FreeTypes', UNCHANGED <<got, done, total, sticky>>,
           fileLen' \in {-1} \cup 0..Size, fileLen' >= fileLen, SendPiece(ph, fileLen'),
           acks' \in Seq(Ack), rxqueue' \in Seq(Ack), Len(rxqueue') <= 1, Honest'
    PROVE  SendInv'
<1>0. TypeOK /\ Within /\ Follows /\ Whole BY DEF SendInv
<1>1. /\ fp' \in BOOLEAN /\ pos' \in 0..Size /\ eof' \in BOOLEAN /\ missed' \in BOOLEAN
      /\ wire' \in Seq(1..Size) /\ Len(wire') <= WireCap /\ Rising(wire')
      /\ (fp' => fileLen' >= 0) /\ (pos' > 0 => pos' <= fileLen') /\ pos <= pos'
      /\ \A j \in 1..Len(wire') : /\ wire'[j] <= pos'
                                  /\ \A i \in 1..Len(got) : got[i] < wire'[j]
  <2> DEFINE len == fileLen'
  <2>1. len \in {-1} \cup 0..Size /\ len >= fileLen /\ SendPiece(ph, len) OBVIOUS
  <2> HIDE DEF len
  <2>2. /\ fp' \in BOOLEAN /\ pos' \in 0..Size /\ eof' \in BOOLEAN /\ missed' \in BOOLEAN
        /\ wire' \in Seq(1..Size) /\ Len(wire') <= WireCap /\ Rising(wire')
        /\ (fp' => len >= 0) /\ (pos' > 0 => pos' <= len) /\ pos <= pos'
        /\ \A j \in 1..Len(wire') : /\ wire'[j] <= pos'
                                    /\ \A i \in 1..Len(got) : got[i] < wire'[j]
    BY <2>1, PieceSent
  <2> QED BY <2>2 DEF len
<1>2. TypeOK' BY <1>0, <1>1 DEF TypeOK, FreeTypes, Ack
<1>3. Within' BY <1>1 DEF Within
<1>4. Follows'
  <2>1. \A i \in 1..Len(got) : got[i] <= pos' BY <1>0, <1>1, SMTT(40) DEF Follows, TypeOK
  <2>2. Rising(got)' BY <1>0 DEF Follows, Rising
  <2>3. Rising(wire)' BY <1>1 DEF Rising
  <2> QED BY <1>1, <2>1, <2>2, <2>3 DEF Follows
<1>5. Whole' BY <1>0 DEF Whole
<1> QED BY <1>2, <1>3, <1>4, <1>5 DEF SendInv

(* updated(), with the file as long as it is then.                         *)
LEMMA UpdatedKeeps ==
    ASSUME SendInv, xfer' \in {"running", "complete", "cancelled"},
           fileLen' \in {-1} \cup 0..Size, fileLen' >= fileLen, Updated(fileLen'),
           UNCHANGED <<got, acks, client, expired, done, total, sticky>>
    PROVE  SendInv'
<1>0. TypeOK /\ Honest BY DEF SendInv
<1>1. CASE Deinit
  <2>1. FreeTypes' BY <1>0, <1>1 DEF FreeTypes, TypeOK, Deinit
  <2> QED BY <1>1, <2>1, IdleKeeps DEF Deinit
<1>2. CASE SendPiece(phase, fileLen') /\ UNCHANGED <<phase, rxqueue>>
  <2>1. FreeTypes' BY <1>0, <1>2 DEF FreeTypes, TypeOK
  <2>2. Honest' BY <1>0, <1>2 DEF Honest
  <2>3. acks' \in Seq(Ack) /\ rxqueue' \in Seq(Ack) /\ Len(rxqueue') <= 1
    BY <1>0, <1>2 DEF TypeOK, Ack
  <2> QED BY <1>2, <2>1, <2>2, <2>3, SentKeeps
<1> QED BY <1>1, <1>2 DEF Updated

(* The user takes the first unit on the wire and acknowledges it.          *)
LEMMA ReceivesKeeps ==
    ASSUME SendInv, ClientReceives
    PROVE  SendInv'
<1>0. TypeOK /\ Within /\ Follows /\ Honest /\ Whole BY DEF SendInv
<1>1. /\ wire # <<>> /\ got' = Append(got, Head(wire)) /\ wire' = Tail(wire)
      /\ acks' = acks \o Halves(Len(got) + 1)
      /\ UNCHANGED <<phase, xfer, fileLen, fp, pos, eof, missed, rxqueue, client, expired, done,
                  total, sticky>>
  BY DEF ClientReceives, fileVars, rigid
<1>2. /\ wire \in Seq(1..Size) /\ got \in Seq(1..Size) /\ Len(wire) \in Nat /\ Len(wire) > 0
      /\ Len(got) \in Nat
  BY <1>0, <1>1 DEF TypeOK
<1>3. /\ got' \in Seq(1..Size) /\ Len(got') = Len(got) + 1
      /\ \A i \in 1..Len(got') : got'[i] = IF i <= Len(got) THEN got[i] ELSE wire[1]
  <2>1. Head(wire) \in 1..Size /\ Head(wire) = wire[1] BY <1>1, <1>2
  <2>2. got' \in Seq(1..Size) /\ Len(got') = Len(got) + 1 BY <1>1, <1>2, <2>1
  <2>3. ASSUME NEW i \in 1..Len(got')
        PROVE  got'[i] = IF i <= Len(got) THEN got[i] ELSE wire[1]
    BY <1>1, <1>2, <2>1, <2>2, SMTT(40)
  <2> QED BY <2>2, <2>3
<1>4. /\ wire' \in Seq(1..Size) /\ Len(wire') = Len(wire) - 1
      /\ \A i \in 1..Len(wire') : wire'[i] = wire[i + 1]
  <2>1. wire' \in Seq(1..Size) /\ Len(wire') = Len(wire) - 1 BY <1>1, <1>2, SMTT(40)
  <2>2. ASSUME NEW i \in 1..Len(wire') PROVE wire'[i] = wire[i + 1]
    BY <1>1, <1>2, <2>1, SMTT(40)
  <2> QED BY <2>1, <2>2
<1>5. Follows'
  <2>1. Rising(got)'
    <3> SUFFICES ASSUME NEW i \in 1..Len(got'), NEW j \in 1..Len(got'), i < j
                 PROVE  got'[i] < got'[j]
      BY DEF Rising
    <3>1. i \in 1..Len(got) /\ got'[i] = got[i] BY <1>2, <1>3
    <3>2. CASE j <= Len(got)
      <4>1. j \in 1..Len(got) /\ got'[j] = got[j] BY <1>2, <1>3, <3>2
      <4> QED BY <1>0, <3>1, <4>1 DEF Follows, Rising
    <3>3. CASE ~(j <= Len(got))
      <4>1. got'[j] = wire[1] /\ 1 \in 1..Len(wire) BY <1>2, <1>3, <3>3
      <4> QED BY <1>0, <3>1, <4>1 DEF Follows
    <3> QED BY <3>2, <3>3
  <2>2. Rising(wire)'
    <3> SUFFICES ASSUME NEW i \in 1..Len(wire'), NEW j \in 1..Len(wire'), i < j
                 PROVE  wire'[i] < wire'[j]
      BY DEF Rising
    <3>1. wire'[i] = wire[i + 1] /\ wire'[j] = wire[j + 1] BY <1>4
    <3>2. i + 1 \in 1..Len(wire) /\ j + 1 \in 1..Len(wire) /\ i + 1 < j + 1 BY <1>2, <1>4
    <3>3. wire[i + 1] < wire[j + 1] BY <1>0, <3>2 DEF Follows, Rising
    <3> QED BY <3>1, <3>3
  <2>3. ASSUME NEW i \in 1..Len(got') PROVE got'[i] <= pos'
    <3>1. CASE i <= Len(got)
      <4>1. i \in 1..Len(got) /\ got'[i] = got[i] BY <1>2, <1>3, <3>1
      <4> QED BY <1>0, <1>1, <4>1 DEF Follows
    <3>2. CASE ~(i <= Len(got))
      <4>1. got'[i] = wire[1] BY <1>3, <3>2
      <4>2. 1 \in 1..Len(wire) BY <1>2
      <4> QED BY <1>0, <1>1, <4>1, <4>2 DEF Follows
    <3> QED BY <3>1, <3>2
  <2>4. ASSUME NEW j \in 1..Len(wire') PROVE wire'[j] <= pos'
    <3>1. wire'[j] = wire[j + 1] BY <1>4
    <3>2. Len(wire') = Len(wire) - 1 BY <1>4
    <3>3. j + 1 \in 1..Len(wire) BY <1>2, <3>2
    <3> QED BY <1>0, <1>1, <3>1, <3>3 DEF Follows
  <2>5. ASSUME NEW i \in 1..Len(got'), NEW j \in 1..Len(wire') PROVE got'[i] < wire'[j]
    <3>1. j + 1 \in 1..Len(wire) /\ wire'[j] = wire[j + 1] BY <1>2, <1>4
    <3>2. CASE i <= Len(got)
      <4>1. i \in 1..Len(got) /\ got'[i] = got[i] BY <1>2, <1>3, <3>2
      <4> QED BY <1>0, <3>1, <4>1 DEF Follows
    <3>3. CASE ~(i <= Len(got))
      <4>1. got'[i] = wire[1] /\ 1 \in 1..Len(wire) /\ 1 < j + 1 BY <1>2, <1>3, <1>4, <3>3
      <4> QED BY <1>0, <3>1, <4>1 DEF Follows, Rising
    <3> QED BY <3>2, <3>3
  <2> QED BY <2>1, <2>2, <2>3, <2>4, <2>5 DEF Follows
<1>6. Len(got) + 1 \in 1..Size
  <2>1. Rising(got') BY <1>5 DEF Follows, Rising
  <2>2. Len(got') <= Size BY <1>3, <2>1, RisingWhole
  <2> QED BY <1>2, <1>3, <2>2
<1>7. /\ acks' \in Seq(Ack)
      /\ \A k \in 1..Len(acks') : acks'[k].n <= Len(got')
  <2> DEFINE h == Halves(Len(got) + 1)
  <2>1. h \in Seq(Ack) /\ Len(h) = 2 /\ h[1].n = Len(got) + 1 /\ h[2].n = Len(got) + 1
    BY <1>6 DEF Halves, Ack
  <2>2. acks \in Seq(Ack) BY <1>0 DEF TypeOK, Ack
  <2>3. acks' = acks \o h BY <1>1
  <2> HIDE DEF h
  <2>4. acks' \in Seq(Ack) /\ Len(acks') = Len(acks) + 2
    <3>1. acks \o h \in Seq(Ack) /\ Len(acks \o h) = Len(acks) + Len(h)
      BY <2>1, <2>2, ConcatProperties, Zenon
    <3>2. Len(h) = 2 BY <2>1
    <3> QED BY <2>3, <3>1, <3>2, Zenon
  <2>5. ASSUME NEW k \in 1..Len(acks') PROVE acks'[k].n <= Len(got')
    <3>1. CASE k <= Len(acks)
      <4>1. k \in 1..Len(acks) /\ acks'[k] = acks[k] BY <2>1, <2>2, <2>3, <2>4, <3>1
      <4>2. acks[k] \in Ack BY <2>2, <4>1
      <4>3. acks[k].n <= Len(got) BY <1>0, <4>1 DEF Honest
      <4>4. acks[k].n \in 1..Size BY <4>2 DEF Ack
      <4> QED BY <1>2, <1>3, <4>1, <4>3, <4>4
    <3>2. CASE ~(k <= Len(acks))
      <4>1. acks'[k] = h[k - Len(acks)] /\ k - Len(acks) \in {1, 2}
        BY <2>1, <2>2, <2>3, <2>4, <3>2
      <4> QED BY <1>2, <1>3, <2>1, <4>1, SMTT(40)
    <3> QED BY <3>1, <3>2
  <2> QED BY <2>4, <2>5
<1>8. TypeOK' BY <1>0, <1>1, <1>3, <1>4, <1>7 DEF TypeOK, Ack
<1>9. Within' /\ Whole'
  <2>1. Within' BY <1>0, <1>1 DEF Within
  <2>2. Len(got') = Len(got) + 1 BY <1>3
  <2>3. total \in Nat BY <1>0, DccSendAssumption DEF TypeOK
  <2> QED BY <1>0, <1>1, <1>2, <2>1, <2>2, <2>3 DEF Whole
<1>10. Honest'
  <2>1. ASSUME NEW k \in 1..Len(rxqueue') PROVE rxqueue'[k].n <= Len(got')
    <3>1. rxqueue \in Seq(Ack) /\ rxqueue' = rxqueue BY <1>0, <1>1 DEF TypeOK, Ack
    <3>2. rxqueue[k] \in Ack BY <3>1
    <3>3. rxqueue[k].n <= Len(got) BY <1>0, <3>1 DEF Honest
    <3>4. rxqueue[k].n \in 1..Size BY <3>2 DEF Ack
    <3> QED BY <1>2, <1>3, <3>1, <3>3, <3>4, SMTT(40)
  <2> QED BY <1>7, <2>1 DEF Honest
<1> QED BY <1>5, <1>8, <1>9, <1>10 DEF SendInv

(* dcc_read() keeps one half at most, and no better one than it has read.  *)
LEMMA LeftOverIs ==
    ASSUME NEW s \in Seq(Ack), NEW b \in Nat, \A i \in 1..Len(s) : s[i].n <= b
    PROVE  /\ LeftOver(s) \in Seq(Ack) /\ Len(LeftOver(s)) <= 1
           /\ \A i \in 1..Len(LeftOver(s)) : LeftOver(s)[i].n <= b
<1>1. CASE s # <<>> /\ s[Len(s)].half = 1
  <2>1. Len(s) \in 1..Len(s) /\ s[Len(s)] \in Ack /\ s[Len(s)].n <= b BY <1>1
  <2> DEFINE a == s[Len(s)]
  <2>2. LeftOver(s) = <<a>> BY <1>1 DEF LeftOver
  <2>3. a \in Ack /\ a.n <= b BY <2>1
  <2> HIDE DEF a
  <2>4. <<a>> \in Seq(Ack) /\ Len(<<a>>) = 1 /\ <<a>>[1] = a BY <2>3
  <2> QED BY <2>2, <2>3, <2>4
<1>2. CASE ~(s # <<>> /\ s[Len(s)].half = 1)
  <2>1. LeftOver(s) = <<>> BY <1>2 DEF LeftOver
  <2>2. <<>> \in Seq(Ack) /\ Len(<<>>) = 0 OBVIOUS
  <2> QED BY <2>1, <2>2
<1> QED BY <1>1, <1>2

(* dcc_read(): what it takes for acknowledged the user has got.            *)
LEMMA ReadKeeps ==
    ASSUME SendInv, DccRead
    PROVE  SendInv'
<1>0. TypeOK /\ Within /\ Follows /\ Honest /\ Whole BY DEF SendInv
<1>1. acks \in Seq(Ack) /\ rxqueue \in Seq(Ack) /\ Len(got) \in Nat /\ Len(acks) \in Nat
  BY <1>0 DEF TypeOK, Ack
<1>2. PICK k \in 1..Len(acks) :
        LET s == rxqueue \o SubSeq(acks, 1, k)
        IN  /\ acks' = SubSeq(acks, k + 1, Len(acks))
            /\ IF \E n \in Complete(s) : n >= total
               THEN Deinit /\ done' = TRUE
               ELSE /\ rxqueue' = LeftOver(s)
                    /\ SendPiece("connected", fileLen)
                    /\ UNCHANGED <<phase, done>>
  BY DEF DccRead
<1>3. phase = "connected" /\ UNCHANGED <<xfer, fileLen, got, client, expired, total, sticky>> BY DEF DccRead, rigid
<1> DEFINE head == SubSeq(acks, 1, k)
           s == rxqueue \o head
<1>4. k \in Nat /\ 1 <= k /\ k <= Len(acks) BY <1>1, <1>2
<1>5. head \in Seq(Ack) /\ Len(head) = k /\ \A i \in 1..k : head[i] = acks[i]
  <2>1. \A i \in 1..k : acks[i] \in Ack BY <1>1, <1>4
  <2> QED BY <1>1, <1>4, <2>1
<1>6. /\ acks' \in Seq(Ack)
      /\ \A i \in 1..Len(acks') : acks'[i].n <= Len(got)
  <2> DEFINE t == SubSeq(acks, k + 1, Len(acks))
  <2>1. t \in Seq(Ack) /\ Len(t) = Len(acks) - k /\ \A i \in 1..Len(t) : t[i] = acks[k + i]
    <3> DEFINE m == k + 1
               l == Len(acks)
    <3>1. m \in Int /\ l \in Int /\ m <= l + 1 /\ l - m + 1 = l - k BY <1>1, <1>4
    <3>2. \A i \in m..l : acks[i] \in Ack BY <1>1, <1>4
    <3> HIDE DEF m, l
    <3>3. /\ SubSeq(acks, m, l) \in Seq(Ack)
          /\ Len(SubSeq(acks, m, l)) = IF m <= l THEN l - m + 1 ELSE 0
          /\ \A i \in 1..(l - m + 1) : SubSeq(acks, m, l)[i] = acks[m + i - 1]
      BY <3>1, <3>2, SubSeqProperties
    <3>4. t = SubSeq(acks, m, l) BY DEF m, l
    <3> HIDE DEF t
    <3>5. Len(t) = Len(acks) - k BY <1>1, <1>4, <3>1, <3>3, <3>4 DEF l
    <3>6. \A i \in 1..Len(t) : t[i] = acks[k + i] BY <1>1, <1>4, <3>1, <3>3, <3>4, <3>5 DEF m
    <3> QED BY <3>3, <3>4, <3>5, <3>6
  <2>2. acks' = t BY <1>2
  <2> HIDE DEF t
  <2>3. ASSUME NEW i \in 1..Len(t) PROVE t[i].n <= Len(got)
    <3>1. k + i \in 1..Len(acks) /\ t[i] = acks[k + i] BY <1>1, <1>4, <2>1
    <3> QED BY <1>0, <3>1 DEF Honest
  <2> QED BY <2>1, <2>2, <2>3
<1> HIDE DEF head
<1>7. s \in Seq(Ack) /\ \A i \in 1..Len(s) : s[i].n <= Len(got)
  <2>1. s \in Seq(Ack) /\ Len(s) = Len(rxqueue) + Len(head) BY <1>1, <1>5
  <2>2. ASSUME NEW i \in 1..Len(s) PROVE s[i].n <= Len(got)
    <3>1. CASE i <= Len(rxqueue)
      <4>1. i \in 1..Len(rxqueue) /\ s[i] = rxqueue[i] BY <1>1, <1>5, <2>1, <3>1
      <4> QED BY <1>0, <4>1 DEF Honest
    <3>2. CASE ~(i <= Len(rxqueue))
      <4>1. s[i] = head[i - Len(rxqueue)] /\ i - Len(rxqueue) \in 1..k
        BY <1>1, <1>4, <1>5, <2>1, <3>2
      <4>2. s[i] = acks[i - Len(rxqueue)] /\ i - Len(rxqueue) \in 1..Len(acks)
        BY <1>1, <1>4, <1>5, <4>1
      <4> QED BY <1>0, <4>2 DEF Honest
    <3> QED BY <3>1, <3>2
  <2> QED BY <2>1, <2>2
<1>8. \/ (\E n \in Complete(s) : n >= total) /\ Deinit /\ done' = TRUE
      \/ rxqueue' = LeftOver(s) /\ SendPiece("connected", fileLen) /\ UNCHANGED <<phase, done>>
  BY <1>2 DEF head
<1> HIDE DEF s
<1>9. CASE (\E n \in Complete(s) : n >= total) /\ Deinit /\ done' = TRUE
  <2>1. PICK n \in Complete(s) : n >= total BY <1>9
  <2>2. PICK i \in 1..Len(s) : n = s[i].n BY <2>1 DEF Complete
  <2>3. s[i] \in Ack /\ s[i].n <= Len(got) BY <1>7, <2>2
  <2>4. s[i].n \in Nat BY <2>3 DEF Ack
  <2>5. Len(got) >= total
    <3>1. total \in Nat /\ Len(got) \in Nat BY <1>0, DccSendAssumption DEF TypeOK
    <3>2. n \in Nat /\ n <= Len(got) BY <2>2, <2>3, <2>4
    <3> QED BY <2>1, <3>1, <3>2
  <2>6. /\ phase' = "finished" /\ fp' = FALSE /\ rxqueue' = <<>>
        /\ UNCHANGED <<pos, eof, missed, wire>>
    BY <1>9 DEF Deinit
  <2>7. rxqueue' \in Seq(Ack) /\ Len(rxqueue') <= 1 /\ Honest'
    <3>1. <<>> \in Seq(Ack) /\ Len(<<>>) = 0 OBVIOUS
    <3> QED BY <1>3, <1>6, <2>6, <3>1 DEF Honest
  <2>8. TypeOK' BY <1>0, <1>3, <1>6, <1>9, <2>6, <2>7 DEF TypeOK, Ack
  <2>9. Within' /\ Whole' BY <1>0, <1>3, <2>5, <2>6 DEF Within, Whole
  <2>10. Follows' BY <1>0, <1>3, <2>6 DEF Follows, Rising
  <2> QED BY <2>7, <2>8, <2>9, <2>10 DEF SendInv
<1>10. CASE rxqueue' = LeftOver(s) /\ SendPiece("connected", fileLen) /\ UNCHANGED <<phase, done>>
  <2>1. /\ LeftOver(s) \in Seq(Ack) /\ Len(LeftOver(s)) <= 1
        /\ \A i \in 1..Len(LeftOver(s)) : LeftOver(s)[i].n <= Len(got)
    BY <1>1, <1>7, LeftOverIs
  <2>2. Honest' BY <1>3, <1>6, <1>10, <2>1 DEF Honest
  <2>3. FreeTypes' BY <1>0, <1>3, <1>10 DEF FreeTypes, TypeOK
  <2>4. fileLen' \in {-1} \cup 0..Size /\ fileLen' >= fileLen BY <1>0, <1>3 DEF TypeOK
  <2>5. SendPiece("connected", fileLen') BY <1>3, <1>10
  <2>6. rxqueue' \in Seq(Ack) /\ Len(rxqueue') <= 1 BY <1>10, <2>1
  <2> QED BY <1>3, <1>6, <1>10, <2>2, <2>3, <2>4, <2>5, <2>6, SentKeeps
<1> QED BY <1>8, <1>9, <1>10

(* Every step of the transfer keeps the invariant.                         *)
LEMMA SendNext == SendInv /\ [Next]_vars => SendInv'
<1> SUFFICES ASSUME SendInv, [Next]_vars PROVE SendInv' OBVIOUS
<1>0. TypeOK /\ Honest BY DEF SendInv
<1>t. fileLen \in {-1} \cup 0..Size /\ fileLen >= fileLen BY <1>0 DEF TypeOK
<1>1. CASE Listen
  <2>1. FreeTypes' BY <1>0, <1>1 DEF Listen, Deinit, FreeTypes, TypeOK
  <2>2. /\ UNCHANGED <<pos, eof, missed, wire, got, acks, done, fileLen, total, sticky>>
        /\ fp' \in {fp, FALSE} /\ rxqueue' \in {rxqueue, <<>>}
    BY <1>1 DEF Listen, Deinit, fileVars, rigid
  <2> QED BY <1>t, <2>1, <2>2, IdleKeeps
<1>2. CASE Connected
  <2>1. FreeTypes' BY <1>0, <1>2 DEF Connected, FreeTypes, TypeOK
  <2>2. /\ UNCHANGED <<got, done, acks, rxqueue, fileLen, total, sticky>> /\ SendPiece("connected", fileLen')
    BY <1>2 DEF Connected, rigid
  <2>3. acks' \in Seq(Ack) /\ rxqueue' \in Seq(Ack) /\ Len(rxqueue') <= 1 /\ Honest'
    BY <1>0, <2>2 DEF TypeOK, Ack, Honest
  <2> QED BY <1>t, <2>1, <2>2, <2>3, SentKeeps
<1>3. CASE AcceptFails
  <2>1. FreeTypes' BY <1>0, <1>3 DEF AcceptFails, FreeTypes, TypeOK
  <2>2. /\ UNCHANGED <<pos, eof, missed, wire, got, acks, done, fileLen, total, sticky>>
        /\ fp' \in {fp, FALSE} /\ rxqueue' \in {rxqueue, <<>>}
    BY <1>3 DEF AcceptFails, rigid
  <2> QED BY <1>t, <2>1, <2>2, IdleKeeps
<1>4. CASE CreateFile
  <2>1. FreeTypes' BY <1>0, <1>4 DEF CreateFile, FreeTypes, TypeOK
  <2>2. /\ UNCHANGED <<pos, eof, missed, wire, got, acks, done, total, sticky>>
        /\ fp' \in {fp, FALSE} /\ rxqueue' \in {rxqueue, <<>>}
        /\ fileLen' \in {-1} \cup 0..Size /\ fileLen' >= fileLen
    BY <1>0, <1>4 DEF CreateFile, fileVars, TypeOK, rigid
  <2> QED BY <2>1, <2>2, IdleKeeps
<1>5. CASE Progress
  <2>1. PICK len \in fileLen..Size : fileLen' = len /\ Updated(len) BY <1>5 DEF Progress
  <2>2. /\ UNCHANGED <<xfer, got, acks, client, expired, done, total, sticky>> /\ fileLen \in 0..(Size - 1)
    BY <1>5 DEF Progress, rigid
  <2>3. fileLen' \in {-1} \cup 0..Size /\ fileLen' >= fileLen /\ Updated(fileLen')
    BY <2>1, <2>2
  <2>4. xfer' \in {"running", "complete", "cancelled"} BY <1>0, <2>2 DEF TypeOK
  <2> QED BY <2>2, <2>3, <2>4, UpdatedKeeps
<1>6. CASE Destroy
  <2>1. UNCHANGED <<got, acks, client, expired, done, total, sticky>> BY <1>6 DEF Destroy, rigid
  <2>2. CASE xfer' = "complete" /\ fileLen' = Size /\ Updated(Size)
    <3>1. fileLen' \in {-1} \cup 0..Size /\ fileLen' >= fileLen /\ Updated(fileLen')
      BY <1>0, <2>2 DEF TypeOK
    <3>2. xfer' \in {"running", "complete", "cancelled"} BY <2>2
    <3> QED BY <2>1, <3>1, <3>2, UpdatedKeeps
  <2>3. CASE xfer' = "cancelled" /\ UNCHANGED fileLen /\ Updated(fileLen)
    <3>1. fileLen' \in {-1} \cup 0..Size /\ fileLen' >= fileLen /\ Updated(fileLen')
      BY <1>t, <2>3
    <3>2. xfer' \in {"running", "complete", "cancelled"} BY <2>3
    <3> QED BY <2>1, <3>1, <3>2, UpdatedKeeps
  <2> QED BY <1>6, <2>2, <2>3 DEF Destroy
<1>7. CASE ClientReceives BY <1>7, ReceivesKeeps
<1>8. CASE DccRead BY <1>8, ReadKeeps
<1>9. CASE ClientCloses \/ Expire \/ UNCHANGED vars
  <2>1. FreeTypes' BY <1>0, <1>9 DEF ClientCloses, Expire, vars, FreeTypes, TypeOK
  <2>2. /\ UNCHANGED <<pos, eof, missed, wire, got, acks, done, fileLen, total, sticky>>
        /\ fp' \in {fp, FALSE} /\ rxqueue' \in {rxqueue, <<>>}
    BY <1>9 DEF ClientCloses, Expire, vars, fileVars, rigid
  <2> QED BY <1>t, <2>1, <2>2, IdleKeeps
<1>10. CASE ReadEnd
  <2>1. FreeTypes' BY <1>0, <1>10 DEF ReadEnd, FreeTypes, TypeOK
  <2>2. /\ UNCHANGED <<pos, eof, missed, wire, got, acks, done, fileLen, total, sticky>>
        /\ fp' \in {fp, FALSE} /\ rxqueue' \in {rxqueue, <<>>}
    BY <1>10 DEF ReadEnd, rigid
  <2> QED BY <1>t, <2>1, <2>2, IdleKeeps
<1> QED BY <1>1, <1>2, <1>3, <1>4, <1>5, <1>6, <1>7, <1>8, <1>9, <1>10 DEF Next

(* DCCSend: types and the inductive invariant, for every run.              *)
THEOREM SendInvariant == Spec => []SendInv
BY SendInit, SendNext, PTL DEF Spec

(* The units the user has and those on the wire are one rising sequence.   *)
LEMMA InvInOrder == SendInv => InOrder
<1> SUFFICES ASSUME SendInv PROVE InOrder OBVIOUS
<1>0. TypeOK /\ Within /\ Follows /\ Whole BY DEF SendInv
<1>1. /\ got \in Seq(1..Size) /\ wire \in Seq(1..Size) /\ Len(got) \in Nat /\ Len(wire) \in Nat
      /\ pos \in 0..Size /\ fileLen \in {-1} \cup 0..Size
  BY <1>0 DEF TypeOK
<1> DEFINE s == got \o wire
<1>2. /\ Len(s) = Len(got) + Len(wire)
      /\ \A i \in 1..Len(s) : IF i <= Len(got) THEN i \in 1..Len(got) /\ s[i] = got[i]
                              ELSE i - Len(got) \in 1..Len(wire) /\ s[i] = wire[i - Len(got)]
  BY <1>1
<1> HIDE DEF s
<1>3. ASSUME NEW i \in 1..Len(s), NEW j \in 1..Len(s), i < j PROVE s[i] < s[j]
  <2>1. CASE j <= Len(got)
    <3>1. i \in 1..Len(got) /\ j \in 1..Len(got) /\ s[i] = got[i] /\ s[j] = got[j]
      BY <1>1, <1>2, <1>3, <2>1
    <3> QED BY <1>0, <1>3, <3>1 DEF Follows, Rising
  <2>2. CASE ~(j <= Len(got)) /\ i <= Len(got)
    <3>1. /\ i \in 1..Len(got) /\ s[i] = got[i]
          /\ j - Len(got) \in 1..Len(wire) /\ s[j] = wire[j - Len(got)]
      BY <1>2, <2>2
    <3> QED BY <1>0, <3>1 DEF Follows
  <2>3. CASE ~(j <= Len(got)) /\ ~(i <= Len(got))
    <3>1. /\ i - Len(got) \in 1..Len(wire) /\ s[i] = wire[i - Len(got)]
          /\ j - Len(got) \in 1..Len(wire) /\ s[j] = wire[j - Len(got)]
      BY <1>2, <2>3
    <3>2. i - Len(got) < j - Len(got) BY <1>1, <1>2, <1>3
    <3> QED BY <1>0, <3>1, <3>2 DEF Follows, Rising
  <2> QED BY <2>1, <2>2, <2>3
<1>4. ASSUME NEW i \in 1..Len(s) PROVE s[i] <= fileLen
  <2>1. s[i] \in 1..Size /\ s[i] <= pos
    <3>1. CASE i <= Len(got)
      <4>1. i \in 1..Len(got) /\ s[i] = got[i] BY <1>2, <3>1
      <4> QED BY <1>0, <1>1, <4>1 DEF Follows
    <3>2. CASE ~(i <= Len(got))
      <4>1. i - Len(got) \in 1..Len(wire) /\ s[i] = wire[i - Len(got)] BY <1>2, <3>2
      <4> QED BY <1>0, <1>1, <4>1 DEF Follows
    <3> QED BY <3>1, <3>2
  <2> QED BY <1>0, <1>1, <2>1 DEF Within
<1>5. done /\ total # 0 => got = [i \in 1..Size |-> i]
  <2>1. total \in {0, Size} BY <1>0 DEF TypeOK
  <2> QED BY <1>0, <1>1, <2>1, RisingWhole DEF Whole, Follows
<1> QED BY <1>3, <1>4, <1>5 DEF InOrder, s

(* dcc_send(), dcc_read(): for a file of any size, pieces of any size and  *)
(* a connection that takes any number of units, the user gets the units in *)
(* their order, none twice and none that is not written yet, and an        *)
(* acknowledged transfer of known size has delivered them all.             *)
THEOREM InOrderHolds == Spec => []InOrder
BY SendInvariant, InvInOrder, PTL
-----------------------------------------------------------------------------
(***************************************************************************)
(* What DccGet guarantees for any buddies, files, sizes and number of      *)
(* transfers.                                                              *)
(***************************************************************************)
USE DccGetAssumption DEF Nobody

Files == Paths \union {IconPath}

File == [by : Nat, len : Nat, mixed : BOOLEAN]

Get == [watched : BOOLEAN, peer : Nicks \union {Nobody}, to : Nicks \union {Nobody},
        stale : BOOLEAN, path : Files, size : Nat, received : Nat, written : Nat,
        arrived : Nat, closed : BOOLEAN]

GetTypes ==
    /\ nicks \subseteq Nicks /\ dccs \subseteq Gets
    /\ get \in [Gets -> Get]
    /\ disk \in [Files -> File]

(* The file of t was given to libpurple.                                   *)
Handed(t) == \E h \in handed : h[1] = t

(* t writes to its file, or has written it for somebody.                   *)
Held(t) == get[t].watched \/ Handed(t)

(***************************************************************************)
(* A watched transfer is listed, was not handed over, and is for a nick    *)
(* that exists unless its server was removed; one that is over has nobody  *)
(* to call; one that was handed over has all it was announced on the disk. *)
(* What a transfer that shares its name with no other has on the disk is   *)
(* what it has written.                                                    *)
(***************************************************************************)
Listed(t) ==
    /\ get[t].watched => /\ Begun(t) /\ t \in dccs /\ ~Handed(t)
                         /\ get[t].stale \/ (get[t].peer = get[t].to /\ get[t].peer \in nicks)
    /\ ~get[t].watched => get[t].peer = Nobody

CompleteGet(t) ==
    Handed(t) => /\ Begun(t) /\ get[t].received >= get[t].size
                 /\ get[t].written = get[t].received

OnDisk(t) ==
    Held(t) /\ ~Shared(t) =>
        disk[get[t].path] = [by |-> t, len |-> get[t].written, mixed |-> FALSE]

ToWhom ==
    \A h \in handed :
        /\ h[1] \in Gets
        /\ ~get[h[1]].stale => h[2] = get[h[1]].to
        /\ \A k \in handed : k[1] = h[1] => k = h

WholeGet ==
    \A s \in sent :
        /\ s[1] \in Gets /\ Handed(s[1])
        /\ ~Shared(s[1]) => s[2] = [by |-> s[1], len |-> get[s[1]].received, mixed |-> FALSE]

GetInv ==
    /\ GetTypes /\ ToWhom /\ WholeGet
    /\ \A t \in Gets : Listed(t) /\ CompleteGet(t) /\ OnDisk(t)
-----------------------------------------------------------------------------
(* A transfer that was handed over or is watched was begun.                *)
LEMMA HeldBegun ==
    ASSUME GetInv, NEW t \in Gets, Held(t)
    PROVE  Begun(t)
BY DEF GetInv, Listed, CompleteGet, Held

(* Two transfers of one name go on sharing it.                             *)
LEMMA SharedStays ==
    ASSUME NEW t \in Gets, Begun(t), Shared(t),
           \A u \in Gets : Begun(u) => get'[u].to = get[u].to /\ get'[u].path = get[u].path
    PROVE  Shared(t)'
BY DEF Shared, Begun

(* A transfer that is alone on its path meets no other of those that are   *)
(* watched there.                                                          *)
LEMMA AloneOnPath ==
    ASSUME GetInv, NEW t \in Gets, NEW u \in Gets, t # u, get[t].watched,
           get[t].path = get[u].path
    PROVE  Shared(u)
BY DEF GetInv, Listed, Shared

(***************************************************************************)
(* A step that ends transfers, or does nothing to them: it hands nothing   *)
(* over, leaves what was received and written, wakes no transfer up,       *)
(* leaves those that go on listed with a nick to call, and the files of    *)
(* those that are held.                                                    *)
(***************************************************************************)
Quiet ==
    /\ handed' = handed
    /\ \A u \in Gets :
        /\ get'[u].to = get[u].to /\ get'[u].path = get[u].path
        /\ get'[u].size = get[u].size /\ get'[u].received = get[u].received
        /\ get'[u].written = get[u].written
        /\ ~get[u].watched => ~get'[u].watched /\ get'[u].stale = get[u].stale
        /\ ~get'[u].watched => get'[u].peer = Nobody
        /\ get'[u].watched =>
             /\ u \in dccs'
             /\ get'[u].stale \/ (get'[u].peer = get[u].to /\ get'[u].peer \in nicks')
        /\ (get'[u].watched \/ Handed(u)) /\ ~Shared(u) =>
             disk'[get[u].path] = disk[get[u].path]

(* Such a step keeps all that is known of transfers.                       *)
LEMMA QuietKeeps ==
    ASSUME GetInv, GetTypes', Quiet
    PROVE  /\ ToWhom' /\ \A t \in Gets : Listed(t)' /\ CompleteGet(t)' /\ OnDisk(t)'
           /\ \A t \in Gets : Handed(t)' = Handed(t) /\ (Begun(t) /\ Shared(t) => Shared(t)')
<1>1. \A t \in Gets : Handed(t)' = Handed(t)
  BY DEF Quiet, Handed
<1>2. ASSUME NEW t \in Gets, Begun(t), Shared(t) PROVE Shared(t)'
  BY <1>2, SharedStays DEF Quiet
<1>3. ToWhom'
  <2> SUFFICES ASSUME NEW h \in handed
               PROVE  /\ h[1] \in Gets
                      /\ ~get'[h[1]].stale => h[2] = get'[h[1]].to
                      /\ \A k \in handed : k[1] = h[1] => k = h
    BY DEF ToWhom, Quiet
  <2>1. h[1] \in Gets /\ Handed(h[1]) BY DEF GetInv, ToWhom, Handed
  <2>2. ~get[h[1]].watched
    BY <2>1 DEF GetInv, Listed
  <2> QED BY <2>1, <2>2 DEF GetInv, ToWhom, Quiet
<1>4. ASSUME NEW t \in Gets PROVE Listed(t)'
  BY <1>1 DEF Listed, GetInv, Quiet, GetTypes, Get, Begun
<1>5. ASSUME NEW t \in Gets PROVE CompleteGet(t)'
  BY <1>1 DEF CompleteGet, GetInv, Quiet, Begun
<1>6. ASSUME NEW t \in Gets PROVE OnDisk(t)'
  <2> SUFFICES ASSUME Held(t)', ~Shared(t)'
               PROVE  disk'[get'[t].path] = [by |-> t, len |-> get'[t].written, mixed |-> FALSE]
    BY DEF OnDisk
  <2>1. Held(t) /\ (get'[t].watched \/ Handed(t))
    BY <1>1 DEF Held, Quiet, GetTypes, GetInv, Get
  <2>2. ~Shared(t) BY <1>2, <2>1, HeldBegun
  <2> QED BY <2>1, <2>2 DEF GetInv, OnDisk, Quiet
<1> QED BY <1>1, <1>2, <1>3, <1>4, <1>5, <1>6

(* What libpurple has read stays what it read.                             *)
LEMMA SentStays ==
    ASSUME GetInv, NEW s \in sent,
           \A u \in Gets : Handed(u) => Handed(u)',
           \A u \in Gets : Begun(u) => /\ get'[u].to = get[u].to
                                       /\ get'[u].path = get[u].path,
           \A u \in Gets : Handed(u) => get'[u].received = get[u].received
    PROVE  /\ s[1] \in Gets /\ Handed(s[1])'
           /\ ~Shared(s[1])' =>
                s[2] = [by |-> s[1], len |-> get'[s[1]].received, mixed |-> FALSE]
<1>1. s[1] \in Gets /\ Handed(s[1])
  BY DEF GetInv, WholeGet
<1>2. Begun(s[1]) BY <1>1 DEF GetInv, CompleteGet
<1>3. Shared(s[1]) => Shared(s[1])'
  BY <1>1, <1>2, SharedStays
<1> QED BY <1>1, <1>3 DEF GetInv, WholeGet

(* A quiet step in which libpurple reads nothing.                          *)
LEMMA QuietStep ==
    ASSUME GetInv, GetTypes', Quiet, sent' = sent
    PROVE  GetInv'
<1>1. /\ ToWhom' /\ (\A t \in Gets : Listed(t)' /\ CompleteGet(t)' /\ OnDisk(t)')
      /\ \A t \in Gets : Handed(t)' = Handed(t)
  BY QuietKeeps
<1>2. WholeGet'
  <2> SUFFICES ASSUME NEW s \in sent
               PROVE  /\ s[1] \in Gets /\ Handed(s[1])'
                      /\ ~Shared(s[1])' =>
                           s[2] = [by |-> s[1], len |-> get'[s[1]].received, mixed |-> FALSE]
    BY DEF WholeGet
  <2> QED BY <1>1, SentStays DEF Quiet
<1> QED BY <1>1, <1>2 DEF GetInv

(* fclose() of watched transfers leaves the file of one that is alone on   *)
(* its path and not among them.                                            *)
LEMMA ClosedKeeps ==
    ASSUME GetInv, NEW T \in SUBSET Gets, \A t \in T : get[t].watched
    PROVE  /\ Closed(T) \in [Files -> File]
           /\ \A u \in Gets \ T : ~Shared(u) => Closed(T)[get[u].path] = disk[get[u].path]
<1>1. disk \in [Files -> File] /\ DOMAIN disk = Files
  BY DEF GetInv, GetTypes
<1> DEFINE W(p) == {t \in T : get[t].path = p /\ get[t].received # get[t].written}
           new(p) == IF W(p) = {} THEN disk[p]
                     ELSE IF W(p) = {disk[p].by}
                     THEN [disk[p] EXCEPT !.len = get[disk[p].by].received]
                     ELSE [disk[p] EXCEPT !.mixed = TRUE]
<1>2. Closed(T) = [p \in Files |-> new(p)]
  BY <1>1 DEF Closed
<1>3. ASSUME NEW p \in Files PROVE new(p) \in File
  <2>1. disk[p] \in File BY <1>1
  <2>2. CASE W(p) = {disk[p].by}
    <3>1. disk[p].by \in Gets BY <2>2
    <3>2. get[disk[p].by].received \in Nat
      BY <3>1 DEF GetInv, GetTypes, Get
    <3> QED BY <2>1, <3>2 DEF File
  <2> QED BY <2>1, <2>2 DEF File
<1>4. ASSUME NEW u \in Gets \ T, ~Shared(u) PROVE new(get[u].path) = disk[get[u].path]
  <2>1. W(get[u].path) = {}
    BY <1>4, AloneOnPath
  <2> QED BY <2>1
<1>5. \A u \in Gets : get[u].path \in Files
  BY DEF GetInv, GetTypes, Get
<1> HIDE DEF new
<1> QED BY <1>2, <1>3, <1>4, <1>5

(* A step of one transfer, which touches the file of its own path only,    *)
(* keeps what is known of the others.                                      *)
LEMMA OthersStay ==
    ASSUME GetInv, GetTypes', NEW t \in Gets, nicks' = nicks,
           \A u \in Gets \ {t} : /\ get'[u] = get[u] /\ Handed(u)' = Handed(u)
                                 /\ get[u].watched => u \in dccs',
           \A p \in Files : p # get'[t].path => disk'[p] = disk[p],
           Begun(t)', Begun(t) => get'[t].to = get[t].to /\ get'[t].path = get[t].path
    PROVE  \A u \in Gets \ {t} : Listed(u)' /\ CompleteGet(u)' /\ OnDisk(u)'
<1> SUFFICES ASSUME NEW u \in Gets \ {t} PROVE Listed(u)' /\ CompleteGet(u)' /\ OnDisk(u)'
  OBVIOUS
<1>1. get'[u] = get[u] /\ Handed(u)' = Handed(u) OBVIOUS
<1>2. Listed(u)' /\ CompleteGet(u)'
  BY <1>1 DEF GetInv, Listed, CompleteGet, Begun
<1>3. OnDisk(u)'
  <2> SUFFICES ASSUME Held(u)', ~Shared(u)'
               PROVE  disk'[get[u].path] = [by |-> u, len |-> get[u].written, mixed |-> FALSE]
    BY <1>1 DEF OnDisk
  <2>1. Held(u) BY <1>1 DEF Held
  <2>2. Begun(u) BY <2>1, HeldBegun
  <2>3. ~Shared(u)
    <3>1. \A v \in Gets : Begun(v) => get'[v].to = get[v].to /\ get'[v].path = get[v].path
      OBVIOUS
    <3> QED BY <2>2, <3>1, SharedStays
  <2>4. get'[t].path # get[u].path
    BY <1>1 DEF Shared
  <2>5. get[u].path \in Files BY DEF GetInv, GetTypes, Get
  <2> QED BY <2>1, <2>3, <2>4, <2>5 DEF GetInv, OnDisk
<1> QED BY <1>2, <1>3

(* IRC::createDCCGet(): a new transfer, its file made anew.                *)
LEMMA CreateStep ==
    ASSUME GetInv, NEW t \in Gets, NEW n \in Nicks, NEW p \in Files, NEW size \in Nat,
           CreateDCCGet(t, n, p, size)
    PROVE  GetInv'
<1>1. PICK ok \in BOOLEAN :
          /\ get' = [get EXCEPT ![t] =
                [NoGet EXCEPT !.watched = ok, !.peer = IF ok THEN n ELSE Nobody,
                              !.to = n, !.path = p, !.size = size]]
          /\ dccs' = IF ok THEN dccs \union {t} ELSE dccs
  BY DEF CreateDCCGet
<1>2. /\ disk' = [disk EXCEPT ![p] = [by |-> t, len |-> 0, mixed |-> FALSE]]
      /\ UNCHANGED <<nicks, handed, sent>> /\ ~Begun(t) /\ n \in nicks
  BY DEF CreateDCCGet, New
<1> DEFINE who == IF ok THEN n ELSE Nobody
           g == [NoGet EXCEPT !.watched = ok, !.peer = who, !.to = n, !.path = p,
                              !.size = size]
<1>3. get' = [get EXCEPT ![t] = g]
  BY <1>1
<1>4. /\ g \in Get /\ g.watched = ok /\ g.peer = who /\ g.to = n /\ g.path = p
      /\ g.written = 0 /\ g.stale = FALSE
  <2>1. NoGet \in Get /\ NoGet.written = 0 /\ NoGet.stale = FALSE
    BY DEF NoGet, Get, Files
  <2> QED BY <2>1 DEF Get
<1>5. get \in [Gets -> Get] /\ disk \in [Files -> File] /\ t \in Nat
  BY DEF GetInv, GetTypes, Gets
<1> HIDE DEF g
<1>6. [by |-> t, len |-> 0, mixed |-> FALSE] \in File
  BY <1>5 DEF File
<1>7. GetTypes'
  <2>1. get' \in [Gets -> Get] BY <1>3, <1>4, <1>5
  <2>2. disk' \in [Files -> File] BY <1>2, <1>5, <1>6
  <2> QED BY <1>1, <1>2, <2>1, <2>2 DEF GetInv, GetTypes
<1>8. /\ get'[t] = g /\ (\A u \in Gets \ {t} : get'[u] = get[u])
      /\ disk'[p] = [by |-> t, len |-> 0, mixed |-> FALSE]
      /\ \A f \in Files : f # p => disk'[f] = disk[f]
  BY <1>2, <1>3, <1>5
<1>9. \A u \in Gets : Handed(u)' = Handed(u)
  BY <1>2 DEF Handed
<1>10. ~Handed(t)
  BY <1>2 DEF GetInv, CompleteGet
<1>11. /\ Begun(t)' /\ get'[t].path = p /\ get'[t].written = 0 /\ get'[t].stale = FALSE
       /\ get'[t].watched = ok /\ get'[t].to = n /\ get'[t].peer = IF ok THEN n ELSE Nobody
  BY <1>4, <1>8 DEF Begun, Nicks
<1>12. \A u \in Gets \ {t} : get[u].watched => u \in dccs'
  BY <1>1 DEF GetInv, Listed
<1>13. \A u \in Gets \ {t} : Listed(u)' /\ CompleteGet(u)' /\ OnDisk(u)'
  BY <1>2, <1>7, <1>8, <1>9, <1>11, <1>12, OthersStay
<1>14. Listed(t)' /\ CompleteGet(t)' /\ OnDisk(t)'
  <2>1. ~Handed(t)' BY <1>9, <1>10
  <2>2. Listed(t)'
    BY <1>1, <1>2, <1>11, <2>1 DEF Listed
  <2>3. OnDisk(t)' BY <1>8, <1>11 DEF OnDisk
  <2> QED BY <2>1, <2>2, <2>3 DEF CompleteGet
<1>15. ToWhom'
  <2>1. \A h \in handed : h[1] \in Gets \ {t}
    BY <1>10 DEF GetInv, ToWhom, Handed
  <2> QED BY <1>2, <1>8, <2>1 DEF GetInv, ToWhom
<1>16. WholeGet'
  <2> SUFFICES ASSUME NEW s \in sent
               PROVE  /\ s[1] \in Gets /\ Handed(s[1])'
                      /\ ~Shared(s[1])' =>
                           s[2] = [by |-> s[1], len |-> get'[s[1]].received, mixed |-> FALSE]
    BY <1>2 DEF WholeGet
  <2>1. \A u \in Gets : Begun(u) => get'[u].to = get[u].to /\ get'[u].path = get[u].path
    BY <1>2, <1>8
  <2>2. \A u \in Gets : Handed(u) => get'[u].received = get[u].received
    BY <1>8, <1>10
  <2> QED BY <1>9, <2>1, <2>2, SentStays
<1> QED BY <1>7, <1>13, <1>14, <1>15, <1>16 DEF GetInv

(* The client's side of a transfer.                                        *)
LEMMA ClientSideStep ==
    ASSUME GetInv, NEW t \in Gets, ClientSends(t) \/ ClientStops(t)
    PROVE  GetInv'
<1>1. get \in [Gets -> Get] BY DEF GetInv, GetTypes
<1>2. UNCHANGED <<nicks, dccs, disk, handed, sent>>
  BY DEF ClientSends, ClientStops
<1>3. PICK a \in Nat, c \in BOOLEAN :
          get' = [get EXCEPT ![t] = [get[t] EXCEPT !.arrived = a, !.closed = c]]
  <2>1. get[t] \in Get BY <1>1
  <2>2. CASE ClientSends(t)
    <3>1. get' = [get EXCEPT ![t] = [get[t] EXCEPT !.arrived = get[t].arrived + 1,
                                                   !.closed = get[t].closed]]
      BY <1>1, <2>1, <2>2 DEF ClientSends, Get
    <3>2. get[t].arrived + 1 \in Nat /\ get[t].closed \in BOOLEAN BY <2>1 DEF Get
    <3> QED BY <3>1, <3>2
  <2>3. CASE ClientStops(t)
    <3>1. get' = [get EXCEPT ![t] = [get[t] EXCEPT !.arrived = get[t].arrived,
                                                   !.closed = TRUE]]
      BY <1>1, <2>1, <2>3 DEF ClientStops, Get
    <3>2. get[t].arrived \in Nat BY <2>1 DEF Get
    <3> QED BY <3>1, <3>2
  <2> QED BY <2>2, <2>3
<1> DEFINE g == [get[t] EXCEPT !.arrived = a, !.closed = c]
<1>4. /\ g \in Get /\ g.watched = get[t].watched /\ g.peer = get[t].peer /\ g.to = get[t].to
      /\ g.stale = get[t].stale /\ g.path = get[t].path /\ g.size = get[t].size
      /\ g.received = get[t].received /\ g.written = get[t].written
  <2>1. get[t] \in Get BY <1>1
  <2> QED BY <2>1 DEF Get
<1>5. get' = [get EXCEPT ![t] = g] BY <1>3
<1> HIDE DEF g
<1>6. GetTypes'
  <2>1. get' \in [Gets -> Get] BY <1>1, <1>4, <1>5
  <2> QED BY <1>2, <2>1 DEF GetInv, GetTypes
<1>7. \A u \in Gets : get'[u] = IF u = t THEN g ELSE get[u]
  BY <1>1, <1>5
<1>8. Quiet
  BY <1>2, <1>4, <1>7 DEF Quiet, GetInv, Listed
<1> QED BY <1>2, <1>6, <1>8, QuietStep

(* A step that ends the transfers S: those that go on keep their nick.     *)
LEMMA EndStep ==
    ASSUME GetInv, NEW S \in SUBSET Gets, NEW T \in SUBSET S,
           \A t \in T : get[t].watched,
           get' = [t \in Gets |-> IF t \in S THEN DeinitGet(get[t]) ELSE get[t]],
           disk' = disk \/ disk' = Closed(T), UNCHANGED <<handed, sent>>,
           nicks' \subseteq Nicks, dccs' \subseteq Gets,
           \A t \in Gets \ S : get[t].watched =>
               t \in dccs' /\ (get[t].stale \/ get[t].peer \in nicks')
    PROVE  GetInv'
<1>1. get \in [Gets -> Get] BY DEF GetInv, GetTypes
<1>2. ASSUME NEW t \in Gets
      PROVE  /\ DeinitGet(get[t]) \in Get /\ DeinitGet(get[t]).watched = FALSE
             /\ DeinitGet(get[t]).peer = Nobody /\ DeinitGet(get[t]).to = get[t].to
             /\ DeinitGet(get[t]).stale = get[t].stale /\ DeinitGet(get[t]).path = get[t].path
             /\ DeinitGet(get[t]).size = get[t].size
             /\ DeinitGet(get[t]).received = get[t].received
             /\ DeinitGet(get[t]).written = get[t].written
  <2>1. get[t] \in Get BY <1>1
  <2> QED BY <2>1 DEF Get, DeinitGet
<1>3. /\ Closed(T) \in [Files -> File]
      /\ \A u \in Gets \ T : ~Shared(u) => Closed(T)[get[u].path] = disk[get[u].path]
  BY ClosedKeeps
<1>4. GetTypes'
  <2>1. get' \in [Gets -> Get] BY <1>1, <1>2
  <2>2. disk' \in [Files -> File] BY <1>3 DEF GetInv, GetTypes
  <2> QED BY <2>1, <2>2 DEF GetTypes
<1>5. \A u \in Gets : get'[u] = IF u \in S THEN DeinitGet(get[u]) ELSE get[u]
  OBVIOUS
<1>6. \A u \in Gets : get'[u].watched \/ Handed(u) => u \notin T
  BY <1>2, <1>5 DEF GetInv, Listed
<1>7. Quiet
  <2> SUFFICES ASSUME NEW u \in Gets
               PROVE  /\ get'[u].to = get[u].to /\ get'[u].path = get[u].path
                      /\ get'[u].size = get[u].size /\ get'[u].received = get[u].received
                      /\ get'[u].written = get[u].written
                      /\ ~get[u].watched => ~get'[u].watched /\ get'[u].stale = get[u].stale
                      /\ ~get'[u].watched => get'[u].peer = Nobody
                      /\ get'[u].watched =>
                           /\ u \in dccs'
                           /\ get'[u].stale \/ (get'[u].peer = get[u].to /\ get'[u].peer \in nicks')
                      /\ (get'[u].watched \/ Handed(u)) /\ ~Shared(u) =>
                           disk'[get[u].path] = disk[get[u].path]
    BY DEF Quiet
  <2>1. (get'[u].watched \/ Handed(u)) /\ ~Shared(u) => disk'[get[u].path] = disk[get[u].path]
    BY <1>3, <1>6
  <2>2. CASE u \in S
    BY <1>2, <1>5, <2>1, <2>2 DEF GetInv, Listed
  <2>3. CASE u \notin S
    BY <1>5, <2>1, <2>3 DEF GetInv, Listed
  <2> QED BY <2>2, <2>3
<1> QED BY <1>4, <1>7, QuietStep

(* What fflush() makes of the file of t.                                   *)
LEMMA FlushedFile ==
    ASSUME GetInv, NEW t \in Gets, get[t].watched, NEW n \in Nat
    PROVE  /\ Flushed(t, n) \in [Files -> File]
           /\ \A p \in Files : p # get[t].path => Flushed(t, n)[p] = disk[p]
           /\ ~Shared(t) =>
                Flushed(t, n)[get[t].path] = [by |-> t, len |-> n, mixed |-> FALSE]
<1> DEFINE p == get[t].path
           new == IF disk[p].by = t THEN [disk[p] EXCEPT !.len = n]
                  ELSE [disk[p] EXCEPT !.mixed = TRUE]
<1>1. disk \in [Files -> File] /\ p \in Files /\ disk[p] \in File
  BY DEF GetInv, GetTypes, Get
<1>2. Flushed(t, n) = IF n = get[t].written THEN disk ELSE [disk EXCEPT ![p] = new]
  BY DEF Flushed
<1>3. new \in File BY <1>1 DEF File
<1>4. ~Shared(t) => disk[p] = [by |-> t, len |-> get[t].written, mixed |-> FALSE]
  BY DEF GetInv, OnDisk, Held
<1>5. ASSUME ~Shared(t) PROVE new = [by |-> t, len |-> n, mixed |-> FALSE]
  <2>1. disk[p].by = t /\ disk[p].mixed = FALSE
    BY <1>4, <1>5
  <2>2. new = [disk[p] EXCEPT !.len = n] BY <2>1
  <2> QED BY <1>1, <2>1, <2>2 DEF File
<1> HIDE DEF p, new
<1>6. /\ Flushed(t, n) \in [Files -> File]
      /\ \A q \in Files : q # p => Flushed(t, n)[q] = disk[q]
  BY <1>1, <1>2, <1>3
<1>7. Flushed(t, n)[p] = IF n = get[t].written THEN disk[p] ELSE new
  BY <1>1, <1>2
<1> QED BY <1>4, <1>5, <1>6, <1>7 DEF p

(* A piece more, of which the disk gets all or what it had.                *)
LEMMA PieceStep ==
    ASSUME GetInv, NEW t \in Gets, get[t].watched, NEW n \in {1, 2}, n <= get[t].arrived,
           PieceRead(t, n)
    PROVE  GetInv'
<1>1. get \in [Gets -> Get] /\ get[t] \in Get BY DEF GetInv, GetTypes
<1>2. PICK w \in {get[t].written, get[t].received + n} :
          /\ disk' = Flushed(t, w)
          /\ get' = [get EXCEPT ![t] = Got(get[t], n, w)]
  BY DEF PieceRead
<1>3. UNCHANGED <<nicks, dccs, handed, sent>> BY DEF PieceRead
<1>4. w \in Nat /\ get[t].received + n \in Nat /\ get[t].arrived - n \in Nat
  BY <1>1 DEF Get
<1> DEFINE g == Got(get[t], n, w)
<1>5. get' = [get EXCEPT ![t] = g]
  BY <1>2
<1>6. /\ g \in Get /\ g.watched = get[t].watched /\ g.peer = get[t].peer /\ g.to = get[t].to
      /\ g.stale = get[t].stale /\ g.path = get[t].path /\ g.written = w
  BY <1>1, <1>4 DEF Get, Got
<1> HIDE DEF g
<1>7. /\ disk' \in [Files -> File]
      /\ \A p \in Files : p # get[t].path => disk'[p] = disk[p]
      /\ ~Shared(t) => disk'[get[t].path] = [by |-> t, len |-> w, mixed |-> FALSE]
  BY <1>2, <1>4, FlushedFile
<1>8. get'[t] = g /\ \A u \in Gets \ {t} : get'[u] = get[u]
  BY <1>1, <1>5
<1>9. GetTypes'
  <2>1. get' \in [Gets -> Get] BY <1>1, <1>5, <1>6
  <2> QED BY <1>3, <1>7, <2>1 DEF GetInv, GetTypes
<1>10. \A u \in Gets : Handed(u)' = Handed(u)
  BY <1>3 DEF Handed
<1>11. Begun(t) /\ Begun(t)' /\ ~Handed(t) /\ t \in dccs
  BY <1>6, <1>8 DEF GetInv, Listed, Begun
<1>12. \A u \in Gets : Begun(u) => get'[u].to = get[u].to /\ get'[u].path = get[u].path
  BY <1>6, <1>8
<1>13. \A u \in Gets \ {t} : Listed(u)' /\ CompleteGet(u)' /\ OnDisk(u)'
  <2>1. \A u \in Gets \ {t} : get[u].watched => u \in dccs'
    BY <1>3 DEF GetInv, Listed
  <2> QED BY <1>3, <1>6, <1>7, <1>8, <1>9, <1>10, <1>11, <2>1, OthersStay
<1>14. Listed(t)' /\ CompleteGet(t)' /\ OnDisk(t)'
  <2>1. ~Handed(t)' BY <1>10, <1>11
  <2>2. Listed(t)'
    BY <1>3, <1>6, <1>8, <1>11, <2>1 DEF GetInv, Listed
  <2>3. OnDisk(t)'
    BY <1>6, <1>7, <1>8, <1>11, <1>12, SharedStays DEF OnDisk
  <2> QED BY <2>1, <2>2, <2>3 DEF CompleteGet
<1>15. ToWhom'
  <2>1. \A h \in handed : h[1] \in Gets \ {t}
    BY <1>11 DEF GetInv, ToWhom, Handed
  <2> QED BY <1>3, <1>8, <2>1 DEF GetInv, ToWhom
<1>16. WholeGet'
  <2> SUFFICES ASSUME NEW s \in sent
               PROVE  /\ s[1] \in Gets /\ Handed(s[1])'
                      /\ ~Shared(s[1])' =>
                           s[2] = [by |-> s[1], len |-> get'[s[1]].received, mixed |-> FALSE]
    BY <1>3 DEF WholeGet
  <2>1. \A u \in Gets : Handed(u) => get'[u].received = get[u].received
    BY <1>8, <1>11
  <2> QED BY <1>10, <1>12, <2>1, SentStays
<1> QED BY <1>9, <1>13, <1>14, <1>15, <1>16 DEF GetInv

(* The read that completes a file: it is flushed, then handed over, then   *)
(* the transfer ends.                                                      *)
LEMMA LastStep ==
    ASSUME GetInv, NEW t \in Gets, get[t].watched, NEW n \in {1, 2}, n <= get[t].arrived,
           LastRead(t, n)
    PROVE  GetInv'
<1> DEFINE r == get[t].received + n
           g == DeinitGet(Got(get[t], n, r))
<1>1. get \in [Gets -> Get] /\ get[t] \in Get BY DEF GetInv, GetTypes
<1>2. /\ r >= get[t].size /\ disk' = Flushed(t, r) /\ get' = [get EXCEPT ![t] = g]
      /\ UNCHANGED nicks /\ RunCallback(t)
  BY DEF LastRead
<1>3. PICK to : /\ to \in IF get[t].stale THEN Nicks \union {Nobody} ELSE {get[t].peer}
                /\ handed' = handed \union {<<t, to>>}
  BY <1>2 DEF RunCallback
<1>4. dccs' \in {dccs, Purged} BY <1>2 DEF RunCallback
<1>5. r \in Nat /\ get[t].arrived - n \in Nat
  BY <1>1 DEF Get
<1>6. /\ g \in Get /\ g.watched = FALSE /\ g.peer = Nobody /\ g.to = get[t].to
      /\ g.stale = get[t].stale /\ g.path = get[t].path /\ g.written = r /\ g.received = r
      /\ g.size = get[t].size
  BY <1>1, <1>5 DEF Get, DeinitGet, Got
<1>7. /\ disk' \in [Files -> File]
      /\ \A p \in Files : p # get[t].path => disk'[p] = disk[p]
      /\ ~Shared(t) => disk'[get[t].path] = [by |-> t, len |-> r, mixed |-> FALSE]
  BY <1>2, <1>5, FlushedFile
<1> HIDE DEF g, r
<1>8. get'[t] = g /\ \A u \in Gets \ {t} : get'[u] = get[u]
  BY <1>1, <1>2
<1>9. GetTypes'
  <2>1. get' \in [Gets -> Get] BY <1>1, <1>2, <1>6
  <2> QED BY <1>2, <1>4, <1>7, <2>1 DEF GetInv, GetTypes, Purged
<1>10. Handed(t)' /\ \A u \in Gets : (Handed(u) => Handed(u)') /\ (u # t => Handed(u)' = Handed(u))
  <2>1. <<t, to>>[1] = t OBVIOUS
  <2> QED BY <1>3, <2>1 DEF Handed
<1>11. /\ Begun(t) /\ Begun(t)' /\ ~Handed(t)
       /\ ~get[t].stale => to = get[t].to
  BY <1>3, <1>6, <1>8 DEF GetInv, Listed, Begun
<1>12. \A u \in Gets : Begun(u) => get'[u].to = get[u].to /\ get'[u].path = get[u].path
  BY <1>6, <1>8
<1>13. \A u \in Gets \ {t} : Listed(u)' /\ CompleteGet(u)' /\ OnDisk(u)'
  <2>1. \A u \in Gets \ {t} : get[u].watched => u \in dccs'
    BY <1>4 DEF GetInv, Listed, Purged, Finished
  <2> QED BY <1>2, <1>6, <1>7, <1>8, <1>9, <1>10, <1>11, <2>1, OthersStay
<1>14. ~Shared(t)' => ~Shared(t)
  BY <1>11, <1>12, SharedStays
<1>15. Listed(t)' /\ CompleteGet(t)' /\ OnDisk(t)'
  <2>1. Listed(t)'
    BY <1>6, <1>8 DEF Listed
  <2>2. CompleteGet(t)'
    BY <1>2, <1>6, <1>8, <1>11 DEF CompleteGet
  <2>3. OnDisk(t)'
    BY <1>6, <1>7, <1>8, <1>14 DEF OnDisk
  <2> QED BY <2>1, <2>2, <2>3
<1>16. ToWhom'
  <2>1. \A h \in handed : h[1] \in Gets \ {t}
    BY <1>11 DEF GetInv, ToWhom, Handed
  <2>2. ASSUME NEW h \in handed'
        PROVE  /\ h[1] \in Gets
               /\ ~get'[h[1]].stale => h[2] = get'[h[1]].to
               /\ \A k \in handed' : k[1] = h[1] => k = h
    <3>1. CASE h \in handed
      BY <1>3, <1>8, <2>1, <3>1 DEF GetInv, ToWhom
    <3>2. CASE h = <<t, to>>
      BY <1>3, <1>6, <1>8, <1>11, <2>1, <3>2
    <3> QED BY <1>3, <2>2, <3>1, <3>2
  <2> QED BY <2>2 DEF ToWhom
<1>17. WholeGet'
  <2>1. sent' \subseteq sent \union {<<t, disk'[get[t].path]>>}
    BY <1>2 DEF RunCallback, SetBuddyIcon
  <2>2. ASSUME NEW s \in sent'
        PROVE  /\ s[1] \in Gets /\ Handed(s[1])'
               /\ ~Shared(s[1])' =>
                    s[2] = [by |-> s[1], len |-> get'[s[1]].received, mixed |-> FALSE]
    <3>1. CASE s \in sent
      <4>1. \A u \in Gets : Handed(u) => get'[u].received = get[u].received
        BY <1>8, <1>11
      <4> QED BY <1>10, <1>12, <3>1, <4>1, SentStays
    <3>2. CASE s = <<t, disk'[get[t].path]>>
      BY <1>6, <1>7, <1>8, <1>10, <1>14, <3>2
    <3> QED BY <2>1, <2>2, <3>1, <3>2
  <2> QED BY <2>2 DEF WholeGet
<1> QED BY <1>9, <1>13, <1>15, <1>16, <1>17 DEF GetInv

(* libpurple reads a file it was given.                                    *)
LEMMA PurpleStep ==
    ASSUME GetInv, NEW t \in Gets, PurpleReads(t)
    PROVE  GetInv'
<1>1. /\ UNCHANGED <<nicks, get, dccs, disk, handed>> /\ Handed(t)
      /\ sent' = sent \union {<<t, disk[get[t].path]>>}
  BY DEF PurpleReads, Handed
<1>2. /\ GetTypes' /\ ToWhom' /\ \A u \in Gets : Listed(u)' /\ CompleteGet(u)' /\ OnDisk(u)'
  BY <1>1 DEF GetInv, GetTypes, ToWhom, Listed, CompleteGet, OnDisk, Held, Handed, Shared, Begun
<1>3. ~Shared(t) => disk[get[t].path] = [by |-> t, len |-> get[t].received, mixed |-> FALSE]
  BY <1>1 DEF GetInv, OnDisk, Held, CompleteGet
<1>4. WholeGet'
  <2> SUFFICES ASSUME NEW s \in sent'
               PROVE  /\ s[1] \in Gets /\ Handed(s[1])
                      /\ ~Shared(s[1]) =>
                           s[2] = [by |-> s[1], len |-> get[s[1]].received, mixed |-> FALSE]
    BY <1>1 DEF WholeGet, Handed, Shared, Begun
  <2>1. CASE s \in sent
    BY <2>1 DEF GetInv, WholeGet
  <2>2. CASE s = <<t, disk[get[t].path]>>
    BY <1>1, <1>3, <2>2
  <2> QED BY <1>1, <2>1, <2>2
<1> QED BY <1>2, <1>4 DEF GetInv

(* The account's server goes, with its nicks: the transfers for them are   *)
(* left with a stale pointer.                                              *)
LEMMA ServerStep ==
    ASSUME GetInv, removeServer
    PROVE  GetInv'
<1>1. get \in [Gets -> Get] BY DEF GetInv, GetTypes
<1>2. UNCHANGED <<dccs, disk, handed, sent>> /\ nicks' = {Icon}
  BY DEF removeServer
<1> DEFINE hit(t) == get[t].watched /\ get[t].peer \in nicks \ {Icon}
<1>3. \A t \in Gets : get'[t] = IF hit(t) THEN [get[t] EXCEPT !.stale = TRUE] ELSE get[t]
  BY DEF removeServer
<1>4. \A t \in Gets :
        /\ get'[t] \in Get /\ get'[t].watched = get[t].watched /\ get'[t].peer = get[t].peer
        /\ get'[t].to = get[t].to /\ get'[t].path = get[t].path /\ get'[t].size = get[t].size
        /\ get'[t].received = get[t].received /\ get'[t].written = get[t].written
        /\ get'[t].stale = IF hit(t) THEN TRUE ELSE get[t].stale
  <2> SUFFICES ASSUME NEW t \in Gets
               PROVE  /\ get'[t] \in Get /\ get'[t].watched = get[t].watched
                      /\ get'[t].peer = get[t].peer
                      /\ get'[t].to = get[t].to /\ get'[t].path = get[t].path
                      /\ get'[t].size = get[t].size
                      /\ get'[t].received = get[t].received
                      /\ get'[t].written = get[t].written
                      /\ get'[t].stale = IF hit(t) THEN TRUE ELSE get[t].stale
    OBVIOUS
  <2>1. get[t] \in Get BY <1>1
  <2> QED BY <1>3, <2>1, ZenonT(60) DEF Get
<1>5. GetTypes'
  <2>1. get' = [t \in Gets |-> get'[t]] BY DEF removeServer
  <2>2. get' \in [Gets -> Get] BY <1>4, <2>1
  <2> QED BY <1>2, <2>2 DEF GetInv, GetTypes, Nicks
<1>6. Quiet
  BY <1>2, <1>4, ZenonT(60) DEF Quiet, GetInv, Listed, GetTypes, Nicks
<1> QED BY <1>2, <1>5, <1>6, QuietStep

(* GetInv is inductive.                                                    *)
LEMMA GetStep ==
    ASSUME GetInv, [GetNext]_getVars
    PROVE  GetInv'
<1>1. GetTypes /\ (\A t \in Gets : Listed(t)) BY DEF GetInv
<1>2. CASE UNCHANGED getVars
  BY <1>2 DEF getVars, GetInv, GetTypes, ToWhom, WholeGet, Listed, CompleteGet, OnDisk, Held,
              Handed, Shared, Begun
<1>3. ASSUME NEW t \in Gets, process_dcc_get(t) \/ IconSend(t) PROVE GetInv'
  <2>1. Announced \subseteq Nat BY DEF Announced
  <2>2. Buddies \subseteq Nicks /\ Icon \in Nicks /\ Paths \subseteq Files /\ IconPath \in Files
    BY DEF Nicks, Files
  <2> QED BY <1>3, <2>1, <2>2, CreateStep DEF process_dcc_get, IconSend
<1>4. ASSUME NEW t \in Gets, dcc_read(t) PROVE GetInv'
  BY <1>4, PieceStep, LastStep DEF dcc_read
<1>5. ASSUME NEW t \in Gets, ReadFails(t) PROVE GetInv'
  <2>1. get' = [u \in Gets |-> IF u \in {t} THEN DeinitGet(get[u]) ELSE get[u]]
    BY <1>1, <1>5 DEF ReadFails, GetTypes
  <2>2. /\ get[t].watched /\ (disk' = disk \/ disk' = Closed({t}))
        /\ UNCHANGED <<nicks, dccs, handed, sent>>
    BY <1>5 DEF ReadFails
  <2>3. \A u \in Gets \ {t} : get[u].watched =>
            u \in dccs' /\ (get[u].stale \/ get[u].peer \in nicks')
    BY <1>1, <2>2 DEF Listed
  <2> DEFINE S == {t}
  <2>4. /\ S \in SUBSET Gets /\ \A u \in S : get[u].watched
        /\ get' = [u \in Gets |-> IF u \in S THEN DeinitGet(get[u]) ELSE get[u]]
        /\ disk' = disk \/ disk' = Closed(S)
        /\ \A u \in Gets \ S : get[u].watched =>
            u \in dccs' /\ (get[u].stale \/ get[u].peer \in nicks')
    BY <2>1, <2>2, <2>3
  <2>5. nicks' \subseteq Nicks /\ dccs' \subseteq Gets
    BY <1>1, <2>2 DEF GetTypes
  <2> HIDE DEF S
  <2>6. S \in SUBSET S OBVIOUS
  <2> QED BY <2>2, <2>4, <2>5, <2>6, EndStep
<1>6. CASE updateDCC \/ NicksBack
  <2> DEFINE S == {}
  <2>1. get' = [u \in Gets |-> IF u \in S THEN DeinitGet(get[u]) ELSE get[u]]
    BY <1>1, <1>6 DEF updateDCC, NicksBack, GetTypes
  <2>2. /\ UNCHANGED <<disk, handed, sent>> /\ nicks' \in {nicks, Nicks}
        /\ dccs' \in {dccs, Purged}
    BY <1>6 DEF updateDCC, NicksBack
  <2>3. \A u \in Gets \ S : get[u].watched =>
            u \in dccs' /\ (get[u].stale \/ get[u].peer \in nicks')
    BY <1>1, <2>2 DEF Listed, Purged, Finished, GetTypes
  <2>4. nicks' \subseteq Nicks /\ dccs' \subseteq Gets
    BY <1>1, <2>2 DEF GetTypes, Purged
  <2>5. S \in SUBSET Gets /\ S \in SUBSET S /\ \A u \in S : get[u].watched
    OBVIOUS
  <2> HIDE DEF S
  <2> QED BY <2>1, <2>2, <2>3, <2>4, <2>5, EndStep
<1>7. CASE CleanUp
  <2>1. PICK T \in SUBSET {t \in dccs : get[t].watched} : disk' = Closed(T)
    BY <1>7 DEF CleanUp
  <2>2. get' = [u \in Gets |-> IF u \in Gets THEN DeinitGet(get[u]) ELSE get[u]]
    BY <1>7 DEF CleanUp
  <2>3. UNCHANGED <<handed, sent>> /\ nicks' = {} /\ dccs' = {} /\ T \subseteq Gets
    BY <1>1, <1>7, <2>1 DEF CleanUp, GetTypes
  <2> QED BY <2>1, <2>2, <2>3, EndStep
<1>8. ASSUME NEW b \in Buddies, removeNick(b) PROVE GetInv'
  <2>1. PICK S \in SUBSET {t \in dccs : get[t].watched /\ get[t].stale} :
          LET Told == S \union {t \in dccs : get[t].watched /\ ~get[t].stale /\ get[t].peer = b}
          IN  /\ get' = [t \in Gets |-> IF t \in Told THEN DeinitGet(get[t]) ELSE get[t]]
              /\ \E T \in SUBSET Told : disk' = Closed(T)
    BY <1>8 DEF removeNick
  <2> DEFINE Told == S \union {t \in dccs : get[t].watched /\ ~get[t].stale /\ get[t].peer = b}
  <2>2. PICK T \in SUBSET Told : disk' = Closed(T)
    BY <2>1
  <2>3. get' = [t \in Gets |-> IF t \in Told THEN DeinitGet(get[t]) ELSE get[t]]
    BY <2>1
  <2>4. /\ UNCHANGED <<handed, sent>> /\ nicks' = nicks \ {b} /\ dccs' = Purged
    BY <1>8 DEF removeNick
  <2>5. Told \subseteq Gets /\ \A t \in Told : get[t].watched
    BY <1>1 DEF GetTypes
  <2>6. \A u \in Gets \ Told : get[u].watched =>
            u \in dccs' /\ (get[u].stale \/ get[u].peer \in nicks')
    BY <1>1, <2>4 DEF Listed, Purged, Finished
  <2>7. nicks' \subseteq Nicks /\ dccs' \subseteq Gets
    BY <1>1, <2>4 DEF GetTypes, Purged
  <2> HIDE DEF Told
  <2> QED BY <2>2, <2>3, <2>4, <2>5, <2>6, <2>7, EndStep
<1> QED BY <1>2, <1>3, <1>4, <1>5, <1>6, <1>7, <1>8, ClientSideStep, PurpleStep,
           ServerStep DEF GetNext

(* No transfer was begun at first.                                         *)
LEMMA GetStart ==
    ASSUME GetInit
    PROVE  GetInv
<1>1. NoGet \in Get /\ NoGet.watched = FALSE /\ NoGet.peer = Nobody
  BY DEF NoGet, Get, Files
<1>2. GetTypes
  BY <1>1 DEF GetInit, GetTypes, Files, File, NoFile
<1>3. \A t \in Gets : ~Handed(t) /\ ~get[t].watched /\ get[t].peer = Nobody
  BY <1>1 DEF GetInit, Handed
<1> QED BY <1>2, <1>3 DEF GetInit, GetInv, ToWhom, WholeGet, Listed, CompleteGet, OnDisk, Held

(***************************************************************************)
(* dcc.cpp, irc.cpp: for any number of transfers and buddies, the callback *)
(* of a watcher is a transfer still in IRC::dccs, with a nick that exists  *)
(* unless removeServer() deleted it, and a transfer that is over has no    *)
(* nick to call.                                                           *)
(***************************************************************************)
THEOREM NothingDanglesHolds == GetSpec => []NothingDangles
<1>1. GetInv => NothingDangles
  BY DEF GetInv, Listed, NothingDangles
<1> QED BY <1>1, GetStart, GetStep, PTL DEF GetSpec

(***************************************************************************)
(* dcc_read(), received_file(): for files of any size, a file is handed    *)
(* over once, to the buddy it was sent to, and only when all that was      *)
(* announced has come; what libpurple reads is that and nothing else       *)
(* unless another upload has the same name.  It rests on fflush() before   *)
(* the callback (CompleteGet) and on one writer per path (OnDisk).            *)
(***************************************************************************)
THEOREM HandedWholeHolds == GetSpec => []HandedWhole
<1>1. GetInv => HandedWhole
  <2> SUFFICES ASSUME GetInv PROVE HandedWhole
    OBVIOUS
  <2>1. \A h \in handed : h[1] \in Gets /\ Handed(h[1])
    BY DEF GetInv, ToWhom, Handed
  <2>2. \A h \in handed : get[h[1]].received >= get[h[1]].size
    BY <2>1 DEF GetInv, CompleteGet
  <2> QED BY <2>2 DEF GetInv, ToWhom, WholeGet, HandedWhole
<1> QED BY <1>1, GetStart, GetStep, PTL DEF GetSpec
=============================================================================
