------------------------------ MODULE DccSend ------------------------------
(***************************************************************************)
(* DCCSend (src/src/irc/dcc.cpp): a file libpurple is receiving is passed  *)
(* on to the IRC user while it grows.  minbif listens, the user connects,  *)
(* and each progress report of libpurple and each acknowledgement of the   *)
(* user makes it read the next piece of the file and send it.              *)
(*                                                                         *)
(* Sizes are counted in units; a piece, the 512 bytes of dcc_send(), is    *)
(* Chunk units.  An acknowledgement, four bytes, may arrive in two parts.  *)
(***************************************************************************)
EXTENDS Integers, Sequences

CONSTANTS Size,       \* length of the whole file, in units
          Chunk,      \* what dcc_send() reads at most
          WireCap     \* units the connection holds before send() falls short

ASSUME DccSendAssumption ==
    Size \in Nat /\ Chunk \in Nat \ {0} /\ WireCap \in Nat \ {0}

VARIABLES
    total,    \* total_size: the length, or 0 when libpurple does not know it
    sticky,   \* the C library: fread() returns 0 for ever once it met the end
    phase,    \* "opening" (listen_data set), "listening", "connected",
              \* "broken" (accept() failed, fd = -1), "finished"
    xfer,     \* the transfer of libpurple: "running", "complete", "cancelled"
    fileLen,  \* units in the file, -1 while it does not exist
    fp,       \* the file is open
    pos,      \* units read from it
    eof,      \* a read has met the end of the file
    wire,     \* units on their way to the user, by their number in the file
    got,      \* units the user has received
    acks,     \* halves of acknowledgements on their way back
    rxqueue,  \* the half dcc_read() keeps for the next time
    client,   \* the IRC client: "away", "connected", "closed"
    expired,  \* TIMEOUT has passed since the start
    done,     \* history: an acknowledgement of the whole file ended it
    missed    \* history: the connection did not take all that was read

fileVars == <<fp, pos, eof, missed>>
rigid == <<total, sticky>>    \* chosen once
vars == <<rigid, phase, xfer, fileLen, fileVars, wire, got, acks, rxqueue,
          client, expired, done>>

Min2(a, b) == IF a < b THEN a ELSE b

(* The two halves of the acknowledgement of n units.                       *)
Halves(n) == <<[n |-> n, half |-> 1], [n |-> n, half |-> 2]>>
-----------------------------------------------------------------------------
Init ==
    /\ total \in {0, Size} /\ sticky \in BOOLEAN
    /\ phase = "opening"
    /\ xfer = "running" /\ fileLen = -1
    /\ fp = FALSE /\ pos = 0 /\ eof = FALSE
    /\ wire = <<>> /\ got = <<>> /\ acks = <<>> /\ rxqueue = <<>>
    /\ client = "away" /\ expired = FALSE /\ done = FALSE /\ missed = FALSE

(***************************************************************************)
(* dcc_send() in phase ph, with a file of len units.  The result of send() *)
(* is not looked at: what does not fit, and all that is sent on a socket   *)
(* that only listens, is lost.                                             *)
(***************************************************************************)
SendPiece(ph, len) ==
    LET hasFd == ph \in {"listening", "connected"}
        reads == hasFd /\ (fp \/ len >= 0)
        n == IF reads /\ ~(sticky /\ eof) THEN Min2(Chunk, len - pos) ELSE 0
        sent == IF ph = "connected" THEN Min2(n, WireCap - Len(wire)) ELSE 0
    IN  /\ fp' = (fp \/ reads)
        /\ pos' = pos + n
        /\ eof' = (eof \/ (reads /\ n < Chunk))
        /\ wire' = wire \o [i \in 1..sent |-> pos + i]
        /\ missed' = (missed \/ sent < n)

(* deinit()                                                                *)
Deinit ==
    /\ phase' = "finished" /\ fp' = FALSE /\ rxqueue' = <<>>
    /\ UNCHANGED <<pos, eof, missed, wire>>

(* updated(): the timeout only counts without a descriptor.                *)
Updated(len) ==
    IF phase \in {"opening", "broken"} /\ expired
    THEN Deinit
    ELSE SendPiece(phase, len) /\ UNCHANGED <<phase, rxqueue>>
-----------------------------------------------------------------------------
(* listen_cb(): the port is open, the user gets the DCC SEND request; or   *)
(* the own address cannot be parsed.                                       *)
Listen ==
    /\ phase = "opening"
    /\ \/ phase' = "listening" /\ UNCHANGED <<fileVars, wire, rxqueue>>
       \/ Deinit
    /\ UNCHANGED <<xfer, fileLen, got, acks, client, expired, done, rigid>>

(* connected(): accept() works, the listening socket is closed, and        *)
(* updated() sends the first piece.                                        *)
Connected ==
    /\ phase = "listening" /\ client = "away"
    /\ client' = "connected" /\ phase' = "connected"
    /\ SendPiece("connected", fileLen)
    /\ UNCHANGED <<xfer, fileLen, got, acks, rxqueue, expired, done, rigid>>

(* connected(): accept() returns -1, which "if(!conn)" takes for a socket. *)
AcceptFails ==
    /\ phase = "listening" /\ client = "away"
    /\ client' = "closed"
    /\ IF expired
       THEN phase' = "finished" /\ fp' = FALSE /\ rxqueue' = <<>>
       ELSE phase' = "broken" /\ UNCHANGED <<fp, rxqueue>>
    /\ UNCHANGED <<xfer, fileLen, pos, eof, missed, wire, got, acks, expired, done, rigid>>

CreateFile ==
    /\ xfer = "running" /\ fileLen = -1
    /\ fileLen' = 0
    /\ UNCHANGED <<phase, xfer, fileVars, wire, got, acks, rxqueue, client, expired, done, rigid>>

(* update_progress(): libpurple has written more, or what it has written   *)
(* is still in its buffer.                                                 *)
Progress ==
    /\ xfer = "running" /\ fileLen \in 0..(Size - 1)
    /\ \E len \in fileLen..Size : fileLen' = len /\ Updated(len)
    /\ UNCHANGED <<xfer, got, acks, client, expired, done, rigid>>

(* destroy(): the transfer of libpurple is over, with the file complete or *)
(* not.                                                                    *)
Destroy ==
    /\ xfer = "running" /\ fileLen >= 0
    /\ \/ xfer' = "complete" /\ fileLen' = Size /\ Updated(Size)
       \/ xfer' = "cancelled" /\ UNCHANGED fileLen /\ Updated(fileLen)
    /\ UNCHANGED <<got, acks, client, expired, done, rigid>>
-----------------------------------------------------------------------------
(* The IRC client takes a unit and acknowledges all it has so far.         *)
ClientReceives ==
    /\ client = "connected" /\ wire # <<>>
    /\ got' = Append(got, Head(wire)) /\ wire' = Tail(wire)
    /\ acks' = acks \o Halves(Len(got) + 1)
    /\ UNCHANGED <<phase, xfer, fileLen, fileVars, rxqueue, client, expired, done, rigid>>

ClientCloses ==
    /\ client = "connected"
    /\ client' = "closed"
    /\ UNCHANGED <<phase, xfer, fileLen, fileVars, wire, got, acks, rxqueue, expired, done, rigid>>

(* What is complete among the halves s, and what is left of them.          *)
Complete(s) == {s[i].n : i \in {k \in 1..Len(s) : s[k].half = 2}}

LeftOver(s) == IF s # <<>> /\ s[Len(s)].half = 1 THEN <<s[Len(s)]>> ELSE <<>>

(* Mutant: dcc_read() does not send the next piece.                        *)
DccReadWithoutSend ==
    /\ phase = "connected" /\ acks # <<>>
    /\ \E k \in 1..Len(acks) :
         LET s == rxqueue \o SubSeq(acks, 1, k)
         IN  /\ acks' = SubSeq(acks, k + 1, Len(acks))
             /\ IF \E n \in Complete(s) : n >= total
                THEN Deinit /\ done' = TRUE
                ELSE /\ rxqueue' = LeftOver(s)
                     /\ UNCHANGED <<phase, fileVars, wire, done>>
    /\ UNCHANGED <<xfer, fileLen, got, client, expired, rigid>>

(* Mutant: the end is told by what was read from the file, not by what the *)
(* user acknowledges.                                                      *)
DccReadTrustsSent ==
    /\ phase = "connected" /\ acks # <<>>
    /\ \E k \in 1..Len(acks) :
         LET s == rxqueue \o SubSeq(acks, 1, k)
         IN  /\ acks' = SubSeq(acks, k + 1, Len(acks))
             /\ IF Complete(s) # {} /\ pos >= total
                THEN Deinit /\ done' = TRUE
                ELSE /\ rxqueue' = LeftOver(s)
                     /\ SendPiece("connected", fileLen)
                     /\ UNCHANGED <<phase, done>>
    /\ UNCHANGED <<xfer, fileLen, got, client, expired, rigid>>

(***************************************************************************)
(* dcc_read(): the halves read so far make whole acknowledgements; one of  *)
(* the whole file ends the transfer, else the next piece is sent.          *)
(***************************************************************************)
DccRead ==
    /\ phase = "connected" /\ acks # <<>>
    /\ \E k \in 1..Len(acks) :
         LET s == rxqueue \o SubSeq(acks, 1, k)
         IN  /\ acks' = SubSeq(acks, k + 1, Len(acks))
             /\ IF \E n \in Complete(s) : n >= total
                THEN Deinit /\ done' = TRUE
                ELSE /\ rxqueue' = LeftOver(s)
                     /\ SendPiece("connected", fileLen)
                     /\ UNCHANGED <<phase, done>>
    /\ UNCHANGED <<xfer, fileLen, got, client, expired, rigid>>

(* Mutant: the end of the stream is taken for an interrupted read.         *)
ReadEndIgnored ==
    /\ phase = "connected" /\ client = "closed" /\ acks = <<>>
    /\ UNCHANGED vars

(* dcc_read() at the end of the stream: fd is forgotten, not closed.       *)
ReadEnd ==
    /\ phase = "connected" /\ client = "closed" /\ acks = <<>>
    /\ phase' = "finished" /\ fp' = FALSE /\ rxqueue' = <<>>
    /\ UNCHANGED <<xfer, fileLen, pos, eof, missed, wire, got, acks, client, expired, done, rigid>>

Expire ==
    /\ ~expired /\ expired' = TRUE
    /\ UNCHANGED <<phase, xfer, fileLen, fileVars, wire, got, acks, rxqueue, client, done, rigid>>
-----------------------------------------------------------------------------
Next ==
    \/ Listen \/ Connected \/ AcceptFails
    \/ CreateFile \/ Progress \/ Destroy
    \/ ClientReceives \/ ClientCloses
    \/ DccRead \/ ReadEnd \/ Expire

Spec == Init /\ [][Next]_vars

(***************************************************************************)
(* GLib calls dcc_read() when there is something to read; libpurple brings *)
(* its transfer to an end; a client that stays reads what it is sent.      *)
(***************************************************************************)
FairSpec ==
    /\ Spec
    /\ WF_vars(DccRead) /\ WF_vars(ReadEnd)
    /\ WF_vars(CreateFile) /\ WF_vars(Destroy)
    /\ WF_vars(ClientReceives)
-----------------------------------------------------------------------------
(* The variables hold what the fields they stand for can hold.             *)
TypeOK ==
    /\ total \in {0, Size} /\ sticky \in BOOLEAN
    /\ phase \in {"opening", "listening", "connected", "broken", "finished"}
    /\ xfer \in {"running", "complete", "cancelled"}
    /\ fileLen \in {-1} \cup 0..Size
    /\ fp \in BOOLEAN /\ pos \in 0..Size /\ eof \in BOOLEAN
    /\ wire \in Seq(1..Size) /\ Len(wire) <= WireCap
    /\ got \in Seq(1..Size)
    /\ acks \in Seq([n : 1..Size, half : {1, 2}])
    /\ rxqueue \in Seq([n : 1..Size, half : {1, 2}]) /\ Len(rxqueue) <= 1
    /\ client \in {"away", "connected", "closed"}
    /\ expired \in BOOLEAN /\ done \in BOOLEAN /\ missed \in BOOLEAN

(***************************************************************************)
(* dcc_send(), dcc_read(): however reports, acknowledgements and pieces    *)
(* interleave, the user gets no unit twice and none before an earlier one, *)
(* and never one that is not in the file yet.  A transfer ended by an      *)
(* acknowledgement ("DCC send terminated") has delivered the whole file,   *)
(* although send() may lose pieces and acknowledgements come in parts -    *)
(* unless its size was not known, when any acknowledgement is taken for    *)
(* the last one (acked >= 0).                                              *)
(***************************************************************************)
InOrder ==
    LET s == got \o wire
    IN  /\ \A i, j \in 1..Len(s) : i < j => s[i] < s[j]
        /\ \A i \in 1..Len(s) : s[i] <= fileLen
        /\ done /\ total # 0 => got = [i \in 1..Size |-> i]

(* A C library whose end of file is sticky has met it while the file was   *)
(* still growing: dcc_send() never reads the rest.                         *)
CutShort == sticky /\ eof /\ pos < Size

(***************************************************************************)
(* dcc_read(), dcc_send(), updated(): the transfer of a file that is not   *)
(* empty only stops short of its end when the user or libpurple gives up,  *)
(* when send() has lost a part of a piece or when fread() was cut short;   *)
(* no other order of reports and acknowledgements stalls it.               *)
(***************************************************************************)
NoStall ==
    Size > 0 /\ client = "connected" ~>
        done \/ client = "closed" \/ xfer = "cancelled" \/ missed \/ CutShort

(***************************************************************************)
(* dcc_read(): a user who closes the connection ends the transfer, in the  *)
(* middle of an acknowledgement too, with reports still to come, after the *)
(* last of them, and when the end of the file or a full connection has     *)
(* stalled it. Only a failed accept(), which leaves no watcher, does not.  *)
(***************************************************************************)
LeavingEnds == client = "closed" ~> phase \in {"finished", "broken"}
=============================================================================
