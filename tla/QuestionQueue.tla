--------------------------- MODULE QuestionQueue ---------------------------
(***************************************************************************)
(* What the user is promised about the questions of libpurple: they wait   *)
(* in the order in which they came, the one he has been asked last is the  *)
(* first of them, and what he says answers that one and no other.          *)
(***************************************************************************)
EXTENDS Integers, Sequences, Ranks

CONSTANT Questions

VARIABLES queue,    \* the questions that wait, the first is being asked
          answered  \* those whose answer libpurple has been given

vars == <<queue, answered>>

Waiting == {queue[i] : i \in 1..Len(queue)}

Without(S) == Kept(queue, {i \in 1..Len(queue) : queue[i] \notin S})

Init == queue = <<>> /\ answered = {}

Ask(q) ==
    /\ q \notin Waiting
    /\ queue' = Append(queue, q)
    /\ UNCHANGED answered

(* libpurple withdraws the questions of S.                                 *)
Withdraw(S) ==
    /\ queue' = Without(S)
    /\ UNCHANGED answered

(* The first question is answered.  What libpurple does with the answer    *)
(* may withdraw the questions of S and ask others.                         *)
Answer(S, more) ==
    /\ queue # <<>> /\ Head(queue) \notin answered
    /\ answered' = answered \cup {Head(queue)}
    /\ queue' = Without(S \cup {Head(queue)}) \o more

Next ==
    \/ \E q \in Questions : Ask(q)
    \/ \E S \in SUBSET Waiting : Withdraw(S)
    \/ \E S \in SUBSET Waiting, more \in {<<>>} \cup {<<q>> : q \in Questions} : Answer(S, more)

Spec == Init /\ [][Next]_vars
=============================================================================
