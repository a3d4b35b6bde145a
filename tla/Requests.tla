------------------------------ MODULE Requests ------------------------------
(***************************************************************************)
(* The questions libpurple asks the user (src/src/im/request.cpp).  They   *)
(* wait in a queue; the first one is displayed by the nick "request", and  *)
(* what the user says to that nick answers it.  A question with fields is  *)
(* asked field by field, then for a confirmation.                          *)
(*                                                                         *)
(* libpurple runs code of its own when a question is answered: it may ask  *)
(* again and close questions, the answered one too, which minbif then      *)
(* closes a second time although it is freed.  What follows is undefined;  *)
(* the model stops there.                                                  *)
(***************************************************************************)
EXTENDS Integers, Sequences, FiniteSets, Ranks

CONSTANTS Questions,  \* each is asked once
          Form,       \* of each question: "input", "action", "choice", "fields", "file"
          Fields,     \* the visible fields of each: "input", "list" or "image"
          Handles,    \* what libpurple closes questions by: connections, accounts
          HandleOf

ASSUME RequestsAssumption ==
    /\ Form \in [Questions -> {"input", "action", "choice", "fields", "file"}]
    /\ Fields \in [Questions -> Seq({"input", "list", "image"})]
    /\ \A q \in Questions : Form[q] # "fields" => Fields[q] = <<>>
    /\ HandleOf \in [Questions -> Handles]

VARIABLES
    requests,  \* Request::requests: question and next field of it
    handles,   \* libpurple: the questions that are open
    prompt,    \* what was displayed last: question and field
    asked,     \* the questions asked so far
    values,    \* the fields of each question that have a value
    ran,       \* how often a callback of each question has run
    intact     \* FALSE once a freed request has been used

purpleVars == <<asked, values, ran>>
requestsVars == <<requests, handles, prompt, intact, purpleVars>>

Nothing == <<>>

(* Positions after the last field stand for the question itself.           *)
Confirm(q) == Len(Fields[q]) + 1
-----------------------------------------------------------------------------
(* Mutant: the image and the field that follows it are skipped.            *)
AfterImagesSkipsOne(q, i) ==
    IF i <= Len(Fields[q]) /\ Fields[q][i] = "image"
    THEN IF i + 2 <= Confirm(q) THEN i + 2 ELSE Confirm(q) ELSE i

(* RequestFieldsImage::display() closes the field it has displayed, and    *)
(* RequestFieldList::close() displays the next one.                        *)
AfterImages(q, i) ==
    CHOOSE j \in i..Confirm(q) :
        /\ j = Confirm(q) \/ Fields[q][j] # "image"
        /\ \A k \in i..(j - 1) : Fields[q][k] = "image"

(* display() of the first request of rs.                                   *)
Display(rs) ==
    IF rs = <<>> THEN requests' = rs /\ prompt' = Nothing
    ELSE LET r == [rs[1] EXCEPT !.at = AfterImages(rs[1].id, @)]
         IN  requests' = [rs EXCEPT ![1] = r] /\ prompt' = <<r.id, r.at>>

(* Request::addRequest(): the first one is displayed, the others announced.*)
Start(q) == [id |-> q, at |-> 1]
Added(q) == Append(requests, Start(q))

AddRequest(q) ==
    /\ handles' = handles \cup {q} /\ asked' = asked \cup {q}
    /\ IF requests = <<>> THEN Display(Added(q))
       ELSE requests' = Added(q) /\ UNCHANGED prompt

IdsOf(rs) == {rs[i].id : i \in 1..Len(rs)}
Remaining(rs, S) == Kept(rs, {i \in 1..Len(rs) : rs[i].id \notin S})

(* Mutant: the next request is not displayed.                              *)
CloseQuietly(rs, S) ==
    /\ requests' = Remaining(rs, S)
    /\ prompt' = IF requests' = <<>> THEN Nothing ELSE prompt

(* Request::closeRequest() for each of S: when the first one goes the next *)
(* is displayed.                                                           *)
CloseRequests(rs, S) ==
    IF rs # <<>> /\ rs[1].id \in S THEN Display(Remaining(rs, S))
    ELSE requests' = Remaining(rs, S) /\ UNCHANGED prompt
-----------------------------------------------------------------------------
(* request_input(), request_action(), request_choice()                     *)
Ask(q) ==
    /\ q \notin asked /\ Form[q] \in {"input", "action", "choice"}
    /\ AddRequest(q)
    /\ UNCHANGED <<values, ran, intact>>

(* request_fields(): a subrequest for each visible field of a known type.  *)
request_fields(q) ==
    /\ q \notin asked /\ Form[q] = "fields"
    /\ AddRequest(q)
    /\ UNCHANGED <<values, ran, intact>>

(* RequestField::runCallback() of question q, RequestInput::process().     *)
Ran(q) == [ran EXCEPT ![q] = @ + 1]

(* request_file(): minbif answers by itself, with a path or a refusal.     *)
request_file(q) ==
    /\ q \notin asked /\ Form[q] = "file"
    /\ asked' = asked \cup {q}
    /\ ran' = Ran(q)
    /\ UNCHANGED <<requests, handles, prompt, values, intact>>

(* purple_request_close_with_handle(): request_close() for each question.  *)
CloseWithHandle(h) ==
    LET S == {q \in handles : HandleOf[q] = h}
    IN  /\ S # {}
        /\ handles' = handles \ S
        /\ CloseRequests(requests, S)
        /\ UNCHANGED <<purpleVars, intact>>

(* purple_request_close() of one question, called by libpurple.            *)
request_close(q) ==
    /\ q \in handles
    /\ handles' = handles \ {q}
    /\ CloseRequests(requests, {q})
    /\ UNCHANGED <<purpleVars, intact>>
-----------------------------------------------------------------------------
(* A line of text, or the string or number of a field, is anything the     *)
(* user says.                                                              *)
AcceptsAnything(r) ==
    IF r.at = Confirm(r.id) THEN Form[r.id] = "input" ELSE Fields[r.id][r.at] = "input"

(* getField() does not know the answer: the same is displayed again.       *)
WrongAnswer ==
    /\ requests # <<>> /\ ~AcceptsAnything(Head(requests))
    /\ Display(requests)
    /\ UNCHANGED <<handles, purpleVars, intact>>

(* process() or runCallback() of a field                                   *)
SetField(r) == [values EXCEPT ![r.id] = @ \cup {r.at}]

(* An answer to a field: its value is set and the next one is asked.       *)
AnswerField ==
    /\ requests # <<>>
    /\ LET r == Head(requests)
       IN  /\ r.at < Confirm(r.id)
           /\ values' = SetField(r)
           /\ Display([requests EXCEPT ![1].at = @ + 1])
    /\ UNCHANGED <<handles, asked, ran, intact>>

(* Mutant: getFirstRequest() returns the request that came last.           *)
LastRequest == requests[Len(requests)]

getFirstRequest == requests[1]

(* What code of libpurple may close at once: nothing, a question, those of *)
(* a handle.                                                               *)
Closable == {{}} \cup {{p} : p \in handles} \cup
                {{p \in handles : HandleOf[p] = h} : h \in Handles}

(* purple_request_close() of the answered question q after its callback    *)
(* has closed S and asked "more".                                          *)
HandlesLeft(q, S, more) == ((handles \ S) \cup IdsOf(more)) \ {q}

(***************************************************************************)
(* RequestNick::send() with the answer to a question: the callback runs,   *)
(* then the request is closed.  The callback may close questions and ask   *)
(* one more.  If the answered one is still the first afterwards, nothing   *)
(* has been displayed before it is closed itself; if the callback has      *)
(* closed it, the next one is displayed and close() is called on a request *)
(* that is gone.                                                           *)
(***************************************************************************)
AnswerQuestion ==
    /\ requests # <<>>
    /\ LET r == getFirstRequest
           q == r.id
       IN  /\ r.at = Confirm(q)
           /\ ran' = Ran(q)
           /\ \E S \in Closable,
                 more \in {<<>>} \cup
                     {<<Start(p)>> : p \in {x \in Questions \ asked : Form[x] # "file"}} :
                 /\ asked' = asked \cup IdsOf(more)
                 /\ handles' = HandlesLeft(q, S, more)
                 /\ Display(Remaining(requests, S \cup {q}) \o more)
                 /\ intact' = (q \notin S)
    /\ UNCHANGED values
-----------------------------------------------------------------------------
(* Request::init()                                                         *)
RequestsInit ==
    /\ requests = <<>> /\ handles = {} /\ prompt = Nothing
    /\ asked = {} /\ values = [q \in Questions |-> {}]
    /\ ran = [q \in Questions |-> 0] /\ intact = TRUE

RequestsStep ==
    \/ \E q \in Questions : Ask(q) \/ request_fields(q) \/ request_file(q) \/ request_close(q)
    \/ \E h \in Handles : CloseWithHandle(h)
    \/ WrongAnswer \/ AnswerField \/ AnswerQuestion

RequestsNext == intact /\ RequestsStep

RequestsSpec == RequestsInit /\ [][RequestsNext]_requestsVars
-----------------------------------------------------------------------------
(***************************************************************************)
(* addRequest(), closeRequest(), close(): what the user was shown last is  *)
(* what the next thing he says will be taken for, and it is never an image,*)
(* whoever closed or asked questions meanwhile.  The queue holds the       *)
(* questions that libpurple has open, each once, so that what he says does *)
(* not reach a freed one and none stays behind.  Excepted is what follows  *)
(* a callback that closes the very question it answers (request.cpp:79).   *)
(***************************************************************************)
PromptIsFirst ==
    intact =>
        /\ IF requests = <<>> THEN prompt = Nothing
           ELSE LET r == requests[1]
                IN  /\ prompt = <<r.id, r.at>> /\ r.at <= Confirm(r.id)
                    /\ r.at < Confirm(r.id) => Fields[r.id][r.at] # "image"
        /\ IdsOf(requests) = handles
        /\ Len(requests) = Cardinality(handles)

(***************************************************************************)
(* RequestFieldList::process(), close(): libpurple gets the answer to a    *)
(* question with fields once, when every field but the images has a value, *)
(* as long as no freed request has been used.                              *)
(***************************************************************************)
FieldsComplete ==
    \A q \in Questions : ran[q] > 0 =>
        /\ ran[q] = 1
        /\ values[q] = {i \in 1..Len(Fields[q]) : Fields[q][i] # "image"}

(***************************************************************************)
(* The queue of requests implements a queue of questions: in the order     *)
(* they came, only the first one is answered.  Files are not asked for.    *)
(* The last step covered is an answer whose callback closes its question.  *)
(***************************************************************************)
Abstract == INSTANCE QuestionQueue WITH
    queue <- [i \in 1..Len(requests) |-> requests[i].id],
    answered <- {q \in Questions : ran[q] > 0 /\ Form[q] # "file"}

AnswersInOrder == Abstract!Spec
=============================================================================
