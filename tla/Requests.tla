------------------------------ MODULE Requests -------------------------------
(***************************************************************************)
(* HTTP requests for users' documents. Each is a goroutine that runs one   *)
(* handler for an authenticated user and makes its queries one after       *)
(* another: a query is a step, and any other request may come in between.  *)
(* A query may fail; one that writes may also take effect and be reported  *)
(* as failed. The modules that extend this one are the handlers; a request *)
(* whose body or id a handler refuses before its first query is left out.  *)
(***************************************************************************)
EXTENDS Integers, Sequences

CONSTANTS
  Requests,
  Users,
  Public,   \* the user id "*", which marks a document as everybody's
  None

VARIABLES
  pc,       \* the query a request makes next
  req,      \* what it asks: [op, user, id, doc]
  answer    \* what it was answered: the status code, and of a document sent
            \* with it the owner

requestVars == <<pc, req, answer>>

Labels == {"idle", "check", "act", "second", "store", "answered", "cut off"}
Codes  == {200, 201, 204, 400, 403, 404, 422, 500}
Owners == Users \cup {Public, None}

Answers == [code : Codes, owner : Owners]

ASSUME RequestsAssumption ==
  Public \notin Users /\ None \notin Users \cup {Public} \cup Answers

RequestsInit ==
  /\ pc = [r \in Requests |-> "idle"]
  /\ req = [r \in Requests |-> None]
  /\ answer = [r \in Requests |-> None]

At(r, l, ops) == pc[r] = l /\ req[r].op \in ops

(* A request for op by user u, on document id, with the content doc.       *)
Ask(r, op, u, id, doc, l) ==
  /\ pc[r] = "idle"
  /\ req' = [req EXCEPT ![r] = [op |-> op, user |-> u, id |-> id, doc |-> doc]]
  /\ pc' = [pc EXCEPT ![r] = l]
  /\ UNCHANGED answer

Continue(r, l) ==
  /\ pc' = [pc EXCEPT ![r] = l]
  /\ UNCHANGED <<req, answer>>

Send(r, code, owner) ==
  /\ pc' = [pc EXCEPT ![r] = "answered"]
  /\ answer' = [answer EXCEPT ![r] = [code |-> code, owner |-> owner]]
  /\ UNCHANGED req

Answer(r, code) == Send(r, code, None)

(* The process dies and is started again, and with it every request.       *)
CutOff ==
  /\ pc' = [r \in Requests |-> IF pc[r] \in {"check", "act", "second", "store"}
                                 THEN "cut off" ELSE pc[r]]
  /\ UNCHANGED <<req, answer>>

(* Whoever is sent a document owns it, or it is everybody's: between the   *)
(* ownership check of a handler and its query nothing may change hands,    *)
(* and no handler answers before it has looked at the owner.               *)
AnsweredToOwner ==
  \A r \in Requests : pc[r] = "answered" =>
    answer[r].owner \in {None, Public, req[r].user}
=============================================================================
