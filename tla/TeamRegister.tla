----------------------------- MODULE TeamRegister -----------------------------
(***************************************************************************)
(* What the Team API promises its clients: a request for one Team takes    *)
(* effect at one moment between its arrival and its answer, as if no other *)
(* request were there.  A request that is not answered with 200 may or may *)
(* not have taken effect.  What a listing returns is left open here.       *)
(***************************************************************************)
EXTENDS Naturals

CONSTANTS
  Requests,   \* the requests
  Calls,      \* what a request may ask for
  None        \* the body of an answer that has none

\* An answer is a success, the client's fault or the server's.
OK == 200
ClientError == 400
ServerError == 500

VARIABLES
  teams,      \* id -> what the Team holds, for the Teams that exist
  made,       \* the number of ids given out
  call,       \* what each request asks for
  stage,      \* "idle", "pending", "effective", "answered" or "dropped"
  answer      \* the status and the body a request was answered with

registerVars == <<teams, made, call, stage, answer>>

NoAnswer == [status |-> 0, body |-> None]

Init ==
  /\ made \in Nat
  /\ DOMAIN teams \subseteq 1..made
  /\ call = [r \in Requests |-> None]
  /\ stage = [r \in Requests |-> "idle"]
  /\ answer = [r \in Requests |-> NoAnswer]

Pending(r, method) == stage[r] = "pending" /\ call[r].method = method

Answer(r, status, body) ==
  answer' = [answer EXCEPT ![r] = [status |-> status, body |-> body]]

Arrive(r) ==
  /\ stage[r] = "idle"
  /\ \E c \in Calls : call' = [call EXCEPT ![r] = c]
  /\ stage' = [stage EXCEPT ![r] = "pending"]
  /\ UNCHANGED <<teams, made, answer>>

\* The answer tells what the Team holds, or that there is none.
Read(r) ==
  /\ Pending(r, "get")
  /\ IF call[r].id \in DOMAIN teams
     THEN Answer(r, OK, teams[call[r].id])
     ELSE Answer(r, ClientError, None)
  /\ stage' = [stage EXCEPT ![r] = "answered"]
  /\ UNCHANGED <<teams, made, call>>

\* A new Team gets an id no Team ever had.
Create(r) ==
  /\ Pending(r, "post")
  /\ made' = made + 1
  /\ teams' = [i \in DOMAIN teams \cup {made'} |->
                 IF i = made' THEN call[r].team.content ELSE teams[i]]
  /\ Answer(r, OK, made') \/ Answer(r, ServerError, None)
  /\ stage' = [stage EXCEPT ![r] = "answered"]
  /\ UNCHANGED call

\* Only a Team that exists can be replaced.
Replace(r) ==
  /\ Pending(r, "put")
  /\ call[r].id \in DOMAIN teams
  /\ teams' = [teams EXCEPT ![call[r].id] = call[r].team.content]
  /\ Answer(r, OK, call[r].team.content) \/ Answer(r, ServerError, None)
  /\ stage' = [stage EXCEPT ![r] = "answered"]
  /\ UNCHANGED <<made, call>>

\* The Team goes; replacements under way may have come just before it, unseen.
Remove(r) ==
  /\ Pending(r, "delete")
  /\ call[r].id \in DOMAIN teams
  /\ teams' = [i \in DOMAIN teams \ {call[r].id} |-> teams[i]]
  /\ Answer(r, OK, None) \/ Answer(r, ServerError, None)
  /\ \E overtaken \in SUBSET {p \in Requests : /\ Pending(p, "put")
                                               /\ call[p].id = call[r].id} :
       stage' = [p \in Requests |-> IF p = r THEN "answered"
                                    ELSE IF p \in overtaken THEN "effective" ELSE stage[p]]
  /\ UNCHANGED <<made, call>>

\* A replacement that was overtaken by the removal of its Team is answered.
AnswerOvertaken(r) ==
  /\ stage[r] = "effective"
  /\ Answer(r, OK, call[r].team.content) \/ Answer(r, ServerError, None)
  /\ stage' = [stage EXCEPT ![r] = "answered"]
  /\ UNCHANGED <<teams, made, call>>

AnswerListing(r) ==
  /\ Pending(r, "list")
  /\ Answer(r, OK, None)
  /\ stage' = [stage EXCEPT ![r] = "answered"]
  /\ UNCHANGED <<teams, made, call>>

\* No effect: the request is invalid, there is no such Team, or something failed.
Refuse(r) ==
  /\ stage[r] = "pending"
  /\ \E status \in {ClientError, ServerError} : Answer(r, status, None)
  /\ stage' = [stage EXCEPT ![r] = "answered"]
  /\ UNCHANGED <<teams, made, call>>

\* The client has gone.
Drop(r) ==
  /\ stage[r] \in {"pending", "effective"}
  /\ stage' = [stage EXCEPT ![r] = "dropped"]
  /\ UNCHANGED <<teams, made, call, answer>>

Next ==
  \E r \in Requests :
    \/ Arrive(r) \/ Read(r) \/ Create(r) \/ Replace(r) \/ Remove(r)
    \/ AnswerOvertaken(r) \/ AnswerListing(r) \/ Refuse(r) \/ Drop(r)

Spec == Init /\ [][Next]_registerVars
==============================================================================
