-------------------------------- MODULE TeamApi --------------------------------
(***************************************************************************)
(* The HTTP API for Teams: the handlers of controllers/team.rs over the    *)
(* generic Service and Store.  The handlers of concurrent requests         *)
(* interleave at every await; a handler whose client goes away is dropped  *)
(* where it waits.  The Teams are the one collection documents are         *)
(* deleted from, so unlike DocumentStore's collections this one is a       *)
(* partial function from ids, numbered in the order they were given out.   *)
(* Any call of the store may fail, with or without having taken effect:    *)
(* the reply to a write may be lost, and to its one retry, if the driver   *)
(* makes one, as well.                                                     *)
(***************************************************************************)
EXTENDS DocumentStore

CONSTANTS
  Requests,   \* the requests
  Contents,   \* what a Team may hold: name, members, projects, tokens
  Unknown,    \* an id that was never given out
  None,       \* nothing
  MaxTeams    \* a bound on the ids that are given out

ASSUME TeamAssumption ==
  /\ MaxTeams \in Nat
  /\ Unknown \notin Nat
  /\ None \notin Contents

VARIABLES
  teams,      \* the Team collection: id -> content
  made,       \* the number of ids given out
  call,       \* what each request asks for
  at,         \* where its handler is
  answer,     \* what it was answered
  listing     \* what a listing has read, and what was there when it began

vars == <<teams, made, call, at, answer, listing>>

Ids == 1..MaxTeams \cup {Unknown}

Team == [id : Ids \cup {NoId}, content : Contents]

\* The routes of main.rs and the arguments of their handlers.
Calls ==
  [method : {"get", "delete"}, id : Ids] \cup [method : {"list"}]
    \cup [method : {"post"}, team : [id : {NoId, Unknown}, content : Contents]]
    \cup [method : {"put"}, id : Ids, team : Team]

\* The status codes of errors.rs by whose fault they are: 400, 404 and 422 are one here.
OK == 200
ClientError == 400
ServerError == 500

NoAnswer == [status |-> 0, body |-> None]
NoListing == [items |-> {}, last |-> 0, existing |-> {}, before |-> 0]

\* The API starts over whatever Teams are stored.
Init ==
  /\ made \in 0..MaxTeams
  /\ teams \in [1..made -> Contents]
  /\ call = [r \in Requests |-> None]
  /\ at = [r \in Requests |-> "idle"]
  /\ answer = [r \in Requests |-> NoAnswer]
  /\ listing = [r \in Requests |-> NoListing]

\* Clients name ids they were given, or make them up.
Given(id) == id \in 0..made \cup {Unknown}

Arrive(r) ==
  /\ at[r] = "idle"
  /\ \E c \in Calls :
       /\ "id" \in DOMAIN c => Given(c.id)
       /\ "team" \in DOMAIN c => Given(c.team.id)
       /\ call' = [call EXCEPT ![r] = c]
  /\ at' = [at EXCEPT ![r] = "arrived"]
  /\ UNCHANGED <<teams, made, answer, listing>>

Arrived(r, method) == at[r] = "arrived" /\ call[r].method = method

Answer(r, status, body) ==
  /\ at' = [at EXCEPT ![r] = "answered"]
  /\ answer' = [answer EXCEPT ![r] = [status |-> status, body |-> body]]
  /\ UNCHANGED <<call, listing>>

\* Error::InternalServerError: what every failure of the store is mapped to.
Fail(r) == Answer(r, ServerError, None)

\* The route or an extractor rejects the request: no such path (a path without an id is
\* one), no bearer token, a body that is no Team.
Reject(r) ==
  /\ at[r] = "arrived"
  /\ Answer(r, ClientError, None)
  /\ UNCHANGED <<teams, made>>

Get(r) ==
  /\ Arrived(r, "get")
  /\ \/ call[r].id \in DOMAIN teams /\ Answer(r, OK, teams[call[r].id])
     \/ call[r].id \notin DOMAIN teams /\ Answer(r, ClientError, None)
     \/ Fail(r)
  /\ UNCHANGED <<teams, made>>

------------------------------------------------------------------------------

With(id, content) ==
  [i \in DOMAIN teams \cup {id} |-> IF i = id THEN content ELSE teams[i]]

Without(id) == [i \in DOMAIN teams \ {id} |-> teams[i]]

\* Service::insert gives a fresh id, whatever becomes of the call after it.
InsertTeam(content) ==
  /\ made < MaxTeams
  /\ made' = made + 1
  /\ teams' = With(made', content)

Post(r) ==
  /\ Arrived(r, "post")
  /\ IF InsertAccepts(call[r].team.id)
     THEN \/ InsertTeam(call[r].team.content) /\ (Answer(r, OK, made') \/ Fail(r))
          \/ Fail(r) /\ UNCHANGED <<teams, made>>
     ELSE Answer(r, ClientError, None) /\ UNCHANGED <<teams, made>>

\* Mutant of PutFind: Service::update does not look whether the Team exists.
PutFindUnchecked(r) ==
  /\ Arrived(r, "put")
  /\ IF call[r].id # call[r].team.id
     THEN Answer(r, ClientError, None)
     ELSE \/ /\ at' = [at EXCEPT ![r] = "found"]
             /\ UNCHANGED <<call, answer, listing>>
          \/ Fail(r)
  /\ UNCHANGED <<teams, made>>

\* Service::update finds the Team, and fails when there is none.
PutFind(r) ==
  /\ Arrived(r, "put")
  /\ IF call[r].id # call[r].team.id
     THEN Answer(r, ClientError, None)
     ELSE \/ /\ call[r].id \in DOMAIN teams
             /\ at' = [at EXCEPT ![r] = "found"]
             /\ UNCHANGED <<call, answer, listing>>
          \/ Fail(r)
  /\ UNCHANGED <<teams, made>>

\* Mutant of SetTeam: the update inserts when it matches nothing.
SetTeamUpsert(r) == teams' = With(call[r].id, call[r].team.content)

\* Store::update: a $set of the whole Team, that matches nothing when it has been deleted.
SetTeam(r) ==
  IF call[r].id \in DOMAIN teams
  THEN teams' = [teams EXCEPT ![call[r].id] = call[r].team.content]
  ELSE UNCHANGED teams

PutSet(r) ==
  /\ at[r] = "found"
  /\ \/ SetTeam(r) /\ Answer(r, OK, call[r].team.content)
     \/ (SetTeam(r) \/ UNCHANGED teams) /\ Fail(r)
  /\ UNCHANGED made

\* Mutant of Delete: the number of deleted documents is not looked at.
DeleteUnchecked(r) ==
  /\ Arrived(r, "delete")
  /\ \/ teams' = Without(call[r].id) /\ Answer(r, OK, None)
     \/ UNCHANGED teams /\ Fail(r)
  /\ UNCHANGED made

Delete(r) ==
  /\ Arrived(r, "delete")
  /\ \/ /\ call[r].id \in DOMAIN teams
        /\ teams' = Without(call[r].id)
        /\ Answer(r, OK, None) \/ Fail(r)
     \/ UNCHANGED teams /\ Fail(r)
  /\ UNCHANGED made

------------------------------------------------------------------------------
(* Store::list reads a cursor to its end: no snapshot, but every document in its turn. *)

\* `existing` and `before` are history: they say what was there when the cursor was opened.
ListOpen(r) ==
  /\ Arrived(r, "list")
  /\ at' = [at EXCEPT ![r] = "listing"]
  /\ listing' = [listing EXCEPT ![r] = [items |-> {}, last |-> 0,
                                        existing |-> DOMAIN teams, before |-> made]]
  /\ UNCHANGED <<teams, made, call, answer>>

Unread(r) == {i \in DOMAIN teams : i > listing[r].last}

ListNext(r) ==
  /\ at[r] = "listing"
  /\ \E i \in Unread(r) :
       /\ \A j \in Unread(r) : i <= j
       /\ listing' = [listing EXCEPT ![r].items = @ \cup {[id |-> i, content |-> teams[i]]},
                                     ![r].last = i]
  /\ UNCHANGED <<teams, made, call, at, answer>>

ListEnd(r) ==
  /\ at[r] = "listing"
  /\ Unread(r) = {}
  /\ Answer(r, OK, None)
  /\ UNCHANGED <<teams, made>>

\* Mutant of ListFails: an error of the cursor ends the listing like its end.
ListFailsUnseen(r) ==
  /\ Arrived(r, "list") \/ at[r] = "listing"
  /\ Answer(r, OK, None)
  /\ UNCHANGED <<teams, made>>

ListFails(r) ==
  /\ Arrived(r, "list") \/ at[r] = "listing"
  /\ Fail(r)
  /\ UNCHANGED <<teams, made>>

------------------------------------------------------------------------------

\* The client goes away, or the server stops: the handler does not run on.
Drop(r) ==
  /\ at[r] \in {"arrived", "found", "listing"}
  /\ at' = [at EXCEPT ![r] = "dropped"]
  /\ UNCHANGED <<teams, made, call, answer, listing>>

Handle(r) ==
  \/ Reject(r) \/ Get(r) \/ Post(r) \/ PutFind(r) \/ PutSet(r) \/ Delete(r)
  \/ ListOpen(r) \/ ListNext(r) \/ ListEnd(r) \/ ListFails(r)

Next == \E r \in Requests : Arrive(r) \/ Handle(r) \/ Drop(r)

Spec == Init /\ [][Next]_vars

------------------------------------------------------------------------------
(* Properties. *)

Stages == {"idle", "arrived", "found", "listing", "answered", "dropped"}

\* The Teams stored have ids that were given out, and only a PUT of a Team under its own
\* id is ever past its find.
TypeOK ==
  /\ made \in 0..MaxTeams
  /\ DOMAIN teams \subseteq 1..made
  /\ \A i \in DOMAIN teams : teams[i] \in Contents
  /\ at \in [Requests -> Stages]
  /\ call \in [Requests -> Calls \cup {None}]
  /\ answer \in [Requests -> [status : {0, OK, ClientError, ServerError},
                              body : Contents \cup Ids \cup {None}]]
  /\ \A r \in Requests :
       /\ at[r] # "idle" => call[r] \in Calls
       /\ at[r] = "found" => call[r].method = "put" /\ call[r].id \in 1..made
       /\ at[r] = "listing" => call[r].method = "list"

ToldDeleted(r) == at[r] = "answered" /\ call[r].method = "delete" /\ answer[r].status = OK

\* However many clients delete a Team at the same time, one at most is told it did.
DeletedOnce ==
  \A r, s \in Requests :
    ToldDeleted(r) /\ ToldDeleted(s) /\ call[r].id = call[s].id => r = s

\* A listing that was answered has every Team that was there from its begin to its end,
\* and none that was not there in between, though other clients create, replace and
\* delete Teams while the cursor moves.
ListingTruthful ==
  [][\A r \in Requests :
       (at[r] # "answered" /\ at'[r] = "answered" /\ call[r].method = "list"
          /\ answer'[r].status = OK)
       => LET listed == {x.id : x \in listing[r].items}
          IN  /\ \A i \in DOMAIN teams : i <= listing[r].before => i \in listed
              /\ \A i \in listed : i <= listing[r].before => i \in listing[r].existing
              /\ \A i \in listed : i <= made]_vars

\* Requests for one Team are atomic.  A PUT whose Team is deleted between its find and
\* its $set stores nothing and is answered like one that came before the DELETE.
Stage(r) ==
  CASE at[r] \in {"arrived", "listing"} -> "pending"
    [] at[r] = "found" -> IF call[r].id \in DOMAIN teams THEN "pending" ELSE "effective"
    [] OTHER -> at[r]

Register == INSTANCE TeamRegister WITH stage <- [r \in Requests |-> Stage(r)]

ImplementsRegister == Register!Spec
==============================================================================
