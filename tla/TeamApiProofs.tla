---------------------------- MODULE TeamApiProofs ----------------------------
(***************************************************************************)
(* Proofs about the Team API, for any number of requests and Teams: its    *)
(* types, that a Team is deleted once, and that TeamApi implements         *)
(* TeamRegister.                                                           *)
(***************************************************************************)
EXTENDS TeamApi, TLAPS

USE DEF OK, ClientError, ServerError

\* A call is a call of one of the five routes.
LEMMA CallForms ==
  ASSUME NEW c \in Calls
  PROVE  /\ c.method \in {"get", "delete", "list", "post", "put"}
         /\ c.method \in {"get", "delete"} => c.id \in Ids
         /\ c.method = "put" => c.id \in Ids /\ c.team.id \in Ids \cup {NoId}
                                  /\ c.team.content \in Contents
         /\ c.method = "post" => c.team.content \in Contents
BY DEF Calls, Team

LEMMA InitTypeOK == Init => TypeOK
BY TeamAssumption DEF Init, TypeOK, Stages, NoAnswer, Ids

\* An id below MaxTeams that is in use was given out.
LEMMA GivenOut ==
  ASSUME TypeOK, NEW i \in DOMAIN teams
  PROVE  i \in 1..made /\ i \in Nat
BY TeamAssumption DEF TypeOK

\* What an answer does to the types.
LEMMA AnswerTypes ==
  ASSUME TypeOK, NEW r \in Requests, at[r] # "idle",
         NEW status \in {OK, ClientError, ServerError},
         NEW body \in Contents \cup Ids \cup {None},
         Answer(r, status, body),
         made' \in made..MaxTeams, made' \in Nat,
         DOMAIN teams' \subseteq 1..made',
         \A i \in DOMAIN teams' : teams'[i] \in Contents
  PROVE  TypeOK'
<1>1. at' \in [Requests -> Stages]
  BY DEF TypeOK, Answer, Stages
<1>2. call' \in [Requests -> Calls \cup {None}]
  BY DEF TypeOK, Answer
<1>3. answer' \in [Requests -> [status : {0, OK, ClientError, ServerError},
                               body : Contents \cup Ids \cup {None}]]
  BY DEF TypeOK, Answer
<1>4. \A q \in Requests : at'[q] # "idle" => call'[q] \in Calls
  BY DEF TypeOK, Answer
<1>5. \A q \in Requests : at'[q] = "found" => call'[q].method = "put" /\ call'[q].id \in 1..made'
  BY TeamAssumption DEF TypeOK, Answer
<1>6. \A q \in Requests : at'[q] = "listing" => call'[q].method = "list"
  BY DEF TypeOK, Answer
<1> QED
  BY <1>1, <1>2, <1>3, <1>4, <1>5, <1>6, TeamAssumption DEF TypeOK

LEMMA NextTypeOK == TypeOK /\ [Next]_vars => TypeOK'
<1> SUFFICES ASSUME TypeOK, [Next]_vars PROVE TypeOK'
  OBVIOUS
<1> USE TeamAssumption
<1>0. made \in Nat /\ made \in made..MaxTeams
  BY DEF TypeOK
<1>1. ASSUME NEW r \in Requests, Arrive(r) PROVE TypeOK'
  <2>1. PICK c \in Calls : call' = [call EXCEPT ![r] = c]
    BY <1>1 DEF Arrive
  <2> QED
    BY <1>1, <2>1 DEF Arrive, TypeOK, Stages
<1>2. ASSUME NEW r \in Requests, Reject(r) PROVE TypeOK'
  BY <1>2, <1>0, AnswerTypes DEF Reject, TypeOK
<1>3. ASSUME NEW r \in Requests, Get(r) PROVE TypeOK'
  BY <1>3, <1>0, AnswerTypes DEF Get, Arrived, Fail, TypeOK
<1>4. ASSUME NEW r \in Requests, Post(r) PROVE TypeOK'
  <2> USE <1>4
  <2>1. at[r] = "arrived" /\ call[r].team.content \in Contents
    BY CallForms DEF Post, Arrived, TypeOK
  <2>2. CASE UNCHANGED <<teams, made>>
    <3>1. Answer(r, ServerError, None) \/ Answer(r, ClientError, None) \/ Answer(r, OK, made')
      BY DEF Post, Fail
    <3>2. Answer(r, ServerError, None) \/ Answer(r, ClientError, None)
      BY <3>1, <2>2, <1>0 DEF Post, InsertTeam, Fail
    <3> QED
      BY <2>1, <2>2, <1>0, <3>2, AnswerTypes DEF TypeOK
  <2>3. CASE InsertTeam(call[r].team.content)
    <3>1. made' = made + 1 /\ made' \in made..MaxTeams /\ made' \in Ids /\ made' \in Nat
      BY <2>3, <1>0 DEF InsertTeam, Ids
    <3>2. /\ DOMAIN teams' \subseteq 1..made'
          /\ \A i \in DOMAIN teams' : teams'[i] \in Contents
      BY <2>1, <2>3, <3>1, <1>0 DEF InsertTeam, With, TypeOK
    <3>3. Answer(r, OK, made') \/ Answer(r, ServerError, None) \/ Answer(r, ClientError, None)
      BY DEF Post, Fail
    <3> QED
      BY <2>1, <3>1, <3>2, <3>3, AnswerTypes
  <2> QED
    BY <2>2, <2>3 DEF Post
<1>5. ASSUME NEW r \in Requests, PutFind(r) PROVE TypeOK'
  <2>1. CASE call[r].id \in DOMAIN teams /\ at' = [at EXCEPT ![r] = "found"]
               /\ UNCHANGED <<call, answer, listing>>
    BY <1>5, <2>1 DEF PutFind, Arrived, TypeOK, Stages
  <2>2. CASE Answer(r, ClientError, None) \/ Fail(r)
    BY <1>5, <2>2, <1>0, AnswerTypes DEF PutFind, Arrived, Fail, TypeOK
  <2> QED
    BY <1>5, <2>1, <2>2 DEF PutFind
<1>6. ASSUME NEW r \in Requests, PutSet(r) PROVE TypeOK'
  <2>1. call[r].team.content \in Contents
    BY <1>6, CallForms DEF PutSet, TypeOK
  <2>2. DOMAIN teams' = DOMAIN teams /\ \A i \in DOMAIN teams' : teams'[i] \in Contents
    BY <1>6, <2>1 DEF PutSet, SetTeam, TypeOK
  <2> QED
    BY <1>6, <1>0, <2>1, <2>2, AnswerTypes DEF PutSet, Fail, TypeOK
<1>7. ASSUME NEW r \in Requests, Delete(r) PROVE TypeOK'
  <2>1. DOMAIN teams' \subseteq DOMAIN teams /\ \A i \in DOMAIN teams' : teams'[i] \in Contents
    BY <1>7 DEF Delete, Without, TypeOK
  <2> QED
    BY <1>7, <1>0, <2>1, AnswerTypes DEF Delete, Arrived, Fail, TypeOK
<1>8. ASSUME NEW r \in Requests, ListOpen(r) \/ ListNext(r) \/ Drop(r) PROVE TypeOK'
  BY <1>8 DEF ListOpen, Arrived, ListNext, Drop, TypeOK, Stages
<1>9. ASSUME NEW r \in Requests, ListEnd(r) \/ ListFails(r) PROVE TypeOK'
  BY <1>9, <1>0, AnswerTypes DEF ListEnd, ListFails, Arrived, Fail, TypeOK
<1>10. CASE UNCHANGED vars
  BY <1>10 DEF vars, TypeOK
<1> QED
  BY <1>1, <1>2, <1>3, <1>4, <1>5, <1>6, <1>7, <1>8, <1>9, <1>10 DEF Next, Handle

\* The Teams and the state of every request are well formed.
THEOREM TeamTypeCorrect == Spec => []TypeOK
<1> QED
  BY InitTypeOK, NextTypeOK, PTL DEF Spec
------------------------------------------------------------------------------
(* A Team is deleted once. *)

\* Whoever was told that the Team is deleted: it is gone, and its id was given out.
DeletedIsGone ==
  \A r \in Requests :
    ToldDeleted(r) => call[r].id \notin DOMAIN teams /\ call[r].id \in 1..made

DeleteInv == TypeOK /\ DeletedIsGone /\ DeletedOnce

\* What a request other than a successful DELETE may do keeps the invariant.
LEMMA OthersKeep ==
  ASSUME DeleteInv, NEW r \in Requests,
         at' = [at EXCEPT ![r] = at'[r]],
         call' = call \/ (at[r] = "idle" /\ call' = [call EXCEPT ![r] = call'[r]]),
         at[r] # "answered",
         ~(at'[r] = "answered" /\ call'[r].method = "delete" /\ answer'[r].status = OK),
         answer' = [answer EXCEPT ![r] = answer'[r]],
         made' \in Nat, made' >= made,
         \A i \in DOMAIN teams' : i \in DOMAIN teams \/ i > made
  PROVE  (DeletedIsGone /\ DeletedOnce)'
<1>1. \A q \in Requests : ToldDeleted(q)' => q # r /\ ToldDeleted(q) /\ call'[q] = call[q]
  BY DEF DeleteInv, TypeOK, ToldDeleted
<1>2. made \in Nat /\ (1..made) \subseteq (1..made')
  BY TeamAssumption DEF DeleteInv, TypeOK
<1>3. DeletedIsGone'
  BY <1>1, <1>2 DEF DeleteInv, DeletedIsGone
<1>4. DeletedOnce'
  BY <1>1 DEF DeleteInv, DeletedOnce
<1> QED
  BY <1>3, <1>4

LEMMA DeleteInvStep == DeleteInv /\ [Next]_vars => DeleteInv'
<1> SUFFICES ASSUME DeleteInv, [Next]_vars PROVE (DeletedIsGone /\ DeletedOnce)'
  BY NextTypeOK DEF DeleteInv
<1> USE TeamAssumption
<1>0. made \in Nat
  BY DEF DeleteInv, TypeOK
<1>1. ASSUME NEW r \in Requests, Arrive(r) PROVE (DeletedIsGone /\ DeletedOnce)'
  <2>1. PICK c \in Calls : call' = [call EXCEPT ![r] = c]
    BY <1>1 DEF Arrive
  <2>2. /\ at' = [at EXCEPT ![r] = at'[r]] /\ UNCHANGED <<made, teams, answer>>
        /\ at[r] = "idle" /\ call' = [call EXCEPT ![r] = call'[r]]
        /\ ~(at'[r] = "answered" /\ call'[r].method = "delete" /\ answer'[r].status = OK)
    BY <1>1, <2>1 DEF Arrive, ToldDeleted, DeleteInv, TypeOK
  <2>3. answer' = [answer EXCEPT ![r] = answer'[r]]
    BY <2>2 DEF DeleteInv, TypeOK
  <2> QED
    BY <1>0, <2>2, <2>3, OthersKeep
<1>2. ASSUME NEW r \in Requests, Reject(r) \/ Get(r) \/ ListEnd(r) \/ ListFails(r)
      PROVE  (DeletedIsGone /\ DeletedOnce)'
  <2>1. /\ at' = [at EXCEPT ![r] = at'[r]] /\ UNCHANGED <<call, made, teams>>
        /\ answer' = [answer EXCEPT ![r] = answer'[r]]
        /\ at[r] # "answered"
    BY <1>2 DEF Reject, Get, ListEnd, ListFails, Arrived, Answer, Fail, DeleteInv, TypeOK
  <2>2. at[r] \in {"arrived", "listing"} /\ (at[r] = "arrived" => call[r] \in Calls)
    BY <1>2 DEF Reject, Get, ListEnd, ListFails, Arrived, DeleteInv, TypeOK
  <2>3. ~(at'[r] = "answered" /\ call'[r].method = "delete" /\ answer'[r].status = OK)
    <3>1. CASE Reject(r) \/ ListFails(r)
      BY <3>1 DEF Reject, ListFails, Answer, Fail, DeleteInv, TypeOK
    <3>2. CASE Get(r)
      BY <2>1, <3>2 DEF Get, Arrived
    <3>3. CASE ListEnd(r)
      BY <2>1, <3>3 DEF ListEnd, DeleteInv, TypeOK
    <3> QED
      BY <1>2, <3>1, <3>2, <3>3
  <2> QED
    BY <1>0, <2>1, <2>3, OthersKeep
<1>3. ASSUME NEW r \in Requests, Post(r) PROVE (DeletedIsGone /\ DeletedOnce)'
  <2>1. /\ at' = [at EXCEPT ![r] = at'[r]] /\ call' = call
        /\ answer' = [answer EXCEPT ![r] = answer'[r]]
        /\ at[r] # "answered"
        /\ ~(at'[r] = "answered" /\ call'[r].method = "delete" /\ answer'[r].status = OK)
    BY <1>3 DEF Post, Arrived, Answer, Fail, ToldDeleted, DeleteInv, TypeOK
  <2>2. /\ made' \in Nat /\ made' >= made
        /\ \A i \in DOMAIN teams' : i \in DOMAIN teams \/ i > made
    BY <1>0, <1>3 DEF Post, InsertTeam, With
  <2> QED
    BY <2>1, <2>2, OthersKeep
<1>4. ASSUME NEW r \in Requests, PutFind(r) \/ PutSet(r) PROVE (DeletedIsGone /\ DeletedOnce)'
  <2>1. /\ at' = [at EXCEPT ![r] = at'[r]] /\ call' = call
        /\ answer' = [answer EXCEPT ![r] = answer'[r]]
        /\ at[r] # "answered"
        /\ ~(at'[r] = "answered" /\ call'[r].method = "delete" /\ answer'[r].status = OK)
    BY <1>4 DEF PutFind, PutSet, Arrived, Answer, Fail, ToldDeleted, DeleteInv, TypeOK
  <2>2. made' = made /\ DOMAIN teams' = DOMAIN teams
    BY <1>4 DEF PutFind, PutSet, SetTeam
  <2> QED
    BY <1>0, <2>1, <2>2, OthersKeep
<1>5. ASSUME NEW r \in Requests, Delete(r) PROVE (DeletedIsGone /\ DeletedOnce)'
  <2>1. /\ at' = [at EXCEPT ![r] = at'[r]] /\ call' = call /\ made' = made
        /\ answer' = [answer EXCEPT ![r] = answer'[r]]
        /\ at[r] # "answered"
        /\ DOMAIN teams' \subseteq DOMAIN teams
    BY <1>5 DEF Delete, Arrived, Answer, Fail, Without, DeleteInv, TypeOK
  <2>2. CASE ~(at'[r] = "answered" /\ call'[r].method = "delete" /\ answer'[r].status = OK)
    BY <1>0, <2>1, <2>2, OthersKeep
  <2>3. CASE (at'[r] = "answered" /\ call'[r].method = "delete" /\ answer'[r].status = OK)
    <3>1. call[r].id \in DOMAIN teams /\ call[r].id \notin DOMAIN teams'
      BY <1>5, <2>3 DEF Delete, Arrived, Answer, Fail, Without, ToldDeleted, DeleteInv, TypeOK
    <3>2. call[r].id \in 1..made
      BY <3>1 DEF DeleteInv, TypeOK
    <3>3. \A q \in Requests \ {r} : ToldDeleted(q)' => ToldDeleted(q)
      BY <2>1 DEF ToldDeleted, DeleteInv, TypeOK
    <3>4. \A q \in Requests \ {r} : ToldDeleted(q)' => call[q].id # call[r].id
      BY <3>1, <3>3 DEF DeleteInv, DeletedIsGone
    <3>5. DeletedIsGone'
      BY <2>1, <3>1, <3>2, <3>3 DEF DeleteInv, DeletedIsGone
    <3>6. DeletedOnce'
      BY <2>1, <3>3, <3>4 DEF DeleteInv, DeletedOnce
    <3> QED
      BY <3>5, <3>6
  <2> QED
    BY <2>2, <2>3
<1>6. ASSUME NEW r \in Requests, ListOpen(r) \/ ListNext(r) \/ Drop(r)
      PROVE  (DeletedIsGone /\ DeletedOnce)'
  <2>1. /\ at' = [at EXCEPT ![r] = at'[r]] /\ UNCHANGED <<call, made, teams, answer>>
        /\ at[r] # "answered"
        /\ ~(at'[r] = "answered" /\ call'[r].method = "delete" /\ answer'[r].status = OK)
    BY <1>6 DEF ListOpen, ListNext, Drop, Arrived, ToldDeleted, DeleteInv, TypeOK
  <2>2. answer' = [answer EXCEPT ![r] = answer'[r]]
    BY <2>1 DEF DeleteInv, TypeOK
  <2> QED
    BY <1>0, <2>1, <2>2, OthersKeep
<1>7. CASE UNCHANGED vars
  BY <1>7 DEF vars, DeleteInv, DeletedIsGone, DeletedOnce, ToldDeleted
<1> QED
  BY <1>1, <1>2, <1>3, <1>4, <1>5, <1>6, <1>7 DEF Next, Handle

\* One client at most is told that it deleted a Team.
THEOREM TeamDeletedOnce == Spec => []DeletedOnce
<1>1. Init => DeleteInv
  BY InitTypeOK DEF Init, DeleteInv, DeletedIsGone, DeletedOnce, ToldDeleted
<1> QED
  BY <1>1, DeleteInvStep, PTL DEF Spec, DeleteInv

------------------------------------------------------------------------------
(* A listing is truthful. *)

Listings ==
  [items : SUBSET [id : Nat, content : Contents], last : Nat, existing : SUBSET Nat, before : Nat]

Listed(r) == {x.id : x \in listing[r].items}

\* What a listing has read and will not read again: the Teams below its cursor that were
\* there when it began are listed or gone, and what was not there then has not come back.
Underway(r) ==
  /\ listing[r].before <= made
  /\ \A i \in DOMAIN teams : i <= listing[r].before /\ i <= listing[r].last => i \in Listed(r)
  /\ \A i \in DOMAIN teams : i <= listing[r].before => i \in listing[r].existing
  /\ \A i \in Listed(r) : i <= made /\ (i <= listing[r].before => i \in listing[r].existing)

ListInv ==
  /\ TypeOK
  /\ listing \in [Requests -> Listings]
  /\ \A r \in Requests : at[r] = "listing" => Underway(r)

\* What ListNext does to the ids listed.
LEMMA ListedOneMore ==
  ASSUME NEW S, NEW x
  PROVE  {y.id : y \in S \cup {x}} = {y.id : y \in S} \cup {x.id}
OBVIOUS

\* A listing that reads nothing in a step stays truthful: no Team comes back under an id
\* that was given out before.
LEMMA UnderwayKept ==
  ASSUME ListInv, TypeOK', NEW q \in Requests, at[q] = "listing", listing'[q] = listing[q],
         made <= made', \A i \in DOMAIN teams' : i \in DOMAIN teams \/ i > made
  PROVE  Underway(q)'
<1>1. made \in Nat /\ made' \in Nat /\ listing[q].before \in Nat /\ listing[q].last \in Nat
  BY TeamAssumption DEF ListInv, TypeOK, Listings
<1>2. \A i \in DOMAIN teams' : i \in Nat
  BY <1>1 DEF ListInv, TypeOK
<1>3. Listed(q)' = Listed(q) /\ \A i \in Listed(q) : i \in Nat
  BY DEF Listed, ListInv, Listings
<1>4. Underway(q)
  BY DEF ListInv
<1> QED
  BY <1>1, <1>2, <1>3, <1>4 DEF Underway

LEMMA ListInvStep == ListInv /\ [Next]_vars => ListInv'
<1> SUFFICES ASSUME ListInv, [Next]_vars
             PROVE  /\ listing' \in [Requests -> Listings]
                    /\ \A q \in Requests : at'[q] = "listing" => Underway(q)'
  BY NextTypeOK DEF ListInv
<1> USE TeamAssumption
<1>0. TypeOK' /\ made \in Nat
  BY NextTypeOK DEF ListInv, TypeOK
<1>1. ASSUME listing' = listing,
             \A q \in Requests : at'[q] = "listing" => at[q] = "listing",
             made <= made', \A i \in DOMAIN teams' : i \in DOMAIN teams \/ i > made
      PROVE  /\ listing' \in [Requests -> Listings]
             /\ \A q \in Requests : at'[q] = "listing" => Underway(q)'
  BY <1>0, <1>1, UnderwayKept DEF ListInv
<1>2. ASSUME NEW r \in Requests,
             \/ Arrive(r) \/ Reject(r) \/ Get(r) \/ PutFind(r) \/ ListEnd(r)
             \/ ListFails(r) \/ Drop(r)
      PROVE  /\ listing' = listing /\ made' = made /\ teams' = teams
             /\ \A q \in Requests : at'[q] = "listing" => at[q] = "listing"
  BY <1>2 DEF Arrive, Reject, Get, PutFind, ListEnd, ListFails, Drop, Answer, Fail, ListInv,
              TypeOK
<1>3. ASSUME NEW r \in Requests, Post(r) \/ PutSet(r) \/ Delete(r)
      PROVE  /\ listing' = listing
             /\ \A q \in Requests : at'[q] = "listing" => at[q] = "listing"
             /\ made <= made' /\ \A i \in DOMAIN teams' : i \in DOMAIN teams \/ i > made
  <2>1. Answer(r, answer'[r].status, answer'[r].body)
    BY <1>3 DEF Post, PutSet, Delete, Answer, Fail, ListInv, TypeOK
  <2>2. /\ listing' = listing
        /\ \A q \in Requests : at'[q] = "listing" => at[q] = "listing"
    BY <2>1 DEF Answer, ListInv, TypeOK
  <2>3. made <= made' /\ \A i \in DOMAIN teams' : i \in DOMAIN teams \/ i > made
    BY <1>0, <1>3 DEF Post, InsertTeam, With, PutSet, SetTeam, Delete, Without
  <2> QED
    BY <2>2, <2>3
<1>4. ASSUME NEW r \in Requests, ListOpen(r)
      PROVE  /\ listing' \in [Requests -> Listings]
             /\ \A q \in Requests : at'[q] = "listing" => Underway(q)'
  <2> DEFINE l == [items |-> {}, last |-> 0, existing |-> DOMAIN teams, before |-> made]
  <2>1. DOMAIN teams \subseteq Nat /\ \A i \in DOMAIN teams : ~(i <= 0)
    BY <1>0 DEF ListInv, TypeOK
  <2>2. l \in Listings
    BY <1>0, <2>1 DEF Listings
  <2>3. /\ listing' = [listing EXCEPT ![r] = l] /\ at' = [at EXCEPT ![r] = "listing"]
        /\ teams' = teams /\ made' = made
    BY <1>4 DEF ListOpen
  <2>4. listing' \in [Requests -> Listings]
    BY <2>2, <2>3 DEF ListInv
  <2>5. ASSUME NEW q \in Requests, at'[q] = "listing", q # r PROVE Underway(q)'
    <3>1. at[q] = "listing" /\ listing'[q] = listing[q]
      BY <2>3, <2>5 DEF ListInv, TypeOK
    <3> QED
      BY <1>0, <2>3, <3>1, UnderwayKept
  <2>6. Underway(r)'
    <3>1. listing'[r] = l
      BY <2>3 DEF ListInv
    <3>2. Listed(r)' = {}
      BY <3>1 DEF Listed
    <3> QED
      BY <1>0, <2>1, <2>3, <3>1, <3>2 DEF Underway
  <2> QED
    BY <2>4, <2>5, <2>6
<1>5. ASSUME NEW r \in Requests, ListNext(r)
      PROVE  /\ listing' \in [Requests -> Listings]
             /\ \A q \in Requests : at'[q] = "listing" => Underway(q)'
  <2>1. PICK i \in Unread(r) :
          /\ \A j \in Unread(r) : i <= j
          /\ listing' = [listing EXCEPT ![r].items = @ \cup {[id |-> i, content |-> teams[i]]},
                                        ![r].last = i]
    BY <1>5 DEF ListNext
  <2>2. at[r] = "listing" /\ UNCHANGED <<teams, made, at>>
    BY <1>5 DEF ListNext
  <2>3. i \in DOMAIN teams /\ i \in Nat /\ i <= made /\ teams[i] \in Contents
    BY <1>0, <2>1 DEF Unread, ListInv, TypeOK
  <2>4. listing[r] \in Listings
    BY DEF ListInv
  <2> DEFINE items == listing[r].items \cup {[id |-> i, content |-> teams[i]]}
             l == [listing[r] EXCEPT !.items = items, !.last = i]
  <2>5. /\ listing' = [listing EXCEPT ![r] = l] /\ l \in Listings
        /\ l.items = items /\ l.last = i
        /\ l.existing = listing[r].existing /\ l.before = listing[r].before
    <3>1. [id |-> i, content |-> teams[i]] \in [id : Nat, content : Contents]
      BY <2>3
    <3>2. items \in SUBSET [id : Nat, content : Contents]
      BY <2>4, <3>1 DEF Listings
    <3>3. listing' = [listing EXCEPT ![r] = l]
      BY <2>1 DEF ListInv
    <3> HIDE DEF items
    <3>4. l \in Listings
      BY <2>3, <2>4, <3>2 DEF Listings
    <3>5. /\ l.items = items /\ l.last = i
          /\ l.existing = listing[r].existing /\ l.before = listing[r].before
      BY <2>4 DEF Listings
    <3> QED
      BY <3>3, <3>4, <3>5
  <2>6. listing' \in [Requests -> Listings]
    BY <2>5 DEF ListInv
  <2>7. ASSUME NEW q \in Requests, at'[q] = "listing", q # r PROVE Underway(q)'
    <3>1. at[q] = "listing" /\ listing'[q] = listing[q]
      BY <2>2, <2>5, <2>7 DEF ListInv, TypeOK
    <3> QED
      BY <1>0, <2>2, <3>1, UnderwayKept
  <2>8. Underway(r)'
    <3>1. listing'[r] = l
      BY <2>5 DEF ListInv
    <3> HIDE DEF l
    <3>2. Listed(r)' = Listed(r) \cup {i}
      <4> DEFINE x == [id |-> i, content |-> teams[i]]
      <4>1. listing'[r].items = listing[r].items \cup {x} /\ x.id = i
        BY <2>5, <3>1
      <4> HIDE DEF x
      <4> QED
        BY <4>1, ListedOneMore DEF Listed
    <3>3. Underway(r) /\ listing[r].before \in Nat /\ listing[r].last \in Nat
      BY <2>2, <2>4 DEF ListInv, Listings
    <3>4. ASSUME NEW j \in DOMAIN teams, j <= listing[r].before, j <= i
          PROVE  j \in Listed(r) \cup {i}
      <4>1. j \in Nat
        BY <1>0 DEF ListInv, TypeOK
      <4>2. CASE j <= listing[r].last
        BY <3>3, <3>4, <4>2 DEF Underway
      <4>3. CASE j > listing[r].last
        <5>1. j \in Unread(r)
          BY <4>3 DEF Unread
        <5> QED
          BY <2>1, <2>3, <3>4, <4>1, <5>1
      <4> QED
        BY <3>3, <4>1, <4>2, <4>3
    <3>5. i <= listing[r].before => i \in listing[r].existing
      BY <2>3, <3>3 DEF Underway
    <3> QED
      BY <2>2, <2>3, <2>5, <3>1, <3>2, <3>3, <3>4, <3>5 DEF Underway
  <2> QED
    BY <2>6, <2>7, <2>8
<1>6. CASE UNCHANGED vars
  BY <1>0, <1>1, <1>6 DEF vars
<1> QED
  BY <1>0, <1>1, <1>2, <1>3, <1>4, <1>5, <1>6 DEF Next, Handle

\* A listing answered with success has read to the end of its cursor.
LEMMA ListingStep ==
  ListInv /\ [Next]_vars =>
    [\A r \in Requests :
       (at[r] # "answered" /\ at'[r] = "answered" /\ call[r].method = "list"
          /\ answer'[r].status = OK)
       => LET listed == {x.id : x \in listing[r].items}
          IN  /\ \A i \in DOMAIN teams : i <= listing[r].before => i \in listed
              /\ \A i \in listed : i <= listing[r].before => i \in listing[r].existing
              /\ \A i \in listed : i <= made]_vars
<1> SUFFICES ASSUME ListInv, Next, NEW r \in Requests, at[r] # "answered",
                    at'[r] = "answered", call[r].method = "list", answer'[r].status = OK
             PROVE  /\ \A i \in DOMAIN teams : i <= listing[r].before => i \in Listed(r)
                    /\ \A i \in Listed(r) : i <= listing[r].before => i \in listing[r].existing
                    /\ \A i \in Listed(r) : i <= made
  BY DEF Listed, vars
<1> USE TeamAssumption
<1>1. PICK q \in Requests : Arrive(q) \/ Handle(q) \/ Drop(q)
  BY DEF Next
<1>2. q = r /\ \E status \in {OK, ClientError, ServerError} : \E body : Answer(r, status, body)
  BY <1>1 DEF Arrive, Handle, Reject, Get, Post, PutFind, PutSet, Delete, ListOpen, ListNext,
              ListEnd, ListFails, Drop, Answer, Fail, ListInv, TypeOK
<1>3. ListEnd(r)
  <2>1. /\ ~Get(r) /\ ~Post(r) /\ ~PutFind(r) /\ ~Delete(r)
    BY DEF Get, Post, PutFind, Delete, Arrived
  <2>2. ~PutSet(r)
    BY DEF PutSet, ListInv, TypeOK
  <2>3. ~Reject(r) /\ ~ListFails(r) /\ ~Arrive(r) /\ ~ListOpen(r) /\ ~ListNext(r) /\ ~Drop(r)
    BY DEF Reject, ListFails, Arrive, ListOpen, ListNext, Drop, Answer, Fail, ListInv, TypeOK
  <2> QED
    BY <1>1, <1>2, <2>1, <2>2, <2>3 DEF Handle
<1>4. Underway(r) /\ \A i \in DOMAIN teams : i <= listing[r].last
  <2>1. listing[r].last \in Nat /\ \A i \in DOMAIN teams : i \in Nat
    BY DEF ListInv, TypeOK, Listings
  <2> QED
    BY <1>3, <2>1 DEF ListEnd, Unread, ListInv
<1> QED
  BY <1>4 DEF Underway

\* A listing answered with success has every Team that was there throughout it and none
\* that was never there, whatever other clients did while it was read.
THEOREM ListingsTruthful == Spec => ListingTruthful
<1>1. Init => ListInv
  BY InitTypeOK DEF Init, ListInv, Listings, NoListing
<1> QED
  BY <1>1, ListInvStep, ListingStep, PTL DEF Spec, ListingTruthful

------------------------------------------------------------------------------
(* TeamApi implements TeamRegister. *)

USE DEF Register!OK, Register!ClientError, Register!ServerError

StageOf == [q \in Requests |-> Stage(q)]

\* A step of one request that leaves the Teams others have found in place changes the
\* stage of that request only.
LEMMA OneStage ==
  ASSUME TypeOK, NEW r \in Requests, NEW s,
         at' = [at EXCEPT ![r] = s],
         \A q \in Requests \ {r} : call'[q] = call[q],
         \A q \in Requests \ {r} :
           at[q] = "found" => (call[q].id \in DOMAIN teams <=> call[q].id \in DOMAIN teams'),
         s \in {"arrived", "listing", "answered", "dropped"}
  PROVE  StageOf' = [StageOf EXCEPT ![r] = IF s \in {"arrived", "listing"} THEN "pending" ELSE s]
<1> DEFINE t == IF s \in {"arrived", "listing"} THEN "pending" ELSE s
<1>1. Stage(r)' = t
  BY DEF Stage, TypeOK
<1>2. ASSUME NEW q \in Requests, q # r PROVE Stage(q)' = Stage(q)
  <2>1. at'[q] = at[q] /\ call'[q] = call[q]
    BY <1>2 DEF TypeOK
  <2> QED
    BY <1>2, <2>1 DEF Stage
<1>3. StageOf' = [q \in Requests |-> IF q = r THEN t ELSE Stage(q)]
  BY <1>1, <1>2 DEF StageOf
<1> QED
  BY <1>3 DEF StageOf

\* Where the handler of a request waits before it has found anything, or when its Team is
\* still there, it is pending.
LEMMA PendingStages ==
  ASSUME TypeOK, NEW r \in Requests
  PROVE  /\ at[r] \in {"arrived", "listing"} => StageOf[r] = "pending"
         /\ at[r] = "found" /\ call[r].id \in DOMAIN teams => StageOf[r] = "pending"
         /\ at[r] = "found" /\ call[r].id \notin DOMAIN teams => StageOf[r] = "effective"
         /\ at[r] = "idle" => StageOf[r] = "idle"
BY DEF StageOf, Stage

LEMMA InitImplements == Init => Register!Init
BY TeamAssumption DEF Init, Register!Init, Stage, NoAnswer, Register!NoAnswer

LEMMA StepImplements == TypeOK /\ [Next]_vars => [Register!Next]_(Register!registerVars)
<1> SUFFICES ASSUME TypeOK, [Next]_vars
             PROVE  Register!Next \/ UNCHANGED Register!registerVars
  OBVIOUS
<1> USE TeamAssumption
<1> USE DEF Register!Answer, Register!Pending
<1>0. [q \in Requests |-> Stage(q)] = StageOf /\ made \in Nat
  BY DEF StageOf, TypeOK
<1>1. ASSUME NEW r \in Requests, Arrive(r) PROVE Register!Arrive(r)
  <2>1. PICK c \in Calls : call' = [call EXCEPT ![r] = c]
    BY <1>1 DEF Arrive
  <2>2. StageOf' = [StageOf EXCEPT ![r] = "pending"]
    BY <1>1, <2>1, OneStage DEF Arrive, TypeOK
  <2> QED
    BY <1>0, <1>1, <2>1, <2>2, PendingStages DEF Arrive, Register!Arrive, StageOf
<1>2. ASSUME NEW r \in Requests, Answer(r, ClientError, None) \/ Fail(r),
             UNCHANGED <<teams, made>>, StageOf[r] = "pending"
      PROVE  Register!Refuse(r)
  <2>1. StageOf' = [StageOf EXCEPT ![r] = "answered"]
    BY <1>2, OneStage DEF Answer, Fail
  <2> QED
    BY <1>2, <2>1 DEF Answer, Fail, Register!Refuse, StageOf
<1>3. ASSUME NEW r \in Requests, Reject(r) PROVE Register!Refuse(r)
  BY <1>2, <1>3, PendingStages DEF Reject
<1>4. ASSUME NEW r \in Requests, Get(r) PROVE Register!Read(r) \/ Register!Refuse(r)
  <2>1. StageOf[r] = "pending"
    BY <1>4, PendingStages DEF Get, Arrived
  <2>2. CASE call[r].id \in DOMAIN teams /\ Answer(r, OK, teams[call[r].id])
    <3>1. StageOf' = [StageOf EXCEPT ![r] = "answered"]
      BY <1>4, <2>2, OneStage DEF Answer, Get
    <3> QED
      BY <1>4, <2>1, <2>2, <3>1 DEF Answer, Get, Arrived, Register!Read, StageOf
  <2> QED
    BY <1>2, <1>4, <2>1, <2>2 DEF Get
<1>5. ASSUME NEW r \in Requests, Post(r) PROVE Register!Create(r) \/ Register!Refuse(r)
  <2>1. StageOf[r] = "pending"
    BY <1>5, PendingStages DEF Post, Arrived
  <2>2. CASE InsertTeam(call[r].team.content) /\ (Answer(r, OK, made') \/ Fail(r))
    <3>1. \A q \in Requests :
            at[q] = "found" => (call[q].id \in DOMAIN teams <=> call[q].id \in DOMAIN teams')
      BY <1>0, <2>2 DEF InsertTeam, With, TypeOK
    <3>2. StageOf' = [StageOf EXCEPT ![r] = "answered"]
      BY <2>2, <3>1, OneStage DEF Answer, Fail
    <3>3. Register!Answer(r, OK, made') \/ Register!Answer(r, ServerError, None)
      BY <2>2 DEF Answer, Fail
    <3> QED
      BY <1>5, <2>1, <2>2, <3>2, <3>3
         DEF Answer, Fail, Post, Arrived, InsertTeam, With, Register!Create, StageOf
  <2> QED
    BY <1>2, <1>5, <2>1, <2>2 DEF Post
<1>6. ASSUME NEW r \in Requests, PutFind(r)
      PROVE  Register!Refuse(r) \/ UNCHANGED Register!registerVars
  <2>1. StageOf[r] = "pending"
    BY <1>6, PendingStages DEF PutFind, Arrived
  <2>2. CASE call[r].id \in DOMAIN teams /\ at' = [at EXCEPT ![r] = "found"]
               /\ UNCHANGED <<call, answer, listing>>
    <3>1. \A q \in Requests : Stage(q)' = Stage(q)
      BY <1>6, <2>2 DEF PutFind, Arrived, Stage, TypeOK
    <3> QED
      BY <1>6, <2>2, <3>1 DEF PutFind, Register!registerVars
  <2> QED
    BY <1>2, <1>6, <2>1, <2>2 DEF PutFind
<1>7. ASSUME NEW r \in Requests, PutSet(r)
      PROVE  Register!Replace(r) \/ Register!AnswerOvertaken(r) \/ Register!Refuse(r)
  <2>1. DOMAIN teams' = DOMAIN teams /\ call' = call /\ made' = made
    BY <1>7 DEF PutSet, SetTeam, Answer, Fail
  <2>2. Answer(r, OK, call[r].team.content) \/ Fail(r)
    BY <1>7 DEF PutSet
  <2>3. StageOf' = [StageOf EXCEPT ![r] = "answered"]
    BY <2>1, <2>2, OneStage DEF Answer, Fail
  <2>4. Register!Answer(r, OK, call[r].team.content) \/ Register!Answer(r, ServerError, None)
    BY <2>2 DEF Answer, Fail
  <2>5. CASE call[r].id \notin DOMAIN teams
    <3>1. UNCHANGED teams /\ StageOf[r] = "effective"
      BY <1>7, <2>5, PendingStages DEF PutSet, SetTeam
    <3> QED
      BY <2>1, <2>3, <2>4, <3>1 DEF Register!AnswerOvertaken, StageOf
  <2>6. CASE call[r].id \in DOMAIN teams /\ SetTeam(r)
    <3>1. StageOf[r] = "pending" /\ call[r].method = "put"
      BY <1>7, <2>6, PendingStages DEF PutSet, TypeOK
    <3> QED
      BY <2>1, <2>3, <2>4, <2>6, <3>1 DEF SetTeam, Register!Replace, StageOf
  <2>7. CASE call[r].id \in DOMAIN teams /\ UNCHANGED teams /\ Fail(r)
    <3>1. StageOf[r] = "pending"
      BY <1>7, <2>7, PendingStages DEF PutSet, TypeOK
    <3> QED
      BY <1>2, <2>1, <2>7, <3>1
  <2> QED
    BY <1>7, <2>5, <2>6, <2>7 DEF PutSet
<1>8. ASSUME NEW r \in Requests, Delete(r) PROVE Register!Remove(r) \/ Register!Refuse(r)
  <2>1. StageOf[r] = "pending" /\ call[r].method = "delete" /\ at[r] = "arrived"
    BY <1>8, PendingStages DEF Delete, Arrived
  <2>2. CASE UNCHANGED teams /\ Fail(r)
    BY <1>2, <1>8, <2>1, <2>2 DEF Delete
  <2>3. CASE /\ call[r].id \in DOMAIN teams
             /\ teams' = Without(call[r].id)
             /\ Answer(r, OK, None) \/ Fail(r)
    <3> DEFINE found == {p \in Requests : at[p] = "found" /\ call[p].id = call[r].id}
    <3>1. /\ at' = [at EXCEPT ![r] = "answered"] /\ call' = call
          /\ Register!Answer(r, OK, None) \/ Register!Answer(r, ServerError, None)
      BY <2>3 DEF Answer, Fail
    <3>2. found \in SUBSET {p \in Requests : /\ Register!Pending(p, "put")
                                             /\ call[p].id = call[r].id}
      BY <2>3, PendingStages DEF TypeOK, StageOf
    <3>3. ASSUME NEW q \in Requests
          PROVE  Stage(q)' = IF q = r THEN "answered"
                             ELSE IF q \in found THEN "effective" ELSE Stage(q)
      <4>1. CASE q = r
        BY <3>1, <4>1 DEF Stage, TypeOK
      <4>2. CASE q # r
        <5>1. at'[q] = at[q] /\ call'[q] = call[q]
          BY <3>1, <4>2 DEF TypeOK
        <5>2. at[q] = "found" =>
                (call[q].id \in DOMAIN teams' <=> call[q].id \in DOMAIN teams /\ q \notin found)
          BY <2>3 DEF Without
        <5>3. q \in found => at[q] = "found" /\ call[q].id \notin DOMAIN teams'
          BY <2>3 DEF Without
        <5> QED
          BY <4>2, <5>1, <5>2, <5>3 DEF Stage
      <4> QED
        BY <4>1, <4>2
    <3>4. StageOf' = [p \in Requests |-> IF p = r THEN "answered"
                                         ELSE IF p \in found THEN "effective" ELSE StageOf[p]]
      BY <3>3 DEF StageOf
    <3> HIDE DEF found
    <3> QED
      BY <1>8, <2>1, <2>3, <3>1, <3>2, <3>4 DEF Delete, Without, Register!Remove, StageOf
  <2> QED
    BY <1>8, <2>2, <2>3 DEF Delete
<1>9. ASSUME NEW r \in Requests, ListOpen(r) \/ ListNext(r) PROVE UNCHANGED Register!registerVars
  <2>1. \A q \in Requests : Stage(q)' = Stage(q)
    BY <1>9 DEF ListOpen, ListNext, Arrived, Stage, TypeOK
  <2> QED
    BY <1>9, <2>1 DEF ListOpen, ListNext, Register!registerVars
<1>10. ASSUME NEW r \in Requests, ListEnd(r) PROVE Register!AnswerListing(r)
  <2>1. StageOf' = [StageOf EXCEPT ![r] = "answered"] /\ StageOf[r] = "pending"
    BY <1>10, OneStage, PendingStages DEF ListEnd, Answer
  <2> QED
    BY <1>10, <2>1 DEF ListEnd, Answer, TypeOK, Register!AnswerListing, StageOf
<1>11. ASSUME NEW r \in Requests, ListFails(r) PROVE Register!Refuse(r)
  BY <1>2, <1>11, PendingStages DEF ListFails, Arrived
<1>12. ASSUME NEW r \in Requests, Drop(r) PROVE Register!Drop(r)
  <2>1. /\ StageOf' = [StageOf EXCEPT ![r] = "dropped"]
        /\ StageOf[r] \in {"pending", "effective"}
    BY <1>12, OneStage, PendingStages DEF Drop
  <2> QED
    BY <1>12, <2>1 DEF Drop, Register!Drop, StageOf
<1>13. CASE UNCHANGED vars
  <2>1. \A q \in Requests : Stage(q)' = Stage(q)
    BY <1>13 DEF vars, Stage
  <2> QED
    BY <1>13, <2>1 DEF vars, Register!registerVars
<1> QED
  BY <1>1, <1>3, <1>4, <1>5, <1>6, <1>7, <1>8, <1>9, <1>10, <1>11, <1>12, <1>13
     DEF Next, Handle, Register!Next

\* Requests for one Team are atomic, whatever other requests do meanwhile.
THEOREM TeamRegisterImplemented == Spec => ImplementsRegister
<1>1. Spec => Register!Spec
  BY InitTypeOK, NextTypeOK, InitImplements, StepImplements, PTL DEF Spec, Register!Spec
<1> QED
  BY <1>1 DEF ImplementsRegister
==============================================================================
