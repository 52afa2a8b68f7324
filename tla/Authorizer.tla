------------------------------ MODULE Authorizer ------------------------------
(***************************************************************************)
(* DefaultAuthorizer::assert: may a user act on a resource?  It asks the   *)
(* store three times, for the groups of the user, for roles of theirs and  *)
(* for the policies of the resource, while administrators write groups,    *)
(* roles and policies, each in a call of its own.                          *)
(*                                                                         *)
(* Nothing in the program calls it yet but its tests, and their            *)
(* AuthScenario is also the only one to write what administrators write;   *)
(* documents are removed only when a scenario is torn down, which is left  *)
(* out here.                                                               *)
(***************************************************************************)
EXTENDS DocumentStore, FiniteSets

CONSTANTS
  Users,
  Requests,       \* assertions
  Resources,      \* resources a request may be about
  AnyResource,    \* the resource of kind "*"
  Actions,        \* the kinds of action
  Grants,         \* the policies administrators may add
  MaxPolicies     \* a bound on the policies there are

VARIABLES
  policies, roles, groups,   \* the collections
  at,        \* the query each request is to make next, or how it has ended
  request,   \* its user, its resource and its action
  roleId,    \* the role id in its filter of the second query; NoId: an empty filter
  cast,      \* the roles it has got
  answer,    \* its answer
  right,     \* history: the answers that were right at some moment since it began
  member,    \* history: the groups its user was in when it began
  kept       \* history: whether these were his groups as long as it was under way

vars ==
  <<policies, roles, groups, at, request, roleId, cast, answer, right, member, kept>>

collections == <<policies, roles, groups>>
history == <<right, member, kept>>

AnAction == {"Any", "Create", "Read", "Update", "Delete"}

PolicyDocument == [resource_id : Resources, action : Actions, effect : {"Allow", "Deny"}]

ASSUME AuthAssumption ==
  /\ AnyResource \in Resources /\ Actions \subseteq AnAction /\ "Any" \in Actions
  /\ Grants \subseteq PolicyDocument

RequestRecord == [user : Users, resource : Resources, action : Actions]

Policy(resource, action, effect) ==
  [resource_id |-> resource, action |-> action, effect |-> effect]

\* What the migration leaves, and a team with a role that has no policy yet.
Init ==
  /\ policies = <<Policy(AnyResource, "Any", "Allow"), Policy(AnyResource, "Any", "Deny")>>
  /\ roles = <<[policies |-> {1}], [policies |-> {2}], [policies |-> {}]>>
  /\ groups = <<[users |-> {}, roles |-> <<1>>], [users |-> {}, roles |-> <<2>>],
                [users |-> {}, roles |-> <<3>>]>>
  /\ at = [q \in Requests |-> "new"]
  /\ request \in [Requests -> RequestRecord]
  /\ roleId = [q \in Requests |-> NoId]
  /\ cast = [q \in Requests |-> {}]
  /\ answer = [q \in Requests |-> "none"]
  /\ right = [q \in Requests |-> {}]
  /\ member = [q \in Requests |-> {}]
  /\ kept = [q \in Requests |-> TRUE]

\* The places the migration's roles have in their collection.
DefaultRoles == {1, 2}

------------------------------------------------------------------------------
(* The decision, from role documents and the ids of policies. *)

PoliciesForRoles(found, docs) == {p \in found : \E role \in docs : p \in role.policies}

ExplicitlyDenied(found) == \E p \in found : policies[p].effect = "Deny"

ExplicitlyAllowed(found, action) ==
  \E p \in found : policies[p].effect = "Allow" /\ policies[p].action = action

AssertRolePolicy(docs, found, action) ==
  LET relevant == PoliciesForRoles(found, docs)
  IN  IF ~ExplicitlyDenied(relevant) /\ ExplicitlyAllowed(relevant, action)
      THEN "Allow" ELSE "Deny"

\* policies_by_resource.
PoliciesOf(resource) == Query(policies, [resource_id |-> resource])

\* groups_by_user: a filter on an array of the document asks for one of its elements.
GroupsOf(user) == {g \in DOMAIN groups : user \in groups[g].users}

\* What is right at this moment: the decision over all roles of all groups of the user.
RolesOf(user) ==
  UNION {{roles[groups[g].roles[i]] : i \in DOMAIN groups[g].roles} : g \in GroupsOf(user)}

Right(q) ==
  AssertRolePolicy(RolesOf(request[q].user), PoliciesOf(request[q].resource), request[q].action)

------------------------------------------------------------------------------
(* A request *)

\* It forgets what it has read.
End(q, outcome) ==
  /\ at' = [at EXCEPT ![q] = outcome]
  /\ roleId' = [roleId EXCEPT ![q] = NoId]
  /\ cast' = [cast EXCEPT ![q] = {}]

UnderWay(q) == at[q] \in {"groups", "roles", "policies"}

Begin(q) ==
  /\ at[q] = "new"
  /\ at' = [at EXCEPT ![q] = "groups"]
  /\ right' = [right EXCEPT ![q] = {Right(q)}]
  /\ member' = [member EXCEPT ![q] = GroupsOf(request[q].user)]
  /\ UNCHANGED <<collections, request, roleId, cast, answer, kept>>

\* Mutant of RoleFilters: the role ids do not get into the filter.
RoleFiltersEmpty(found) == {NoId}

\* Every role id of every group is put into one map under the key "id": the last one of
\* the last group that has any is left.  The groups come in the order of an unsorted
\* find, in which any may be last.
RoleFilters(found) ==
  LET named == {g \in found : groups[g].roles # <<>>}
  IN  IF named = {} THEN {NoId}
      ELSE {groups[g].roles[Len(groups[g].roles)] : g \in named}

ReadGroups(q) ==
  /\ at[q] = "groups"
  /\ \E id \in RoleFilters(GroupsOf(request[q].user)) : roleId' = [roleId EXCEPT ![q] = id]
  /\ at' = [at EXCEPT ![q] = "roles"]
  /\ UNCHANGED <<collections, request, cast, answer, history>>

\* An empty filter matches every role.
RolesById(id) == {roles[r] : r \in IF id = NoId THEN DOMAIN roles ELSE {id} \cap DOMAIN roles}

ReadRoles(q) ==
  /\ at[q] = "roles"
  /\ cast' = [cast EXCEPT ![q] = RolesById(roleId[q])]
  /\ at' = [at EXCEPT ![q] = "policies"]
  /\ UNCHANGED <<collections, request, roleId, answer, history>>

\* The profile is always the default one: the policies are read, and decide.
ReadPolicies(q) ==
  /\ at[q] = "policies"
  /\ answer' = [answer EXCEPT ![q] =
                  AssertRolePolicy(cast[q], PoliciesOf(request[q].resource), request[q].action)]
  /\ End(q, "answered")
  /\ UNCHANGED <<collections, request, history>>

\* One of the queries fails.
Fail(q) ==
  /\ UnderWay(q)
  /\ End(q, "failed")
  /\ UNCHANGED <<collections, request, answer, history>>

Assert(q) == Begin(q) \/ ReadGroups(q) \/ ReadRoles(q) \/ ReadPolicies(q) \/ Fail(q)

------------------------------------------------------------------------------
(* Administrators *)

\* What a write to the collections does to the history of the requests under way.
Witnessed == right' = [q \in Requests |-> IF UnderWay(q) THEN right[q] \cup {Right(q)'}
                                          ELSE right[q]]

InsertPolicy ==
  /\ Len(policies) < MaxPolicies
  /\ \E grant \in Grants : policies' = Insert(policies, grant)
  /\ UNCHANGED <<roles, groups, at, request, roleId, cast, answer, member, kept>>
  /\ Witnessed

\* Mutant of UpdateRole: a role is updated before its policy is inserted.
UpdateRoleFirst ==
  /\ \E r \in DOMAIN roles \ DefaultRoles : \E named \in SUBSET (1..Len(policies) + 1) :
       roles' = Update(roles, r, [policies |-> named])
  /\ UNCHANGED <<policies, groups, at, request, roleId, cast, answer, member, kept>>
  /\ Witnessed

\* Store::update of a role: it names policies that have been inserted before.  The roles
\* of the migration stay as they are.
UpdateRole ==
  /\ \E r \in DOMAIN roles \ DefaultRoles : \E named \in SUBSET DOMAIN policies :
       roles' = Update(roles, r, [policies |-> named])
  /\ UNCHANGED <<policies, groups, at, request, roleId, cast, answer, member, kept>>
  /\ Witnessed

\* Store::update of a group: other users.
UpdateGroup ==
  \E g \in DOMAIN groups : \E users \in SUBSET Users :
    /\ groups' = Update(groups, g, [users |-> users, roles |-> groups[g].roles])
    /\ UNCHANGED <<policies, roles, at, request, roleId, cast, answer, member>>
    /\ kept' = [q \in Requests |->
                  kept[q] /\ (UnderWay(q) => GroupsOf(request[q].user)' = member[q])]
    /\ Witnessed

Administer == InsertPolicy \/ UpdateRole \/ UpdateGroup

Next == Administer \/ \E q \in Requests : Assert(q)

Spec == Init /\ [][Next]_vars

------------------------------------------------------------------------------
(* Properties. *)

\* Groups name roles and roles name policies that are there.
TypeOK ==
  /\ policies \in Seq(PolicyDocument)
  /\ roles \in Seq([policies : SUBSET DOMAIN policies])
  /\ groups \in Seq([users : SUBSET Users, roles : Seq(DOMAIN roles)])
  /\ at \in [Requests -> {"new", "groups", "roles", "policies", "answered", "failed"}]
  /\ request \in [Requests -> RequestRecord]
  /\ roleId \in [Requests -> DOMAIN roles \cup {NoId}]
  /\ cast \in [Requests -> SUBSET [policies : SUBSET DOMAIN policies]]
  /\ answer \in [Requests -> {"none", "Allow", "Deny"}]
  /\ \A q \in Requests : at[q] = "answered" <=> answer[q] # "none"

RoleIdsOf(found) == UNION {{groups[g].roles[i] : i \in DOMAIN groups[g].roles} : g \in found}

\* A user whose groups stay the same and come to one role gets an answer that was right at
\* some moment while it was worked out, although groups, roles and policies are read one
\* after the other between the writes of administrators.
AnswerWasRight ==
  \A q \in Requests :
    at[q] = "answered" /\ kept[q] /\ (\E r \in DOMAIN roles : RoleIdsOf(member[q]) = {r})
      => answer[q] \in right[q]
==============================================================================
