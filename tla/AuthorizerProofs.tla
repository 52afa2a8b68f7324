--------------------------- MODULE AuthorizerProofs ---------------------------
(***************************************************************************)
(* Theorems about Authorizer, for all users, requests, resources, actions  *)
(* and policies.                                                           *)
(***************************************************************************)
EXTENDS Authorizer, TLAPS

\* The request is of a user whose groups, as they were when it began, come to role r.
Of(q, r) == kept[q] /\ RoleIdsOf(member[q]) = {r}

\* What a request under way has read, and what was right of it.
Progress(q) ==
  /\ UnderWay(q) => Right(q) \in right[q]
  /\ UnderWay(q) /\ kept[q] => member[q] = GroupsOf(request[q].user)
  /\ \A r \in DOMAIN roles : Of(q, r) =>
       /\ at[q] = "roles" => roleId[q] = r
       /\ at[q] = "policies" => \E named \in SUBSET DOMAIN policies :
            /\ cast[q] = {[policies |-> named]}
            /\ AssertRolePolicy(cast[q], PoliciesOf(request[q].resource), request[q].action)
                 \in right[q]
       /\ at[q] = "answered" => answer[q] \in right[q]

IInv ==
  /\ TypeOK
  /\ right \in [Requests -> SUBSET {"Allow", "Deny"}]
  /\ kept \in [Requests -> BOOLEAN]
  /\ member \in [Requests -> SUBSET DOMAIN groups]
  /\ \A q \in Requests : Progress(q)

LEMMA Decides ==
  ASSUME NEW docs, NEW found, NEW action
  PROVE  AssertRolePolicy(docs, found, action) \in {"Allow", "Deny"}
BY DEF AssertRolePolicy

\* A policy that is inserted later is none of those a role document names.
LEMMA LaterPolicies ==
  ASSUME TypeOK, NEW named \in SUBSET DOMAIN policies, NEW resource, NEW action,
         \/ policies' = policies
         \/ \E grant \in Grants : policies' = Insert(policies, grant)
  PROVE  AssertRolePolicy({[policies |-> named]}, PoliciesOf(resource), action)'
           = AssertRolePolicy({[policies |-> named]}, PoliciesOf(resource), action)
<1> DEFINE doc == [policies |-> named]
           before == PoliciesForRoles(PoliciesOf(resource), {doc})
           after == PoliciesForRoles(PoliciesOf(resource)', {doc})
<1>1. /\ DOMAIN policies \subseteq DOMAIN policies'
      /\ \A p \in DOMAIN policies : policies'[p] = policies[p]
  <2>1. CASE policies' = policies
    BY <2>1
  <2>2. ASSUME NEW grant \in Grants, policies' = Insert(policies, grant)
        PROVE  /\ DOMAIN policies \subseteq DOMAIN policies'
               /\ \A p \in DOMAIN policies : policies'[p] = policies[p]
    <3>1. policies \in Seq(PolicyDocument) /\ grant \in PolicyDocument
      BY AuthAssumption DEF TypeOK
    <3> QED
      BY <2>2, <3>1 DEF Insert
  <2> QED
    BY <2>1, <2>2
<1>2. /\ before = {p \in named : p \in PoliciesOf(resource)}
      /\ after = {p \in named : p \in PoliciesOf(resource)'}
  <2>1. doc.policies = named
    OBVIOUS
  <2> HIDE DEF doc
  <2> QED
    BY <2>1 DEF PoliciesForRoles
<1>3. \A p \in named : p \in PoliciesOf(resource)' <=> p \in PoliciesOf(resource)
  BY <1>1 DEF PoliciesOf, Query
<1>4. after = before /\ \A p \in before : policies'[p] = policies[p]
  BY <1>1, <1>2, <1>3
<1> HIDE DEF before, after, doc
<1>5. /\ (\E p \in after : policies'[p].effect = "Deny")
           <=> \E p \in before : policies[p].effect = "Deny"
      /\ (\E p \in after : policies'[p].effect = "Allow" /\ policies'[p].action = action)
           <=> \E p \in before : policies[p].effect = "Allow" /\ policies[p].action = action
  BY <1>4
<1> QED
  BY <1>5 DEF AssertRolePolicy, ExplicitlyDenied, ExplicitlyAllowed, PoliciesForRoles,
              before, after, doc

LEMMA InitInv == Init => IInv
<1> SUFFICES ASSUME Init PROVE IInv
  OBVIOUS
<1>1. policies \in Seq(PolicyDocument) /\ DOMAIN policies = {1, 2}
  BY AuthAssumption DEF Init, Policy, PolicyDocument
<1>2. roles \in Seq([policies : SUBSET DOMAIN policies]) /\ DOMAIN roles = {1, 2, 3}
  BY <1>1 DEF Init
<1>3. groups \in Seq([users : SUBSET Users, roles : Seq(DOMAIN roles)])
  <2>1. <<1>> \in Seq(DOMAIN roles) /\ <<2>> \in Seq(DOMAIN roles) /\ <<3>> \in Seq(DOMAIN roles)
    BY <1>2
  <2> QED
    BY <2>1 DEF Init
<1>4. TypeOK
  BY <1>1, <1>2, <1>3 DEF Init, TypeOK
<1>5. \A q \in Requests : Progress(q)
  BY DEF Init, Progress, UnderWay
<1> QED
  BY <1>4, <1>5 DEF Init, IInv

------------------------------------------------------------------------------
(* The steps of requests. *)

LEMMA RolesOfGroup ==
  ASSUME IInv, NEW g \in DOMAIN groups
  PROVE  groups[g].roles \in Seq(DOMAIN roles)
<1> DEFINE S == [users : SUBSET Users, roles : Seq(DOMAIN roles)]
<1>1. groups \in Seq(S)
  BY DEF IInv, TypeOK
<1>2. groups[g] \in S
  <2> HIDE DEF S
  <2> QED
    BY <1>1
<1> QED
  BY <1>2

\* A user whose groups come to one role is looked up by that role, and it is right that he
\* is judged by it.
LEMMA OneRole ==
  ASSUME IInv, NEW q \in Requests, UnderWay(q), NEW r \in DOMAIN roles, Of(q, r)
  PROVE  /\ RoleFilters(GroupsOf(request[q].user)) = {r}
         /\ RolesOf(request[q].user) = {roles[r]}
<1> DEFINE found == GroupsOf(request[q].user)
<1>1. RoleIdsOf(found) = {r}
  BY DEF IInv, Progress, Of
<1>2. /\ \A g \in found : groups[g].roles \in Seq(DOMAIN roles)
      /\ \A g \in found : \A i \in DOMAIN groups[g].roles : groups[g].roles[i] = r
      /\ \E g \in found : DOMAIN groups[g].roles # {}
  <2>1. \A g \in found : groups[g].roles \in Seq(DOMAIN roles)
    BY RolesOfGroup DEF GroupsOf
  <2>2. \A g \in found : \A i \in DOMAIN groups[g].roles : groups[g].roles[i] = r
    BY <1>1 DEF RoleIdsOf
  <2>3. \E g \in found : DOMAIN groups[g].roles # {}
    BY <1>1 DEF RoleIdsOf
  <2> QED
    BY <2>1, <2>2, <2>3
<1>3. RolesOf(request[q].user) = {roles[r]}
  BY <1>2 DEF RolesOf
<1>4. RoleFilters(found) = {r}
  <2> DEFINE named == {g \in found : groups[g].roles # <<>>}
  <2>1. \A g \in found : (groups[g].roles # <<>>) <=> (DOMAIN groups[g].roles # {})
    BY <1>2
  <2>2. named # {}
    BY <1>2, <2>1
  <2>3. \A g \in named : Len(groups[g].roles) \in DOMAIN groups[g].roles
    BY <1>2
  <2>4. \A g \in named : groups[g].roles[Len(groups[g].roles)] = r
    BY <1>2, <2>3
  <2>5. RoleFilters(found) = {groups[g].roles[Len(groups[g].roles)] : g \in named}
    BY <2>2 DEF RoleFilters
  <2> QED
    BY <2>2, <2>4, <2>5
<1> QED
  BY <1>3, <1>4

\* Nothing changes for a request a step is not about.
LEMMA Untouched ==
  ASSUME IInv, NEW x \in Requests, UNCHANGED <<collections, request>>,
         at'[x] = at[x], roleId'[x] = roleId[x], cast'[x] = cast[x],
         answer'[x] = answer[x], right'[x] = right[x],
         member'[x] = member[x], kept'[x] = kept[x]
  PROVE  Progress(x)'
<1> DEFINE Decision == AssertRolePolicy(cast[x], PoliciesOf(request[x].resource),
                                       request[x].action)
<1>1. Progress(x)
  BY DEF IInv
<1>2. /\ policies' = policies /\ roles' = roles /\ groups' = groups /\ request' = request
      /\ at'[x] = at[x] /\ roleId'[x] = roleId[x] /\ cast'[x] = cast[x]
      /\ answer'[x] = answer[x] /\ right'[x] = right[x]
      /\ member'[x] = member[x] /\ kept'[x] = kept[x]
  BY DEF collections
<1>3. Decision' = Decision
  BY <1>2 DEF AssertRolePolicy, PoliciesForRoles, ExplicitlyDenied, ExplicitlyAllowed,
     PoliciesOf, Query
<1>4. Right(x)' = Right(x)
  BY <1>2 DEF Right, AssertRolePolicy, PoliciesForRoles, ExplicitlyDenied,
     ExplicitlyAllowed, PoliciesOf, Query, GroupsOf, RolesOf
<1>5. GroupsOf(request[x].user)' = GroupsOf(request[x].user)
  BY <1>2 DEF GroupsOf
<1>6. (UnderWay(x)' <=> UnderWay(x)) /\ \A r : Of(x, r)' <=> Of(x, r)
  BY <1>2 DEF UnderWay, Of, RoleIdsOf
<1> QED
  <2> HIDE DEF Decision
  <2>1. Progress(x) <=>
          /\ UnderWay(x) => Right(x) \in right[x]
          /\ UnderWay(x) /\ kept[x] => member[x] = GroupsOf(request[x].user)
          /\ \A r \in DOMAIN roles : Of(x, r) =>
               /\ at[x] = "roles" => roleId[x] = r
               /\ at[x] = "policies" => \E named \in SUBSET DOMAIN policies :
                    cast[x] = {[policies |-> named]} /\ Decision \in right[x]
               /\ at[x] = "answered" => answer[x] \in right[x]
    BY DEF Progress, Decision
  <2>2. Progress(x)' <=>
          /\ UnderWay(x)' => Right(x)' \in right'[x]
          /\ UnderWay(x)' /\ kept'[x] => member'[x] = GroupsOf(request[x].user)'
          /\ \A r \in DOMAIN roles' : Of(x, r)' =>
               /\ at'[x] = "roles" => roleId'[x] = r
               /\ at'[x] = "policies" => \E named \in SUBSET DOMAIN policies' :
                    cast'[x] = {[policies |-> named]} /\ Decision' \in right'[x]
               /\ at'[x] = "answered" => answer'[x] \in right'[x]
    BY DEF Progress, Decision
  <2> QED
    BY <1>1, <1>2, <1>3, <1>4, <1>5, <1>6, <2>1, <2>2

LEMMA Others ==
  ASSUME IInv, NEW q \in Requests, UNCHANGED <<collections, request>>,
         \A x \in Requests \ {q} :
           /\ at'[x] = at[x] /\ roleId'[x] = roleId[x] /\ cast'[x] = cast[x]
           /\ answer'[x] = answer[x] /\ right'[x] = right[x]
           /\ member'[x] = member[x] /\ kept'[x] = kept[x]
  PROVE  \A x \in Requests \ {q} : Progress(x)'
BY Untouched

LEMMA BeginStep ==
  ASSUME IInv, NEW q \in Requests, Begin(q)
  PROVE  IInv'
<1>1. /\ UNCHANGED <<policies, roles, groups, request, roleId, cast, answer, kept>>
      /\ at[q] = "new" /\ at' = [at EXCEPT ![q] = "groups"]
  BY DEF Begin, collections
<1>2. right' = [right EXCEPT ![q] = {Right(q)}] /\ Right(q) \in {"Allow", "Deny"}
  BY Decides DEF Begin, Right
<1>3. member' = [member EXCEPT ![q] = GroupsOf(request[q].user)]
  BY DEF Begin
<1>4. TypeOK'
  BY <1>1 DEF IInv, TypeOK, RequestRecord, PolicyDocument
<1>5. /\ right' \in [Requests -> SUBSET {"Allow", "Deny"}]
      /\ kept' \in [Requests -> BOOLEAN]
      /\ member' \in [Requests -> SUBSET DOMAIN groups']
  BY <1>1, <1>2, <1>3 DEF IInv, GroupsOf
<1>6. Progress(q)'
  <2>1. at'[q] = "groups" /\ right'[q] = {Right(q)} /\ member'[q] = GroupsOf(request[q].user)
    BY <1>1, <1>2, <1>3 DEF IInv, TypeOK
  <2>2. Right(q)' = Right(q) /\ GroupsOf(request[q].user)' = GroupsOf(request[q].user)
    BY <1>1 DEF Right, AssertRolePolicy, PoliciesForRoles, ExplicitlyDenied,
       ExplicitlyAllowed, PoliciesOf, Query, GroupsOf, RolesOf
  <2> QED
    BY <2>1, <2>2 DEF Progress
<1>7. \A x \in Requests \ {q} : Progress(x)'
  BY <1>1, <1>2, <1>3, Others DEF IInv, TypeOK, collections
<1> QED
  BY <1>4, <1>5, <1>6, <1>7 DEF IInv

LEMMA ReadGroupsStep ==
  ASSUME IInv, NEW q \in Requests, ReadGroups(q)
  PROVE  IInv'
<1>1. /\ UNCHANGED <<policies, roles, groups, request, cast, answer, right, member, kept>>
      /\ at[q] = "groups" /\ at' = [at EXCEPT ![q] = "roles"]
  BY DEF ReadGroups, collections, history
<1>2. PICK id \in RoleFilters(GroupsOf(request[q].user)) : roleId' = [roleId EXCEPT ![q] = id]
  BY DEF ReadGroups
<1>3. id \in DOMAIN roles \cup {NoId}
  <2> DEFINE found == GroupsOf(request[q].user)
             named == {g \in found : groups[g].roles # <<>>}
  <2>1. id = NoId \/ \E g \in named : id = groups[g].roles[Len(groups[g].roles)]
    BY <1>2 DEF RoleFilters
  <2>2. ASSUME NEW g \in named PROVE groups[g].roles[Len(groups[g].roles)] \in DOMAIN roles
    <3>1. g \in DOMAIN groups
      BY DEF GroupsOf
    <3>2. groups[g].roles \in Seq(DOMAIN roles) /\ groups[g].roles # <<>>
      BY <3>1, RolesOfGroup
    <3> QED
      BY <3>2
  <2> QED
    BY <2>1, <2>2
<1>4. TypeOK'
  BY <1>1, <1>2, <1>3 DEF IInv, TypeOK, RequestRecord, PolicyDocument
<1>5. Progress(q)'
  <2>1. at'[q] = "roles" /\ roleId'[q] = id /\ UnderWay(q)
    BY <1>1, <1>2 DEF IInv, TypeOK, UnderWay
  <2>2. Right(q)' = Right(q) /\ GroupsOf(request[q].user)' = GroupsOf(request[q].user)
    BY <1>1 DEF Right, AssertRolePolicy, PoliciesForRoles, ExplicitlyDenied,
       ExplicitlyAllowed, PoliciesOf, Query, GroupsOf, RolesOf
  <2>3. Right(q) \in right[q] /\ (kept[q] => member[q] = GroupsOf(request[q].user))
    BY <2>1 DEF IInv, Progress
  <2>4. ASSUME NEW r \in DOMAIN roles, Of(q, r) PROVE id = r
    BY <1>2, <2>1, <2>4, OneRole
  <2>5. \A r : Of(q, r)' <=> Of(q, r)
    BY <1>1 DEF Of, RoleIdsOf
  <2> QED
    BY <1>1, <2>1, <2>2, <2>3, <2>4, <2>5 DEF Progress
<1>6. \A x \in Requests \ {q} : Progress(x)'
  BY <1>1, <1>2, Others DEF IInv, TypeOK, collections
<1> QED
  BY <1>1, <1>4, <1>5, <1>6 DEF IInv

LEMMA ReadRolesStep ==
  ASSUME IInv, NEW q \in Requests, ReadRoles(q)
  PROVE  IInv'
<1>1. /\ UNCHANGED <<policies, roles, groups, request, roleId, answer, right, member, kept>>
      /\ at[q] = "roles" /\ at' = [at EXCEPT ![q] = "policies"]
      /\ cast' = [cast EXCEPT ![q] = RolesById(roleId[q])]
  BY DEF ReadRoles, collections, history
<1>2. \A r \in DOMAIN roles : \E named \in SUBSET DOMAIN policies :
        roles[r] = [policies |-> named]
  <2> DEFINE S == [policies : SUBSET DOMAIN policies]
  <2>1. roles \in Seq(S)
    BY DEF IInv, TypeOK
  <2>2. \A r \in DOMAIN roles : roles[r] \in S
    <3> HIDE DEF S
    <3> QED
      BY <2>1
  <2> QED
    BY <2>2
<1>3. q \in DOMAIN cast
  BY DEF IInv, TypeOK
<1>4. TypeOK'
  <2> DEFINE S == [policies : SUBSET DOMAIN policies]
  <2>1. RolesById(roleId[q]) \in SUBSET S
    BY <1>2 DEF RolesById
  <2>2. cast' \in [Requests -> SUBSET S]
    <3> HIDE DEF S
    <3>1. cast \in [Requests -> SUBSET S]
      BY DEF IInv, TypeOK, S
    <3> QED
      BY <1>1, <2>1, <3>1
  <2> QED
    BY <1>1, <2>2 DEF IInv, TypeOK, RequestRecord, PolicyDocument
<1>5. Progress(q)'
  <2>1. at'[q] = "policies" /\ UnderWay(q) /\ cast'[q] = RolesById(roleId[q])
    BY <1>1, <1>3 DEF IInv, TypeOK, UnderWay
  <2>2. Right(q)' = Right(q) /\ GroupsOf(request[q].user)' = GroupsOf(request[q].user)
    BY <1>1 DEF Right, AssertRolePolicy, PoliciesForRoles, ExplicitlyDenied,
       ExplicitlyAllowed, PoliciesOf, Query, GroupsOf, RolesOf
  <2>3. Right(q) \in right[q] /\ (kept[q] => member[q] = GroupsOf(request[q].user))
    BY <2>1 DEF IInv, Progress
  <2> DEFINE Decision == AssertRolePolicy(cast[q], PoliciesOf(request[q].resource),
                                         request[q].action)
  <2>4. ASSUME NEW r \in DOMAIN roles, Of(q, r)
        PROVE  cast'[q] = {roles[r]} /\ Decision' = Right(q)
    <3>1. roleId[q] = r
      BY <1>1, <2>4 DEF IInv, Progress
    <3>2. r # NoId
      BY DEF NoId, IInv, TypeOK
    <3>3. cast'[q] = {roles[r]}
      BY <2>1, <3>1, <3>2 DEF RolesById
    <3>4. RolesOf(request[q].user) = {roles[r]}
      BY <2>1, <2>4, OneRole
    <3>5. Decision' = Right(q)
      BY <1>1, <3>3, <3>4 DEF Right, AssertRolePolicy, PoliciesForRoles, ExplicitlyDenied,
         ExplicitlyAllowed, PoliciesOf, Query
    <3> QED
      BY <3>3, <3>5
  <2>5. \A r : Of(q, r)' <=> Of(q, r)
    BY <1>1 DEF Of, RoleIdsOf
  <2>6. ASSUME NEW r \in DOMAIN roles', Of(q, r)'
        PROVE  \E named \in SUBSET DOMAIN policies' :
                 cast'[q] = {[policies |-> named]} /\ Decision' \in right'[q]
    <3>1. r \in DOMAIN roles /\ Of(q, r)
      BY <1>1, <2>5, <2>6
    <3> HIDE DEF Decision
    <3> QED
      BY <1>1, <1>2, <2>3, <2>4, <3>1
  <2> QED
    <3> HIDE DEF Decision
    <3>1. Progress(q)' <=>
            /\ UnderWay(q)' => Right(q)' \in right'[q]
            /\ UnderWay(q)' /\ kept'[q] => member'[q] = GroupsOf(request[q].user)'
            /\ \A r \in DOMAIN roles' : Of(q, r)' =>
                 /\ at'[q] = "roles" => roleId'[q] = r
                 /\ at'[q] = "policies" => \E named \in SUBSET DOMAIN policies' :
                      cast'[q] = {[policies |-> named]} /\ Decision' \in right'[q]
                 /\ at'[q] = "answered" => answer'[q] \in right'[q]
      BY DEF Progress, Decision
    <3> QED
      BY <1>1, <2>1, <2>2, <2>3, <2>6, <3>1
<1>6. \A x \in Requests \ {q} : Progress(x)'
  BY <1>1, <1>3, Others DEF IInv, TypeOK, collections
<1> QED
  BY <1>1, <1>4, <1>5, <1>6 DEF IInv

\* A request that ends, with an answer or without.
LEMMA ReadPoliciesStep ==
  ASSUME IInv, NEW q \in Requests, ReadPolicies(q)
  PROVE  IInv'
<1> DEFINE Decision == AssertRolePolicy(cast[q], PoliciesOf(request[q].resource),
                                       request[q].action)
<1>1. /\ UNCHANGED <<policies, roles, groups, request, right, member, kept>>
      /\ at[q] = "policies" /\ at' = [at EXCEPT ![q] = "answered"]
      /\ roleId' = [roleId EXCEPT ![q] = NoId] /\ cast' = [cast EXCEPT ![q] = {}]
      /\ answer' = [answer EXCEPT ![q] = Decision]
  BY DEF ReadPolicies, End, collections, history
<1>2. Decision \in {"Allow", "Deny"}
  BY Decides
<1> HIDE DEF Decision
<1>3. TypeOK'
  BY <1>1, <1>2 DEF IInv, TypeOK, RequestRecord, PolicyDocument
<1>4. at'[q] = "answered" /\ answer'[q] = Decision
  BY <1>1 DEF IInv, TypeOK
<1>5. Progress(q)'
  <2>1. ~UnderWay(q)' /\ at'[q] # "roles" /\ at'[q] # "policies"
    BY <1>4 DEF UnderWay
  <2>2. \A r : Of(q, r)' <=> Of(q, r)
    BY <1>1 DEF Of, RoleIdsOf
  <2>3. ASSUME NEW r \in DOMAIN roles, Of(q, r) PROVE Decision \in right[q]
    BY <1>1, <2>3 DEF IInv, Progress, Decision
  <2> QED
    BY <1>1, <1>4, <2>1, <2>2, <2>3 DEF Progress
<1>6. \A x \in Requests \ {q} : Progress(x)'
  BY <1>1, Others DEF IInv, TypeOK, collections
<1> QED
  BY <1>1, <1>3, <1>5, <1>6 DEF IInv

LEMMA FailStep ==
  ASSUME IInv, NEW q \in Requests, Fail(q)
  PROVE  IInv'
<1>1. /\ UNCHANGED <<policies, roles, groups, request, answer, right, member, kept>>
      /\ UnderWay(q) /\ at' = [at EXCEPT ![q] = "failed"]
      /\ roleId' = [roleId EXCEPT ![q] = NoId] /\ cast' = [cast EXCEPT ![q] = {}]
  BY DEF Fail, End, collections, history
<1>2. TypeOK'
  BY <1>1 DEF IInv, TypeOK, UnderWay, RequestRecord, PolicyDocument
<1>3. at'[q] = "failed"
  BY <1>1 DEF IInv, TypeOK
<1>4. Progress(q)'
  BY <1>3 DEF Progress, UnderWay
<1>5. \A x \in Requests \ {q} : Progress(x)'
  BY <1>1, Others DEF IInv, TypeOK, collections
<1> QED
  BY <1>1, <1>2, <1>4, <1>5 DEF IInv

------------------------------------------------------------------------------
(* The steps of administrators. *)

\* What a request has read stays what it is, and the history takes down what is right now.
LEMMA Administered ==
  ASSUME IInv, NEW q \in Requests,
         UNCHANGED <<at, request, roleId, cast, answer, member>>,
         \/ policies' = policies
         \/ \E grant \in Grants : policies' = Insert(policies, grant),
         DOMAIN roles' = DOMAIN roles, \A found : RoleIdsOf(found)' = RoleIdsOf(found),
         right' = [x \in Requests |-> IF UnderWay(x) THEN right[x] \cup {Right(x)'}
                                      ELSE right[x]],
         kept'[q] => kept[q],
         UnderWay(q) /\ kept'[q] => member[q] = GroupsOf(request[q].user)'
  PROVE  Progress(q)'
<1> DEFINE Decision == AssertRolePolicy(cast[q], PoliciesOf(request[q].resource),
                                       request[q].action)
<1>1. UnderWay(q)' <=> UnderWay(q)
  BY DEF UnderWay
<1>2. right[q] \subseteq right'[q] /\ (UnderWay(q) => Right(q)' \in right'[q])
  OBVIOUS
<1>3. ASSUME NEW r \in DOMAIN roles, Of(q, r)'
      PROVE  /\ at[q] = "roles" => roleId[q] = r
             /\ at[q] = "policies" => \E named \in SUBSET DOMAIN policies' :
                  cast[q] = {[policies |-> named]} /\ Decision' \in right'[q]
             /\ at[q] = "answered" => answer[q] \in right'[q]
  <2>1. Of(q, r)
    BY <1>3 DEF Of
  <2>2. CASE at[q] = "policies"
    <3>1. PICK named \in SUBSET DOMAIN policies :
            cast[q] = {[policies |-> named]} /\ Decision \in right[q]
      BY <2>1, <2>2 DEF IInv, Progress
    <3>2. Decision' = Decision
      <4>1. AssertRolePolicy({[policies |-> named]}, PoliciesOf(request[q].resource),
                             request[q].action)'
              = AssertRolePolicy({[policies |-> named]}, PoliciesOf(request[q].resource),
                                 request[q].action)
        <5> DEFINE resource == request[q].resource
                   action == request[q].action
        <5>1. resource' = resource /\ action' = action
          OBVIOUS
        <5>2. \A some, other : AssertRolePolicy({[policies |-> named]}, PoliciesOf(some), other)'
                = AssertRolePolicy({[policies |-> named]}, PoliciesOf(some), other)
          BY LaterPolicies DEF IInv
        <5> QED
          BY <5>1, <5>2
      <4> QED
        BY <3>1, <4>1
    <3>3. named \in SUBSET DOMAIN policies'
      BY DEF Insert, IInv, TypeOK
    <3> HIDE DEF Decision
    <3> QED
      BY <1>2, <2>2, <3>1, <3>2, <3>3
  <2>3. CASE at[q] # "policies"
    BY <1>2, <2>1, <2>3 DEF IInv, Progress
  <2> QED
    BY <2>2, <2>3
<1> HIDE DEF Decision
<1>4. Progress(q)' <=>
        /\ UnderWay(q)' => Right(q)' \in right'[q]
        /\ UnderWay(q)' /\ kept'[q] => member'[q] = GroupsOf(request[q].user)'
        /\ \A r \in DOMAIN roles' : Of(q, r)' =>
             /\ at'[q] = "roles" => roleId'[q] = r
             /\ at'[q] = "policies" => \E named \in SUBSET DOMAIN policies' :
                  cast'[q] = {[policies |-> named]} /\ Decision' \in right'[q]
             /\ at'[q] = "answered" => answer'[q] \in right'[q]
  BY DEF Progress, Decision
<1> QED
  BY <1>1, <1>2, <1>3, <1>4

\* The history of an administrator's step is of the type it has to be.
LEMMA WitnessedTypes ==
  ASSUME IInv, Witnessed
  PROVE  right' \in [Requests -> SUBSET {"Allow", "Deny"}]
<1>1. \A q \in Requests : Right(q)' \in {"Allow", "Deny"}
  BY DEF Right, AssertRolePolicy
<1> QED
  BY <1>1 DEF Witnessed, IInv

LEMMA InsertPolicyStep == IInv /\ InsertPolicy => IInv'
<1> SUFFICES ASSUME IInv, InsertPolicy PROVE IInv'
  OBVIOUS
<1>1. PICK grant \in Grants : policies' = Insert(policies, grant)
  BY DEF InsertPolicy
<1>2. /\ UNCHANGED <<roles, groups, at, request, roleId, cast, answer, member, kept>>
      /\ Witnessed
  BY DEF InsertPolicy
<1>3. policies' \in Seq(PolicyDocument)' /\ DOMAIN policies \subseteq DOMAIN policies'
  BY <1>1, AuthAssumption DEF IInv, TypeOK, Insert, PolicyDocument
<1>4. /\ roles' \in Seq([policies : SUBSET DOMAIN policies'])
      /\ cast' \in [Requests -> SUBSET [policies : SUBSET DOMAIN policies']]
  <2> DEFINE S == [policies : SUBSET DOMAIN policies]
             T == [policies : SUBSET DOMAIN policies']
  <2>1. S \subseteq T
    BY <1>3
  <2>2. roles \in Seq(S) /\ cast \in [Requests -> SUBSET S]
    BY DEF IInv, TypeOK
  <2> HIDE DEF S, T
  <2>3. roles \in Seq(T) /\ cast \in [Requests -> SUBSET T]
    BY <2>1, <2>2
  <2> QED
    BY <1>2, <2>3 DEF T
<1>5. TypeOK'
  BY <1>2, <1>3, <1>4 DEF IInv, TypeOK, RequestRecord
<1>6. ASSUME NEW q \in Requests PROVE Progress(q)'
  <2>1. UnderWay(q) /\ kept'[q] => member[q] = GroupsOf(request[q].user)'
    BY <1>2 DEF IInv, Progress, GroupsOf
  <2>2. \A found : RoleIdsOf(found)' = RoleIdsOf(found)
    BY <1>2 DEF RoleIdsOf
  <2>3. right' = [x \in Requests |-> IF UnderWay(x) THEN right[x] \cup {Right(x)'}
                                     ELSE right[x]]
    BY <1>2 DEF Witnessed
  <2> QED
    BY <1>1, <1>2, <2>1, <2>2, <2>3, Administered
<1> QED
  BY <1>2, <1>5, <1>6, WitnessedTypes DEF IInv

LEMMA UpdateRoleStep == IInv /\ UpdateRole => IInv'
<1> SUFFICES ASSUME IInv, UpdateRole PROVE IInv'
  OBVIOUS
<1>1. PICK r \in DOMAIN roles, named \in SUBSET DOMAIN policies :
        roles' = Update(roles, r, [policies |-> named])
  BY DEF UpdateRole
<1>2. /\ UNCHANGED <<policies, groups, at, request, roleId, cast, answer, member, kept>>
      /\ Witnessed
  BY DEF UpdateRole
<1>3. /\ roles' \in Seq([policies : SUBSET DOMAIN policies])
      /\ DOMAIN roles' = DOMAIN roles
  <2> DEFINE S == [policies : SUBSET DOMAIN policies]
  <2>1. roles \in Seq(S)
    BY DEF IInv, TypeOK
  <2>2. [policies |-> named] \in S
    OBVIOUS
  <2>3. roles' = [roles EXCEPT ![r] = [policies |-> named]]
    BY <1>1 DEF Update
  <2> HIDE DEF S
  <2>4. roles' \in Seq(S) /\ DOMAIN roles' = DOMAIN roles
    BY <2>1, <2>2, <2>3
  <2> QED
    BY <2>4 DEF S
<1>4. TypeOK'
  BY <1>2, <1>3 DEF IInv, TypeOK, RequestRecord, PolicyDocument
<1>5. ASSUME NEW q \in Requests PROVE Progress(q)'
  <2>1. UnderWay(q) /\ kept'[q] => member[q] = GroupsOf(request[q].user)'
    BY <1>2 DEF IInv, Progress, GroupsOf
  <2>2. \A found : RoleIdsOf(found)' = RoleIdsOf(found)
    BY <1>2 DEF RoleIdsOf
  <2>3. right' = [x \in Requests |-> IF UnderWay(x) THEN right[x] \cup {Right(x)'}
                                     ELSE right[x]]
    BY <1>2 DEF Witnessed
  <2> QED
    BY <1>2, <1>3, <2>1, <2>2, <2>3, Administered
<1> QED
  BY <1>2, <1>4, <1>5, WitnessedTypes DEF IInv

LEMMA UpdateGroupStep == IInv /\ UpdateGroup => IInv'
<1> SUFFICES ASSUME IInv, UpdateGroup PROVE IInv'
  OBVIOUS
<1>1. PICK g \in DOMAIN groups, users \in SUBSET Users :
        groups' = Update(groups, g, [users |-> users, roles |-> groups[g].roles])
  BY DEF UpdateGroup
<1>2. /\ UNCHANGED <<policies, roles, at, request, roleId, cast, answer, member>>
      /\ kept' = [q \in Requests |->
                    kept[q] /\ (UnderWay(q) => GroupsOf(request[q].user)' = member[q])]
      /\ Witnessed
  BY DEF UpdateGroup
<1>3. /\ groups' \in Seq([users : SUBSET Users, roles : Seq(DOMAIN roles)])
      /\ DOMAIN groups' = DOMAIN groups
      /\ \A found : RoleIdsOf(found)' = RoleIdsOf(found)
  <2> DEFINE S == [users : SUBSET Users, roles : Seq(DOMAIN roles)]
             new == [users |-> users, roles |-> groups[g].roles]
  <2>1. groups \in Seq(S)
    BY DEF IInv, TypeOK
  <2>2. new \in S
    BY RolesOfGroup
  <2>3. groups' = [groups EXCEPT ![g] = new]
    BY <1>1 DEF Update
  <2>4. new.roles = groups[g].roles
    OBVIOUS
  <2> HIDE DEF S, new
  <2>5. groups' \in Seq(S) /\ DOMAIN groups' = DOMAIN groups
    BY <2>1, <2>2, <2>3
  <2>6. \A h : groups'[h].roles = groups[h].roles
    BY <2>3, <2>4
  <2>7. \A found : RoleIdsOf(found)' = RoleIdsOf(found)
    BY <2>6 DEF RoleIdsOf
  <2> QED
    BY <2>5, <2>7 DEF S
<1>4. TypeOK'
  BY <1>2, <1>3 DEF IInv, TypeOK, RequestRecord, PolicyDocument
<1>5. ASSUME NEW q \in Requests PROVE Progress(q)'
  <2>1. right' = [x \in Requests |-> IF UnderWay(x) THEN right[x] \cup {Right(x)'}
                                     ELSE right[x]]
    BY <1>2 DEF Witnessed
  <2>2. /\ kept'[q] => kept[q]
        /\ UnderWay(q) /\ kept'[q] => member[q] = GroupsOf(request[q].user)'
    BY <1>2
  <2> QED
    BY <1>2, <1>3, <2>1, <2>2, Administered
<1>6. kept' \in [Requests -> BOOLEAN] /\ member' \in [Requests -> SUBSET DOMAIN groups']
  BY <1>2, <1>3 DEF IInv
<1> QED
  BY <1>4, <1>5, <1>6, WitnessedTypes, <1>2 DEF IInv

------------------------------------------------------------------------------

LEMMA StutterStep == IInv /\ UNCHANGED vars => IInv'
<1> SUFFICES ASSUME IInv, UNCHANGED vars PROVE IInv'
  OBVIOUS
<1>1. UNCHANGED <<policies, roles, groups, at, request, roleId, cast, answer, right, member,
                  kept>>
  BY DEF vars
<1>2. TypeOK'
  BY <1>1 DEF IInv, TypeOK, RequestRecord, PolicyDocument
<1>3. \A q \in Requests : Progress(q)'
  BY <1>1, Untouched DEF collections
<1> QED
  BY <1>1, <1>2, <1>3 DEF IInv

LEMMA NextInv == IInv /\ [Next]_vars => IInv'
<1> SUFFICES ASSUME IInv, [Next]_vars PROVE IInv'
  OBVIOUS
<1>1. CASE Administer
  BY <1>1, InsertPolicyStep, UpdateRoleStep, UpdateGroupStep DEF Administer
<1>2. ASSUME NEW q \in Requests, Assert(q) PROVE IInv'
  BY <1>2, BeginStep, ReadGroupsStep, ReadRolesStep, ReadPoliciesStep, FailStep DEF Assert
<1>3. CASE UNCHANGED vars
  BY <1>3, StutterStep
<1> QED
  BY <1>1, <1>2, <1>3 DEF Next

LEMMA Invariant == Spec => []IInv
BY InitInv, NextInv, PTL DEF Spec

\* The collections and what requests keep of them stay well formed.
THEOREM AuthorizerTypes == Spec => []TypeOK
<1>1. IInv => TypeOK
  BY DEF IInv
<1> QED
  BY <1>1, Invariant, PTL

\* assert() answers a user with one role with what was right at some moment while it ran,
\* whatever administrators write between its queries.
THEOREM AnsweredRight == Spec => []AnswerWasRight
<1>1. IInv => AnswerWasRight
  BY DEF IInv, Progress, Of, AnswerWasRight
<1> QED
  BY <1>1, Invariant, PTL
==============================================================================
