---------------------------- MODULE CrossReference ----------------------------
(***************************************************************************)
(* Cross references: a kind, and a map that identifies the entity in the   *)
(* system of that kind.  The program makes references to Snyk projects     *)
(* only, and SNYK_DISCRIMINATOR is lower case, so what is read back from   *)
(* the store is what was written.                                          *)
(***************************************************************************)

\* SnykRef: ids, and the names the organization, group and project had at that time.
SnykRef ==
  [org_id : STRING, org_name : STRING, group_id : STRING, group_name : STRING,
   project_id : STRING, project_name : STRING]

\* From<SnykRef> for Xref.
FromSnykRef(r) ==
  [kind |-> "external::snyk",
   map |-> [orgId |-> r.org_id, orgName |-> r.org_name,
            groupId |-> r.group_id, groupName |-> r.group_name,
            projectId |-> r.project_id, projectName |-> r.project_name]]

\* Mutant of Eq: references are the same when the ids are, whatever the names.
EqById(self, other) ==
  /\ self.kind = other.kind
  /\ \A key \in {"orgId", "groupId", "projectId"} : self.map[key] = other.map[key]

\* PartialEq of Xref.  It is no equality in general: `self` may know more.
Eq(self, other) ==
  /\ self.kind = other.kind
  /\ \A key \in DOMAIN other.map : key \in DOMAIN self.map /\ self.map[key] = other.map[key]

\* The xref! macro's xrefs(), once for every reference of `others`: a reference is added
\* unless it is there already.  (Of two in `others` neither equals the other: SnykEq.)
AddXrefs(refs, others) == refs \cup {o \in others : \A x \in refs : ~Eq(x, o)}
===============================================================================
