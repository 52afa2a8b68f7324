----------------------------- MODULE SnykProjects -----------------------------
(***************************************************************************)
(* SnykService and its adapters, as a sync uses them: which projects it is *)
(* given, what it takes a project for, and which SBOMs reach it.  Every    *)
(* call is read-only, and nothing else depends on when it is made, so      *)
(* gathering the projects of all organizations is one step of a sync.      *)
(***************************************************************************)
EXTENDS SnykClient
LOCAL INSTANCE SequencesExt

CONSTANTS
  Orgs,        \* Snyk's organizations in its order: [id, projects], the latter a sequence
  Attributes   \* project -> its attributes, if Snyk tells them

------------------------------------------------------------------------------
(* What Snyk may answer. *)

\* Replies that are not what was asked for.
Refusals ==
  {Unreachable, CutOff, Reply(200, Binary), Reply(404, Json([data |-> None])),
   Reply(200, Text("")), Reply(200, Text("{}")), Reply(200, Text("not JSON")),
   Reply(200, Json([data |-> None])), Reply(200, Json([data |-> Some(<<>>)]))}

OrgsListing ==
  Reply(200, Json([orgs |-> Some([i \in DOMAIN Orgs |-> [id |-> Orgs[i].id, name |-> None]])]))

Listed(k) == [id |-> k, attributes |-> Attributes[k], relationships |-> None]

Listing(projects) == Reply(200, Json([data |-> Some([n \in DOMAIN projects |-> Listed(projects[n])])]))

\* A listing in which Snyk has left out what serde requires of a project.
Incomplete(projects) ==
  Reply(200, Json([data |-> Some([n \in DOMAIN projects |->
                                    IF n = Len(projects) THEN [id |-> projects[n]]
                                    ELSE Listed(projects[n])])]))

ProjectReplies ==
  {replies \in [DOMAIN Orgs -> Refusals \cup UNION {{Listing(Orgs[i].projects),
                                                     Incomplete(Orgs[i].projects)} :
                                                   i \in DOMAIN Orgs}] :
     \A i \in DOMAIN Orgs :
       replies[i] \in Refusals \cup {Listing(Orgs[i].projects), Incomplete(Orgs[i].projects)}}

------------------------------------------------------------------------------
(* SnykService *)

\* Adapter Organization::new.
NewOrganization(inner) == [id |-> UnwrapOr(inner.id, OrgIdNotSet)]

\* No list and an empty one are errors.
OrgsOf(reply) ==
  LET orgs == GetOrgs("token", reply)
  IN  IF ~orgs.ok \/ UnwrapOr(orgs.value, <<>>) = <<>> THEN Err("Snyk")
      ELSE Ok([i \in DOMAIN Unwrap(orgs.value) |-> NewOrganization(Unwrap(orgs.value)[i])])

ProjectsByOrg(org, reply) ==
  LET projects == GetProjects(org.id, "token", reply)
  IN  IF ~projects.ok \/ UnwrapOr(projects.value, <<>>) = <<>> THEN Err("Snyk")
      ELSE Ok([n \in DOMAIN Unwrap(projects.value) |-> Unwrap(projects.value)[n].id])

\* SnykService::projects: an organization whose projects cannot be fetched is skipped, and
\* what the others list is put together in their order.
Projects(orgs_reply, replies) ==
  LET orgs == OrgsOf(orgs_reply)
      of(i) == ProjectsByOrg(orgs.value[i], replies[i])
  IN  IF ~orgs.ok THEN orgs
      ELSE Ok(FlattenSeq([i \in DOMAIN orgs.value |-> IF of(i).ok THEN of(i).value ELSE <<>>]))

\* What a sync may begin with, whatever Snyk answers.
Gathered ==
  {Projects(OrgsListing, replies).value : replies \in ProjectReplies}

\* SnykService::sbom_raw, for a project that was listed.
SbomRaw(k, reply) ==
  LET org == CHOOSE i \in DOMAIN Orgs : \E n \in DOMAIN Orgs[i].projects : Orgs[i].projects[n] = k
      raw == GetSbomRaw(NewOrganization(Orgs[org]).id, "token", reply)
  IN  IF ~raw.ok \/ raw.value \in {None, Some(Text(""))} THEN Err("Snyk")
      ELSE Ok(Unwrap(raw.value))

------------------------------------------------------------------------------
(* Adapter Project::new, and what process_target takes a project for. *)

NewProject(k) ==
  IF Attributes[k] = None
  THEN [status |-> "active", packageManager |-> "unknown"]
  ELSE [status |-> Unwrap(Attributes[k]).status, packageManager |-> Unwrap(Attributes[k]).type]

SUPPORTED_SBOM_PROJECT_TYPES ==
  {"npm", "swift", "maven", "cocoapods", "composer", "gem", "nuget", "pypi", "hex",
   "cargo", "generic"}

Inactive(k) == NewProject(k).status = "inactive"

Supported(k) ==
  ~Inactive(k) /\ NewProject(k).packageManager \in SUPPORTED_SBOM_PROJECT_TYPES

NotSupported(k) ==
  ~Inactive(k) /\ NewProject(k).packageManager \notin SUPPORTED_SBOM_PROJECT_TYPES
==============================================================================
