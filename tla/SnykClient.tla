------------------------------ MODULE SnykClient ------------------------------
(***************************************************************************)
(* The Snyk API client: its four calls, and as much of the types they      *)
(* deserialize as decides whether an answer is taken or refused, and of    *)
(* what the adapters read.  Free text is a string.  An answer that lacks   *)
(* a required field anywhere is refused as a whole: the types keep some of *)
(* these fields, and leave out others that nothing reads.                  *)
(***************************************************************************)
EXTENDS HttpClient, Sequences

\* GET /orgs.
OrgV1 == [id : Option(STRING), name : Option(STRING)]
OrgsResponse == [orgs : Option(Seq(OrgV1))]

\* GET /orgs/{org_id}/projects.
ProjectStatus == {"active", "inactive"}
ProjectAttributes ==
  [name : STRING, status : ProjectStatus, target_file : STRING, type : STRING]
Relationship == [data : [id : STRING]]
ProjectRelationships ==
  [importer : Option(Relationship), organization : Relationship, owner : Option(Relationship),
   target : [data : [id : STRING]]]
ListOrgProjects200ResponseDataInner ==
  [id : STRING, attributes : Option(ProjectAttributes),
   relationships : Option(ProjectRelationships)]
ListOrgProjects200Response == [data : Option(Seq(ListOrgProjects200ResponseDataInner))]

\* GET /orgs/{org_id}/packages/{purl}/issues.  An Option of an Option tells a field that
\* is missing from one that is null.
EffectiveSeverityLevel == {"info", "low", "medium", "high", "critical"}
Problem == [id : STRING, source : STRING]
Severity ==
  [score : Option(Option(Nat)), source : Option(STRING), vector : Option(Option(STRING))]
Remedy == [description : Option(STRING)]
Coordinate == [remedies : Option(Seq(Remedy))]
Slots == [exploit : Option(STRING)]
CommonIssueModelAttributes ==
  [coordinates : Option(Seq(Coordinate)), effective_severity_level : Option(EffectiveSeverityLevel),
   problems : Option(Seq(Problem)), severities : Option(Seq(Severity)), slots : Option(Slots)]
CommonIssueModel == [id : Option(STRING), attributes : Option(CommonIssueModelAttributes)]
IssuesResponse == [data : Option(Seq(CommonIssueModel))]

------------------------------------------------------------------------------
(* The calls.  An id goes into the URL as it is, a Package URL encoded. *)

\* What the adapter Organization::new makes of an id Snyk does not tell.
OrgIdNotSet == "org id not set"

Uri(org_id) == IF org_id = OrgIdNotSet THEN "invalid" ELSE "valid"

\* What get() returned, with no value taken for a failure.
Answered(response, field, failure) ==
  CASE ~response.ok -> response
    [] response.ok /\ response.value = None -> Err(failure)
    [] OTHER -> Ok(Unwrap(response.value)[field])

GetOrgs(token, reply) ==
  Answered(Request("valid", token, reply, OrgsResponse), "orgs", "snyk failed to list orgs")

GetProjects(org_id, token, reply) ==
  Answered(Request(Uri(org_id), token, reply, ListOrgProjects200Response), "data",
           "snyk failed to list projects")

\* Client::get_issues.
GetIssues(org_id, token, reply) ==
  Answered(Request(Uri(org_id), token, reply, IssuesResponse), "data",
           "snyk failed to return issues")

\* Client::sbom_raw: the text of the SBOM is not looked at yet.
GetSbomRaw(org_id, token, reply) ==
  LET raw == Raw(Uri(org_id), token, reply)
  IN  CASE ~raw.ok -> raw
        [] raw.ok /\ reply.status # 200 -> Err("remote returned error")
        [] raw.ok /\ reply.status = 200 /\ reply.body = Text("") -> Ok(None)
        [] OTHER -> Ok(Some(reply.body))
===============================================================================
