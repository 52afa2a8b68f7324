------------------------------ MODULE SnykIssues ------------------------------
(***************************************************************************)
(* The adapter over a native Snyk issue: the Vulnerability Harbor makes of *)
(* one, and the findings SnykService makes of an answer.                   *)
(***************************************************************************)
EXTENDS SnykClient

\* A field of the attributes of an issue that may be missing, and the attributes too.
Attribute(issue, field) == UNION {attributes[field] : attributes \in issue.attributes}

\* An issue whose level is missing is of unknown severity, one without attributes of none.
SeverityOf(issue) ==
  {IF a.effective_severity_level = None THEN "unknown" ELSE Unwrap(a.effective_severity_level) :
     a \in issue.attributes}

\* The elements of a list at some of its positions, in their order.
Filtered(list, positions) ==
  LET kept[n \in 0..Len(list)] ==
        IF n = 0 THEN <<>>
        ELSE IF n \in positions THEN Append(kept[n - 1], list[n]) ELSE kept[n - 1]
  IN  kept[Len(list)]

Problems(issue, source) ==
  LET problems == UnwrapOr(Attribute(issue, "problems"), <<>>)
  IN  Filtered(problems, {n \in DOMAIN problems : problems[n].source = source})

\* The first CVE of an issue that has several, and all of its CWEs.
Cve(issue) ==
  IF Problems(issue, "CVE") = <<>> THEN None ELSE Some(Problems(issue, "CVE")[1].id)

Cwes(issue) ==
  IF Problems(issue, "CWE") = <<>> THEN None
  ELSE Some([n \in DOMAIN Problems(issue, "CWE") |-> Problems(issue, "CWE")[n].id])

Versions == {"1.0", "2.0", "3.0", "3.1", "4.0"}

\* A vector is abstracted to the standard it begins with.
VersionFromVector(vector) ==
  CASE vector = Some("CVSS:1") -> Some("1.0")
    [] vector = Some("CVSS:2") -> Some("2.0")
    [] vector = Some("CVSS:3.0") -> Some("3.0")
    [] vector = Some("CVSS:3.1") -> Some("3.1")
    [] vector = Some("CVSS:4") -> Some("4.0")
    [] OTHER -> None

Score == [score : Nat, source : Option(STRING), version : Option(Versions),
          vector : Option(STRING)]

\* One severity whose score is missing, or that has a score and no vector, makes an issue
\* lose all of its scores; one whose score is null is left out.
ResolveScores(issue) ==
  LET severities == UnwrapOr(Attribute(issue, "severities"), <<>>)
      scored == Filtered(severities, {n \in DOMAIN severities : severities[n].score # Some(None)})
  IN  IF scored = <<>> \/ \E n \in DOMAIN scored : scored[n].score = None \/ scored[n].vector = None
      THEN None
      ELSE Some([n \in DOMAIN scored |->
                   [score |-> Unwrap(Unwrap(scored[n].score)), source |-> scored[n].source,
                    version |-> VersionFromVector(Unwrap(scored[n].vector)),
                    vector |-> Unwrap(scored[n].vector)]])

Maturity == {"NotDefined", "High", "Functional", "ProofOfConcept", "Unproven"}

\* What Snyk says of exploits, "Not Defined" for whatever Harbor does not know.
MaturityOf(exploit) ==
  CASE exploit = "Unproven" -> "Unproven"
    [] exploit = "Proof of Concept" -> "ProofOfConcept"
    [] exploit \in {"Functional", "High"} -> exploit
    [] OTHER -> "NotDefined"

ResolveMaturity(issue) ==
  {MaturityOf(exploit) : exploit \in UNION {slots.exploit : slots \in Attribute(issue, "slots")}}

Summary == [maturity : Option(Maturity), scores : Option(Seq(Score))]

\* The mean, the median and the mode are never set.
Cvss(issue) == Some([maturity |-> ResolveMaturity(issue), scores |-> ResolveScores(issue)])

\* Whether an issue comes with advice: one coordinate without a list of remedies makes it
\* lose that of the others.
Remediated(issue) ==
  \E coordinates \in Attribute(issue, "coordinates") :
    \A n \in DOMAIN coordinates : coordinates[n].remedies # None

Vulnerability ==
  [provider : {"snyk"}, severity : Option({"unknown"} \cup EffectiveSeverityLevel),
   cve : Option(STRING), cvss : Option(Summary), cwes : Option(Seq(STRING)),
   remediated : BOOLEAN, raw : CommonIssueModel]

\* IssueSnyk::to_vulnerability.
ToVulnerability(issue) ==
  [provider |-> "snyk", severity |-> SeverityOf(issue), cve |-> Cve(issue),
   cvss |-> Cvss(issue), cwes |-> Cwes(issue), remediated |-> Remediated(issue),
   raw |-> issue]

\* Mutant of Issues: an empty list is an answer like any other.
IssuesOrNone(org_id, reply) == GetIssues(org_id, "token", reply)

\* SnykService::issues: no issues and an empty list of them are the same.
Issues(org_id, reply) ==
  LET issues == GetIssues(org_id, "token", reply)
  IN  IF issues.ok /\ issues.value = Some(<<>>) THEN Ok(None) ELSE issues

\* SnykService::vulnerabilities.
Vulnerabilities(org_id, reply) ==
  LET issues == Issues(org_id, reply)
  IN  IF issues.ok
      THEN Ok({[n \in DOMAIN list |-> ToVulnerability(list[n])] : list \in issues.value})
      ELSE issues
===============================================================================
