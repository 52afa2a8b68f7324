---------------------------- MODULE MCSnykFindings ----------------------------
(* Instances of SnykFindings for TLC: Snyk's issues, and what it may answer. *)
EXTENDS SnykFindings

Symmetric == Permutations(Scans)

Cve1 == [id |-> "CVE-1", source |-> "CVE"]
Cve2 == [id |-> "CVE-2", source |-> "CVE"]
Cwe == [id |-> "CWE-1", source |-> "CWE"]

Attributes(level, problems, severities) ==
  [coordinates |-> None, effective_severity_level |-> level, problems |-> problems,
   severities |-> severities, slots |-> None]

Issue(attributes) == [id |-> None, attributes |-> Some(attributes)]

Scored == [score |-> Some(Some(9)), source |-> None, vector |-> Some(Some("CVSS:3.1"))]
Unscored == [score |-> None, source |-> None, vector |-> None]
NullScore == [Unscored EXCEPT !.score = Some(None)]

\* A finding, read differently later; another with two CVEs; two without a CVE.
High == Issue([Attributes(Some("high"), Some(<<Cwe, Cve1>>), Some(<<Scored, NullScore>>))
                 EXCEPT !.slots = Some([exploit |-> Some("Functional")])])
Lower == Issue([Attributes(Some("low"), Some(<<Cve1>>), Some(<<Scored, Unscored>>))
                 EXCEPT !.coordinates = Some(<<[remedies |-> Some(<<[description |-> None]>>)]>>)])
Double == Issue(Attributes(None, Some(<<Cve2, Cve1>>), None))
Nameless == Issue(Attributes(Some("medium"), Some(<<Cwe>>), None))
Bare == [id |-> Some("SNYK-1"), attributes |-> None]

Answer(issues) == Json([data |-> Some(issues)])

\* A problem without a source.
Malformed == Issue(Attributes(None, Some(<<[id |-> "CVE-1"]>>), None))

AnyReply ==
  [unreachable |-> Unreachable, cut_off |-> CutOff, binary |-> Reply(200, Binary),
   none |-> Reply(200, Text("{}")), empty |-> Reply(200, Text("")),
   no_data |-> Reply(200, Json([data |-> None])), no_issues |-> Reply(200, Answer(<<>>)),
   malformed |-> Reply(200, Answer(<<High, Malformed>>)),
   bad_gateway |-> Reply(502, Answer(<<Double>>)),
   high |-> Reply(200, Answer(<<High>>)),
   lower |-> Reply(200, Answer(<<Lower, Double>>)),
   double |-> Reply(200, Answer(<<Double, High>>)),
   nameless |-> Reply(200, Answer(<<Nameless, Bare>>)),
   bare |-> Reply(200, Answer(<<Bare, Lower>>)),
   twice |-> Reply(200, Answer(<<High, Lower>>))]
==============================================================================
