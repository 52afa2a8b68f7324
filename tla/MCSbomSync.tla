------------------------------ MODULE MCSbomSync ------------------------------
(* Instances of SbomSync for TLC: the projects of a Snyk group and its answers. *)
EXTENDS SbomSync, TLC

Project(status, type) ==
  Some([name |-> "a project", status |-> status, target_file |-> "a file", type |-> type])

\* k1 and k2 are two projects of one package; nothing is known of k3, k4 is inactive,
\* k5 belongs to an organization without an id.
OfAllKinds ==
  "k1" :> Project("active", "npm") @@ "k2" :> Project("active", "npm")
    @@ "k3" :> None @@ "k4" :> Project("inactive", "npm") @@ "k5" :> None

Org(id, projects) == [id |-> id, projects |-> projects]

OneOrg == <<Org(Some("o1"), <<"k4", "k1">>)>>
TwoOrgs == <<Org(Some("o1"), <<"k1">>), Org(Some("o2"), <<"k3", "k2">>)>>
ThreeOrgs == TwoOrgs \o <<Org(None, <<"k5">>)>>

\* What can be gathered and is not empty.
Lists == Gathered \ {<<>>}

Part(purl) == [type |-> "library", name |-> "a part", cpe |-> None, purl |-> purl]

Sbom(metadata, components) ==
  Reply(200, Json([bomFormat |-> "CycloneDX", specVersion |-> "1.4", version |-> 1,
                   metadata |-> metadata, components |-> components]))

About(purl) == Some([component |-> Some(Part(purl))])

Sbom1 == Sbom(About(Some("p1")), Some(<<Part(Some("d1"))>>))
Sbom2 == Sbom(About(Some("p1")), Some(<<Part(None), Part(Some(""))>>))
SbomAlone == Sbom(About(Some("p1")), None)

\* SBOMs that are not taken: no or an empty Package URL, no component, a type serde does
\* not know.
Unusable ==
  {Sbom(About(None), None), Sbom(About(Some("")), Some(<<Part(Some("d1"))>>)),
   Sbom(Some([component |-> None]), None), Sbom(None, Some(<<Part(Some("d1"))>>)),
   Sbom(About(Some("p1")), Some(<<[Part(Some("d1")) EXCEPT !.type = "quantum"]>>))}

\* Snyk may answer with any of these.
AnswersTwoProjects ==
  [k \in Keys |-> Refusals \cup IF k = "k1" THEN {Sbom1} \cup Unusable ELSE {SbomAlone}]
AnswersTwoSboms == [k \in Keys |-> Refusals \cup {Sbom1, Sbom2}]

Symmetric == Permutations(Executions)

Apart == [p \in Purls |-> p]
\* pkg:npm/a/b and pkg:npm/a-b, say.
Colliding == [p \in Purls |-> "same"]
==============================================================================
