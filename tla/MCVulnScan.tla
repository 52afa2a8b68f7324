------------------------------ MODULE MCVulnScan ------------------------------
(* Instances of VulnScan for TLC. *)
EXTENDS VulnScan

\* Every list of Purls a scan may find.
Lists == UNION {[1..n -> Keys] : n \in 1..MaxPurls}

Apart == [p \in Keys |-> p]

\* A project, and the same one after somebody has renamed it in Snyk.
Project == [org_id |-> "o1", org_name |-> "org", group_id |-> "group id not set",
            group_name |-> "group name not set", project_id |-> "k1", project_name |-> "old"]
OneRef == {Project}
Renamed == {Project, [Project EXCEPT !.project_name = "new"]}
==============================================================================
