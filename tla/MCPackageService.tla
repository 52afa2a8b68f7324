--------------------------- MODULE MCPackageService ---------------------------
(* Instances of PackageService for TLC: which workers a deployment lets overlap. *)
EXTENDS PackageService

\* One command at a time.
Alone == {}

\* A sync may overlap scans, and scans each other; two syncs may not.
OneSync == {{s, c} : s \in Syncers, c \in Scanners} \cup {{c, d} : c, d \in Scanners}

\* Nothing keeps two commands apart.
Anything == {{v, w} : v, w \in Workers}

\* A project, and the same one after somebody has renamed it in Snyk.
Project == [org_id |-> "o1", org_name |-> "org", group_id |-> "group id not set",
            group_name |-> "group name not set", project_id |-> "k1", project_name |-> "old"]
OneRef == {Project}
Renamed == {Project, [Project EXCEPT !.project_name = "new"]}
==============================================================================
