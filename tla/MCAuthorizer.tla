----------------------------- MODULE MCAuthorizer -----------------------------
(* Instances of Authorizer for TLC. *)
EXTENDS Authorizer

\* An action on one resource, and an exception from it.
SomeGrants == {Policy("db", "Read", "Allow"), Policy("db", "Any", "Deny")}
==============================================================================
