------------------------------ MODULE MCTeamApi ------------------------------
(* Instances of TeamApi for TLC. *)
EXTENDS TeamApi, TLC

Symmetric == Permutations(Requests) \cup Permutations(Contents)
==============================================================================
