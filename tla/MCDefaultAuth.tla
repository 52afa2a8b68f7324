----------------------------- MODULE MCDefaultAuth -----------------------------
(* Instances of DefaultAuth for TLC. *)
EXTENDS DefaultAuth, TLC

Symmetric == Permutations(Applications)
==============================================================================
