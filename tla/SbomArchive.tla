------------------------------ MODULE SbomArchive ------------------------------
(***************************************************************************)
(* What the Sbom documents and the file storage together promise: for      *)
(* every Package URL the SBOMs that were ever committed, in their order.   *)
(* A step appends one; nothing that was archived changes.  SbomSync        *)
(* implements it when syncs do not overlap and no two Package URLs share a *)
(* file name.                                                              *)
(***************************************************************************)
EXTENDS Sequences

CONSTANTS Purls, Contents

VARIABLE archive

Init == archive = [p \in Purls |-> <<>>]

Commit(p, c) == archive' = [archive EXCEPT ![p] = Append(@, c)]

Next == \E p \in Purls, c \in Contents : Commit(p, c)

Spec == Init /\ [][Next]_archive
==============================================================================
