------------------------------ MODULE PurlLedger ------------------------------
(***************************************************************************)
(* What the package collections promise to the rest of Harbor, with no     *)
(* documents, ids or processes in it: a ledger that holds, for every       *)
(* Package URL, the tasks that looked at it, the external systems it is    *)
(* known to, and the vulnerabilities found in it.  A step adds facts about *)
(* one Package URL; no fact is ever forgotten.  PackageService implements  *)
(* it as long as upserts of the same collection do not overlap.            *)
(***************************************************************************)
CONSTANTS Purls, Tasks, Xrefs, Vulnerabilities

VARIABLE ledger

Entry == [tasks : SUBSET Tasks,
          xrefs : SUBSET Xrefs,
          vulnerabilities : SUBSET Vulnerabilities]

Unknown == [tasks |-> {}, xrefs |-> {}, vulnerabilities |-> {}]

Init == ledger = [p \in Purls |-> Unknown]

Learn(p, facts) ==
  ledger' = [ledger EXCEPT
               ![p] = [tasks |-> @.tasks \cup facts.tasks,
                       xrefs |-> @.xrefs \cup facts.xrefs,
                       vulnerabilities |-> @.vulnerabilities \cup facts.vulnerabilities]]

Next == \E p \in Purls, facts \in Entry : Learn(p, facts)

Spec == Init /\ [][Next]_ledger
==============================================================================
