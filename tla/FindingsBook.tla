----------------------------- MODULE FindingsBook -----------------------------
(***************************************************************************)
(* What the scans of a Purl promise, with no lists, no replies and no      *)
(* documents in it: a book of findings, by identity, that scans and syncs  *)
(* write anew.  A scan reports what it was told, and when it ends well its *)
(* whole report is in the book; when it fails, it may be or not.           *)
(*                                                                         *)
(* A writer may drop what came into the book after it had begun to write,  *)
(* and nothing else: what is safe from all that are writing stays for      *)
(* good, and when nobody is writing everything is safe.  So nothing is     *)
(* ever lost as long as writers take turns.                                *)
(***************************************************************************)
CONSTANTS Scans, Syncs, Identities

VARIABLES
  known,     \* the findings in the book
  safe,      \* those of them that nobody who is writing may drop
  report,    \* what each scan reports
  outcome,   \* "open", "recorded" or "failed"
  writers    \* the scans and syncs that are writing

bookVars == <<known, safe, report, outcome, writers>>

Init ==
  /\ known = {} /\ safe = {}
  /\ report = [s \in Scans |-> {}]
  /\ outcome = [s \in Scans |-> "open"]
  /\ writers = {}

Report(s) ==
  /\ outcome[s] = "open" /\ report[s] = {}
  /\ \E found \in SUBSET Identities : report' = [report EXCEPT ![s] = found]
  /\ UNCHANGED <<known, safe, outcome, writers>>

Begin(w) ==
  /\ w \notin writers
  /\ w \in Scans => outcome[w] = "open"
  /\ writers' = writers \cup {w}
  /\ UNCHANGED <<known, safe, report, outcome>>

\* The book after w has written: what was safe is there, and so is what is new, and
\* nothing that no scan has reported.
Written(w, new) ==
  /\ known' \in SUBSET UNION {report[s] : s \in Scans}
  /\ safe \cup new \subseteq known'
  /\ safe' \in SUBSET known'
  /\ safe \subseteq safe'
  /\ writers' = writers \ {w}
  /\ writers' = {} => safe' = known'
  /\ UNCHANGED report

Record(s) ==
  /\ outcome[s] = "open"
  /\ Written(s, report[s])
  /\ outcome' = [outcome EXCEPT ![s] = "recorded"]

Fail(s) ==
  /\ outcome[s] = "open"
  /\ Written(s, {})
  /\ outcome' = [outcome EXCEPT ![s] = "failed"]

\* A sync brings no findings.
Overwrite(t) ==
  /\ t \in writers
  /\ Written(t, {})
  /\ UNCHANGED outcome

Next == \/ \E s \in Scans : Report(s) \/ Record(s) \/ Fail(s)
        \/ \E w \in Scans \cup Syncs : Begin(w)
        \/ \E t \in Syncs : Overwrite(t)

Spec == Init /\ [][Next]_bookVars
==============================================================================
