----------------------------- MODULE SnykFindings -----------------------------
(***************************************************************************)
(* The findings of one Purl: scans that read its list of vulnerabilities,  *)
(* ask Snyk, merge the answer into the list they have read, and save it.   *)
(* The lists are here as the code keeps them, sequences of whole findings  *)
(* that the merges compare by CVE and provider.                            *)
(*                                                                         *)
(* A scan is the part of VulnScan from its listing to its upsert; a sync   *)
(* upserts the Purl with no findings of its own.  An upsert is a query and *)
(* a $set of the whole document: what others write between them is lost.   *)
(***************************************************************************)
EXTENDS SnykIssues, SequencesExt

CONSTANTS
  Scans,      \* scans of the Purl
  Syncs,      \* upserts of the Purl by syncs, which have inserted it before
  Replies     \* what Snyk may answer, by name

NoReply == "none yet"

Upserts == Scans \cup Syncs

ASSUME UpsertsAssumption == Scans \cap Syncs = {}

ASSUME RepliesAssumption ==
  /\ NoReply \notin DOMAIN Replies
  /\ \A r \in DOMAIN Replies :
       \/ Replies[r] \in {Unreachable, CutOff}
       \/ Replies[r] = Reply(Replies[r].status, Replies[r].body)

VARIABLES
  stored,     \* the Purl's vulnerabilities in the store, an Option of a sequence
  pc,         \* where each scan and each sync is
  listed,     \* the vulnerabilities each scan has listed
  reply,      \* what Snyk has answered it
  found,      \* what SnykService has made of that
  existing    \* the vulnerabilities each upsert has found

vars == <<stored, pc, listed, reply, found, existing>>

Init ==
  /\ stored = None
  /\ pc = [w \in Upserts |-> "new"]
  /\ listed = [s \in Scans |-> None]
  /\ reply = [s \in Scans |-> NoReply]
  /\ found = [s \in Scans |-> Ok(None)]
  /\ existing = [w \in Upserts |-> None]

------------------------------------------------------------------------------
(* Purl::vulnerabilities *)

Same(v, w) == v.cve = w.cve /\ v.provider = w.provider

\* Mutant of Pushed: the finding of the same CVE is replaced.
PushedAnew(current, new) == Append(SelectSeq(current, LAMBDA v : ~Same(v, new)), new)

Pushed(current, new) ==
  IF \E n \in DOMAIN current : Same(current[n], new) THEN current ELSE Append(current, new)

\* The loop over new findings.
Merged(current, new) ==
  LET merged[n \in 0..Len(new)] ==
        IF n = 0 THEN current ELSE Pushed(merged[n - 1], new[n])
  IN  merged[Len(new)]

\* The first findings of a Purl are taken as they are, later ones one by one.
AddVulnerabilities(current, new) ==
  CASE new = <<>> -> current
    [] new # <<>> /\ UnwrapOr(current, <<>>) = <<>> -> Some(new)
    [] OTHER -> Some(Merged(Unwrap(current), new))

\* Mutant of MergeFindings: the findings that the query has found are not merged.
MergeFindingsBlind(mine, theirs) == mine

\* upsert_purl: what its query has found is merged into what the caller brings.
MergeFindings(mine, theirs) ==
  IF theirs = None THEN mine ELSE AddVulnerabilities(mine, Unwrap(theirs))

------------------------------------------------------------------------------
(* A scan *)

\* What a reply amounts to: an error, nothing, or a list of findings.
FoundIn(r) == Vulnerabilities("an organization", Replies[r])

Continue(w, label) == pc' = [pc EXCEPT ![w] = label]

List(s) ==
  /\ pc[s] = "new"
  /\ listed' = [listed EXCEPT ![s] = stored]
  /\ Continue(s, "listed")
  /\ UNCHANGED <<stored, reply, found, existing>>

Ask(s) ==
  /\ pc[s] = "listed"
  /\ \E r \in DOMAIN Replies : /\ reply' = [reply EXCEPT ![s] = r]
                              /\ found' = [found EXCEPT ![s] = FoundIn(r)]
  /\ Continue(s, "asked")
  /\ UNCHANGED <<stored, listed, existing>>

\* An error ends the scan of the Purl, and so does a list that is missing or empty.
NothingFound(s) ==
  /\ pc[s] = "asked"
  /\ \/ ~found[s].ok /\ Continue(s, "failed")
     \/ found[s].ok /\ found[s].value = None /\ Continue(s, "done")
  /\ UNCHANGED <<stored, listed, reply, found, existing>>

Scan(s) == List(s) \/ Ask(s) \/ NothingFound(s)

------------------------------------------------------------------------------
(* An upsert *)

Scanned(s) == AddVulnerabilities(listed[s], Unwrap(found[s].value))

\* The findings the caller brings: a sync has none.
Mine(w) == IF w \in Scans THEN Scanned(w) ELSE None

\* A scan has found something, or a sync comes to this Purl.
Ready(w) ==
  IF w \in Scans THEN pc[w] = "asked" /\ found[w].ok /\ found[w].value # None
                 ELSE pc[w] = "new"

\* upsert_purl asks for the Purl.
Lookup(w) ==
  /\ Ready(w)
  /\ existing' = [existing EXCEPT ![w] = stored]
  /\ Continue(w, "saving")
  /\ UNCHANGED <<stored, listed, reply, found>>

Written(w) == MergeFindings(Mine(w), existing[w])

\* It writes the document it has made of its answer; the call may fail, or its reply may
\* be lost, and the process may die before it.
Save(w) ==
  /\ pc[w] = "saving"
  /\ \/ stored' = Written(w) /\ Continue(w, "done")
     \/ stored' \in {stored, Written(w)} /\ Continue(w, "failed")
  /\ UNCHANGED <<listed, reply, found, existing>>

\* A call before that has failed, or the process dies.
Abandon(w) ==
  /\ pc[w] \in {"new", "listed", "asked"}
  /\ Continue(w, "failed")
  /\ UNCHANGED <<stored, listed, reply, found, existing>>

Next == \/ \E s \in Scans : Scan(s)
        \/ \E w \in Upserts : Lookup(w) \/ Save(w) \/ Abandon(w)

Spec == Init /\ [][Next]_vars

------------------------------------------------------------------------------
(* Properties. *)

\* The list of a Purl is missing or holds well-formed findings, never none; a scan that
\* goes on to save has found some.
TypeOK ==
  /\ stored \in Option(Seq(Vulnerability)) /\ stored # Some(<<>>)
  /\ pc \in [Upserts -> {"new", "listed", "asked", "saving", "done", "failed"}]
  /\ \A s \in Scans :
       pc[s] \in {"asked", "saving"} /\ found[s].ok => found[s].value # Some(<<>>)

\* Every finding on record is what the adapter makes of one issue that Snyk has listed in
\* an answer with status 200: errors, other bodies and other findings leave no trace in it,
\* through every merge.
RecordedWasAnswered ==
  \A v \in Range(UnwrapOr(stored, <<>>)) :
    /\ v = ToVulnerability(v.raw)
    /\ \E s \in Scans : reply[s] # NoReply /\ LET r == Replies[reply[s]] IN
         /\ r.arrives = "whole" /\ r.status = 200 /\ r.body.is = "json"
         /\ \E list \in r.body.value.data : v.raw \in Range(list)

Saving == {w \in Upserts : pc[w] = "saving"}

\* As long as every scan and every upsert that is under way has read what is stored, the
\* list only ever grows at its end: the first reading of a finding stays, whatever later
\* scans are told.
FirstReadingKept ==
  [][(\A w \in Saving : existing[w] = stored /\ (w \in Scans => listed[w] = stored)) =>
       IsPrefix(UnwrapOr(stored, <<>>), UnwrapOr(stored', <<>>))]_vars

Identity(v) == <<v.cve, v.provider>>

Identified(findings) == {Identity(v) : v \in Range(UnwrapOr(findings, <<>>))}

\* The findings on record that no upsert under way is about to lose.
SafeFindings ==
  {id \in Identified(stored) :
     \A w \in Saving : id \in Identified(existing[w]) \cup Identified(Mine(w))}

\* However upserts overlap, a finding is lost only to one whose query was answered before
\* the finding was on record: once all that are under way know it, it stays, whatever
\* later scans are told and whichever of them fail.
SafeFindingsStay == [][SafeFindings \subseteq SafeFindings']_vars

Reported(result) ==
  IF result.ok THEN Identified(result.value) ELSE {}

Identities == UNION {Reported(FoundIn(r)) : r \in DOMAIN Replies}

Outcome(s) ==
  CASE pc[s] = "done" -> "recorded" [] pc[s] = "failed" -> "failed" [] OTHER -> "open"

Book == INSTANCE FindingsBook
          WITH known <- Identified(stored),
               safe <- SafeFindings,
               report <- [s \in Scans |-> Reported(found[s])],
               outcome <- [s \in Scans |-> Outcome(s)],
               writers <- Saving

\* By identity, scans and syncs implement the book: the report of a scan that ends well is
\* on record when it ends, however old the list it has merged it into, nothing is on record
\* that no scan has reported, and everything stays that no upsert under way may lose.
ImplementsFindingsBook == Book!Spec
==============================================================================
