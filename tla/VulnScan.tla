------------------------------- MODULE VulnScan -------------------------------
(***************************************************************************)
(* VulnerabilityScanTask, the run of `harbor-cli enrich -p snyk`: list     *)
(* every Purl, and for each one ask Snyk for its vulnerabilities, merge    *)
(* them into the Purl as it was LISTED, refer to the Task, write a         *)
(* findings file, and upsert the Purl.                                     *)
(*                                                                         *)
(* The steps of TaskProvider are steps of this module.  The syncs that     *)
(* fill the collection are here as the upserts they make of Purls, each a  *)
(* query and a write; Overlap says whether syncs and scans may overlap.    *)
(***************************************************************************)
EXTENDS TaskProvider, DocumentStore, PurlEntity

CONSTANTS
  Syncs,            \* Tasks of syncs
  SyncIterations,   \* iterations of their references: 1 of packages, 0 of dependencies
  SnykRefs,         \* Snyk projects as syncs refer to them
  Vulnerabilities,  \* findings, identified by (cve, provider)
  FormatFileName,   \* Keys -> names: what is not a letter or digit becomes "-"
  Overlap,          \* whether scans and upserts of syncs may overlap
  MaxPurls          \* bound on the Purl documents

\* A scan's errors are keyed by Package URL.
Purls == Keys
Xrefs == {FromSnykRef(r) : r \in SnykRefs}

ASSUME ScanAssumption ==
  /\ Syncs \cap Executions = {}
  /\ SyncIterations \subseteq {0, 1} /\ SnykRefs \subseteq SnykRef
  /\ Overlap \in BOOLEAN /\ MaxPurls \in Nat

VARIABLES
  purls,    \* the Purl collection
  files,    \* the findings files: name -> the findings in it
  listed,   \* the Purls each scan has listed, in the order of its targets
  step,     \* where each scan is in process_target
  purl,     \* the Purl it is working on, as it will be saved
  found,    \* what the query of upsert_purl returned
  synced    \* the Purl a sync upserts, and what its query returned

scanVars == <<purls, files, listed, step, purl, found, synced>>
vars == <<taskVars, scanVars>>

NoPurl == [purl |-> "none"]

NoUpsert == [new |-> NoPurl, found |-> {}]

ScanInit ==
  /\ Init
  /\ purls = <<>>
  /\ files = <<>>
  /\ listed = [e \in Executions |-> <<>>]
  /\ step = [e \in Executions |-> "idle"]
  /\ purl = [e \in Executions |-> NoPurl]
  /\ found = [e \in Executions |-> {}]
  /\ synced = [t \in Syncs |-> NoUpsert]

Running(e) == pc[e] \notin {"new", "ok", "error", "dead"}

Upserting(t) == synced[t] # NoUpsert

Quiet ==
  Overlap \/ ((\A e \in Executions : ~Running(e)) /\ (\A t \in Syncs : ~Upserting(t)))

------------------------------------------------------------------------------
(* A sync upserts the Purl of a package or of a dependency. *)

\* It asks for the Purl ...
SyncLookup(t) ==
  /\ Quiet /\ ~Upserting(t)
  /\ \E p \in Purls, n \in SyncIterations, x \in Xrefs :
       synced' = [synced EXCEPT ![t] = [new |-> FromComponent(p, t, n, x),
                                        found |-> Documents(purls, [purl |-> p])]]
  /\ UNCHANGED <<taskVars, purls, files, listed, step, purl, found>>

\* ... and inserts it, or updates what the query has returned.  The write may fail; two
\* documents are an error.
SyncSave(t) ==
  /\ Upserting(t)
  /\ LET new == synced[t].new
     IN  \/ /\ synced[t].found = {} /\ Len(purls) < MaxPurls
            /\ purls' = Insert(purls, new)
         \/ \E hit \in synced[t].found :
              /\ synced[t].found = {hit}
              /\ purls' = Update(purls, hit.id, MergePurl(new, hit.doc))
         \/ UNCHANGED purls
  /\ synced' = [synced EXCEPT ![t] = NoUpsert]
  /\ UNCHANGED <<taskVars, files, listed, step, purl, found>>

------------------------------------------------------------------------------
(* process_target *)

At(e, s) == Processing(e) /\ step[e] = s

Continue(e, s) == step' = [step EXCEPT ![e] = s] /\ UNCHANGED taskVars

\* Mutant of Finish: the next target starts with the Purl of this one.
FinishStale(e, error) ==
  /\ TargetDone(e, error)
  /\ step' = [step EXCEPT ![e] = "idle"]
  /\ UNCHANGED <<listed, purl, found>>

\* process_target returns: run() goes on with the next Purl.
Finish(e, error) ==
  /\ TargetDone(e, error)
  /\ step' = [step EXCEPT ![e] = "idle"]
  /\ purl' = [purl EXCEPT ![e] = NoPurl]
  /\ found' = [found EXCEPT ![e] = {}]
  /\ UNCHANGED listed

\* run() lists the collection once; the targets are what it held then.
List(e) ==
  /\ Fetch(e)
  /\ targets'[e] = [i \in DOMAIN purls |-> purls[i].purl]
  /\ listed' = [listed EXCEPT ![e] = purls]
  /\ UNCHANGED <<purls, files, step, purl, found>>

\* Snyk fails, or knows no vulnerabilities: then the scan leaves no trace in the Purl.
NoFindings(e) ==
  /\ At(e, "idle")
  /\ \E error \in BOOLEAN : Finish(e, error)
  /\ UNCHANGED <<purls, files>>

\* Mutant of Scanned: the vulnerabilities of earlier scans are replaced.
ScannedAnew(doc, e, findings) ==
  InitScan([doc EXCEPT !.vulnerabilities = findings], e)

\* The Purl with the findings merged in and the scan's reference appended.
Scanned(doc, e, findings) ==
  InitScan([doc EXCEPT !.vulnerabilities = AddVulnerabilities(@, findings)], e)

Findings(e) ==
  /\ At(e, "idle")
  /\ \E findings \in (SUBSET Vulnerabilities) \ {{}} :
       purl' = [purl EXCEPT ![e] = Scanned(listed[e][next[e]], e, findings)]
  /\ Continue(e, "scanned")
  /\ UNCHANGED <<purls, files, listed, found>>

\* The iteration of the reference init_scan returned.
Iteration(doc, e) == CHOOSE n \in {r.iteration : r \in {q \in doc.taskRefs : q.task = e}} : TRUE

FileName(p, iteration) == <<FormatFileName[p], iteration>>

Stored(name, content) ==
  [n \in DOMAIN files \cup {name} |-> IF n = name THEN content ELSE files[n]]

\* What a write that is reported as failed may leave: nothing, the file, or an empty one.
NotStored(name, content) == {files, Stored(name, content), Stored(name, {})}

\* Mutant of StoreFindings: a scan whose file could not be written is saved all the same.
StoreFindingsUnchecked(e) ==
  /\ At(e, "scanned")
  /\ files' \in {files, Stored(FileName(purl[e].purl, Iteration(purl[e], e)),
                               purl[e].vulnerabilities)}
  /\ Continue(e, "stored")
  /\ UNCHANGED <<purls, listed, purl, found>>

\* VulnerabilityService::store_by_purl: the file holds every finding of the Purl.
StoreFindings(e) ==
  /\ At(e, "scanned")
  /\ LET name == FileName(purl[e].purl, Iteration(purl[e], e))
         stored == Stored(name, purl[e].vulnerabilities)
     IN  \/ /\ files' = stored
            /\ Continue(e, "stored")
            /\ UNCHANGED <<listed, purl, found>>
         \/ files' \in NotStored(name, purl[e].vulnerabilities) /\ Finish(e, TRUE)
  /\ UNCHANGED purls

\* Mutant of Lookup: a query that failed is tried again.
LookupRetried(e) ==
  /\ At(e, "stored")
  /\ \/ /\ found' = [found EXCEPT ![e] = Documents(purls, [purl |-> purl[e].purl])]
        /\ Continue(e, "found")
        /\ UNCHANGED <<listed, purl>>
     \/ /\ step' = [step EXCEPT ![e] = "scanned"]
        /\ UNCHANGED <<taskVars, listed, purl, found>>
  /\ UNCHANGED <<purls, files>>

\* upsert_purl: the query ...
Lookup(e) ==
  /\ At(e, "stored")
  /\ \/ /\ found' = [found EXCEPT ![e] = Documents(purls, [purl |-> purl[e].purl])]
        /\ Continue(e, "found")
        /\ UNCHANGED <<listed, purl>>
     \/ Finish(e, TRUE)
  /\ UNCHANGED <<purls, files>>

\* ... and the update of what it returned.  Two documents are refused, and so is none:
\* the Purl carries the id it was listed with.
Save(e) ==
  /\ At(e, "found")
  /\ \/ /\ \E hit \in found[e] :
             /\ found[e] = {hit}
             /\ purls' = Update(purls, hit.id, MergePurl(purl[e], hit.doc))
        /\ \E error \in BOOLEAN : Finish(e, error)
     \/ UNCHANGED purls /\ Finish(e, TRUE)
  /\ UNCHANGED files

------------------------------------------------------------------------------

\* The steps of execute(), the fetch apart.
ScanScript(e) ==
  /\ InitTask(e) \/ FetchFails(e) \/ EndRun(e) \/ Complete(e)
  /\ pc[e] = "new" => Quiet
  /\ UNCHANGED scanVars

ScanStep(e) ==
  \/ List(e)
  \/ NoFindings(e) \/ Findings(e) \/ StoreFindings(e) \/ Lookup(e) \/ Save(e)

ScanWork(e) == ScanScript(e) \/ (ScanStep(e) /\ UNCHANGED synced)

ScanCrash(e) == Crash(e) /\ UNCHANGED scanVars

ScanNext ==
  \/ \E t \in Syncs : SyncLookup(t) \/ SyncSave(t)
  \/ \E e \in Executions : ScanWork(e) \/ ScanCrash(e)

ScanSpec == ScanInit /\ [][ScanNext]_vars

\* Every call of a scan returns: the store's driver times out, and the Snyk API is taken
\* to answer.  Nothing is assumed of deaths, of the outcome of a call, or of syncs.
FairScanSpec == ScanSpec /\ \A e \in Executions : WF_vars(ScanWork(e))

------------------------------------------------------------------------------
(* Properties. *)

Tasks == Syncs \cup Executions

Doc == [purl : Purls,
        taskRefs : SUBSET [task : Tasks, iteration : Nat],
        xrefs : SUBSET Xrefs,
        vulnerabilities : SUBSET Vulnerabilities]

\* The Purl collection, the files and what a scan works on are well formed, and a scan
\* has one target for every Purl it has listed.
ScanTypeOK ==
  /\ purls \in Seq(Doc)
  /\ \A n \in DOMAIN files : files[n] \subseteq Vulnerabilities
  /\ \A e \in Executions :
       /\ purl[e] \in Doc \cup {NoPurl}
       /\ step[e] # "idle" <=> purl[e] # NoPurl
       /\ DOMAIN listed[e] = DOMAIN targets[e]

\* The references the scans have left in a Purl.
Scans(doc) == {r \in doc.taskRefs : r.task \in Executions}

\* A scan on record in a Purl has its findings file, and the file of the latest one
\* holds exactly the vulnerabilities of the Purl: failed scans, scans that died and syncs
\* in between leave no gap between the store and the files.
LatestScanOnFile ==
  \A i \in DOMAIN purls : \A r \in Scans(purls[i]) :
    LET name == FileName(purls[i].purl, r.iteration)
    IN  /\ name \in DOMAIN files
        /\ (\A s \in Scans(purls[i]) : s.iteration <= r.iteration) =>
             files[name] = purls[i].vulnerabilities

\* A scan never touches the findings file of a scan on record.
FilesOnRecordKept ==
  [][\A i \in DOMAIN purls : \A r \in Scans(purls[i]) :
       LET name == FileName(purls[i].purl, r.iteration)
       IN  name \in DOMAIN files => files'[name] = files[name]]_vars

\* When scans and syncs overlap, a scan on record still has a file, be it a later one's.
RecordedScansHaveFiles ==
  \A i \in DOMAIN purls : \A r \in Scans(purls[i]) :
    FileName(purls[i].purl, r.iteration) \in DOMAIN files
==============================================================================
