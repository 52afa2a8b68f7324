---------------------------- MODULE PackageService ----------------------------
(***************************************************************************)
(* core's PackageService: the four upserts through which `harbor-cli sbom` *)
(* and `harbor-cli enrich` record what they learn.  Every upsert is a read *)
(* (find the document with this key), a decision, and a write (insert, or  *)
(* merge into what was READ and $set the whole document).  Two             *)
(* command-line processes share the collections and nothing else, so       *)
(* another process can write between the read and the write.               *)
(*                                                                         *)
(* A worker is one run of one command, hence one Task: a syncer issues the *)
(* upserts of SbomSyncTask::commit_target, a scanner those of              *)
(* VulnerabilityScanTask::process_target.  This module lets them issue any *)
(* of these calls in any order; SbomSync and VulnScan fix the order.       *)
(***************************************************************************)
EXTENDS DocumentStore, PurlEntity, Integers, Sequences, FiniteSets

CONSTANTS
  Syncers,          \* runs of `harbor-cli sbom -p snyk`
  Scanners,         \* runs of `harbor-cli enrich -p snyk`
  Purls,            \* Package URLs
  EmptyPurl,        \* the empty string where a Package URL is expected
  ExternalIds,      \* Snyk project ids of projects without SBOM support
  SnykRefs,         \* Snyk projects as syncs refer to them
  Vulnerabilities,  \* findings, identified by (cve, provider)
  Parallel,         \* the pairs of workers that may be inside an upsert together
  MaxDocuments,     \* bound: no insert is started from this many documents on
  MaxIteration      \* bound: no scan of a Purl that has this iteration already

Workers == Syncers \cup Scanners
Tasks == Workers
Xrefs == {FromSnykRef(r) : r \in SnykRefs}

ASSUME RolesAssumption == Syncers \cap Scanners = {}
ASSUME SnykRefsAssumption == SnykRefs \subseteq SnykRef
ASSUME ParallelAssumption == Parallel \subseteq SUBSET Workers
ASSUME BoundsAssumption == MaxDocuments \in Nat /\ MaxIteration \in Nat \ {0}

VARIABLES
  packages, purls, dependencies, unsupported,   \* the collections
  phase,    \* where each worker is in its current upsert
  job,      \* the entity it passed to the upsert
  found     \* what the upsert's query returned to it

collections == <<packages, purls, dependencies, unsupported>>
vars == <<collections, phase, job, found>>

------------------------------------------------------------------------------
(* The entities.  Names, versions and the CycloneDX detail are left out.  A set of
   vulnerabilities that is empty stands for None. *)

TaskRef == [task : Tasks, iteration : 0..MaxIteration]

PurlDoc == [purl : Purls,
            taskRefs : SUBSET TaskRef,
            xrefs : SUBSET Xrefs,
            vulnerabilities : SUBSET Vulnerabilities]

PackageDoc == [purl : Purls, xrefs : SUBSET Xrefs]

\* A stored Dependency has its Package URL inside `cdx` and nowhere else.
DependencyDoc == [packageRef : Purls, cdx : [purl : Purls], xrefs : SUBSET Xrefs]

\* Field names as serde writes them (camelCase).
UnsupportedDoc == [externalId : ExternalIds, xrefs : SUBSET Xrefs]

Ids == Nat

Job == [kind : {"package"}, id : Ids, doc : PackageDoc]
  \cup [kind : {"purl"}, id : Ids, doc : PurlDoc]
  \cup [kind : {"dependency"}, id : Ids, doc : DependencyDoc]
  \cup [kind : {"unsupported"}, id : Ids, doc : UnsupportedDoc]

NoJob == [kind |-> "none"]

------------------------------------------------------------------------------
(* The calls.  What the two tasks pass to the upserts. *)

Init ==
  /\ packages = <<>> /\ purls = <<>> /\ dependencies = <<>> /\ unsupported = <<>>
  /\ phase = [w \in Workers |-> "idle"]
  /\ job = [w \in Workers |-> NoJob]
  /\ found = [w \in Workers |-> {}]

Busy(w) == phase[w] \notin {"idle", "dead"}

\* Which workers may be inside an upsert together is the deployment's choice:
\* nothing in the code keeps two commands apart.
MayEnter(w) == \A v \in Workers \ {w} : Busy(v) => {v, w} \in Parallel

Documented == Len(packages) + Len(purls) + Len(dependencies) + Len(unsupported)

\* commit_target: the package of the Sbom and its Purl, each dependency and its Purl;
\* process_target: a project that has no SBOM support.
PackageJob(p, x) ==
  [kind |-> "package", id |-> NoId, doc |-> [purl |-> p, xrefs |-> {x}]]

PurlJob(p, w, n, x) ==
  [kind |-> "purl", id |-> NoId, doc |-> FromComponent(p, w, n, x)]

DependencyJob(r, p, x) ==
  [kind |-> "dependency", id |-> NoId,
   doc |-> [packageRef |-> r, cdx |-> [purl |-> p], xrefs |-> {x}]]

\* Mutant of UnsupportedJob: the entity is built with the field name the query uses.
UnsupportedJobSnakeCase(e, x) ==
  [kind |-> "unsupported", id |-> NoId, doc |-> [external_id |-> e, xrefs |-> {x}]]

UnsupportedJob(e, x) ==
  [kind |-> "unsupported", id |-> NoId, doc |-> [externalId |-> e, xrefs |-> {x}]]

\* VulnerabilityScanTask::process_target: a Purl as list() returned it, with the new
\* findings merged in and the scan's reference appended.  It still carries its id.
RescanJob(w, i, doc, findings) ==
  [kind |-> "purl", id |-> i,
   doc |-> InitScan([doc EXCEPT !.vulnerabilities = AddVulnerabilities(@, findings)], w)]

Enter(w, j) ==
  /\ phase[w] = "idle"
  /\ MayEnter(w)
  /\ phase' = [phase EXCEPT ![w] = "called"]
  /\ job' = [job EXCEPT ![w] = j]
  /\ UNCHANGED <<collections, found>>

\* A Package's own Purl is never empty (from_raw_cdx checks it), a dependency's may be.
SyncCall(w) ==
  /\ w \in Syncers
  /\ Documented < MaxDocuments
  /\ \E p \in Purls, x \in Xrefs :
       \/ p # EmptyPurl /\ Enter(w, PackageJob(p, x))
       \/ p # EmptyPurl /\ Enter(w, PurlJob(p, w, 1, x))
       \/ Enter(w, PurlJob(p, w, 0, x))
       \/ \E r \in Purls \ {EmptyPurl} : Enter(w, DependencyJob(r, p, x))
       \/ \E e \in ExternalIds : Enter(w, UnsupportedJob(e, x))

\* One scan lists every Purl once, so it refers to a Purl at most once.
ScanCall(w) ==
  /\ w \in Scanners
  /\ \E i \in DOMAIN purls, findings \in (SUBSET Vulnerabilities) \ {{}} :
       /\ \A r \in purls[i].taskRefs : r.task # w
       /\ NextIteration(purls[i].taskRefs) \in 0..MaxIteration
       /\ Enter(w, RescanJob(w, i, purls[i], findings))

------------------------------------------------------------------------------
(* The upserts. *)

PackageFilter(doc) == [purl |-> doc.purl]

\* Mutant of PurlFilter: the key is not a field of the stored documents.
PurlFilterByUrl(doc) == [packageUrl |-> doc.purl]
PurlFilter(doc) == [purl |-> doc.purl]

DependencyFilter(doc) == [purl |-> doc.cdx.purl, packageRef |-> doc.packageRef]
UnsupportedFilter(doc) == [external_id |-> doc.externalId]

\* The query each upsert begins with.  The one for Unsupported is typed Vec<Purl> and
\* so goes to the Purl collection.
Existing(j) ==
  CASE j.kind = "package"     -> Documents(packages, PackageFilter(j.doc))
    [] j.kind = "purl"        -> Documents(purls, PurlFilter(j.doc))
    [] j.kind = "dependency"  -> Documents(dependencies, DependencyFilter(j.doc))
    [] j.kind = "unsupported" -> Documents(purls, UnsupportedFilter(j.doc))

Return(w, outcome) == phase' = [phase EXCEPT ![w] = outcome]

\* upsert_purl refuses an empty Package URL before it queries anything.
Invalid(j) == j.kind = "purl" /\ j.doc.purl = EmptyPurl

RefuseInvalid(w) ==
  /\ phase[w] = "called"
  /\ Invalid(job[w])
  /\ Return(w, "failed")
  /\ UNCHANGED <<collections, job, found>>

Lookup(w) ==
  /\ phase[w] = "called"
  /\ ~Invalid(job[w])
  /\ found' = [found EXCEPT ![w] = Existing(job[w])]
  /\ Return(w, "found")
  /\ UNCHANGED <<collections, job>>

\* Mutant of Duplicate: the guard is dropped and the first match is taken.
NeverDuplicate(hits) == FALSE

\* "If more than one exists, this is a data consistency error."
Duplicate(hits) == \E a, b \in hits : a # b

Refused(w) ==
  \/ Duplicate(found[w])
  \/ found[w] = {} /\ ~InsertAccepts(job[w].id)

RefuseSave(w) ==
  /\ phase[w] = "found"
  /\ Refused(w)
  /\ Return(w, "failed")
  /\ UNCHANGED <<collections, job, found>>

TheOne(hits) == CHOOSE e \in hits : TRUE

\* A collection after the write of an upsert of `new` that had read `hits`.
Upserted(coll, hits, new, merged) ==
  IF hits = {} THEN Insert(coll, new) ELSE Update(coll, TheOne(hits).id, merged)

UpsertPackage(w) ==
  /\ job[w].kind = "package"
  /\ packages' = Upserted(packages, found[w], job[w].doc,
                          MergeXrefs(job[w].doc, TheOne(found[w]).doc))
  /\ UNCHANGED <<purls, dependencies, unsupported>>

UpsertPurl(w) ==
  /\ job[w].kind = "purl"
  /\ purls' = Upserted(purls, found[w], job[w].doc,
                       MergePurl(job[w].doc, TheOne(found[w]).doc))
  /\ UNCHANGED <<packages, dependencies, unsupported>>

UpsertDependency(w) ==
  /\ job[w].kind = "dependency"
  /\ dependencies' = Upserted(dependencies, found[w], job[w].doc,
                              MergeXrefs(job[w].doc, TheOne(found[w]).doc))
  /\ UNCHANGED <<packages, purls, unsupported>>

UpsertUnsupported(w) ==
  /\ job[w].kind = "unsupported"
  /\ unsupported' = Upserted(unsupported, found[w], job[w].doc,
                             MergeXrefs(job[w].doc, TheOne(found[w]).doc))
  /\ UNCHANGED <<packages, purls, dependencies>>

\* The write reaches the server.  Its reply may be lost: retryWrites is off, so the
\* driver reports an error for a write that was applied.
Save(w) ==
  /\ phase[w] = "found"
  /\ ~Refused(w)
  /\ \/ UpsertPackage(w)
     \/ UpsertPurl(w)
     \/ UpsertDependency(w)
     \/ UpsertUnsupported(w)
  /\ \/ Return(w, "ok")
     \/ Return(w, "failed")
  /\ UNCHANGED <<job, found>>

\* The query or the write fails without effect.
StoreError(w) ==
  /\ phase[w] \in {"called", "found"}
  /\ Return(w, "failed")
  /\ UNCHANGED <<collections, job, found>>

\* The caller takes the result and goes on.
Leave(w) ==
  /\ phase[w] \in {"ok", "failed"}
  /\ Return(w, "idle")
  /\ job' = [job EXCEPT ![w] = NoJob]
  /\ found' = [found EXCEPT ![w] = {}]
  /\ UNCHANGED collections

\* The process dies.  Nothing restarts a run: the next command is another worker.
Crash(w) ==
  /\ phase[w] # "dead"
  /\ Return(w, "dead")
  /\ job' = [job EXCEPT ![w] = NoJob]
  /\ found' = [found EXCEPT ![w] = {}]
  /\ UNCHANGED collections

Step(w) ==
  \/ SyncCall(w) \/ ScanCall(w)
  \/ RefuseInvalid(w) \/ Lookup(w) \/ RefuseSave(w) \/ Save(w) \/ StoreError(w)
  \/ Leave(w) \/ Crash(w)

Next == \E w \in Workers : Step(w)

Spec == Init /\ [][Next]_vars

------------------------------------------------------------------------------
(* Properties. *)

\* Every collection holds entities of its own type only, and a worker inside an
\* upsert carries an entity and the documents it read.
TypeOK ==
  /\ packages \in Seq(PackageDoc)
  /\ purls \in Seq(PurlDoc)
  /\ dependencies \in Seq(DependencyDoc)
  /\ unsupported \in Seq(UnsupportedDoc)
  /\ phase \in [Workers -> {"idle", "called", "found", "ok", "failed", "dead"}]
  /\ job \in [Workers -> Job \cup {NoJob}]
  /\ found \in [Workers -> SUBSET [id : Ids, doc : PackageDoc \cup PurlDoc \cup DependencyDoc]]
  /\ \A w \in Workers : phase[w] \in {"called", "found"} => job[w] # NoJob

UniquePurls(coll) == \A i, j \in DOMAIN coll : coll[i].purl = coll[j].purl => i = j

\* No two documents of Purl, nor of Package, share a Package URL: the state every
\* upsert calls a data consistency error is not reached.
UniqueDocuments == UniquePurls(purls) /\ UniquePurls(packages)

\* A Purl refers to a task at most once, although init_scan appends unchecked.
OneRefPerTask ==
  \A i \in DOMAIN purls : \A r, s \in purls[i].taskRefs : r.task = s.task => r = s

\* What the Purl collection as a whole knows of a Package URL.
PurlIds(p) == {i \in DOMAIN purls : purls[i].purl = p}

LedgerOf(p) ==
  [tasks |-> UNION {{r.task : r \in purls[i].taskRefs} : i \in PurlIds(p)},
   xrefs |-> UNION {purls[i].xrefs : i \in PurlIds(p)},
   vulnerabilities |-> UNION {purls[i].vulnerabilities : i \in PurlIds(p)}]

Ledger == INSTANCE PurlLedger WITH ledger <- [p \in Purls |-> LedgerOf(p)]

\* The upserts implement the ledger: nothing recorded about a Package URL is ever
\* lost by a later upsert of it.
ImplementsLedger == Ledger!Spec

\* Once two documents share a Package URL and the upserts that had read the collection
\* before that have drained, what Harbor knows of that Package URL is frozen: every
\* later upsert is refused and nothing in the code repairs the collection.
InFlight(p) ==
  \E w \in Workers : /\ phase[w] = "found" /\ ~Refused(w)
                     /\ job[w].kind = "purl" /\ job[w].doc.purl = p

Frozen(p) == (\E i, j \in PurlIds(p) : i # j) /\ ~InFlight(p)

FrozenDuplicates ==
  [][\A p \in Purls : Frozen(p) => Frozen(p)' /\ LedgerOf(p)' = LedgerOf(p)]_vars

------------------------------------------------------------------------------
(* A statement of the source that the code does not keep. *)

\* packages/service.rs:108, a second document with the key of an upsert is a data
\* consistency error: the upserts of Dependency would never create one.
UniqueDependencies ==
  \A i, j \in DOMAIN dependencies :
    /\ dependencies[i].cdx.purl = dependencies[j].cdx.purl
    /\ dependencies[i].packageRef = dependencies[j].packageRef
    => i = j
==============================================================================
