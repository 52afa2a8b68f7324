# SBOM Harbor, verified

TLA+ specifications of SBOM Harbor, the TLC runs that check them on small
instances, and TLAPS proofs of what matters most for every instance. Paths below
are relative to the repository.

Harbor collects the SBOMs of an enterprise's projects and the vulnerabilities of
the packages they name. Two commands do the work. `harbor-cli sbom -p snyk`
(a *sync*) asks Snyk for every project's SBOM; `harbor-cli enrich -p snyk`
(a *scan*) asks Snyk for the vulnerabilities of every Package URL the syncs have
found. Each run of a command is a process of its own. An HTTP API keeps the Teams of the
enterprise, and a migration puts the default authorization data in the store. The
processes share a document store (MongoDB or DocumentDB) and a file storage (S3, or a
directory in debug mode) and nothing else: no transactions, no unique indexes, no locks,
no retries (`core/src/config.rs` sets `retryWrites=false` for a deployment; the API and the
debug mode connect without it), and nothing that keeps two runs apart. Everything hard about the system follows from that.

## The parts of the system

| Component | State | Operations | Model |
|---|---|---|---|
| Document store: `platform/src/mongodb/{store,service}.rs` | collections of documents | find, list, query, insert, update, update_ad_hoc, delete | `DocumentStore` (query, insert, update), `TeamApi` (find, list, delete) |
| PackageService: `core/src/services/packages/service.rs` | Package, Purl, Dependency, Unsupported collections | four upserts | `PackageService`, implements `PurlLedger` |
| Package entities: `core/src/entities/packages` | task references, cross references, vulnerabilities of a Purl | merges, `init_scan` | `PurlEntity`, `SnykFindings` (the lists) |
| Cross references: `core/src/entities/xrefs`, `SnykRef` | none | comparison, append | `CrossReference` |
| TaskProvider: `core/src/services/tasks/mod.rs`, `entities/tasks/task.rs` | Task collection, the Task in memory | execute, init, run, complete | `TaskProvider`, implements `TaskRecord` |
| SBOM sync: `core/src/services/sboms` | Sbom collection, SBOM files | process_target, commit_target, write_to_storage, set_instance_by_purl | `SbomSync`, implements `SbomArchive` |
| Vulnerability scan: `core/src/services/enrichments/vulnerabilities` | findings files, Purl collection | run, process_target, store_by_purl | `VulnScan` |
| Snyk service and adapters: `core/src/services/snyk` | none | orgs, projects, sbom_raw, vulnerabilities | `SnykProjects`, `SnykIssues` |
| Snyk client, HTTP client: `.../snyk/client`, `platform/src/hyper` | none | orgs, projects, get_issues, sbom_raw; raw, request | `SnykClient`, `HttpClient` |
| CycloneDX: `core/src/entities/cyclonedx` | none | parse, and what is taken from an SBOM | `CycloneDx` |
| Findings of a Purl, across scans | its list of vulnerabilities | list, ask, merge, save | `SnykFindings`, implements `FindingsBook` |
| Team API: `api/src/controllers/team.rs` | Team collection | get, list, post, put, delete | `TeamApi`, implements `TeamRegister` |
| Migration: `platform/src/mongodb/auth/init_default_auth.rs` | seven authorization documents, the log | apply | `DefaultAuth` |
| Authorizer: `platform/src/mongodb/auth/authorization.rs` | groups, roles and policies in the store; what an assertion has read | assert | `Authorizer` |
| Authenticator, pilot, client, configuration | | | not modelled (last section) |

How they interact. The command line builds a Task and a provider (sync or scan) and
calls `execute`, the transaction script of TaskProvider: insert the Task as Started,
`run`, write the outcome into the Task. `run` fetches targets (projects from Snyk, or
every Purl of the store) and processes them one by one, collecting the error of each
that fails. A sync's `process_target` fetches and parses the SBOM, reads the latest
instance of its Package URL, writes the file of the next one, inserts the Sbom
document, and upserts the Package, its Purl, and each dependency and its Purl. A
scan's `process_target` merges Snyk's findings into the Purl *as it was listed*,
appends a reference to the Task, writes a findings file named by the reference's
iteration, and upserts the Purl.

What is hard about it:

* **Interleaving.** An upsert reads, decides, and writes the whole document. Between
  the read and the write another process can insert the same key (duplicates) or
  change the document (lost updates). The same holds for the instance of an Sbom.
* **Stale state.** A scan works on a list that is as old as the scan.
* **Crashes.** A process can die anywhere: between the file and the document, between
  the document and its Package, before the Task is completed.
* **Partial failure and lost replies.** commit_target keeps errors and goes on; a write
  may be applied although the caller is told it failed; a file may be left truncated.
* **Repetition.** Every sync does everything again; an upsert must find what the last
  one left. Two of the four do not.
* **Replies.** Snyk answers with errors, nothing, broken bodies or lists with one bad item;
  each must be told from an answer, at five layers one above the other.
* **Handlers.** The API's handlers interleave at every await, and one whose client goes
  away is dropped where it waits.
* **Numbers.** Instances, iterations, the error total.

And what makes each component correct:

* PackageService: one document per key; no fact about a Package URL is lost; a Purl
  refers to a task once.
* TaskProvider: a Task is on record before anything runs, settles, settles truthfully
  and never changes afterwards.
* SbomSync: instances of a Package URL are 1, 2, 3, ...; a committed document keeps the
  file it was computed from; Complete means committed.
* VulnScan: a scan on record has its findings file, and the latest file says what the
  Purl says.
* SnykFindings: what is on record was in a real answer; by identity the report of a scan
  that ends well is on record when it ends, and a finding is lost only to an upsert that
  had asked before it was on record.
* TeamApi: requests for one Team are atomic; it is deleted once and never comes back; a
  listing misses nothing that was there all the time.
* DefaultAuth: an interrupted migration is completed by the next one, not repeated; what
  overlapping ones broke is found out.
* Authorizer: an answer is one that was right at some moment of the assertion. This is so
  for users with one role; what becomes of the others is under "Also seen".

## The modules

`DocumentStore` is the vocabulary of the store: a collection is the sequence of its
documents and a document's position is its id (nothing is deleted from the collections
the commands write). One operator is one atomic step of the server. `Update` overwrites
every field: `skip_serializing_none` stands below `derive(Serialize)` in the entities
and has no effect there, so also None is written.

`CrossReference` has the references to Snyk projects and `Xref::eq`, which compares the
kind and the entries of one of the two maps only. Names are entries like ids, so a
project that is renamed in Snyk is another reference.

`PurlEntity` has the merges as set operations. Findings are identified by
(cve, provider), as `Purl::vulnerabilities` compares them. What the lists of the code add
to that (whole findings, their order, and those without a CVE) is the subject of
`SnykFindings`.

`PackageService` has the four upserts. A worker is one run of one command, hence one
Task. It is in phase `idle`, `called` (the entity is passed), `found` (the query has
answered), then `ok` or `failed`; `dead` from anywhere. The actions:

| Action | Code |
|---|---|
| `SyncCall`, `ScanCall` | the calls of `commit_target` and of the scan's `process_target`, in any order |
| `RefuseInvalid` | the early return of `upsert_purl` |
| `Lookup` | the query; `UnsupportedFilter` and `Existing` follow the field name and the collection the code really uses |
| `RefuseSave` | more than one match, or an insert of an entity that has an id |
| `Save` | insert, or merge into what was *read* and $set; the reply may be lost |
| `StoreError`, `Crash`, `Leave` | a call fails without effect; the process dies; the caller goes on |

Its constant `Parallel` says which pairs of workers may be inside an upsert together.
The code keeps nobody apart, so this is a fact about a deployment: `Alone`, `OneSync`
and `Anything` in `MCPackageService` are the three of interest.

`PurlLedger` is what the collections promise, without documents, ids or processes:
for each Package URL a growing set of tasks, cross references and vulnerabilities.

`TaskProvider` is `execute`, with an execution's `pc` for where it is, its Task in
memory (`task`) and on record (`records`). `TargetDone` is one turn of the loop and is
what the providers refine. `TaskRecord` is what the Task collection promises to its
readers and what the command is told.

`HttpClient` says what a reply amounts to: no connection, a body that breaks off, or a
status and a body. An Option is a set of at most one element, a Result a record, and
serde is membership in the set of values of a type: a record set names the fields the
program reads and those whose lack or value makes serde refuse the *whole* document.

`SnykClient` EXTENDS it with the types of Snyk's answers and the four calls;
`CycloneDx` with the type `Bom` and what Harbor takes from one (`FromRawCdx`);
`SnykIssues` with the adapter from a native issue to a Vulnerability.

`SnykProjects` says which projects a sync is given: those of the organizations whose call
did not fail, over the replies Snyk may give, and what a project is taken for (inactive,
unsupported, to be synced).

`SbomSync` EXTENDS TaskProvider, SnykProjects and CycloneDx and refines `TargetDone` into the calls of
process_target and commit_target, `step` saying where an execution is between them; an
upsert is one step that succeeds, fails, or fails having been applied. Overlap says
whether a sync may start while another runs. `SbomArchive` is the abstract
specification: for each Package URL the sequence of SBOMs committed.

`VulnScan` EXTENDS TaskProvider likewise. Here the upsert of the Purl is two steps
again (`Lookup`, `Save`), because the scan's file, its stale list and the stored Purl are
what its properties relate. Syncs appear as the upserts they make, a query and a write
like a scan's (`SyncLookup`, `SyncSave`); two that overlap give a scan a list with one
Package URL twice. SyncIterations are the iterations of their references: 1 for the Purl
of a package, 0 for that of a dependency. Overlap says whether upserts of syncs and
scans may go on at the same time.

`SnykFindings` is the part of a scan between its listing and its upsert, for one Purl,
with everything the abstraction to identities leaves out: the replies of Snyk, the
five layers that read them, and lists of whole findings. A scan `List`s, `Ask`s, and finds
nothing (`NothingFound`) or goes on to its upsert. The upserts of scans and of syncs are
two steps, the query (`Lookup`) and, with what it has answered in hand (`existing`), the
$set of the whole document (`Save`), and they overlap as they like; a call may fail before
them (`Abandon`). `FindingsBook` is the abstract specification, for any overlap: a set of
identities that scans and syncs write anew, in which a scan that ends well has its report
when it ends. A write may drop what came in after the writer had begun, and nothing else;
with nobody writing everything is safe. So a second $set does drop what the first has added
between its query and it, in the book as in the code, and nothing is lost while upserts
take turns. `SafeFindingsStay` says the same of a single step. This is what justifies the
sets of `PurlEntity`.

`TeamApi` has a request's handler as the steps between its awaits: the find and the $set
of a PUT are two, a listing is one step for each document of the cursor. The Team
collection is a partial function from ids, because it is the one documents are deleted
from. `TeamRegister` promises atomic requests: a PUT whose Team is deleted between its
two steps is one that came just before the DELETE (`overtaken`).

`DefaultAuth` has an application of the migration as the find and the insert of each of
the seven `ensure_*` functions, then the log entry; `overlapped` and `clean` are history
variables.

`Authorizer` is `assert` as its three queries: `ReadGroups`, `ReadRoles`, `ReadPolicies`, of
which the last one decides, and `Fail` for any of them. `RoleFilters` is the map that
`roles_by_user_groups` makes of the role ids, all under one key: the id that is left is the
last one of the last group that has any, and the groups come in the order of an unsorted
find, so any of these groups may be the last. For a user without groups the map is empty and
the query finds every role. Between two queries `InsertPolicy`, `UpdateRole` and
`UpdateGroup` write the collections one document at a time. The program itself neither
calls `assert` nor writes them after the migration; the tests' AuthScenario does both, and
its writes are the model's: a policy is inserted before its role names it, and nothing is
deleted before the scenario is torn down. `right`, `member` and `kept` are history
variables: which answers were right at some moment of the assertion, judged by all roles
of the user, and whether he stayed in the groups he was in.

`*Proofs` modules hold the theorems about the module they are named for.

`MC*` modules instantiate them; a mutant is a definition beside the one it mutates,
named in `PROJECT.json`, and breaks the property it is listed for.

## The runs

All bounds are constants of the cfg. `CHECK_DEADLOCK FALSE` everywhere: commands end.

| Run | Checks | Shows |
|---|---|---|
| PackageService_alone | TypeOK, UniqueDocuments, ImplementsLedger | two syncs, a scan, one upsert at a time, the empty Package URL, unsupported projects, a project renamed in between: types, no duplicate, and no fact is lost |
| PackageService_overlap | OneRefPerTask, FrozenDuplicates | three syncs and a scan freely overlapping |
| SbomSync_alone | SyncTypeOK, CompleteIsCommitted, InstancesInOrder, FilesMatchChecksums, ImplementsArchive | two syncs in sequence; three organizations, one without an id; two projects of one package and one nothing is known of; every kind of reply, SBOMs that are no SBOM, have no or an empty Package URL; debug storage with truncated files |
| SbomSync_overlap | SbomsHaveFiles, CompleteIsCommitted, StartedSettles | what is left when syncs overlap and file names collide; a sync's Task settles |
| VulnScan_alone | ScanTypeOK, LatestScanOnFile, FilesOnRecordKept | two scans in sequence with syncs in between |
| VulnScan_overlap | TypeOK, StatusTruthful, RecordedBeforeRun, RecordedScansHaveFiles, ImplementsTaskRecord, StartedSettles | a scan and two syncs overlapping at every call, over lists with one target, two, and two equal keys; its Task is on record first, settles, and settles truthfully |
| SnykFindings_overlap | TypeOK, RecordedWasAnswered, FirstReadingKept, SafeFindingsStay, ImplementsFindingsBook | two scans of a Purl and two syncs, overlapping between query and $set; fifteen kinds of reply |
| TeamApi_concurrent | TypeOK, DeletedOnce, ListingTruthful, ImplementsRegister | three concurrent requests of any kind over any stored Teams |
| DefaultAuth_apply | TypeOK, UniqueDefaults, NeverRefused, AppliedIsLinked, DuplicatesFoundOut | three applications, two of them at a time |
| Authorizer_assert | TypeOK, AnswerWasRight | one assertion of a user while groups, roles and policies are written; two policies beside the default ones |

Runs that end in a counterexample, each against a sentence of the repository (the
findings of `PROJECT.json` quote it):

| Run | Counterexample |
|---|---|
| PackageService_dependency | the lookup of a dependency never matches: a second sync inserts it again |
| SbomSync_orgs | a sync ends Complete without the projects of an organization whose list could not be fetched |

Also seen while modelling, plain enough to need no run:

* Two syncs that overlap both find no document for a Package URL and both insert one; from
  then on it is frozen (FrozenDuplicates). Two that overlap in `set_instance_by_purl` commit
  one instance twice. A sync that has read a Purl before a scan saves it writes it back
  without the scan's findings, and so does a second scan. The runs `_alone` and the assumptions of the theorems say
  what holds when this cannot happen, the runs `_overlap` what holds nevertheless.
* `upsert_unsupported_by_external_id` types its query `Vec<Purl>` and names `external_id`
  where documents have `externalId` (`packages/service.rs:203`): every sync inserts every
  unsupported project again.
* A sync refers to a Purl with the constant iterations 0 and 1 (`sboms/snyk/provider.rs:237`,
  `:274`) though `tasks/task.rs:105` calls the iteration a "Forward-only incrementing counter".
* `Sbom::from_raw_cdx` keeps the dependency refs exactly when there are none (`sbom.rs:133`).
* `commit_target` goes on when the insert of the Sbom failed, so a Package can be on
  record without one (`sboms/snyk/provider.rs:213`).
* `complete` takes the error total over an Option, so it is at most 1 (`tasks/mod.rs:77`), though
  `entities/tasks/task.rs:45` says "The total count of errors encountered during the [Task]."
* File names drop the characters in which two Package URLs may differ (`purl.rs:53`).
* `roles_by_user_groups` puts every role id of a user into a map under the one key "id"
  (`authorization.rs:75`), so one role is looked up, whichever comes last in an unsorted
  find. A user who is an administrator and disabled may be judged by the administrator's
  role and allowed, though `init_default_auth.rs:174` says "This can even be applied to
  admins"; the tests for it (`platform/tests/mongodb.rs:113`, `:127`) are not implemented.
* A user without groups is judged by all the roles there are (`authorization.rs:71-79`).
* An organization without an id gets the id "org id not set" (`adapters.rs:46`), which makes an
  invalid URL: its projects are skipped like those of one that cannot be fetched.
* Projects and issues come in pages, and only the first is read: `links.next` has no reader.
* `IssuesResponse` takes any JSON object, so a 200 with an object of errors reads as no issues.
* One severity without a score costs an issue all its scores, one coordinate without a list
  of remedies all its advice (`adapters.rs:239`, `:288`).
* Findings without a CVE are all kept by the first scan of a Purl and are one in every later
  merge (`purl.rs:133`).
* A project renamed in Snyk leaves its old cross reference beside the new one for good.
* `explicitly_allowed` compares for equality, so the policy for any action, "Allow Any" of
  `init_default_auth.rs:85`, allows the action Any and not Create or Read.

Why the bounds are enough. A race needs two workers inside an operation and a third
to see the result: three workers or more, requests, or scans and syncs, where they overlap
freely. VulnScan_overlap has a single scan, because the two syncs next to it make the races
its Task and its files are exposed to; for any number of scans the theorems say the same,
liveness apart. Duplicates
need two documents of one key; merges need a document, a reader and a second writer.
MaxDocuments bounds the documents from which an insert is started (workers already inside
may still add theirs), MaxIteration the iterations of a Purl's references, MaxPurls the
Purl documents of VulnScan, MaxTeams the ids given out (two: a request concerns one Team,
or lists them), MaxAtOnce the applications of the migration at one time (two: the third
comes after them, which is what "found out" is about; the theorems hold for any bound). In
the sequential runs two executions are enough for "a run that failed or died, and the
next one". Package URLs only interact through file names, so one or two are enough; of
the components of an SBOM one, one without a Package URL and one with an empty one. The
replies of Snyk are one for every way in which the layers can tell them apart
(`Refusals`, `Unusable`, `AnyReply`), the issues one for every branch of the adapter. An assertion
is disturbed by administrators only, so one request of one user is enough for the Authorizer;
MaxPolicies leaves room for two policies that are written while it is under way. A call whose reply is lost has taken effect by the time the error is returned, or never.

Fairness. The liveness runs assume weak fairness of each execution's work and nothing
about crashes, about which outcome a call has, or about syncs next to a scan. It stands
for: every call returns. The store's driver times out, files are local or S3's client's
business, and the Snyk API is taken to answer or to close the connection (the HTTP client
of `platform/src/hyper` has no timeout of its own, so this one is an assumption).
StartedSettles then says the loop terminates with every mixture of outcomes, and allows
for exactly two ways in which a Task stays Started: the process died, or its command was
told that the Task could not be written.

## What is proved

All proofs are checked by TLAPS for every value of the constants under the named
assumptions of the modules (roles of workers are disjoint, bounds are naturals, target
lists are not empty, and the like).

| Module | Theorem | Assumption | Statement |
|---|---|---|---|
| PackageServiceProofs | TypeCorrect | | Spec => []TypeOK |
| PackageServiceProofs | UniqueIfSyncsApart | SyncsApart | Spec => []UniqueDocuments |
| PackageServiceProofs | OneReferencePerTask, DuplicatesFreeze | | Spec => []OneRefPerTask, Spec => FrozenDuplicates |
| PackageServiceProofs | LedgerImplemented | Alone | Spec => ImplementsLedger |
| TaskProviderProofs | TaskTypeCorrect, TaskTruthful, TaskRecordedBeforeRun | | the three invariants |
| TaskProviderProofs | TaskRecordImplemented | | Spec => ImplementsTaskRecord |
| SbomSyncProofs | SyncIsTask, SyncTruthful | | SyncSpec => Spec, SyncSpec => []StatusTruthful |
| SbomSyncProofs | SyncTypeCorrect, DocumentsHaveFiles, CompleteMeansCommitted | | SyncSpec => []SyncTypeOK, []SbomsHaveFiles, []CompleteIsCommitted |
| SbomSyncProofs | OneAfterTheOther | ~Overlap | SyncSpec => []InstancesInOrder |
| SbomSyncProofs | FilesKept, SyncImplementsArchive | ~Overlap, NamesApart | SyncSpec => []FilesMatchChecksums, SyncSpec => ImplementsArchive |
| VulnScanProofs | ScanIsTask, ScanTruthful | | ScanSpec => Spec, ScanSpec => []StatusTruthful |
| VulnScanProofs | ScanTypeCorrect, ScansOnFile | | ScanSpec => []ScanTypeOK, []RecordedScansHaveFiles |
| VulnScanProofs | LatestOnFile, RecordedFilesKept | ~Overlap, NamesApart | ScanSpec => []LatestScanOnFile, ScanSpec => FilesOnRecordKept |
| SnykFindingsProofs | FindingsTypeCorrect, RecordedAnswered | | Spec => []TypeOK, []RecordedWasAnswered |
| SnykFindingsProofs | FirstReadingStays, SafeFindingsKept | | Spec => FirstReadingKept, Spec => SafeFindingsStay |
| SnykFindingsProofs | BookImplemented | | Spec => ImplementsFindingsBook |
| TeamApiProofs | TeamTypeCorrect, TeamDeletedOnce, ListingsTruthful | | Spec => []TypeOK, []DeletedOnce, ListingTruthful |
| TeamApiProofs | TeamRegisterImplemented | | Spec => ImplementsRegister |
| DefaultAuthProofs | DefaultsUnique, MigrationNeverRefused, AppliedLinked, DuplicatesFound | | the four invariants |
| DefaultAuthProofs | DefaultAuthTypes | | Spec => []TypeOK |
| AuthorizerProofs | AuthorizerTypes, AnsweredRight | | Spec => []TypeOK, Spec => []AnswerWasRight |

The assumptions. SyncsApart, Alone and ~Overlap say that a deployment keeps runs of the
commands apart, which the code does not do; the theorems without them are what holds
all the same. NamesApart says that `format_file_name` tells the Package URLs of a
deployment apart. It does not do so in general (`purl.rs:53` drops the characters in
which two may differ), and then a later document overwrites the file of an earlier one of
the same number; what is left is DocumentsHaveFiles, and the run SbomSync_overlap has
all names equal. The runs `_alone` are instances of all these assumptions.

*UniqueIfSyncsApart.* UniqueDocuments is not inductive: a step from a state in which a
worker has read "none" while another has just inserted the key would break it. The
strengthening says of every worker in phase `found` that what it has read is, up to the
contents of the documents, what a query would return now, whenever it is about to insert. The
assumption SyncsApart (no two syncs are inside an upsert together) enters in one place:
only a sync inserts, because a scan's entity carries an id, so nobody else can insert
between a sync's read and its write. Without the assumption two syncs insert one key.

*LedgerImplemented.* With upserts one at a time, what a worker has read is what is stored,
document for document; so the merge is a union with the stored document, every other
document is untouched, and the step is a step of the ledger. The one fact it takes from
the data is SnykEq: between references to Snyk projects `Xref::eq`, which is no equality
in general, is equality.

*OneReferencePerTask.* A stored Purl refers to a task once because the two lists that a merge
unites each do, and the merge leaves out of the old one whatever the new one refers to. So
the invariant says it also of what the workers carry and of what their queries returned,
however old that is.

*DuplicatesFreeze.* Of two documents of one Package URL neither is ever deleted or
renamed, so a query that comes later finds at least two and the upsert is refused; the
only writes left are those of the workers that looked before (`InFlight`).

*TaskTruthful.* The invariant ties the Task in memory to the loop: before `completing` it is
the Task as created with the count, at `completing` its errors are the loop's, and the
loop is past the last target or was never entered.

*SyncIsTask, ScanIsTask.* Every action of a provider conjoins a step of TaskProvider or
leaves its variables alone; this gives the providers the theorems about Tasks.

*SyncTypeCorrect, DocumentsHaveFiles, CompleteMeansCommitted.* One invariant, `SyncInv`,
for any overlap. It says of every execution where it is between two targets or inside one
(the Sbom in hand is that of its target; its file exists once it is written; what is
upserted is on record), of every target it has behind it without an error that its document
and its entities are on record, and that the documents of a project are at least as
many as the executions that are done with it. The last one is the hard part: it is a
count, and overlapping syncs add to it in any order. Documents are only ever appended,
files and entities only ever added (`Grows`), so what holds of one execution survives the
steps of the others.

*OneAfterTheOther, FilesKept, SyncImplementsArchive.* `SoloInv` adds what is true when one sync
runs at a time: the instance in hand is the number of documents of its Package URL and
one. A sync that dies or fails after it was numbered leaves no document, so the next one
takes the same number again. InstancesInOrder alone is not inductive: nothing in it
says that the greatest instance on record, which the code asks for, is the number of
documents (`NoneSkipped`). From there the name a sync is about to write is the name of
no document (`NewName`), which is all that FilesMatchChecksums and the refinement
need; a step of a sync is an append to the archive or a stutter.

*ScanTypeCorrect, ScansOnFile.* `ScanInv` speaks of all copies of Purls somebody may still
act on (`Copies`: the collection, the lists of the scans, what their queries
returned), since a scan writes a stale copy back: every scan one of them refers to has its
file, and a scan that has not listed yet is referred to by none. A merge makes its
references out of those of two copies and the scan's own, whose file comes first.

*LatestOnFile, RecordedFilesKept.* When nothing overlaps, the Purls a scan has not
reached are as it listed them (`Undisturbed`), so the iteration it takes is larger than every
one on record, its file is new, and what it saves is what it wrote to the file.

*FindingsTypeCorrect, RecordedAnswered, FirstReadingStays.* They need to know what the loop over two lists computes for lists of every length. The lemma
MergedLists says it: the result begins with the first list and has the identities of
both. From it, what AddVulnerabilities, MergeFindings and an upsert do to lists and
identities; from a case distinction over the five layers, that a scan that goes on to
save has a list Snyk gave in a whole answer with status 200 (FoundInAnswer); and that the
adapter gives a well-formed Vulnerability for every well-typed issue (AdapterIsTotal).
The invariant is that all lists, stored or read, hold such findings.

*SafeFindingsKept.* An upsert writes, by identity, the union of what its caller brings and
what its query has found (WrittenIs). A finding that is in this union for every upsert under
way survives the save of any of them (SafeAfterWrite); one that begins reads it from the store.

*BookImplemented.* A $set writes the union of what the caller brings and what the query has
found (WrittenIs), so it keeps what is safe from this upsert and has the caller's report
in it, and what is safe from the others stays so (SafeAfterWrite). That nothing gets in
which no scan has reported needs an invariant over every list somebody may still write:
the stored one, those listed and those found (`Sourced`).

*Induction over data.* The library's induction theorems take an operator as a parameter,
which the provers here cannot instantiate. SnykFindingsProofs gets by without: the order of
the naturals is well founded, which is a statement about sets; from it follow that a set
of naturals has a least element, that a set of naturals with 0 and all successors
is Nat, and that a recursion has a function that unrolls it. The numbers for which a
statement about a recursive function holds form such a set. This is why `Merged` and
`Filtered` are recursive functions in a LET and not folds or SelectSeq, which are
opaque to the prover. No module has a RECURSIVE operator.

*TeamDeletedOnce.* An invariant ties the answer to the collection: an id whose deletion was
answered has been given out and is gone, and ids are never given out again.

*TeamRegisterImplemented.* The refinement mapping takes a PUT past its find for pending as
long as its Team exists and for effective once it does not, so that the DELETE that comes
in between is the step at which both take effect. Every other step is the register's own
or leaves it alone; the listing's history is not part of it.

*ListingsTruthful.* The invariant says of a listing under way that of the Teams it began
with, those below its cursor are listed or were there and are gone, that what it lists was there
when it began or was made since, and that an id that is gone does not come back.

*DefaultsUnique and the others.* One invariant for all four: what an application has
ensured is in the store with the reference it has to have; as long as none overlapped,
the documents are a prefix of the seven, each once, and what an application has looked up
is what is there; an application that began after a default was there twice is not past
it. Ids that are never given out twice tie the parts together.

*AnsweredRight.* The user's groups stay the same and come to one role, so the filter asks for
it, whichever group is the last, and the user is rightly judged by it. The role document an
assertion has read names policies that were there at that moment; a policy that is
inserted later is none of them (LaterPolicies), and a policy never changes. So the policies
read last decide as those of the moment at which the role was read would have, and
`right` has taken that answer down. With two roles this is false: the
filter asks for one of them, and the user is rightly judged by both.

Only model-checked: liveness (StartedSettles of the three specifications with fairness), for
TLAPS proves nothing with ENABLED; and the two runs that end in a counterexample. Every
invariant, action property and refinement of a passing run is proved.

## The plan

In this order:

1. Done: DocumentStore, PurlEntity, CrossReference, PackageService with PurlLedger;
   TaskProvider with TaskRecord; HttpClient, SnykClient, CycloneDx, SnykIssues,
   SnykProjects; SbomSync with SbomArchive; VulnScan; SnykFindings with FindingsBook;
   TeamApi with TeamRegister; DefaultAuth; Authorizer; the proofs above.
2. Done: the theorems about SbomSync, VulnScan, SnykFindings, the listings of TeamApi,
   OneRefPerTask, FrozenDuplicates, and the Authorizer; findings and scans with upserts
   that overlap between query and write.
3. `HarborPipeline`: syncs and scans together with the two-step upserts of PackageService
   in place, to relate Sbom documents, Purls and Tasks end to end.

## What is not modelled

* The authenticator, which is commented out. The deletions of AuthScenario's teardown.
* The content of a bearer token: the API is modelled from the point where it has one.
* Of the CycloneDX models (generated) and Snyk's models the fields nobody reads and serde
  does not insist on; the texts the adapters copy (names, descriptions, paths).
* The free functions of `hyper/mod.rs`, the code of the HTTP client again, used by the
  deprecated client only.
* CVSS statistics (mean, median, mode), which are never computed, configuration,
  cryptography and encodings: stateless.
* `update_ad_hoc`, `XrefService::save_xref`, references to codebases and products, S3 get,
  list and delete: no caller in the program.
* `pilot` and `client`: marked DEPRECATED in the repository.
* The other providers of the command line (file system, GitHub, DependencyTrack): `todo!()`.
