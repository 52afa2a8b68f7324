------------------------------- MODULE SbomSync -------------------------------
(***************************************************************************)
(* SbomSyncTask, the run of `harbor-cli sbom -p snyk`: for every project   *)
(* Snyk knows, fetch its SBOM, number it, write it to the file storage,    *)
(* and commit the Sbom document and the entities it names.                 *)
(*                                                                         *)
(* The steps of TaskProvider are steps of this module; the processing of   *)
(* one target is refined into the calls process_target and commit_target   *)
(* make, in their order.  An upsert of PackageService is one step here     *)
(* that succeeds or fails (PackageService has its inside).  Two syncs      *)
(* share the documents and the files and nothing keeps them apart: Overlap *)
(* says whether the deployment does.                                       *)
(***************************************************************************)
EXTENDS TaskProvider, DocumentStore, SnykProjects, CycloneDx

CONSTANTS
  Purls,            \* Package URLs, the empty string among them
  Answers,          \* Keys -> what Snyk may answer when asked for the SBOM of a project
  FormatFileName,   \* Purls -> names: what is not a letter or digit becomes "-"
  Storage,          \* "s3", or "fs" for the debug storage
  Overlap           \* whether two syncs may run at the same time

\* The texts Snyk may return for the SBOM of a project, and the SBOMs among them.
RawsOf(k) == {SbomRaw(k, reply).value : reply \in {r \in Answers[k] : SbomRaw(k, r).ok}}

Raws == UNION {RawsOf(k) : k \in Keys}

Taken ==
  [k \in Keys |-> {FromRawCdx(raw).value : raw \in {r \in RawsOf(k) : FromRawCdx(r).ok}}]

ASSUME SyncAssumption ==
  /\ \A k \in Keys : \A cdx \in Taken[k] :
       cdx.purl \in Purls /\ cdx.dependencies \in Seq(Purls)
  /\ Storage \in {"s3", "fs"} /\ Overlap \in BOOLEAN

VARIABLES
  sboms,      \* the Sbom collection
  files,      \* the file storage: name -> content, for the names in use
  entities,   \* what the upserts of PackageService have recorded
  step,       \* where each execution is in process_target
  sbom,       \* the Sbom it is working on
  dependency, \* the position of the dependency it commits next
  failed      \* whether commit_target has collected an error

syncVars == <<sboms, files, entities, step, sbom, dependency, failed>>
vars == <<taskVars, syncVars>>

\* What a write that did not finish leaves in a file.
Truncated == Text("")

NoSbom == [project |-> "none"]

SyncInit ==
  /\ Init
  /\ sboms = <<>>
  /\ files = <<>>
  /\ entities = {}
  /\ step = [e \in Executions |-> "idle"]
  /\ sbom = [e \in Executions |-> NoSbom]
  /\ dependency = [e \in Executions |-> 1]
  /\ failed = [e \in Executions |-> FALSE]

At(e, s) == Processing(e) /\ step[e] = s

\* run() begins with the projects of the organizations whose call did not fail.
Gather(e) ==
  /\ Fetch(e)
  /\ targets'[e] \in Gathered
  /\ UNCHANGED syncVars

Continue(e, s) == step' = [step EXCEPT ![e] = s] /\ UNCHANGED taskVars

\* process_target returns: run() goes on with the next project.
Finish(e, error) ==
  /\ TargetDone(e, error)
  /\ step' = [step EXCEPT ![e] = "idle"]
  /\ sbom' = [sbom EXCEPT ![e] = NoSbom]
  /\ dependency' = [dependency EXCEPT ![e] = 1]
  /\ failed' = [failed EXCEPT ![e] = FALSE]

------------------------------------------------------------------------------
(* process_target *)

SkipInactive(e) ==
  /\ At(e, "idle")
  /\ Inactive(Target(e))
  /\ Finish(e, FALSE)
  /\ UNCHANGED <<sboms, files, entities>>

Unsupported(k) == [kind |-> "unsupported", key |-> k]

\* An upsert fails with or without having recorded its entity.
RecordUnsupported(e) ==
  /\ At(e, "idle")
  /\ NotSupported(Target(e))
  /\ \/ entities' = entities \cup {Unsupported(Target(e))} /\ Finish(e, FALSE)
     \/ entities' \in {entities, entities \cup {Unsupported(Target(e))}} /\ Finish(e, TRUE)
  /\ UNCHANGED <<sboms, files>>

\* SnykService::sbom_raw fails, or Snyk answers with nothing.
RawFails(e) ==
  /\ At(e, "idle")
  /\ Supported(Target(e))
  /\ \E reply \in Answers[Target(e)] : ~SbomRaw(Target(e), reply).ok
  /\ Finish(e, TRUE)
  /\ UNCHANGED <<sboms, files, entities>>

\* The Sbom as Sbom::from_raw_cdx has made it.
NewSbom(k, raw, cdx) ==
  [project |-> k, raw |-> raw, purl |-> cdx.purl, dependencies |-> cdx.dependencies,
   instance |-> 1, checksum |-> Truncated]

RawArrives(e) ==
  /\ At(e, "idle")
  /\ Supported(Target(e))
  /\ \E reply \in Answers[Target(e)] :
       LET raw == SbomRaw(Target(e), reply)
           cdx == FromRawCdx(raw.value)
       IN  /\ raw.ok
           /\ \/ /\ cdx.ok
                 /\ sbom' = [sbom EXCEPT ![e] = NewSbom(Target(e), raw.value, cdx.value)]
                 /\ Continue(e, "parsed")
                 /\ UNCHANGED <<dependency, failed>>
              \/ ~cdx.ok /\ Finish(e, TRUE)
  /\ UNCHANGED <<sboms, files, entities>>

\* The instances of the Sboms a query by Package URL returns.
Instances(p) == {sboms[i].instance : i \in Query(sboms, [purl |-> p])}

\* Mutant of NextInstance: the first document found is taken for the latest.
NextInstanceOfFirst(p) ==
  IF Instances(p) = {} THEN 1
  ELSE 1 + CHOOSE n \in Instances(p) : \A m \in Instances(p) : n <= m

NextInstance(p) ==
  IF Instances(p) = {} THEN 1
  ELSE 1 + CHOOSE n \in Instances(p) : \A m \in Instances(p) : m <= n

\* SbomService::set_instance_by_purl.
SetInstance(e) ==
  /\ At(e, "parsed")
  /\ sbom' = [sbom EXCEPT ![e].instance = NextInstance(sbom[e].purl)]
  /\ Continue(e, "numbered")
  /\ UNCHANGED <<sboms, files, entities, dependency, failed>>

\* Mutant of FileName: the instance is left out.
FileNameByPurl(p, instance) == <<FormatFileName[p]>>

\* The name a storage provider gives the file of an Sbom.
FileName(p, instance) == <<FormatFileName[p], instance>>

NameOf(e) == FileName(sbom[e].purl, sbom[e].instance)

Stored(name, content) ==
  [n \in DOMAIN files \cup {name} |-> IF n = name THEN content ELSE files[n]]

\* Mutant of PutObject: a put that failed is taken for one that succeeded.
PutObjectUnchecked(e) ==
  /\ Storage = "s3"
  /\ At(e, "numbered")
  /\ files' \in {files, Stored(NameOf(e), sbom[e].raw)}
  /\ sbom' = [sbom EXCEPT ![e].checksum = sbom[e].raw]
  /\ Continue(e, "stored")
  /\ UNCHANGED <<sboms, entities, dependency, failed>>

\* S3StorageProvider::write computes the checksum of what it is about to put.  A put is
\* all or nothing, but its reply may be lost.
PutObject(e) ==
  /\ Storage = "s3"
  /\ At(e, "numbered")
  /\ \/ /\ files' = Stored(NameOf(e), sbom[e].raw)
        /\ sbom' = [sbom EXCEPT ![e].checksum = sbom[e].raw]
        /\ Continue(e, "stored")
        /\ UNCHANGED <<dependency, failed>>
     \/ /\ files' \in {files, Stored(NameOf(e), sbom[e].raw)}
        /\ Finish(e, TRUE)
  /\ UNCHANGED <<sboms, entities>>

\* FileSystemStorageProvider::write writes the file ...
WriteFile(e) ==
  /\ Storage = "fs"
  /\ At(e, "numbered")
  /\ \/ /\ files' = Stored(NameOf(e), sbom[e].raw)
        /\ Continue(e, "written")
        /\ UNCHANGED <<sbom, dependency, failed>>
     \/ /\ files' \in {files, Stored(NameOf(e), Truncated)}
        /\ Finish(e, TRUE)
  /\ UNCHANGED <<sboms, entities>>

\* ... and computes the checksum of what it reads back.
ReadChecksum(e) ==
  /\ At(e, "written")
  /\ sbom' = [sbom EXCEPT ![e].checksum = files[NameOf(e)]]
  /\ Continue(e, "stored")
  /\ UNCHANGED <<sboms, files, entities, dependency, failed>>

\* Mutant of TargetFails: the target is tried again.
TargetRetried(e) ==
  /\ \E s \in {"parsed", "written", "stored"} : At(e, s)
  /\ Continue(e, "parsed")
  /\ UNCHANGED <<sboms, files, entities, sbom, dependency, failed>>

\* The query, the read back or the time stamp fails: nothing is committed.
TargetFails(e) ==
  /\ \E s \in {"parsed", "written", "stored"} : At(e, s)
  /\ Finish(e, TRUE)
  /\ UNCHANGED <<sboms, files, entities>>

------------------------------------------------------------------------------
(* commit_target: an error is kept, and the next entity is committed all the same. *)

SbomDoc(e) == [purl |-> sbom[e].purl, instance |-> sbom[e].instance,
               checksum |-> sbom[e].checksum, project |-> sbom[e].project]

InsertSbom(e) ==
  /\ At(e, "stored")
  /\ \/ sboms' = Insert(sboms, SbomDoc(e)) /\ UNCHANGED failed
     \/ /\ sboms' \in {sboms, Insert(sboms, SbomDoc(e))}
        /\ failed' = [failed EXCEPT ![e] = TRUE]
  /\ Continue(e, "package")
  /\ UNCHANGED <<files, entities, sbom, dependency>>

\* Mutant of Commit: the error of an upsert is logged and not kept.
CommitForgetful(e, entity, acceptable) ==
  /\ entities' \in {entities, entities \cup IF acceptable THEN {entity} ELSE {}}
  /\ UNCHANGED failed

\* One upsert.  upsert_purl refuses an empty Package URL.
Commit(e, entity, acceptable) ==
  \/ acceptable /\ entities' = entities \cup {entity} /\ UNCHANGED failed
  \/ /\ entities' \in {entities, entities \cup IF acceptable THEN {entity} ELSE {}}
     /\ failed' = [failed EXCEPT ![e] = TRUE]

Package(p) == [kind |-> "package", key |-> p]
Purl(p) == [kind |-> "purl", key |-> p]
Dependency(r, p) == [kind |-> "dependency", key |-> <<r, p>>]

CommitPackage(e) ==
  /\ At(e, "package")
  /\ Commit(e, Package(sbom[e].purl), TRUE)
  /\ Continue(e, "purl")
  /\ UNCHANGED <<sboms, files, sbom, dependency>>

CommitPurl(e) ==
  /\ At(e, "purl")
  /\ Commit(e, Purl(sbom[e].purl), sbom[e].purl # "")
  /\ Continue(e, "dependencies")
  /\ UNCHANGED <<sboms, files, sbom, dependency>>

Current(e) == sbom[e].dependencies[dependency[e]]

More(e) == dependency[e] <= Len(sbom[e].dependencies)

CommitDependency(e) ==
  /\ At(e, "dependencies") /\ More(e)
  /\ Commit(e, Dependency(sbom[e].purl, Current(e)), TRUE)
  /\ Continue(e, "dependency purl")
  /\ UNCHANGED <<sboms, files, sbom, dependency>>

CommitDependencyPurl(e) ==
  /\ At(e, "dependency purl")
  /\ Commit(e, Purl(Current(e)), Current(e) # "")
  /\ dependency' = [dependency EXCEPT ![e] = @ + 1]
  /\ Continue(e, "dependencies")
  /\ UNCHANGED <<sboms, files, sbom>>

EndCommit(e) ==
  /\ At(e, "dependencies") /\ ~More(e)
  /\ Finish(e, failed[e])
  /\ UNCHANGED <<sboms, files, entities>>

------------------------------------------------------------------------------

Running(e) == pc[e] \notin {"new", "ok", "error", "dead"}

\* The steps of execute(), the fetch apart.
SyncScript(e) ==
  /\ InitTask(e) \/ FetchFails(e) \/ EndRun(e) \/ Complete(e)
  /\ pc[e] = "new" => Overlap \/ \A f \in Executions : ~Running(f)
  /\ UNCHANGED syncVars

SyncTarget(e) ==
  \/ SkipInactive(e) \/ RecordUnsupported(e) \/ RawFails(e) \/ RawArrives(e)
  \/ SetInstance(e) \/ PutObject(e) \/ WriteFile(e) \/ ReadChecksum(e) \/ TargetFails(e)
  \/ InsertSbom(e) \/ CommitPackage(e) \/ CommitPurl(e)
  \/ CommitDependency(e) \/ CommitDependencyPurl(e) \/ EndCommit(e)

SyncCrash(e) == Crash(e) /\ UNCHANGED syncVars

SyncWork(e) == SyncScript(e) \/ Gather(e) \/ SyncTarget(e)

SyncNext == \E e \in Executions : SyncWork(e) \/ SyncCrash(e)

SyncSpec == SyncInit /\ [][SyncNext]_vars

\* Every call of a sync returns, with whatever outcome; deaths are not ruled out.
FairSyncSpec == SyncSpec /\ \A e \in Executions : WF_vars(SyncWork(e))

------------------------------------------------------------------------------
(* Properties. *)

\* An Sbom in the store names a project, a Package URL that is not empty, its instance
\* and a checksum; an execution is between two projects when it is not processing one.
SyncTypeOK ==
  /\ sboms \in Seq([purl : Purls \ {""}, instance : Nat \ {0},
                    checksum : Raws \cup {Truncated}, project : Keys])
  /\ \A n \in DOMAIN files : files[n] \in Raws \cup {Truncated}
  /\ \A x \in entities : x.kind \in {"unsupported", "package", "purl", "dependency"}
  /\ \A e \in Executions : /\ step[e] # "idle" <=> sbom[e] # NoSbom
                           /\ pc[e] \in {"new", "running", "completing"} => step[e] = "idle"

\* The instances of a Package URL are 1, 2, 3 ... in the order of their documents, though
\* a project may fail between the query that numbers its Sbom and the insert.
InstancesInOrder ==
  \A i \in DOMAIN sboms :
    sboms[i].instance = Cardinality({j \in 1..i : sboms[j].purl = sboms[i].purl})

\* The file an Sbom document is stored under holds what its checksum was computed from:
\* no later sync, also one that fails half way, touches the file of a committed Sbom.
FilesMatchChecksums ==
  \A i \in DOMAIN sboms :
    LET name == FileName(sboms[i].purl, sboms[i].instance)
    IN  name \in DOMAIN files /\ files[name] = sboms[i].checksum

\* The documents of a Package URL, and the n-th of them.
DocumentsOf(p) == {i \in DOMAIN sboms : sboms[i].purl = p}

Nth(p, n) == CHOOSE i \in DocumentsOf(p) : Cardinality(DocumentsOf(p) \cap 1..i) = n

\* The files of the documents of a Package URL, in the order of the documents.
ArchiveOf(p) ==
  [n \in 1..Cardinality(DocumentsOf(p)) |-> files[FileName(p, sboms[Nth(p, n)].instance)]]

Archive == INSTANCE SbomArchive
             WITH Contents <- Raws, archive <- [p \in Purls |-> ArchiveOf(p)]

\* Documents and files together implement the archive: an SBOM that was committed stays
\* what and where it was.
ImplementsArchive == Archive!Spec

\* The same when syncs overlap: the file is at least there.
SbomsHaveFiles ==
  \A i \in DOMAIN sboms : FileName(sboms[i].purl, sboms[i].instance) \in DOMAIN files

\* What an Sbom names.
Named(cdx) ==
  {Package(cdx.purl), Purl(cdx.purl)}
    \cup UNION {{Dependency(cdx.purl, p), Purl(p)} : p \in {cdx.dependencies[n] :
                                                   n \in DOMAIN cdx.dependencies}}

\* A Task that ends as Complete has done its work for every project it counted: every
\* such Task of a supported project has left a document, and everything one of the
\* project's Sboms names is on record.
CompleteIsCommitted ==
  \A k \in Keys :
    LET finished == {e \in Executions : Status(e) = "Complete"
                                          /\ \E n \in DOMAIN targets[e] : targets[e][n] = k}
        documents == {i \in DOMAIN sboms : sboms[i].project = k}
    IN  finished # {} =>
          CASE Supported(k) ->
                 /\ Cardinality(documents) >= Cardinality(finished)
                 /\ \E cdx \in Taken[k] : Named(cdx) \subseteq entities
            [] NotSupported(k) -> Unsupported(k) \in entities
            [] OTHER -> TRUE

\* snyk/service.rs:55, "Gathers all projects across all orgs": a Task that ends as
\* Complete has looked at every project Snyk lists.
AllOrgsGathered ==
  \A e \in Executions : Status(e) = "Complete" =>
    \A i \in DOMAIN Orgs : \A n \in DOMAIN Orgs[i].projects :
      \E m \in DOMAIN targets[e] : targets[e][m] = Orgs[i].projects[n]
==============================================================================
