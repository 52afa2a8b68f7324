---------------------------- MODULE SbomSyncProofs ----------------------------
(***************************************************************************)
(* Theorems about SbomSync: it is a TaskProvider, so what is proved of     *)
(* execute() holds of a sync.                                              *)
(***************************************************************************)
EXTENDS SbomSync, TaskProviderProofs, FiniteSetTheorems, SequenceTheorems

\* Inside process_target a step either leaves the Task alone or ends the target.
LEMMA TargetStep ==
  ASSUME NEW e \in Executions, SyncTarget(e)
  PROVE  (\E failure \in BOOLEAN : TargetDone(e, failure)) \/ UNCHANGED taskVars
<1>1. CASE SkipInactive(e) \/ RecordUnsupported(e) \/ RawFails(e) \/ TargetFails(e)
  BY <1>1 DEF SkipInactive, RecordUnsupported, RawFails, TargetFails, Finish
<1>2. CASE RawArrives(e) \/ PutObject(e) \/ WriteFile(e)
  BY <1>2 DEF RawArrives, PutObject, WriteFile, Finish, Continue
<1>3. CASE SetInstance(e) \/ ReadChecksum(e) \/ InsertSbom(e) \/ CommitPackage(e)
           \/ CommitPurl(e) \/ CommitDependency(e) \/ CommitDependencyPurl(e)
  BY <1>3 DEF SetInstance, ReadChecksum, InsertSbom, CommitPackage, CommitPurl,
              CommitDependency, CommitDependencyPurl, Continue
<1>4. CASE EndCommit(e)
  <2>1. TargetDone(e, failed[e])
    BY <1>4 DEF EndCommit, Finish
  <2>2. TargetDone(e, TRUE) \/ TargetDone(e, FALSE)
    BY <2>1 DEF TargetDone
  <2>3. QED
    BY <2>2
<1>5. QED
  BY <1>1, <1>2, <1>3, <1>4 DEF SyncTarget

\* A step of a sync is a step of its Task, or leaves it alone.
LEMMA SyncStepIsTask == [SyncNext]_vars => [Next]_taskVars
<1>1. ASSUME NEW e \in Executions, SyncWork(e) \/ SyncCrash(e)
      PROVE  Work(e) \/ Crash(e) \/ UNCHANGED taskVars
  <2>1. CASE SyncScript(e) \/ Gather(e) \/ SyncCrash(e)
    BY <2>1 DEF SyncScript, Gather, SyncCrash, Work, Script
  <2>2. CASE SyncTarget(e)
    BY <2>2, TargetStep DEF Work
  <2>3. QED
    BY <1>1, <2>1, <2>2 DEF SyncWork
<1>2. UNCHANGED vars => UNCHANGED taskVars
  BY DEF vars
<1>3. QED
  BY <1>1, <1>2 DEF SyncNext, Next

\* A sync runs the transaction script of TaskProvider.
THEOREM SyncIsTask == SyncSpec => Spec
<1>1. SyncInit => Init
  BY DEF SyncInit
<1>2. QED
  BY <1>1, SyncStepIsTask, PTL DEF SyncSpec, Spec

\* So the Task of a sync tells what happened to its projects.
THEOREM SyncTruthful == SyncSpec => []StatusTruthful
BY SyncIsTask, TaskTruthful, PTL

------------------------------------------------------------------------------
(* The invariant, whatever syncs overlap. *)

Committing == {"package", "purl", "dependencies", "dependency purl"}

Steps == {"idle", "parsed", "numbered", "written", "stored"} \cup Committing

SbomDocs ==
  [purl : Purls \ {""}, instance : Nat \ {0}, checksum : Raws \cup {Truncated}, project : Keys]

Sboms ==
  [project : Keys, raw : Raws, purl : Purls \ {""}, dependencies : Seq(Purls),
   instance : Nat \ {0}, checksum : Raws \cup {Truncated}]

Shape ==
  /\ sboms \in Seq(SbomDocs)
  /\ \A n \in DOMAIN files : files[n] \in Raws \cup {Truncated}
  /\ \A x \in entities : x.kind \in {"unsupported", "package", "purl", "dependency"}
  /\ step \in [Executions -> Steps]
  /\ sbom \in [Executions -> Sboms \cup {NoSbom}]
  /\ dependency \in [Executions -> Nat \ {0}]
  /\ failed \in [Executions -> BOOLEAN]

\* What commit_target has recorded of the Sbom, as long as nothing has failed.
Progress(e) ==
  /\ step[e] \in Committing \ {"package"} => Package(sbom[e].purl) \in entities
  /\ step[e] \in {"dependencies", "dependency purl"} =>
       /\ Purl(sbom[e].purl) \in entities
       /\ \A n \in 1..(dependency[e] - 1) :
            /\ Dependency(sbom[e].purl, sbom[e].dependencies[n]) \in entities
            /\ Purl(sbom[e].dependencies[n]) \in entities
  /\ step[e] = "dependency purl" => Dependency(sbom[e].purl, Current(e)) \in entities

\* An execution inside process_target has a supported project and an Sbom that Snyk gave
\* it; outside it has none.
InTarget(e) ==
  /\ sbom[e] \in Sboms /\ pc[e] \in {"processing", "dead"} /\ next[e] \in DOMAIN targets[e]
  /\ Target(e) \in Keys /\ Supported(Target(e)) /\ sbom[e].project = Target(e)
  /\ \E cdx \in Taken[Target(e)] :
       cdx.purl = sbom[e].purl /\ cdx.dependencies = sbom[e].dependencies
  /\ sbom[e].instance <= Len(sboms) + 1
  /\ step[e] \in {"written", "stored"} => NameOf(e) \in DOMAIN files
  /\ step[e] \notin {"dependencies", "dependency purl"} => dependency[e] = 1
  /\ step[e] = "dependency purl" => More(e)
  /\ ~failed[e] => Progress(e)

Between(e) == sbom[e] = NoSbom /\ dependency[e] = 1

\* Every project processed without an error is on record.
OnRecord(k) ==
  /\ Supported(k) => \E cdx \in Taken[k] : Named(cdx) \subseteq entities
  /\ NotSupported(k) => Unsupported(k) \in entities

Recorded(e) ==
  \A n \in DOMAIN targets[e] : n < next[e] /\ targets[e][n] \notin errors[e] =>
    OnRecord(targets[e][n])

\* An execution that counts project k as done, or has inserted its Sbom and not failed yet.
HasDone(e, k) ==
  \/ \E n \in DOMAIN targets[e] : n < next[e] /\ targets[e][n] = k /\ k \notin errors[e]
  \/ step[e] \in Committing /\ ~failed[e] /\ Target(e) = k

Done(k) == {e \in Executions : HasDone(e, k)}

DocumentsFor(k) == {i \in DOMAIN sboms : sboms[i].project = k}

\* Each of them has left a document of its own.
Counted ==
  \A k \in Keys : Supported(k) =>
    IsFiniteSet(Done(k)) /\ Cardinality(Done(k)) <= Cardinality(DocumentsFor(k))

\* The instance of a document is at most its position: it was the next one at a time when
\* there were fewer documents.
Bounded == \A i \in DOMAIN sboms : sboms[i].instance <= i

SyncInv ==
  /\ Shape
  /\ \A e \in Executions : IF step[e] = "idle" THEN Between(e) ELSE InTarget(e)
  /\ \A e \in Executions : Recorded(e)
  /\ Counted /\ Bounded /\ SbomsHaveFiles

------------------------------------------------------------------------------
(* What the steps are made of. *)

\* An SBOM that is taken has a Package URL that is not empty.
LEMMA TakenIsNamed ==
  ASSUME NEW raw, FromRawCdx(raw).ok
  PROVE  FromRawCdx(raw).value.purl # ""
<1> DEFINE bom == Unwrap(Parse(raw).value)
<1>1. Parse(raw).ok /\ ~Unnamed(bom) /\ FromRawCdx(raw).value.purl = Unwrap(BomPurl(bom))
  BY DEF FromRawCdx, Err, Ok
<1>2. raw.value \in Bom /\ Parse(raw).value = {raw.value}
  BY <1>1 DEF Parse, FromSlice, Err, Ok, Some
<1>3. bom = raw.value
  BY <1>2 DEF Unwrap
<1>4. bom.metadata \in Option(Metadata)
  BY <1>2, <1>3 DEF Bom
<1>5. \A m \in bom.metadata : m.component \in Option(Component)
  BY <1>4 DEF Option, Metadata
<1>6. \A m \in bom.metadata : \A c \in m.component : c.purl \in Option(STRING)
  BY <1>5 DEF Option, Component
<1> HIDE DEF bom
<1>7. \A c, d \in BomComponent(bom) : c = d /\ c.purl \in Option(STRING)
  BY <1>4, <1>5, <1>6 DEF BomComponent, Option
<1>8. \A v, w \in BomPurl(bom) : v = w
  <2> SUFFICES ASSUME NEW v \in BomPurl(bom), NEW w \in BomPurl(bom) PROVE v = w
    OBVIOUS
  <2>1. PICK c \in BomComponent(bom) : v \in c.purl
    BY DEF BomPurl
  <2>2. PICK d \in BomComponent(bom) : w \in d.purl
    BY DEF BomPurl
  <2> QED
    BY <1>7, <2>1, <2>2 DEF Option
<1>9. BomPurl(bom) # {} /\ BomPurl(bom) # {""}
  BY <1>1 DEF Unnamed, None, Some
<1>10. PICK v \in BomPurl(bom) : TRUE
  BY <1>9
<1>11. BomPurl(bom) = {v} /\ v # ""
  BY <1>8, <1>9, <1>10
<1>12. Unwrap({v}) = v
  BY DEF Unwrap
<1> QED
  BY <1>1, <1>11, <1>12

\* What process_target makes of a text is an Sbom of the type kept in memory.
LEMMA NewSbomTyped ==
  ASSUME NEW k \in Keys, NEW reply \in Answers[k], SbomRaw(k, reply).ok,
         FromRawCdx(SbomRaw(k, reply).value).ok
  PROVE  LET raw == SbomRaw(k, reply).value
             cdx == FromRawCdx(raw).value
         IN  NewSbom(k, raw, cdx) \in Sboms /\ cdx \in Taken[k]
<1> DEFINE raw == SbomRaw(k, reply).value
           cdx == FromRawCdx(raw).value
<1>1. raw \in RawsOf(k) /\ raw \in Raws
  BY DEF RawsOf, Raws
<1>2. cdx \in Taken[k]
  BY <1>1 DEF Taken
<1>3. cdx.purl \in Purls /\ cdx.dependencies \in Seq(Purls) /\ cdx.purl # ""
  BY <1>2, SyncAssumption, TakenIsNamed
<1> HIDE DEF raw, cdx
<1>4. NewSbom(k, raw, cdx) \in Sboms
  <2>1. cdx.purl \in Purls \ {""}
    BY <1>3, Zenon
  <2>3. 1 \in Nat \ {0}
    OBVIOUS
  <2>2. Truncated \in Raws \cup {Truncated}
    OBVIOUS
  <2> QED
    BY <1>1, <1>3, <2>1, <2>2, <2>3, Zenon DEF NewSbom, Sboms
<1> QED
  BY <1>2, <1>4 DEF raw, cdx

\* The query by Package URL finds the documents of it.
LEMMA QueryByPurl ==
  ASSUME sboms \in Seq(SbomDocs), NEW p
  PROVE  Query(sboms, [purl |-> p]) = DocumentsOf(p)
<1>1. \A d \in SbomDocs : "purl" \in DOMAIN d
  BY DEF SbomDocs
<1>2. \A i \in DOMAIN sboms : "purl" \in DOMAIN sboms[i]
  BY <1>1
<1> QED
  BY <1>2 DEF Query, DocumentsOf

\* The next instance is larger than every instance there is, and by one at most larger
\* than the number of documents.
LEMMA NextInstanceBounds ==
  ASSUME sboms \in Seq(SbomDocs), Bounded, NEW p
  PROVE  /\ NextInstance(p) \in Nat \ {0} /\ NextInstance(p) <= Len(sboms) + 1
         /\ \A i \in DocumentsOf(p) : sboms[i].instance < NextInstance(p)
         /\ DocumentsOf(p) = {} => NextInstance(p) = 1
         /\ DocumentsOf(p) # {} => \E i \in DocumentsOf(p) :
                                     NextInstance(p) = sboms[i].instance + 1
<1>0. Len(sboms) \in Nat /\ DOMAIN sboms = 1..Len(sboms)
  OBVIOUS
<1>1. Instances(p) = {sboms[i].instance : i \in DocumentsOf(p)}
  BY QueryByPurl DEF Instances
<1>2. \A i \in DocumentsOf(p) : sboms[i].instance \in Nat \ {0} /\ sboms[i].instance <= Len(sboms)
  <2>1. \A d \in SbomDocs : d.instance \in Nat \ {0}
    BY DEF SbomDocs
  <2> QED
    BY <1>0, <2>1 DEF DocumentsOf, Bounded
<1>3. Instances(p) \in SUBSET Nat /\ \A n \in Instances(p) : n <= Len(sboms)
  BY <1>1, <1>2
<1>4. CASE Instances(p) = {}
  <2>1. NextInstance(p) = 1
    BY <1>4 DEF NextInstance
  <2>2. DocumentsOf(p) = {}
    BY <1>1, <1>4, Zenon
  <2>3. 1 \in Nat \ {0} /\ 1 <= Len(sboms) + 1
    BY <1>0
  <2> QED
    BY <2>1, <2>2, <2>3, Zenon
<1>5. CASE Instances(p) # {}
  <2> DEFINE max == CHOOSE n \in Instances(p) : \A m \in Instances(p) : m <= n
  <2>1. \E n \in Instances(p) : \A m \in Instances(p) : m <= n
    BY <1>0, <1>3, <1>5, GreatestNatural
  <2>2. max \in Instances(p) /\ \A m \in Instances(p) : m <= max
    BY <2>1
  <2>3. NextInstance(p) = 1 + max
    BY <1>5 DEF NextInstance
  <2> HIDE DEF max
  <2>4. PICK i \in DocumentsOf(p) : max = sboms[i].instance
    BY <1>1, <2>2, Zenon
  <2>5. max \in Nat /\ max <= Len(sboms)
    BY <1>3, <2>2, Zenon
  <2>6. NextInstance(p) \in Nat \ {0} /\ NextInstance(p) <= Len(sboms) + 1
    BY <1>0, <2>3, <2>5
  <2>7. \A j \in DocumentsOf(p) : sboms[j].instance < NextInstance(p)
    <3> SUFFICES ASSUME NEW j \in DocumentsOf(p) PROVE sboms[j].instance < NextInstance(p)
      OBVIOUS
    <3>1. sboms[j].instance \in Instances(p)
      BY <1>1, Zenon
    <3>2. sboms[j].instance <= max /\ sboms[j].instance \in Nat
      BY <3>1, <1>3, <2>2, Zenon
    <3>3. \A a, b \in Nat : a <= b => a < 1 + b
      OBVIOUS
    <3> QED
      BY <3>2, <3>3, <2>3, <2>5, Zenon
  <2>8. NextInstance(p) = sboms[i].instance + 1
    BY <2>3, <2>4, <2>5
  <2> QED
    BY <2>4, <2>6, <2>7, <2>8, Zenon
<1> QED
  BY <1>4, <1>5

\* What a write does to the file storage.
LEMMA StoredFile ==
  ASSUME NEW name, NEW content
  PROVE  /\ DOMAIN Stored(name, content) = DOMAIN files \cup {name}
         /\ Stored(name, content)[name] = content
         /\ \A n \in DOMAIN files \ {name} : Stored(name, content)[n] = files[n]
BY DEF Stored

------------------------------------------------------------------------------
(* A step of one execution, seen from the others. *)

Others(e) ==
  \A f \in Executions \ {e} :
    /\ step'[f] = step[f] /\ sbom'[f] = sbom[f]
    /\ dependency'[f] = dependency[f] /\ failed'[f] = failed[f]
    /\ pc'[f] = pc[f] /\ next'[f] = next[f] /\ targets'[f] = targets[f] /\ errors'[f] = errors[f]

Grows ==
  Len(sboms') >= Len(sboms) /\ DOMAIN files \subseteq DOMAIN files' /\ entities \subseteq entities'

InPlace(e) == IF step[e] = "idle" THEN Between(e) ELSE InTarget(e)

\* What is on record stays on record.
LEMMA RecordStays ==
  ASSUME Grows, NEW k, OnRecord(k)
  PROVE  OnRecord(k)'
BY DEF Grows, OnRecord

LEMMA OthersKeep ==
  ASSUME Shape, Grows, NEW e \in Executions, Others(e), NEW f \in Executions \ {e},
         InPlace(f), Recorded(f), Len(sboms) \in Nat, Len(sboms') \in Nat
  PROVE  /\ InPlace(f)' /\ Recorded(f)'
         /\ \A k : HasDone(f, k)' <=> HasDone(f, k)
<1>1. /\ step'[f] = step[f] /\ sbom'[f] = sbom[f]
      /\ dependency'[f] = dependency[f] /\ failed'[f] = failed[f]
      /\ pc'[f] = pc[f] /\ next'[f] = next[f] /\ targets'[f] = targets[f] /\ errors'[f] = errors[f]
  BY DEF Others
<1>2. Recorded(f)'
  BY <1>1, RecordStays DEF Recorded
<1>3. \A k : HasDone(f, k)' <=> HasDone(f, k)
  BY <1>1 DEF HasDone, Target
<1>4. ASSUME InTarget(f) PROVE InTarget(f)'
  <2>1. Target(f)' = Target(f) /\ NameOf(f)' = NameOf(f) /\ More(f)' = More(f)
    BY <1>1 DEF Target, NameOf, More
  <2>2. sbom[f].instance \in Nat
    BY <1>4 DEF InTarget, Sboms
  <2>3. sbom'[f].instance <= Len(sboms') + 1
    <3>1. sbom[f].instance <= Len(sboms) + 1 /\ Len(sboms) <= Len(sboms')
      BY <1>4 DEF InTarget, Grows
    <3>2. \A a, b, c \in Nat : a <= b + 1 /\ b <= c => a <= c + 1
      OBVIOUS
    <3> QED
      BY <1>1, <2>2, <3>1, <3>2, Zenon
  <2>4. ~failed'[f] => Progress(f)'
    BY <1>1, <1>4 DEF InTarget, Progress, Current, Grows
  <2> QED
    BY <1>1, <1>4, <2>1, <2>3, <2>4 DEF InTarget, Grows
<1>5. InPlace(f)'
  BY <1>1, <1>4 DEF InPlace, Between
<1> QED
  BY <1>2, <1>3, <1>5

\* A step after which no more executions are done, and no document is gone.
LEMMA CountKept ==
  ASSUME Counted, sboms \in Seq(SbomDocs), sboms' \in Seq(SbomDocs),
         \A i \in DOMAIN sboms : i \in DOMAIN sboms' /\ sboms'[i] = sboms[i],
         \A k \in Keys : Supported(k) => \A f \in Executions : HasDone(f, k)' => HasDone(f, k)
  PROVE  Counted'
<1> SUFFICES ASSUME NEW k \in Keys, Supported(k)
             PROVE  IsFiniteSet(Done(k)') /\ Cardinality(Done(k)') <= Cardinality(DocumentsFor(k)')
  BY DEF Counted
<1>1. IsFiniteSet(Done(k)) /\ Cardinality(Done(k)) <= Cardinality(DocumentsFor(k))
  BY DEF Counted
<1>2. Done(k)' \subseteq Done(k)
  BY DEF Done
<1>3. IsFiniteSet(Done(k)') /\ Cardinality(Done(k)') <= Cardinality(Done(k))
  BY <1>1, <1>2, FS_Subset
<1>4. IsFiniteSet(DocumentsFor(k)') /\ DocumentsFor(k) \subseteq DocumentsFor(k)'
  <2>1. IsFiniteSet(1..Len(sboms')) /\ DOMAIN sboms' = 1..Len(sboms')
    BY FS_Interval
  <2> QED
    BY <2>1, FS_Subset DEF DocumentsFor
<1>5. Cardinality(DocumentsFor(k)) <= Cardinality(DocumentsFor(k)')
  BY <1>4, FS_Subset
<1>6. /\ Cardinality(Done(k)) \in Nat /\ Cardinality(Done(k)') \in Nat
      /\ Cardinality(DocumentsFor(k)) \in Nat /\ Cardinality(DocumentsFor(k)') \in Nat
  BY <1>1, <1>3, <1>4, FS_CardinalityType, FS_Subset
<1> QED
  BY <1>1, <1>3, <1>5, <1>6

------------------------------------------------------------------------------
(* The steps that end a target, and the steps that go on with it. *)

\* An execution that processes a target is in run()'s loop.
LEMMA AtTarget ==
  ASSUME IInv, NEW e \in Executions, Processing(e)
  PROVE  /\ pc[e] = "processing" /\ targets[e] \in Seq(Keys) /\ Target(e) \in Keys
         /\ next[e] \in Nat \ {0} /\ next[e] \in DOMAIN targets[e]
         /\ DOMAIN targets[e] = 1..Len(targets[e]) /\ Len(targets[e]) \in Nat
<1>1. pc[e] = "processing" /\ next[e] \in DOMAIN targets[e]
  BY DEF Processing
<1>2. targets[e] \in TargetLists
  BY <1>1 DEF IInv, Stage, InLoop
<1>3. targets[e] \in Seq(Keys) /\ DOMAIN targets[e] = 1..Len(targets[e]) /\ Len(targets[e]) \in Nat
  BY <1>2, ListTyped
<1>4. Target(e) \in Keys
  BY <1>1, <1>3 DEF Target
<1>5. next[e] \in Nat \ {0}
  BY DEF IInv, TypeOK
<1> QED
  BY <1>1, <1>3, <1>4, <1>5

\* The steps that leave the documents alone.
LEMMA SameDocuments ==
  ASSUME SyncInv, NEW e \in Executions, Others(e), Shape', Grows, sboms' = sboms,
         InPlace(e)', Recorded(e)',
         \A k \in Keys : Supported(k) => (HasDone(e, k)' => HasDone(e, k))
  PROVE  SyncInv'
<1>1. sboms \in Seq(SbomDocs) /\ sboms' \in Seq(SbomDocs)
      /\ Len(sboms) \in Nat /\ Len(sboms') \in Nat
  <2>1. sboms \in Seq(SbomDocs)
    BY DEF SyncInv, Shape
  <2> QED
    BY <2>1
<1>2. ASSUME NEW f \in Executions, f # e
      PROVE  InPlace(f)' /\ Recorded(f)' /\ \A k : HasDone(f, k)' <=> HasDone(f, k)
  <2>1. Shape /\ InPlace(f) /\ Recorded(f) /\ f \in Executions \ {e}
    BY <1>2 DEF SyncInv, InPlace
  <2> QED
    BY <1>1, <2>1, OthersKeep
<1>3. \A f \in Executions : InPlace(f)' /\ Recorded(f)'
  BY <1>2
<1>4. Counted'
  <2>1. Counted
    BY DEF SyncInv
  <2>2. \A k \in Keys : Supported(k) => \A f \in Executions : HasDone(f, k)' => HasDone(f, k)
    BY <1>2
  <2>3. \A i \in DOMAIN sboms : i \in DOMAIN sboms' /\ sboms'[i] = sboms[i]
    OBVIOUS
  <2> QED
    BY <1>1, <2>1, <2>2, <2>3, CountKept
<1>5. Bounded' /\ SbomsHaveFiles'
  BY DEF SyncInv, Bounded, SbomsHaveFiles, Grows
<1> QED
  BY <1>3, <1>4, <1>5 DEF SyncInv, InPlace

\* A target is done: its project is on record, or its error is kept.
LEMMA FinishStep ==
  ASSUME SyncInv, IInv, NEW e \in Executions, NEW err \in BOOLEAN, Finish(e, err),
         NEW project, project = Target(e),
         sboms' = sboms, DOMAIN files \subseteq DOMAIN files', entities \subseteq entities',
         \A n \in DOMAIN files' : files'[n] \in Raws \cup {Truncated},
         \A x \in entities' : x.kind \in {"unsupported", "package", "purl", "dependency"},
         ~err => /\ OnRecord(project)'
                 /\ Supported(project) => step[e] \in Committing /\ ~failed[e]
  PROVE  SyncInv'
<1>1. Processing(e) /\ TargetDone(e, err)
  BY DEF Finish, TargetDone
<1>2. /\ targets' = targets /\ pc' = pc
      /\ next' = [next EXCEPT ![e] = @ + 1]
      /\ errors' = IF err THEN [errors EXCEPT ![e] = @ \cup {Target(e)}] ELSE errors
  BY <1>1 DEF TargetDone
<1>3. next'[e] = next[e] + 1 /\ errors'[e] = IF err THEN errors[e] \cup {Target(e)} ELSE errors[e]
  BY <1>2 DEF IInv, TypeOK
<1>4. /\ step' = [step EXCEPT ![e] = "idle"] /\ sbom' = [sbom EXCEPT ![e] = NoSbom]
      /\ dependency' = [dependency EXCEPT ![e] = 1] /\ failed' = [failed EXCEPT ![e] = FALSE]
  BY DEF Finish
<1>5. Shape /\ sboms \in Seq(SbomDocs)
  BY DEF SyncInv, Shape
<1>6. step'[e] = "idle" /\ sbom'[e] = NoSbom /\ dependency'[e] = 1
  BY <1>4, <1>5 DEF Shape
<1>7. Shape'
  BY <1>4, <1>5 DEF Shape, Steps
<1>8. Others(e)
  BY <1>2, <1>4, <1>5 DEF Others, Shape, IInv, TypeOK
<1>9. Grows
  <2>1. Len(sboms) \in Nat
    BY <1>5
  <2> QED
    BY <2>1 DEF Grows
<1>10. InPlace(e)'
  BY <1>6 DEF InPlace, Between
<1>11. next[e] \in Nat /\ DOMAIN targets[e] \subseteq Nat /\ next[e] \in DOMAIN targets[e]
  BY <1>1, AtTarget
<1>12. ASSUME NEW n \in DOMAIN targets[e], n < next'[e]
       PROVE  n < next[e] \/ targets[e][n] = Target(e)
  BY <1>3, <1>11, <1>12 DEF Target
<1>13. Recorded(e)'
  <2> SUFFICES ASSUME NEW n \in DOMAIN targets[e], n < next'[e], targets[e][n] \notin errors'[e]
               PROVE  OnRecord(targets[e][n])'
    BY <1>2 DEF Recorded
  <2>1. CASE n < next[e]
    <3>1. OnRecord(targets[e][n])
      BY <1>3, <2>1 DEF SyncInv, Recorded
    <3> QED
      BY <1>9, <3>1, <1>2, RecordStays DEF OnRecord
  <2>2. CASE targets[e][n] = Target(e)
    <3>1. ~err
      BY <1>3, <2>2
    <3>2. OnRecord(project)'
      BY <3>1
    <3> QED
      BY <3>2, <2>2, <1>2
  <2> QED
    BY <1>12, <2>1, <2>2
<1>14. ASSUME NEW k \in Keys, Supported(k), HasDone(e, k)' PROVE HasDone(e, k)
  <2>1. PICK n \in DOMAIN targets[e] : n < next'[e] /\ targets[e][n] = k /\ k \notin errors'[e]
    BY <1>2, <1>6, <1>14 DEF HasDone, Committing
  <2>2. CASE n < next[e]
    BY <1>3, <2>1, <2>2 DEF HasDone
  <2>3. CASE targets[e][n] = Target(e)
    BY <1>3, <1>14, <2>1, <2>3 DEF HasDone
  <2> QED
    BY <1>12, <2>1, <2>2, <2>3
<1> QED
  BY <1>7, <1>8, <1>9, <1>10, <1>13, <1>14, SameDocuments

\* A step inside process_target that inserts no document.
LEMMA ContinueStep ==
  ASSUME SyncInv, IInv, NEW e \in Executions, UNCHANGED taskVars, Others(e),
         sboms' = sboms, Shape', Grows, step'[e] # "idle", InTarget(e)',
         step'[e] \in Committing /\ ~failed'[e] => step[e] \in Committing /\ ~failed[e]
  PROVE  SyncInv'
<1>1. pc' = pc /\ targets' = targets /\ next' = next /\ errors' = errors
  BY DEF taskVars
<1>2. InPlace(e)'
  BY DEF InPlace
<1>3. Recorded(e)'
  BY <1>1, RecordStays DEF SyncInv, Recorded
<1>4. ASSUME NEW k \in Keys, HasDone(e, k)' PROVE HasDone(e, k)
  BY <1>1, <1>4 DEF HasDone, Target
<1> QED
  BY <1>2, <1>3, <1>4, SameDocuments

------------------------------------------------------------------------------
(* process_target, step by step. *)

\* The steps that only read before the target ends: an inactive project, no SBOM from
\* Snyk, a query or a read back that fails.
LEMMA SkipStep ==
  ASSUME SyncInv, IInv, NEW e \in Executions,
         SkipInactive(e) \/ RawFails(e) \/ TargetFails(e)
  PROVE  SyncInv'
<1>0. PICK k : k = Target(e)
  OBVIOUS
<1>1. \E err \in BOOLEAN : Finish(e, err) /\ (~err => Inactive(k))
  BY <1>0 DEF SkipInactive, RawFails, TargetFails
<1>2. sboms' = sboms /\ files' = files /\ entities' = entities
  BY DEF SkipInactive, RawFails, TargetFails
<1>3. Inactive(k) => ~Supported(k) /\ ~NotSupported(k)
  BY DEF Supported, NotSupported
<1>4. Inactive(k) => OnRecord(k)'
  BY <1>3 DEF OnRecord
<1>5. /\ \A n \in DOMAIN files' : files'[n] \in Raws \cup {Truncated}
      /\ \A x \in entities' : x.kind \in {"unsupported", "package", "purl", "dependency"}
  BY <1>2 DEF SyncInv, Shape
<1> QED
  BY <1>1, <1>2, <1>3, <1>4, <1>5, <1>0, FinishStep

\* A project of a kind Snyk makes no SBOM of.
LEMMA UnsupportedStep ==
  ASSUME SyncInv, IInv, NEW e \in Executions, RecordUnsupported(e)
  PROVE  SyncInv'
<1>0. PICK k : k = Target(e)
  OBVIOUS
<1>1. /\ NotSupported(k) /\ sboms' = sboms /\ files' = files
      /\ entities' \in {entities, entities \cup {Unsupported(k)}}
      /\ \E err \in BOOLEAN : Finish(e, err) /\ (~err => Unsupported(k) \in entities')
  BY <1>0 DEF RecordUnsupported
<1>2. NotSupported(k) => ~Supported(k)
  BY DEF Supported, NotSupported
<1>3. Unsupported(k).kind = "unsupported"
  BY DEF Unsupported
<1>4. /\ \A n \in DOMAIN files' : files'[n] \in Raws \cup {Truncated}
      /\ \A x \in entities' : x.kind \in {"unsupported", "package", "purl", "dependency"}
  BY <1>1, <1>3 DEF SyncInv, Shape
<1>5. Unsupported(k) \in entities' => OnRecord(k)'
  BY <1>1, <1>2 DEF OnRecord
<1>6. entities \subseteq entities' /\ DOMAIN files \subseteq DOMAIN files'
  BY <1>1
<1>7. PICK err \in BOOLEAN : Finish(e, err) /\ (~err => Unsupported(k) \in entities')
  BY <1>1
<1>8. ~err => OnRecord(k)' /\ (Supported(k) => step[e] \in Committing /\ ~failed[e])
  BY <1>1, <1>2, <1>5, <1>7
<1> QED
  BY <1>0, <1>1, <1>4, <1>6, <1>7, <1>8, FinishStep

\* A text that is no SBOM ends the target; otherwise there is an Sbom from now on.
LEMMA RawArrivesStep ==
  ASSUME SyncInv, IInv, NEW e \in Executions, RawArrives(e)
  PROVE  SyncInv'
<1> DEFINE k == Target(e)
<1>1. At(e, "idle") /\ Supported(k) /\ sboms' = sboms /\ files' = files /\ entities' = entities
  BY DEF RawArrives
<1>2. Shape /\ k \in Keys /\ pc[e] = "processing" /\ next[e] \in DOMAIN targets[e]
  BY <1>1, AtTarget DEF SyncInv, At
<1>3. PICK reply \in Answers[k] :
        LET raw == SbomRaw(k, reply)
            cdx == FromRawCdx(raw.value)
        IN  /\ raw.ok
            /\ \/ /\ cdx.ok
                  /\ sbom' = [sbom EXCEPT ![e] = NewSbom(k, raw.value, cdx.value)]
                  /\ Continue(e, "parsed")
                  /\ UNCHANGED <<dependency, failed>>
               \/ ~cdx.ok /\ Finish(e, TRUE)
  BY DEF RawArrives
<1> DEFINE raw == SbomRaw(k, reply)
           cdx == FromRawCdx(raw.value)
           new == NewSbom(k, raw.value, cdx.value)
<1>4. CASE Finish(e, TRUE)
  <2>1. /\ \A n \in DOMAIN files' : files'[n] \in Raws \cup {Truncated}
        /\ \A x \in entities' : x.kind \in {"unsupported", "package", "purl", "dependency"}
    BY <1>1, <1>2 DEF Shape
  <2> QED
    BY <1>1, <1>4, <2>1, FinishStep
<1>5. CASE /\ cdx.ok /\ sbom' = [sbom EXCEPT ![e] = new]
           /\ Continue(e, "parsed") /\ UNCHANGED <<dependency, failed>>
  <2>1. new \in Sboms /\ cdx.value \in Taken[k]
    BY <1>2, <1>3, <1>5, NewSbomTyped
  <2>2. /\ new.project = k /\ new.purl = cdx.value.purl /\ new.instance = 1
        /\ new.dependencies = cdx.value.dependencies
    BY DEF NewSbom
  <2> HIDE DEF new, cdx, raw
  <2>3. /\ UNCHANGED taskVars /\ step' = [step EXCEPT ![e] = "parsed"]
        /\ sbom' = [sbom EXCEPT ![e] = new] /\ dependency' = dependency /\ failed' = failed
    BY <1>5 DEF Continue
  <2>4. Shape' /\ step'[e] = "parsed" /\ sbom'[e] = new
    BY <1>1, <1>2, <2>1, <2>3 DEF Shape, Steps
  <2>5. Others(e)
    BY <1>2, <2>3 DEF Others, Shape, taskVars
  <2>6. pc'[e] = pc[e] /\ next'[e] = next[e] /\ targets'[e] = targets[e] /\ Target(e)' = k
    BY <2>3 DEF taskVars, Target
  <2>7. Between(e)
    BY <1>1 DEF SyncInv, At
  <2>8. Len(sboms) \in Nat /\ sbom'[e].instance <= Len(sboms') + 1
    BY <1>1, <1>2, <2>2, <2>4 DEF Shape
  <2>9. Grows
    BY <1>1, <2>8 DEF Grows
  <2>10. Progress(e)'
    BY <2>4 DEF Progress, Committing
  <2> HIDE DEF k
  <2>11. dependency'[e] = 1
    BY <2>3, <2>7 DEF Between
  <2>12. InTarget(e)'
    BY <1>1, <1>2, <2>1, <2>2, <2>4, <2>6, <2>8, <2>10, <2>11 DEF InTarget
  <2> QED
    BY <1>1, <2>3, <2>4, <2>5, <2>9, <2>12, ContinueStep DEF Committing
<1> QED
  BY <1>3, <1>4, <1>5

\* In one step the Sbom in memory keeps what Snyk gave.
LEMMA SameTarget ==
  ASSUME NEW e \in Executions, InTarget(e), UNCHANGED taskVars,
         sbom'[e] \in Sboms, sbom'[e].project = sbom[e].project, sbom'[e].purl = sbom[e].purl,
         sbom'[e].dependencies = sbom[e].dependencies,
         sbom'[e].instance <= Len(sboms') + 1,
         step'[e] \in {"written", "stored"} => NameOf(e)' \in DOMAIN files',
         step'[e] \notin {"dependencies", "dependency purl"} => dependency'[e] = 1,
         step'[e] = "dependency purl" => More(e)',
         ~failed'[e] => Progress(e)'
  PROVE  InTarget(e)'
<1>1. pc' = pc /\ next' = next /\ targets' = targets /\ Target(e)' = Target(e)
  BY DEF taskVars, Target
<1> QED
  BY <1>1 DEF InTarget

\* A write to the file storage, and what the storage holds after it.
LEMMA StoredTyped ==
  ASSUME Shape, NEW name, NEW content \in Raws \cup {Truncated},
         files' = Stored(name, content)
  PROVE  /\ DOMAIN files \subseteq DOMAIN files' /\ name \in DOMAIN files'
         /\ \A n \in DOMAIN files' : files'[n] \in Raws \cup {Truncated}
<1>1. /\ DOMAIN files' = DOMAIN files \cup {name} /\ files'[name] = content
      /\ \A n \in DOMAIN files \ {name} : files'[n] = files[n]
  BY DEF Stored
<1>2. \A n \in DOMAIN files : files[n] \in Raws \cup {Truncated}
  BY DEF Shape
<1> QED
  BY <1>1, <1>2, Zenon

\* An execution at one of the steps of process_target, and its Sbom.
LEMMA AtStep ==
  ASSUME SyncInv, NEW e \in Executions, NEW s, At(e, s), s # "idle"
  PROVE  /\ Processing(e) /\ step[e] = s /\ InTarget(e) /\ sbom[e] \in Sboms
         /\ sbom[e].purl \in Purls \ {""} /\ sbom[e].dependencies \in Seq(Purls)
         /\ sbom[e].instance \in Nat \ {0} /\ sbom[e].raw \in Raws /\ sbom[e].project \in Keys
         /\ sbom[e].checksum \in Raws \cup {Truncated}
         /\ sbom[e].instance <= Len(sboms) + 1 /\ Len(sboms) \in Nat
<1>1. Processing(e) /\ step[e] = s /\ InTarget(e) /\ sboms \in Seq(SbomDocs)
  BY DEF At, SyncInv, Shape
<1>2. sbom[e] \in Sboms /\ sbom[e].instance <= Len(sboms) + 1
  BY <1>1 DEF InTarget
<1>3. Len(sboms) \in Nat
  BY <1>1
<1> QED
  BY <1>1, <1>2, <1>3 DEF Sboms

LEMMA SetInstanceStep ==
  ASSUME SyncInv, IInv, NEW e \in Executions, SetInstance(e)
  PROVE  SyncInv'
<1> DEFINE n == NextInstance(sbom[e].purl)
           new == [sbom[e] EXCEPT !.instance = n]
<1>1. At(e, "parsed")
  BY DEF SetInstance
<1>2. /\ step[e] = "parsed" /\ InTarget(e) /\ sbom[e] \in Sboms /\ Len(sboms) \in Nat
  BY <1>1, AtStep
<1>3. Shape /\ sboms \in Seq(SbomDocs) /\ Bounded
  BY DEF SyncInv, Shape
<1>4. n \in Nat \ {0} /\ n <= Len(sboms) + 1
  BY <1>3, NextInstanceBounds
<1>5. /\ UNCHANGED taskVars /\ step' = [step EXCEPT ![e] = "numbered"]
      /\ sbom' = [sbom EXCEPT ![e] = new]
      /\ sboms' = sboms /\ files' = files /\ entities' = entities
      /\ dependency' = dependency /\ failed' = failed
  BY DEF SetInstance, Continue
<1> HIDE DEF n
<1>6. /\ new \in Sboms /\ new.instance = n /\ new.project = sbom[e].project
      /\ new.purl = sbom[e].purl /\ new.dependencies = sbom[e].dependencies
  BY <1>2, <1>4 DEF Sboms
<1> HIDE DEF new
<1>7. Shape' /\ step'[e] = "numbered" /\ sbom'[e] = new
  BY <1>3, <1>5, <1>6 DEF Shape, Steps
<1>8. Others(e)
  BY <1>3, <1>5 DEF Others, Shape, taskVars
<1>9. Grows
  BY <1>2, <1>5 DEF Grows
<1>10. Progress(e)' /\ dependency'[e] = 1
  BY <1>2, <1>5, <1>7 DEF Progress, Committing, InTarget
<1>11. sbom'[e].instance <= Len(sboms') + 1
  BY <1>4, <1>5, <1>6, <1>7, Zenon
<1>12. InTarget(e)'
  BY <1>2, <1>5, <1>6, <1>7, <1>10, <1>11, SameTarget
<1> QED
  BY <1>5, <1>7, <1>8, <1>9, <1>12, ContinueStep DEF Committing

\* The failure of a write ends the target, whatever it left in the file.
LEMMA WriteFailsStep ==
  ASSUME SyncInv, IInv, NEW e \in Executions, Finish(e, TRUE),
         NEW name, NEW content \in Raws \cup {Truncated}, files' \in {files, Stored(name, content)},
         sboms' = sboms, entities' = entities
  PROVE  SyncInv'
<1>1. Shape
  BY DEF SyncInv
<1>2. /\ DOMAIN files \subseteq DOMAIN files'
      /\ \A n \in DOMAIN files' : files'[n] \in Raws \cup {Truncated}
  BY <1>1, StoredTyped DEF Shape
<1>3. \A x \in entities' : x.kind \in {"unsupported", "package", "purl", "dependency"}
  BY <1>1 DEF Shape
<1> QED
  BY <1>2, <1>3, FinishStep

LEMMA PutObjectStep ==
  ASSUME SyncInv, IInv, NEW e \in Executions, PutObject(e)
  PROVE  SyncInv'
<1> DEFINE new == [sbom[e] EXCEPT !.checksum = sbom[e].raw]
<1>1. At(e, "numbered") /\ sboms' = sboms /\ entities' = entities
  BY DEF PutObject
<1>2. /\ step[e] = "numbered" /\ InTarget(e) /\ sbom[e] \in Sboms /\ Len(sboms) \in Nat
      /\ sbom[e].raw \in Raws /\ sbom[e].instance <= Len(sboms) + 1
  BY <1>1, AtStep
<1>3. Shape
  BY DEF SyncInv
<1>4. CASE Finish(e, TRUE) /\ files' \in {files, Stored(NameOf(e), sbom[e].raw)}
  BY <1>1, <1>2, <1>4, WriteFailsStep
<1>5. CASE /\ files' = Stored(NameOf(e), sbom[e].raw) /\ sbom' = [sbom EXCEPT ![e] = new]
           /\ Continue(e, "stored") /\ UNCHANGED <<dependency, failed>>
  <2>1. /\ UNCHANGED taskVars /\ step' = [step EXCEPT ![e] = "stored"]
        /\ dependency' = dependency /\ failed' = failed
    BY <1>5 DEF Continue
  <2>2. /\ new \in Sboms /\ new.instance = sbom[e].instance /\ new.project = sbom[e].project
        /\ new.purl = sbom[e].purl /\ new.dependencies = sbom[e].dependencies
    BY <1>2 DEF Sboms
  <2> HIDE DEF new
  <2>3. /\ DOMAIN files \subseteq DOMAIN files' /\ NameOf(e) \in DOMAIN files'
        /\ \A n \in DOMAIN files' : files'[n] \in Raws \cup {Truncated}
    BY <1>2, <1>3, <1>5, StoredTyped
  <2>4. Shape' /\ step'[e] = "stored" /\ sbom'[e] = new
    BY <1>1, <1>3, <1>5, <2>1, <2>2, <2>3 DEF Shape, Steps
  <2>5. Others(e)
    BY <1>3, <1>5, <2>1 DEF Others, Shape, taskVars
  <2>6. Grows
    BY <1>1, <1>2, <2>3 DEF Grows
  <2>7. NameOf(e)' = NameOf(e)
    BY <2>2, <2>4 DEF NameOf
  <2>8. Progress(e)' /\ dependency'[e] = 1
    BY <1>2, <2>1, <2>4 DEF Progress, Committing, InTarget
  <2>9. sbom'[e].instance <= Len(sboms') + 1
    BY <1>1, <1>2, <2>2, <2>4, Zenon
  <2>10. InTarget(e)'
    BY <1>2, <2>1, <2>2, <2>3, <2>4, <2>7, <2>8, <2>9, SameTarget
  <2> QED
    BY <1>1, <2>1, <2>4, <2>5, <2>6, <2>10, ContinueStep DEF Committing
<1> QED
  BY <1>4, <1>5 DEF PutObject

LEMMA WriteFileStep ==
  ASSUME SyncInv, IInv, NEW e \in Executions, WriteFile(e)
  PROVE  SyncInv'
<1>1. At(e, "numbered") /\ sboms' = sboms /\ entities' = entities
  BY DEF WriteFile
<1>2. /\ step[e] = "numbered" /\ InTarget(e) /\ sbom[e] \in Sboms /\ Len(sboms) \in Nat
      /\ sbom[e].raw \in Raws /\ sbom[e].instance <= Len(sboms) + 1
  BY <1>1, AtStep
<1>3. Shape
  BY DEF SyncInv
<1>4. CASE Finish(e, TRUE) /\ files' \in {files, Stored(NameOf(e), Truncated)}
  BY <1>1, <1>4, WriteFailsStep
<1>5. CASE /\ files' = Stored(NameOf(e), sbom[e].raw)
           /\ Continue(e, "written") /\ UNCHANGED <<sbom, dependency, failed>>
  <2>1. /\ UNCHANGED taskVars /\ step' = [step EXCEPT ![e] = "written"]
        /\ sbom' = sbom /\ dependency' = dependency /\ failed' = failed
    BY <1>5 DEF Continue
  <2>2. /\ DOMAIN files \subseteq DOMAIN files' /\ NameOf(e) \in DOMAIN files'
        /\ \A n \in DOMAIN files' : files'[n] \in Raws \cup {Truncated}
    BY <1>2, <1>3, <1>5, StoredTyped
  <2>3. Shape' /\ step'[e] = "written" /\ sbom'[e] = sbom[e]
    BY <1>1, <1>3, <2>1, <2>2 DEF Shape, Steps
  <2>4. Others(e)
    BY <1>3, <2>1 DEF Others, Shape, taskVars
  <2>5. Grows
    BY <1>1, <1>2, <2>2 DEF Grows
  <2>6. NameOf(e)' = NameOf(e)
    BY <2>1 DEF NameOf
  <2>7. Progress(e)' /\ dependency'[e] = 1
    BY <1>2, <2>1, <2>3 DEF Progress, Committing, InTarget
  <2>8. InTarget(e)'
    BY <1>1, <1>2, <2>1, <2>2, <2>3, <2>6, <2>7, SameTarget
  <2> QED
    BY <1>1, <2>1, <2>3, <2>4, <2>5, <2>8, ContinueStep DEF Committing
<1> QED
  BY <1>4, <1>5 DEF WriteFile

LEMMA ReadChecksumStep ==
  ASSUME SyncInv, IInv, NEW e \in Executions, ReadChecksum(e)
  PROVE  SyncInv'
<1> DEFINE new == [sbom[e] EXCEPT !.checksum = files[NameOf(e)]]
<1>1. /\ At(e, "written") /\ sboms' = sboms /\ entities' = entities /\ files' = files
      /\ sbom' = [sbom EXCEPT ![e] = new]
      /\ UNCHANGED taskVars /\ step' = [step EXCEPT ![e] = "stored"]
      /\ dependency' = dependency /\ failed' = failed
  BY DEF ReadChecksum, Continue
<1>2. /\ step[e] = "written" /\ InTarget(e) /\ sbom[e] \in Sboms /\ Len(sboms) \in Nat
      /\ sbom[e].instance <= Len(sboms) + 1
  BY <1>1, AtStep
<1>3. Shape
  BY DEF SyncInv
<1>4. NameOf(e) \in DOMAIN files /\ files[NameOf(e)] \in Raws \cup {Truncated}
  BY <1>2, <1>3 DEF InTarget, Shape
<1>5. /\ new \in Sboms /\ new.instance = sbom[e].instance /\ new.project = sbom[e].project
      /\ new.purl = sbom[e].purl /\ new.dependencies = sbom[e].dependencies
  BY <1>2, <1>4 DEF Sboms
<1> HIDE DEF new
<1>6. Shape' /\ step'[e] = "stored" /\ sbom'[e] = new
  BY <1>1, <1>3, <1>5 DEF Shape, Steps
<1>7. Others(e)
  BY <1>1, <1>3 DEF Others, Shape, taskVars
<1>8. Grows
  BY <1>1, <1>2 DEF Grows
<1>9. NameOf(e)' = NameOf(e)
  BY <1>5, <1>6 DEF NameOf
<1>10. Progress(e)' /\ dependency'[e] = 1
  BY <1>1, <1>2, <1>6 DEF Progress, Committing, InTarget
<1>11. sbom'[e].instance <= Len(sboms') + 1
  BY <1>1, <1>2, <1>5, <1>6, Zenon
<1>12. InTarget(e)'
  BY <1>1, <1>2, <1>4, <1>5, <1>6, <1>9, <1>10, <1>11, SameTarget
<1> QED
  BY <1>1, <1>6, <1>7, <1>8, <1>12, ContinueStep DEF Committing

------------------------------------------------------------------------------
(* commit_target, step by step. *)

\* The document is inserted, with or without the execution knowing.
LEMMA Inserted ==
  ASSUME SyncInv, IInv, NEW e \in Executions, At(e, "stored"), UNCHANGED taskVars,
         sboms' = Insert(sboms, SbomDoc(e)), files' = files, entities' = entities,
         sbom' = sbom, dependency' = dependency, step' = [step EXCEPT ![e] = "package"],
         failed' \in [Executions -> BOOLEAN], \A f \in Executions \ {e} : failed'[f] = failed[f]
  PROVE  SyncInv'
<1> DEFINE doc == SbomDoc(e)
<1>1. /\ step[e] = "stored" /\ InTarget(e) /\ Len(sboms) \in Nat
      /\ sbom[e].purl \in Purls \ {""} /\ sbom[e].instance \in Nat \ {0}
      /\ sbom[e].project \in Keys /\ sbom[e].checksum \in Raws \cup {Truncated}
      /\ sbom[e].instance <= Len(sboms) + 1
  BY AtStep
<1>2. Shape /\ sboms \in Seq(SbomDocs)
  BY DEF SyncInv, Shape
<1>3. doc \in SbomDocs /\ doc.project = sbom[e].project /\ doc.purl = sbom[e].purl
      /\ doc.instance = sbom[e].instance
  BY <1>1 DEF SbomDoc, SbomDocs
<1> HIDE DEF doc
<1>4. sboms' = Append(sboms, doc)
  BY DEF Insert, doc
<1>5. /\ sboms' \in Seq(SbomDocs) /\ Len(sboms') = Len(sboms) + 1 /\ Len(sboms') \in Nat
      /\ DOMAIN sboms' = DOMAIN sboms \cup {Len(sboms) + 1} /\ Len(sboms) + 1 \notin DOMAIN sboms
      /\ sboms'[Len(sboms) + 1] = doc /\ \A i \in DOMAIN sboms : sboms'[i] = sboms[i]
  BY <1>2, <1>3, <1>4
<1>6. Shape' /\ step'[e] = "package"
  BY <1>2, <1>5 DEF Shape, Steps, Committing
<1>7. Others(e) /\ pc' = pc /\ targets' = targets /\ next' = next /\ errors' = errors
  BY <1>2 DEF Others, Shape, taskVars
<1>8. Grows
  <2>1. \A a, b \in Nat : b = a + 1 => b >= a
    OBVIOUS
  <2>2. Len(sboms') >= Len(sboms)
    BY <1>1, <1>5, <2>1, Zenon
  <2> QED
    BY <2>2 DEF Grows
<1>9. InTarget(e)'
  <2>1. Progress(e)'
    BY <1>6 DEF Progress
  <2>2. sbom'[e].instance <= Len(sboms') + 1
    <3>1. \A a, b, c \in Nat : a <= b + 1 /\ c = b + 1 => a <= c + 1
      OBVIOUS
    <3>2. sbom'[e].instance = sbom[e].instance /\ sbom[e].instance \in Nat
      BY <1>1
    <3> QED
      BY <1>1, <1>5, <3>1, <3>2, Zenon
  <2>3. dependency'[e] = 1 /\ sbom'[e] \in Sboms
    BY <1>1 DEF InTarget
  <2> QED
    BY <1>1, <1>6, <2>1, <2>2, <2>3, SameTarget
<1>10. ASSUME NEW f \in Executions
       PROVE  /\ InPlace(f)' /\ Recorded(f)'
              /\ \A k : HasDone(f, k)' => HasDone(f, k) \/ (f = e /\ k = sbom[e].project)
  <2>1. CASE f # e
    <3>1. InPlace(f) /\ Recorded(f) /\ f \in Executions \ {e}
      BY <2>1 DEF SyncInv, InPlace
    <3> QED
      BY <1>1, <1>2, <1>5, <1>7, <1>8, <3>1, OthersKeep
  <2>2. CASE f = e
    <3>1. InPlace(e)'
      BY <1>6, <1>9 DEF InPlace
    <3>2. Recorded(e)'
      BY <1>7, <1>8, RecordStays DEF SyncInv, Recorded
    <3>3. Target(e) = sbom[e].project
      BY <1>1 DEF InTarget
    <3>4. \A k : HasDone(e, k)' => HasDone(e, k) \/ k = sbom[e].project
      BY <1>7, <3>3 DEF HasDone, Target
    <3> QED
      BY <2>2, <3>1, <3>2, <3>4
  <2> QED
    BY <2>1, <2>2
<1>11. Counted'
  <2> SUFFICES ASSUME NEW k \in Keys, Supported(k)
               PROVE  IsFiniteSet(Done(k)') /\ Cardinality(Done(k)') <= Cardinality(DocumentsFor(k)')
    BY DEF Counted
  <2>1. IsFiniteSet(Done(k)) /\ Cardinality(Done(k)) <= Cardinality(DocumentsFor(k))
    BY DEF SyncInv, Counted
  <2>2. IsFiniteSet(DocumentsFor(k))
    <3>1. DOMAIN sboms = 1..Len(sboms)
      BY <1>2
    <3>2. \A n \in Nat : IsFiniteSet(1..n)
      BY FS_Interval
    <3>3. IsFiniteSet(1..Len(sboms))
      BY <1>1, <3>2, Zenon
    <3> QED
      BY <3>1, <3>3, FS_Subset DEF DocumentsFor
  <2>3. Cardinality(Done(k)) \in Nat /\ Cardinality(DocumentsFor(k)) \in Nat
    BY <2>1, <2>2, FS_CardinalityType
  <2>4. CASE k # sbom[e].project
    <3>1. Done(k)' \subseteq Done(k) /\ DocumentsFor(k)' = DocumentsFor(k)
      BY <1>3, <1>5, <1>10, <2>4 DEF Done, DocumentsFor
    <3>2. IsFiniteSet(Done(k)') /\ Cardinality(Done(k)') <= Cardinality(Done(k))
      BY <2>1, <3>1, FS_Subset
    <3>3. Cardinality(Done(k)') \in Nat
      BY <3>2, FS_CardinalityType
    <3> QED
      BY <2>1, <2>3, <3>1, <3>2, <3>3
  <2>5. CASE k = sbom[e].project
    <3>1. /\ Done(k)' \subseteq Done(k) \cup {e}
          /\ DocumentsFor(k)' = DocumentsFor(k) \cup {Len(sboms) + 1}
          /\ Len(sboms) + 1 \notin DocumentsFor(k)
      BY <1>3, <1>5, <1>10, <2>5 DEF Done, DocumentsFor
    <3>2. /\ IsFiniteSet(Done(k) \cup {e})
          /\ Cardinality(Done(k) \cup {e}) \in {Cardinality(Done(k)), Cardinality(Done(k)) + 1}
      BY <2>1, FS_AddElement
    <3>3. IsFiniteSet(Done(k)') /\ Cardinality(Done(k)') <= Cardinality(Done(k) \cup {e})
      BY <3>1, <3>2, FS_Subset
    <3>4. Cardinality(DocumentsFor(k)') = Cardinality(DocumentsFor(k)) + 1
      BY <2>2, <3>1, FS_AddElement
    <3>5. Cardinality(Done(k)') \in Nat
      BY <3>3, FS_CardinalityType
    <3> QED
      BY <2>1, <2>3, <3>2, <3>3, <3>4, <3>5
  <2> QED
    BY <2>4, <2>5
<1>12. Bounded'
  BY <1>1, <1>3, <1>5 DEF SyncInv, Bounded
<1>13. SbomsHaveFiles'
  <2>1. FileName(doc.purl, doc.instance) \in DOMAIN files
    BY <1>1, <1>3 DEF InTarget, NameOf
  <2> QED
    BY <1>5, <2>1 DEF SyncInv, SbomsHaveFiles, FileName
<1> QED
  BY <1>6, <1>10, <1>11, <1>12, <1>13 DEF SyncInv, InPlace

LEMMA InsertSbomStep ==
  ASSUME SyncInv, IInv, NEW e \in Executions, InsertSbom(e)
  PROVE  SyncInv'
<1>1. /\ At(e, "stored") /\ UNCHANGED taskVars /\ step' = [step EXCEPT ![e] = "package"]
      /\ files' = files /\ entities' = entities /\ sbom' = sbom /\ dependency' = dependency
      /\ failed' \in {failed, [failed EXCEPT ![e] = TRUE]}
  BY DEF InsertSbom, Continue
<1>2. Shape
  BY DEF SyncInv
<1>3. failed' \in [Executions -> BOOLEAN] /\ \A f \in Executions \ {e} : failed'[f] = failed[f]
  BY <1>1, <1>2 DEF Shape
<1>4. CASE sboms' = Insert(sboms, SbomDoc(e))
  BY <1>1, <1>3, <1>4, Inserted
<1>5. CASE sboms' = sboms /\ failed' = [failed EXCEPT ![e] = TRUE]
  <2>1. step[e] = "stored" /\ InTarget(e) /\ Len(sboms) \in Nat /\ sbom[e] \in Sboms
        /\ sbom[e].instance <= Len(sboms) + 1
    BY <1>1, AtStep
  <2>2. Shape' /\ step'[e] = "package" /\ failed'[e]
    BY <1>1, <1>2, <1>5 DEF Shape, Steps, Committing
  <2>3. Others(e)
    BY <1>1, <1>2, <1>3 DEF Others, Shape, taskVars
  <2>4. Grows
    BY <1>1, <1>5, <2>1 DEF Grows
  <2>5. dependency'[e] = 1
    BY <1>1, <2>1 DEF InTarget
  <2>6. InTarget(e)'
    BY <1>1, <1>5, <2>1, <2>2, <2>5, SameTarget
  <2> QED
    BY <1>1, <1>5, <2>2, <2>3, <2>4, <2>6, ContinueStep
<1> QED
  BY <1>4, <1>5 DEF InsertSbom

\* An upsert of commit_target records its entity or keeps an error, and the next one
\* follows whether it has failed or not.
Recording(e, entity) ==
  /\ entity.kind \in {"package", "purl", "dependency"}
  /\ entities' \in {entities, entities \cup {entity}}
  /\ failed' \in {failed, [failed EXCEPT ![e] = TRUE]}
  /\ ~failed'[e] => ~failed[e] /\ entity \in entities'

Advance(e, t, d) ==
  /\ t \in Committing \ {"package"} /\ d \in Nat \ {0}
  /\ Continue(e, t) /\ dependency' = [dependency EXCEPT ![e] = d]
  /\ sboms' = sboms /\ files' = files /\ sbom' = sbom
  /\ t = "purl" => d = 1
  /\ t = "dependency purl" => More(e)'

LEMMA CommitStep ==
  ASSUME SyncInv, IInv, NEW e \in Executions, Processing(e), step[e] \in Committing,
         NEW entity, Recording(e, entity), NEW t, NEW d, Advance(e, t, d),
         ~failed[e] /\ entity \in entities' => Progress(e)'
  PROVE  SyncInv'
<1>1. InTarget(e) /\ sboms \in Seq(SbomDocs) /\ Shape
  BY DEF SyncInv, Committing, Shape
<1>2. sbom[e] \in Sboms /\ sbom[e].instance <= Len(sboms) + 1
  BY <1>1 DEF InTarget
<1>3. UNCHANGED taskVars /\ step' = [step EXCEPT ![e] = t] /\ t \in Committing /\ t # "package"
      /\ dependency' = [dependency EXCEPT ![e] = d] /\ d \in Nat \ {0}
      /\ sboms' = sboms /\ files' = files /\ sbom' = sbom
  BY DEF Continue, Advance
<1>4. /\ entities' \in {entities, entities \cup {entity}}
      /\ entity.kind \in {"unsupported", "package", "purl", "dependency"}
      /\ failed' \in {failed, [failed EXCEPT ![e] = TRUE]}
      /\ ~failed'[e] => ~failed[e] /\ entity \in entities'
  BY DEF Recording
<1>5. Shape' /\ step'[e] = t /\ dependency'[e] = d
  BY <1>1, <1>3, <1>4 DEF Shape, Steps
<1>6. Others(e)
  BY <1>1, <1>3, <1>4 DEF Others, Shape, taskVars
<1>7. Grows
  <2>1. Len(sboms) \in Nat
    BY <1>1
  <2> QED
    BY <1>3, <1>4, <2>1 DEF Grows
<1>8. ~failed'[e] => Progress(e)'
  BY <1>4
<1>9. /\ step'[e] \notin {"dependencies", "dependency purl"} => dependency'[e] = 1
      /\ step'[e] = "dependency purl" => More(e)'
      /\ step'[e] \notin {"idle", "written", "stored"}
  BY <1>3, <1>5 DEF Advance, Committing
<1>10. InTarget(e)'
  BY <1>1, <1>2, <1>3, <1>5, <1>8, <1>9, SameTarget
<1>11. sboms' = sboms /\ UNCHANGED taskVars
       /\ (~failed'[e] => step[e] \in Committing /\ ~failed[e])
  BY <1>3, <1>4
<1> QED
  BY <1>5, <1>6, <1>7, <1>9, <1>10, <1>11, ContinueStep

LEMMA CommitPackageStep ==
  ASSUME SyncInv, IInv, NEW e \in Executions, CommitPackage(e)
  PROVE  SyncInv'
<1>1. /\ At(e, "package") /\ Commit(e, Package(sbom[e].purl), TRUE) /\ Continue(e, "purl")
      /\ sboms' = sboms /\ files' = files /\ sbom' = sbom /\ dependency' = dependency
  BY DEF CommitPackage
<1>2. Processing(e) /\ step[e] = "package" /\ InTarget(e) /\ Shape
  BY <1>1 DEF At, SyncInv
<1>3. dependency' = [dependency EXCEPT ![e] = 1] /\ step'[e] = "purl"
  BY <1>1, <1>2 DEF InTarget, Shape, Continue
<1>4. Advance(e, "purl", 1)
  <2>1. 1 \in Nat \ {0}
    OBVIOUS
  <2>2. "purl" \in Committing \ {"package"} /\ "purl" # "dependency purl"
    BY DEF Committing
  <2> QED
    BY <1>1, <1>3, <2>1, <2>2, Zenon DEF Advance
<1>5. Recording(e, Package(sbom[e].purl))
  BY <1>1, <1>2 DEF Recording, Commit, Package, Shape
<1>6. Package(sbom[e].purl) \in entities' => Progress(e)'
  BY <1>1, <1>3 DEF Progress
<1>7. step[e] \in Committing
  BY <1>2 DEF Committing
<1> QED
  BY <1>2, <1>4, <1>5, <1>6, <1>7, CommitStep

LEMMA CommitPurlStep ==
  ASSUME SyncInv, IInv, NEW e \in Executions, CommitPurl(e)
  PROVE  SyncInv'
<1>1. /\ At(e, "purl") /\ Commit(e, Purl(sbom[e].purl), sbom[e].purl # "")
      /\ Continue(e, "dependencies")
      /\ sboms' = sboms /\ files' = files /\ sbom' = sbom /\ dependency' = dependency
  BY DEF CommitPurl
<1>2. Processing(e) /\ step[e] = "purl" /\ InTarget(e) /\ Shape
  BY <1>1 DEF At, SyncInv
<1>3. dependency' = [dependency EXCEPT ![e] = 1] /\ step'[e] = "dependencies" /\ dependency'[e] = 1
  BY <1>1, <1>2 DEF InTarget, Shape, Continue
<1>4. Advance(e, "dependencies", 1)
  <2>1. 1 \in Nat \ {0}
    OBVIOUS
  <2>2. "dependencies" \in Committing \ {"package"} /\ "dependencies" # "dependency purl"
    BY DEF Committing
  <2> QED
    BY <1>1, <1>3, <2>1, <2>2, Zenon DEF Advance
<1>5. Recording(e, Purl(sbom[e].purl)) /\ entities \subseteq entities'
  BY <1>1, <1>2 DEF Recording, Commit, Purl, Shape
<1>6. ~failed[e] /\ Purl(sbom[e].purl) \in entities' => Progress(e)'
  <2>1. ~failed[e] => Package(sbom[e].purl) \in entities
    BY <1>2 DEF InTarget, Progress, Committing
  <2>2. \A n : n \notin 1..(1 - 1)
    OBVIOUS
  <2>3. \A n \in 1..(dependency'[e] - 1) : FALSE
    BY <1>3, <2>2, Zenon
  <2> QED
    BY <1>1, <1>3, <1>5, <2>1, <2>3 DEF Progress
<1>7. step[e] \in Committing
  BY <1>2 DEF Committing
<1> QED
  BY <1>2, <1>4, <1>5, <1>6, <1>7, CommitStep

LEMMA CommitDependencyStep ==
  ASSUME SyncInv, IInv, NEW e \in Executions, CommitDependency(e)
  PROVE  SyncInv'
<1>1. /\ At(e, "dependencies") /\ More(e)
      /\ Commit(e, Dependency(sbom[e].purl, Current(e)), TRUE) /\ Continue(e, "dependency purl")
      /\ sboms' = sboms /\ files' = files /\ sbom' = sbom /\ dependency' = dependency
  BY DEF CommitDependency
<1>2. Processing(e) /\ step[e] = "dependencies" /\ InTarget(e) /\ Shape
  BY <1>1 DEF At, SyncInv
<1>3. /\ dependency' = [dependency EXCEPT ![e] = dependency[e]] /\ dependency[e] \in Nat \ {0}
      /\ step'[e] = "dependency purl" /\ More(e)' /\ Current(e)' = Current(e)
  BY <1>1, <1>2 DEF Shape, Continue, More, Current
<1>4. Advance(e, "dependency purl", dependency[e])
  BY <1>1, <1>3 DEF Advance, Committing
<1>5. Recording(e, Dependency(sbom[e].purl, Current(e))) /\ entities \subseteq entities'
  BY <1>1, <1>2 DEF Recording, Commit, Dependency, Shape
<1>6. ~failed[e] /\ Dependency(sbom[e].purl, Current(e)) \in entities' => Progress(e)'
  <2>1. ~failed[e] => Progress(e)
    BY <1>2 DEF InTarget
  <2> QED
    BY <1>1, <1>2, <1>3, <1>5, <2>1 DEF Progress, Committing
<1>7. step[e] \in Committing
  BY <1>2 DEF Committing
<1> QED
  BY <1>2, <1>4, <1>5, <1>6, <1>7, CommitStep

LEMMA CommitDependencyPurlStep ==
  ASSUME SyncInv, IInv, NEW e \in Executions, CommitDependencyPurl(e)
  PROVE  SyncInv'
<1> DEFINE d == dependency[e] + 1
<1>1. /\ At(e, "dependency purl") /\ Commit(e, Purl(Current(e)), Current(e) # "")
      /\ Continue(e, "dependencies") /\ dependency' = [dependency EXCEPT ![e] = d]
      /\ sboms' = sboms /\ files' = files /\ sbom' = sbom
  BY DEF CommitDependencyPurl
<1>2. Processing(e) /\ step[e] = "dependency purl" /\ InTarget(e) /\ Shape
  BY <1>1 DEF At, SyncInv
<1>3. d \in Nat \ {0} /\ \A n \in 1..(d - 1) : n \in 1..(dependency[e] - 1) \/ n = dependency[e]
  <2>1. dependency[e] \in Nat \ {0}
    BY <1>2 DEF Shape
  <2> QED
    BY <2>1
<1> HIDE DEF d
<1>4. step'[e] = "dependencies" /\ dependency'[e] = d
  BY <1>1, <1>2 DEF Shape, Continue
<1>5. Advance(e, "dependencies", d)
  BY <1>1, <1>3 DEF Advance, Committing
<1>6. Recording(e, Purl(Current(e))) /\ entities \subseteq entities'
  BY <1>1, <1>2 DEF Recording, Commit, Purl, Shape
<1>7. ASSUME ~failed[e], Purl(Current(e)) \in entities' PROVE Progress(e)'
  <2>1. /\ Package(sbom[e].purl) \in entities /\ Purl(sbom[e].purl) \in entities
        /\ Dependency(sbom[e].purl, Current(e)) \in entities
        /\ \A n \in 1..(dependency[e] - 1) :
             /\ Dependency(sbom[e].purl, sbom[e].dependencies[n]) \in entities
             /\ Purl(sbom[e].dependencies[n]) \in entities
    BY <1>2, <1>7 DEF InTarget, Progress, Committing
  <2>2. \A n \in 1..(d - 1) :
          /\ Dependency(sbom[e].purl, sbom[e].dependencies[n]) \in entities'
          /\ Purl(sbom[e].dependencies[n]) \in entities'
    BY <1>3, <1>6, <1>7, <2>1 DEF Current
  <2> QED
    BY <1>1, <1>4, <1>6, <2>1, <2>2 DEF Progress
<1>8. step[e] \in Committing
  BY <1>2 DEF Committing
<1> QED
  BY <1>2, <1>5, <1>6, <1>7, <1>8, CommitStep

\* commit_target returns: without an error, everything the Sbom names is on record.
LEMMA EndCommitStep ==
  ASSUME SyncInv, IInv, NEW e \in Executions, EndCommit(e)
  PROVE  SyncInv'
<1>0. PICK k : k = Target(e)
  OBVIOUS
<1>1. /\ At(e, "dependencies") /\ ~More(e) /\ Finish(e, failed[e])
      /\ sboms' = sboms /\ files' = files /\ entities' = entities
  BY DEF EndCommit
<1>2. Shape /\ failed[e] \in BOOLEAN /\ dependency[e] \in Nat
  BY DEF SyncInv, Shape
<1>3. /\ step[e] = "dependencies" /\ InTarget(e) /\ sbom[e].dependencies \in Seq(Purls)
  BY <1>1, AtStep
<1>4. Supported(k) /\ ~NotSupported(k)
  BY <1>0, <1>3 DEF InTarget, Supported, NotSupported
<1>5. ~failed[e] => OnRecord(k)'
  <2> SUFFICES ASSUME ~failed[e] PROVE \E cdx \in Taken[k] : Named(cdx) \subseteq entities
    BY <1>1, <1>4 DEF OnRecord
  <2>1. PICK cdx \in Taken[k] : cdx.purl = sbom[e].purl /\ cdx.dependencies = sbom[e].dependencies
    BY <1>0, <1>3 DEF InTarget
  <2>2. Progress(e)
    BY <1>3 DEF InTarget
  <2>3. DOMAIN cdx.dependencies \subseteq 1..(dependency[e] - 1)
    BY <1>1, <1>2, <1>3, <2>1 DEF More
  <2>4. \A n \in DOMAIN cdx.dependencies :
          /\ Dependency(cdx.purl, cdx.dependencies[n]) \in entities
          /\ Purl(cdx.dependencies[n]) \in entities
    BY <1>3, <2>1, <2>2, <2>3 DEF Progress
  <2>5. Package(cdx.purl) \in entities /\ Purl(cdx.purl) \in entities
    BY <1>3, <2>1, <2>2 DEF Progress, Committing
  <2> QED
    BY <2>4, <2>5 DEF Named
<1>6. /\ \A n \in DOMAIN files' : files'[n] \in Raws \cup {Truncated}
      /\ \A x \in entities' : x.kind \in {"unsupported", "package", "purl", "dependency"}
  BY <1>1, <1>2 DEF Shape
<1> QED
  BY <1>0, <1>1, <1>2, <1>3, <1>5, <1>6, FinishStep DEF Committing

------------------------------------------------------------------------------
(* The invariant holds. *)

\* The steps of execute() around the loop, and a crash inside it.
LEMMA ScriptStep ==
  ASSUME SyncInv, IInv, NEW e \in Executions, SyncScript(e) \/ Gather(e) \/ SyncCrash(e)
  PROVE  SyncInv'
<1>1. UNCHANGED syncVars /\ sboms' = sboms
      /\ (InitTask(e) \/ Fetch(e) \/ FetchFails(e) \/ EndRun(e) \/ Complete(e) \/ Crash(e))
  BY DEF SyncScript, Gather, SyncCrash, syncVars
<1>2. Shape /\ sboms \in Seq(SbomDocs) /\ InPlace(e) /\ Recorded(e)
  BY DEF SyncInv, Shape, InPlace
<1>3. Shape'
  BY <1>1, <1>2 DEF Shape, syncVars
<1>4. \A f \in Executions \ {e} : /\ pc'[f] = pc[f] /\ next'[f] = next[f]
                                  /\ targets'[f] = targets[f] /\ errors'[f] = errors[f]
  BY <1>1 DEF IInv, TypeOK, InitTask, Fetch, FetchFails, EndRun, Complete, Crash, Write, Goto
<1>5. Others(e)
  BY <1>1, <1>4 DEF Others, syncVars
<1>6. Grows
  <2>1. Len(sboms) \in Nat
    BY <1>2
  <2> QED
    BY <1>1, <2>1 DEF Grows, syncVars
<1>7. next'[e] = next[e] /\ errors'[e] = errors[e] /\ step'[e] = step[e] /\ sbom'[e] = sbom[e]
      /\ dependency'[e] = dependency[e] /\ failed'[e] = failed[e]
  BY <1>1 DEF syncVars, InitTask, Fetch, FetchFails, EndRun, Complete, Crash
<1>8. CASE Crash(e)
  <2>1. targets' = targets /\ pc'[e] = "dead"
    BY <1>8 DEF Crash, Goto, IInv, TypeOK
  <2>2. InTarget(e) => InTarget(e)'
    BY <1>1, <1>7, <2>1 DEF InTarget, Target, NameOf, More, Progress, Current, syncVars
  <2>3. InPlace(e)'
    BY <1>2, <1>7, <2>2 DEF InPlace, Between
  <2>4. Recorded(e)'
    BY <1>2, <1>6, <1>7, <2>1, RecordStays DEF Recorded
  <2>5. \A k : HasDone(e, k)' => HasDone(e, k)
    BY <1>7, <2>1 DEF HasDone, Target
  <2> QED
    BY <1>1, <1>3, <1>5, <1>6, <2>3, <2>4, <2>5, SameDocuments
<1>9. CASE ~Crash(e)
  <2>1. step[e] = "idle"
    BY <1>1, <1>2, <1>9
    DEF InPlace, InTarget, InitTask, Fetch, FetchFails, EndRun, Complete
  <2>2. InPlace(e)'
    BY <1>2, <1>7, <2>1 DEF InPlace, Between
  <2>3. targets'[e] = targets[e] \/ next[e] = 1
    BY <1>1, <1>9
    DEF InitTask, Fetch, FetchFails, EndRun, Complete, IInv, Stage, Fresh
  <2>4. CASE targets'[e] = targets[e]
    <3>1. Recorded(e)'
      BY <1>2, <1>6, <1>7, <2>4, RecordStays DEF Recorded
    <3>2. \A k : HasDone(e, k)' => HasDone(e, k)
      BY <1>7, <2>1, <2>4 DEF HasDone, Committing
    <3> QED
      BY <1>1, <1>3, <1>5, <1>6, <2>2, <3>1, <3>2, SameDocuments
  <2>5. CASE next[e] = 1
    <3>1. IInv'
      BY <1>1, InitTaskIInv, FetchIInv, FetchFailsIInv, EndRunIInv, CompleteIInv, CrashIInv
    <3>2. \A n \in DOMAIN targets'[e] : ~(n < next'[e])
      <4>1. targets'[e] \in TargetLists \cup {<<>>}
        BY <3>1 DEF IInv, TypeOK
      <4>2. targets'[e] = <<>> \/ DOMAIN targets'[e] = 1..Len(targets'[e])
        BY <4>1, ListTyped
      <4>3. \A n \in DOMAIN targets'[e] : n \in Nat /\ n >= 1
        BY <4>2
      <4> QED
        BY <1>7, <2>5, <4>3
    <3>3. Recorded(e)'
      BY <3>2 DEF Recorded
    <3>4. \A k : HasDone(e, k)' => HasDone(e, k)
      BY <1>7, <2>1, <3>2 DEF HasDone, Committing
    <3> QED
      BY <1>1, <1>3, <1>5, <1>6, <2>2, <3>3, <3>4, SameDocuments
  <2> QED
    BY <2>3, <2>4, <2>5
<1> QED
  BY <1>8, <1>9

LEMMA InitSyncInv == SyncInit => SyncInv
<1> SUFFICES ASSUME SyncInit PROVE SyncInv
  OBVIOUS
<1>1. sboms = <<>> /\ sboms \in Seq(SbomDocs) /\ DOMAIN sboms = {}
  BY DEF SyncInit
<1>2. Shape
  <2>1. 1 \in Nat \ {0} /\ DOMAIN files = {}
    BY DEF SyncInit
  <2> QED
    BY <1>1, <2>1 DEF SyncInit, Shape, Steps
<1>3. \A e \in Executions : step[e] = "idle" /\ Between(e) /\ DOMAIN targets[e] = {}
  BY DEF SyncInit, Init, Between
<1>4. \A e \in Executions : Recorded(e)
  BY <1>3 DEF Recorded
<1>5. \A k : Done(k) = {} /\ DocumentsFor(k) = {}
  BY <1>1, <1>3 DEF Done, HasDone, DocumentsFor, Committing
<1>6. Counted
  BY <1>5, FS_EmptySet DEF Counted
<1>7. Bounded /\ SbomsHaveFiles
  BY <1>1 DEF Bounded, SbomsHaveFiles
<1> QED
  BY <1>2, <1>3, <1>4, <1>6, <1>7 DEF SyncInv

LEMMA NextSyncInv == SyncInv /\ IInv /\ [SyncNext]_vars => SyncInv'
<1>1. ASSUME SyncInv, IInv, NEW e \in Executions, SyncWork(e) \/ SyncCrash(e)
      PROVE  SyncInv'
  BY <1>1, ScriptStep, SkipStep, UnsupportedStep, RawArrivesStep, SetInstanceStep,
     PutObjectStep, WriteFileStep, ReadChecksumStep, InsertSbomStep, CommitPackageStep,
     CommitPurlStep, CommitDependencyStep, CommitDependencyPurlStep, EndCommitStep
  DEF SyncWork, SyncTarget
<1>2. ASSUME SyncInv, UNCHANGED vars PROVE SyncInv'
  <2>1. UNCHANGED taskVars /\ UNCHANGED syncVars /\ SyncInv
    BY <1>2 DEF vars
  <2>2. \A k : OnRecord(k) => OnRecord(k)'
    BY <2>1 DEF OnRecord, syncVars
  <2>3. ASSUME NEW e \in Executions, InTarget(e) PROVE InTarget(e)'
    <3>1. /\ sboms' = sboms /\ files' = files /\ entities' = entities /\ step' = step
          /\ sbom' = sbom /\ dependency' = dependency /\ failed' = failed
          /\ pc' = pc /\ next' = next /\ targets' = targets
      BY <2>1 DEF syncVars, taskVars
    <3>2. Target(e)' = Target(e) /\ NameOf(e)' = NameOf(e) /\ More(e)' = More(e)
      BY <3>1 DEF Target, NameOf, More
    <3>3. Progress(e)' = Progress(e)
      BY <3>1 DEF Progress, Current
    <3> QED
      BY <2>3, <3>1, <3>2, <3>3 DEF InTarget
  <2>4. \A e \in Executions : (IF step[e] = "idle" THEN Between(e) ELSE InTarget(e))'
    BY <2>1, <2>3 DEF SyncInv, Between, syncVars
  <2>5. \A e \in Executions : Recorded(e)'
    BY <2>1, <2>2 DEF SyncInv, Recorded, taskVars
  <2>6. \A k : Done(k)' = Done(k) /\ DocumentsFor(k)' = DocumentsFor(k)
    BY <2>1 DEF Done, HasDone, DocumentsFor, Target, taskVars, syncVars
  <2>7. Shape' /\ Counted' /\ Bounded' /\ SbomsHaveFiles'
    BY <2>1, <2>6 DEF SyncInv, Shape, Counted, Bounded, SbomsHaveFiles, syncVars
  <2> QED
    BY <2>4, <2>5, <2>7 DEF SyncInv
<1> QED
  BY <1>1, <1>2 DEF SyncNext

LEMMA AlwaysSyncInv == SyncSpec => [](SyncInv /\ IInv)
<1>1. SyncInit => SyncInv /\ IInv
  BY InitSyncInv, InitIInv DEF SyncInit
<1>2. SyncInv /\ IInv /\ [SyncNext]_vars => SyncInv' /\ IInv'
  BY NextSyncInv, SyncStepIsTask, NextIInv
<1> QED
  BY <1>1, <1>2, PTL DEF SyncSpec

\* What a sync keeps in memory, on file and on record is well formed, and an execution
\* that is not processing a project holds no Sbom.
THEOREM SyncTypeCorrect == SyncSpec => []SyncTypeOK
<1>1. ASSUME SyncInv, IInv PROVE SyncTypeOK
  <2>1. Shape
    BY <1>1 DEF SyncInv
  <2>2. ASSUME NEW e \in Executions
        PROVE  /\ step[e] # "idle" <=> sbom[e] # NoSbom
               /\ pc[e] \in {"new", "running", "completing"} => step[e] = "idle"
    <3>1. IF step[e] = "idle" THEN Between(e) ELSE InTarget(e)
      BY <1>1 DEF SyncInv
    <3>2. NoSbom \notin Sboms
      <4>1. \A s \in Sboms : "purl" \in DOMAIN s
        BY DEF Sboms
      <4>2. "purl" \notin DOMAIN NoSbom
        BY DEF NoSbom
      <4> QED
        BY <4>1, <4>2
    <3> QED
      BY <3>1, <3>2 DEF Between, InTarget
  <2> QED
    BY <2>1, <2>2 DEF SyncTypeOK, Shape, SbomDocs
<1> QED
  BY <1>1, AlwaysSyncInv, PTL

\* Whatever syncs overlap and wherever they fail, the file of an Sbom document is there.
THEOREM DocumentsHaveFiles == SyncSpec => []SbomsHaveFiles
<1>1. SyncInv => SbomsHaveFiles
  BY DEF SyncInv
<1> QED
  BY <1>1, AlwaysSyncInv, PTL

\* A Task that ends as Complete has left a document of its own for every supported project
\* it counted, and everything an Sbom of the project names is on record.
THEOREM CompleteMeansCommitted == SyncSpec => []CompleteIsCommitted
<1>1. ASSUME SyncInv, IInv, StatusTruthful PROVE CompleteIsCommitted
  <2> SUFFICES ASSUME NEW k \in Keys,
                      NEW e \in Executions, Status(e) = "Complete",
                      \E n \in DOMAIN targets[e] : targets[e][n] = k
               PROVE  /\ OnRecord(k)
                      /\ Supported(k) =>
                           Cardinality({i \in DOMAIN sboms : sboms[i].project = k})
                             >= Cardinality({f \in Executions : Status(f) = "Complete"
                                     /\ \E n \in DOMAIN targets[f] : targets[f][n] = k})
    <3>1. \A k : Supported(k) => ~NotSupported(k)
      BY DEF Supported, NotSupported
    <3> QED
      BY <3>1 DEF CompleteIsCommitted, OnRecord
  <2> DEFINE finished == {f \in Executions : Status(f) = "Complete"
                            /\ \E n \in DOMAIN targets[f] : targets[f][n] = k}
  <2>1. ASSUME NEW f \in Executions, Status(f) = "Complete"
        PROVE  errors[f] = {} /\ \A n \in DOMAIN targets[f] : n < next[f]
    <3>1. next[f] = Len(targets[f]) + 1 /\ errors[f] = {} /\ targets[f] # <<>>
      BY <1>1, <2>1 DEF StatusTruthful, Terminal, Statuses
    <3>2. targets[f] \in TargetLists
      BY <1>1, <3>1 DEF IInv, TypeOK
    <3>3. DOMAIN targets[f] = 1..Len(targets[f]) /\ Len(targets[f]) \in Nat
      BY <3>2, ListTyped
    <3>4. \A m \in Nat : \A n \in 1..m : n < m + 1
      OBVIOUS
    <3> QED
      BY <3>1, <3>3, <3>4, Zenon
  <2>2. OnRecord(k)
    BY <1>1, <2>1 DEF SyncInv, Recorded
  <2>3. finished \subseteq Done(k)
    BY <2>1 DEF Done, HasDone
  <2>4. ASSUME Supported(k) PROVE Cardinality(DocumentsFor(k)) >= Cardinality(finished)
    <3>1. IsFiniteSet(Done(k)) /\ Cardinality(Done(k)) <= Cardinality(DocumentsFor(k))
      BY <1>1, <2>4 DEF SyncInv, Counted
    <3> HIDE DEF finished
    <3>2. IsFiniteSet(finished) /\ Cardinality(finished) <= Cardinality(Done(k))
      BY <2>3, <3>1, FS_Subset
    <3>3. IsFiniteSet(DocumentsFor(k))
      <4>1. sboms \in Seq(SbomDocs)
        BY <1>1 DEF SyncInv, Shape
      <4>2. Len(sboms) \in Nat /\ DOMAIN sboms = 1..Len(sboms)
        BY <4>1
      <4>3. \A n \in Nat : IsFiniteSet(1..n)
        BY FS_Interval
      <4>4. IsFiniteSet(1..Len(sboms))
        BY <4>2, <4>3, Zenon
      <4> QED
        BY <4>2, <4>4, FS_Subset DEF DocumentsFor
    <3>4. /\ Cardinality(finished) \in Nat /\ Cardinality(Done(k)) \in Nat
          /\ Cardinality(DocumentsFor(k)) \in Nat
      BY <3>1, <3>2, <3>3, FS_CardinalityType
    <3> QED
      BY <3>1, <3>2, <3>4
  <2> QED
    BY <2>2, <2>4 DEF DocumentsFor
<1> QED
  BY <1>1, AlwaysSyncInv, SyncTruthful, PTL

------------------------------------------------------------------------------
(* Syncs that do not overlap. *)

Alone == \A e, f \in Executions : Running(e) /\ Running(f) => e = f

\* The instance an execution holds is the next one.
Numbered(e) ==
  pc[e] = "processing" /\ step[e] \in {"numbered", "written", "stored"} =>
    sbom[e].instance = Cardinality(DocumentsOf(sbom[e].purl)) + 1

\* Every instance up to the number of documents is there.
NoneSkipped ==
  \A p \in Purls : \A n \in 1..Cardinality(DocumentsOf(p)) :
    \E i \in DocumentsOf(p) : sboms[i].instance = n

SoloInv == Alone /\ InstancesInOrder /\ NoneSkipped /\ \A e \in Executions : Numbered(e)

\* A step with no bearing on instances and files.
Quiet(e) ==
  /\ sboms' = sboms /\ files' = files
  /\ pc'[e] = "processing" => step'[e] \notin {"numbered", "written", "stored"}

\* A step of one execution leaves the others alone.
LEMMA OthersAlone ==
  ASSUME Shape, IInv, NEW e \in Executions, SyncWork(e) \/ SyncCrash(e)
  PROVE  Others(e)
<1>1. CASE \E err : Finish(e, err)
  BY <1>1 DEF Finish, TargetDone, Others, Shape, IInv, TypeOK
<1>2. CASE UNCHANGED syncVars
           /\ (InitTask(e) \/ Fetch(e) \/ FetchFails(e) \/ EndRun(e) \/ Complete(e) \/ Crash(e))
  BY <1>2 DEF syncVars, Others, IInv, TypeOK, InitTask, Fetch, FetchFails, EndRun, Complete,
              Crash, Write, Goto
<1>3. CASE /\ UNCHANGED taskVars /\ \A f \in Executions \ {e} : step'[f] = step[f]
           /\ \A f \in Executions \ {e} : sbom'[f] = sbom[f]
           /\ \A f \in Executions \ {e} : dependency'[f] = dependency[f]
           /\ \A f \in Executions \ {e} : failed'[f] = failed[f]
  BY <1>3 DEF Others, taskVars
<1>4. CASE SyncScript(e) \/ Gather(e) \/ SyncCrash(e)
  BY <1>2, <1>4 DEF SyncScript, Gather, SyncCrash
<1>5. CASE SkipInactive(e) \/ RecordUnsupported(e) \/ RawFails(e) \/ TargetFails(e) \/ EndCommit(e)
  BY <1>1, <1>5 DEF SkipInactive, RecordUnsupported, RawFails, TargetFails, EndCommit
<1>6. CASE RawArrives(e) \/ SetInstance(e) \/ PutObject(e) \/ WriteFile(e) \/ ReadChecksum(e)
  BY <1>1, <1>3, <1>6
  DEF RawArrives, SetInstance, PutObject, WriteFile, ReadChecksum, Continue, Shape
<1>7. CASE InsertSbom(e) \/ CommitPackage(e) \/ CommitPurl(e) \/ CommitDependency(e)
           \/ CommitDependencyPurl(e)
  BY <1>3, <1>7
  DEF InsertSbom, CommitPackage, CommitPurl, CommitDependency, CommitDependencyPurl, Commit,
      Continue, Shape
<1> QED
  BY <1>4, <1>5, <1>6, <1>7 DEF SyncWork, SyncTarget

\* The steps that have a bearing on them.
LEMMA MostAreQuiet ==
  ASSUME SyncInv, IInv, NEW e \in Executions, SyncWork(e) \/ SyncCrash(e)
  PROVE  \/ Quiet(e) \/ SetInstance(e) \/ PutObject(e) \/ WriteFile(e) \/ ReadChecksum(e)
         \/ InsertSbom(e)
<1>1. Shape
  BY DEF SyncInv
<1>2. ASSUME NEW err, Finish(e, err), sboms' = sboms, files' = files PROVE Quiet(e)
  BY <1>1, <1>2 DEF Finish, Quiet, Shape
<1>3. ASSUME NEW s, Continue(e, s), s \notin {"numbered", "written", "stored"},
             sboms' = sboms, files' = files
      PROVE  Quiet(e)
  BY <1>1, <1>3 DEF Continue, Quiet, Shape
<1>4. CASE SyncCrash(e)
  BY <1>4 DEF SyncCrash, Crash, Goto, syncVars, Quiet, IInv, TypeOK
<1>5. CASE SyncScript(e) \/ Gather(e)
  <2>1. step[e] = "idle"
    BY <1>5 DEF SyncInv, InTarget, SyncScript, Gather, InitTask, Fetch, FetchFails, EndRun, Complete
  <2>2. UNCHANGED syncVars
    BY <1>5 DEF SyncScript, Gather
  <2> QED
    BY <2>1, <2>2 DEF Quiet, syncVars
<1>6. CASE SkipInactive(e) \/ RecordUnsupported(e) \/ RawFails(e) \/ TargetFails(e) \/ EndCommit(e)
  BY <1>2, <1>6 DEF SkipInactive, RecordUnsupported, RawFails, TargetFails, EndCommit
<1>7. CASE RawArrives(e)
  BY <1>2, <1>3, <1>7 DEF RawArrives
<1>8. CASE CommitPackage(e) \/ CommitPurl(e) \/ CommitDependency(e) \/ CommitDependencyPurl(e)
  BY <1>3, <1>8 DEF CommitPackage, CommitPurl, CommitDependency, CommitDependencyPurl
<1> QED
  BY <1>4, <1>5, <1>6, <1>7, <1>8 DEF SyncWork, SyncTarget

\* No sync begins while another one is running.
LEMMA StaysAlone ==
  ASSUME SyncInv, IInv, ~Overlap, Alone, NEW e \in Executions, SyncWork(e) \/ SyncCrash(e)
  PROVE  Alone'
<1>1. \A f \in Executions : f # e => pc'[f] = pc[f]
  BY OthersAlone DEF SyncInv, Others
<1>2. Running(e)' => Running(e) \/ \A f \in Executions : ~Running(f)
  <2>1. CASE SyncScript(e) \/ SyncCrash(e) \/ Gather(e)
    BY <2>1 DEF SyncScript, SyncCrash, Gather, Running, InitTask, Fetch, FetchFails, EndRun,
                Complete, Crash, Write, Goto, IInv, TypeOK
  <2>2. CASE SyncTarget(e)
    BY <2>2, TargetStep DEF TargetDone, Running, taskVars
  <2> QED
    BY <2>1, <2>2 DEF SyncWork
<1> QED
  BY <1>1, <1>2 DEF Alone, Running

\* The documents of a Package URL up to one of them, and how many they are.
LEMMA DocumentsFinite ==
  ASSUME sboms \in Seq(SbomDocs), NEW p
  PROVE  /\ IsFiniteSet(DocumentsOf(p)) /\ Cardinality(DocumentsOf(p)) \in Nat
         /\ \A i \in DocumentsOf(p) :
              /\ Cardinality({j \in 1..i : sboms[j].purl = p}) \in Nat
              /\ Cardinality({j \in 1..i : sboms[j].purl = p}) <= Cardinality(DocumentsOf(p))
<1>1. Len(sboms) \in Nat /\ DOMAIN sboms = 1..Len(sboms)
  OBVIOUS
<1>2. \A n \in Nat : IsFiniteSet(1..n)
  BY FS_Interval
<1>3. IsFiniteSet(1..Len(sboms)) /\ DocumentsOf(p) \subseteq 1..Len(sboms)
  BY <1>1, <1>2 DEF DocumentsOf
<1>4. IsFiniteSet(DocumentsOf(p)) /\ Cardinality(DocumentsOf(p)) \in Nat
  BY <1>3, FS_Subset, FS_CardinalityType
<1>5. ASSUME NEW i \in DocumentsOf(p)
      PROVE  {j \in 1..i : sboms[j].purl = p} \subseteq DocumentsOf(p)
  <2>1. i \in 1..Len(sboms)
    BY <1>3
  <2>2. 1..i \subseteq 1..Len(sboms)
    BY <1>1, <2>1
  <2> QED
    BY <1>1, <2>2 DEF DocumentsOf
<1> QED
  BY <1>4, <1>5, FS_Subset, FS_CardinalityType

\* As long as the instances are in order and none is missing, the next one is one more
\* than there are documents.
LEMMA NextInstanceCounts ==
  ASSUME sboms \in Seq(SbomDocs), Bounded, InstancesInOrder, NoneSkipped, NEW p \in Purls
  PROVE  NextInstance(p) = Cardinality(DocumentsOf(p)) + 1
<1> DEFINE c == Cardinality(DocumentsOf(p))
<1>1. c \in Nat /\ IsFiniteSet(DocumentsOf(p))
  BY DocumentsFinite
<1>2. CASE DocumentsOf(p) = {}
  <2>1. NextInstance(p) = 1 /\ c = 0
    BY <1>2, NextInstanceBounds, FS_EmptySet
  <2> HIDE DEF c
  <2>2. NextInstance(p) = c + 1
    BY <2>1
  <2> QED
    BY <2>2 DEF c
<1>3. CASE DocumentsOf(p) # {}
  <2>1. PICK i \in DocumentsOf(p) : NextInstance(p) = sboms[i].instance + 1
    BY <1>3, NextInstanceBounds
  <2>2. sboms[i].instance = Cardinality({j \in 1..i : sboms[j].purl = p})
    BY DEF InstancesInOrder, DocumentsOf
  <2>3. sboms[i].instance \in Nat /\ sboms[i].instance <= c
    BY <2>2, DocumentsFinite
  <2>4. c # 0
    BY <1>1, <1>3, FS_EmptySet
  <2>5. PICK k \in DocumentsOf(p) : sboms[k].instance = c
    <3>1. c \in 1..c
      BY <1>1, <2>4
    <3> QED
      BY <3>1 DEF NoneSkipped
  <2>6. c < NextInstance(p)
    BY <2>5, NextInstanceBounds
  <2> HIDE DEF c
  <2>7. \A a, b, n \in Nat : a <= b /\ b < n /\ n = a + 1 => n = b + 1
    OBVIOUS
  <2>8. NextInstance(p) \in Nat
    BY <2>1, <2>3
  <2>9. NextInstance(p) = c + 1
    BY <1>1, <2>1, <2>3, <2>6, <2>7, <2>8, Zenon
  <2> QED
    BY <2>9 DEF c
<1> QED
  BY <1>2, <1>3

\* The steps that insert no document.
LEMMA SoloSame ==
  ASSUME SoloInv, NEW e \in Executions, Others(e), Alone', sboms' = sboms, Numbered(e)'
  PROVE  SoloInv'
<1>1. InstancesInOrder' /\ NoneSkipped'
  BY DEF SoloInv, InstancesInOrder, NoneSkipped, DocumentsOf
<1>2. ASSUME NEW f \in Executions, f # e PROVE Numbered(f)'
  BY <1>2 DEF SoloInv, Others, Numbered, DocumentsOf
<1> QED
  BY <1>1, <1>2 DEF SoloInv

\* The step that does.
LEMMA SoloInsert ==
  ASSUME SyncInv, SoloInv, NEW e \in Executions, Others(e), Alone', At(e, "stored"),
         sboms' = Insert(sboms, SbomDoc(e)), step'[e] = "package"
  PROVE  SoloInv'
<1> DEFINE doc == SbomDoc(e)
           p == sbom[e].purl
           last == Len(sboms) + 1
<1>1. /\ step[e] = "stored" /\ pc[e] = "processing" /\ p \in Purls \ {""}
      /\ sbom[e].instance \in Nat \ {0} /\ sbom[e].project \in Keys
      /\ sbom[e].checksum \in Raws \cup {Truncated}
  BY AtStep DEF Processing
<1>2. sboms \in Seq(SbomDocs)
  BY DEF SyncInv, Shape
<1>3. doc \in SbomDocs /\ doc.purl = p /\ doc.instance = sbom[e].instance
  BY <1>1 DEF SbomDoc, SbomDocs
<1> HIDE DEF doc
<1>4. sboms' = Append(sboms, doc)
  BY DEF Insert, doc
<1>5. /\ DOMAIN sboms' = DOMAIN sboms \cup {last} /\ last \notin DOMAIN sboms
      /\ sboms'[last] = doc /\ \A i \in DOMAIN sboms : sboms'[i] = sboms[i]
      /\ DOMAIN sboms = 1..Len(sboms) /\ Len(sboms) \in Nat
      /\ 1..last = 1..Len(sboms) \cup {last}
      /\ \A i \in DOMAIN sboms : 1..i \subseteq DOMAIN sboms
  BY <1>2, <1>3, <1>4
<1> HIDE DEF last, p
<1>6. sbom[e].instance = Cardinality(DocumentsOf(p)) + 1
  BY <1>1 DEF SoloInv, Numbered, p
<1>7. \A q : {i \in DOMAIN sboms' : sboms'[i].purl = q}
               = IF q = p THEN DocumentsOf(q) \cup {last} ELSE DocumentsOf(q)
  BY <1>3, <1>5 DEF DocumentsOf
<1>8. last \notin DocumentsOf(p) /\ IsFiniteSet(DocumentsOf(p)) /\ Cardinality(DocumentsOf(p)) \in Nat
  BY <1>2, <1>5, DocumentsFinite DEF DocumentsOf
<1>9. Cardinality(DocumentsOf(p) \cup {last}) = Cardinality(DocumentsOf(p)) + 1
  BY <1>8, FS_AddElement
<1>10. InstancesInOrder'
  <2> SUFFICES ASSUME NEW i \in DOMAIN sboms'
               PROVE  sboms'[i].instance = Cardinality({j \in 1..i : sboms'[j].purl = sboms'[i].purl})
    BY DEF InstancesInOrder
  <2>1. CASE i \in DOMAIN sboms
    <3>1. {j \in 1..i : sboms'[j].purl = sboms'[i].purl} = {j \in 1..i : sboms[j].purl = sboms[i].purl}
      BY <1>5, <2>1
    <3> QED
      BY <1>5, <2>1, <3>1 DEF SoloInv, InstancesInOrder
  <2>2. CASE i = last
    <3>1. {j \in 1..last : sboms'[j].purl = p} = DocumentsOf(p) \cup {last}
      BY <1>3, <1>5 DEF DocumentsOf
    <3> QED
      BY <1>3, <1>5, <1>6, <1>9, <2>2, <3>1
  <2> QED
    BY <1>5, <2>1, <2>2
<1>11. NoneSkipped'
  <2> SUFFICES ASSUME NEW q \in Purls,
                      NEW n \in 1..Cardinality({i \in DOMAIN sboms' : sboms'[i].purl = q})
               PROVE  \E i \in DOMAIN sboms' : sboms'[i].purl = q /\ sboms'[i].instance = n
    BY DEF NoneSkipped, DocumentsOf
  <2>1. CASE n \in 1..Cardinality(DocumentsOf(q))
    <3>1. PICK i \in DocumentsOf(q) : sboms[i].instance = n
      BY <2>1 DEF SoloInv, NoneSkipped
    <3> QED
      BY <1>5, <3>1 DEF DocumentsOf
  <2>2. CASE n \notin 1..Cardinality(DocumentsOf(q))
    <3>1. q = p
      BY <1>7, <2>2
    <3>2. n = Cardinality(DocumentsOf(p)) + 1
      <4>1. n \in 1..(Cardinality(DocumentsOf(p)) + 1)
        BY <1>7, <1>9, <3>1
      <4>2. \A m \in Nat : \A k \in 1..(m + 1) : k \in 1..m \/ k = m + 1
        OBVIOUS
      <4> QED
        BY <1>8, <2>2, <3>1, <4>1, <4>2, Zenon
    <3> QED
      BY <1>3, <1>5, <1>6, <3>1, <3>2
  <2> QED
    BY <2>1, <2>2
<1>12. \A f \in Executions : Numbered(f)'
  <2>1. Numbered(e)'
    BY DEF Numbered
  <2>2. ASSUME NEW f \in Executions, f # e PROVE Numbered(f)'
    <3>1. pc'[f] # "processing"
      BY <1>1, <2>2 DEF SoloInv, Alone, Running, Others
    <3> QED
      BY <3>1 DEF Numbered
  <2> QED
    BY <2>1, <2>2
<1> QED
  BY <1>10, <1>11, <1>12 DEF SoloInv

LEMMA SoloStep ==
  ASSUME SyncInv, IInv, ~Overlap, SoloInv, NEW e \in Executions, SyncWork(e) \/ SyncCrash(e)
  PROVE  SoloInv'
<1>1. Others(e) /\ Alone' /\ Shape /\ sboms \in Seq(SbomDocs)
  BY OthersAlone, StaysAlone DEF SyncInv, SoloInv, Shape
<1>2. CASE Quiet(e)
  BY <1>1, <1>2, SoloSame DEF Quiet, Numbered
<1>3. CASE SetInstance(e)
  <2>1. /\ sbom'[e].instance = NextInstance(sbom[e].purl) /\ sbom'[e].purl = sbom[e].purl
        /\ sboms' = sboms /\ sbom[e].purl \in Purls
    <3>1. At(e, "parsed") /\ sbom' = [sbom EXCEPT ![e].instance = NextInstance(sbom[e].purl)]
          /\ sboms' = sboms
      BY <1>3 DEF SetInstance
    <3>2. sbom[e] \in Sboms /\ sbom[e].purl \in Purls
      BY <3>1, AtStep
    <3> QED
      BY <1>1, <3>1, <3>2 DEF Shape, Sboms
  <2>2. Numbered(e)'
    BY <1>1, <2>1, NextInstanceCounts DEF Numbered, SyncInv, SoloInv, DocumentsOf
  <2> QED
    BY <1>1, <2>1, <2>2, SoloSame
<1>4. CASE PutObject(e) \/ WriteFile(e) \/ ReadChecksum(e)
  <2>1. /\ sboms' = sboms /\ pc[e] = "processing" /\ step[e] \in {"numbered", "written"}
        /\ sbom[e] \in Sboms
    <3>1. sboms' = sboms /\ \E s \in {"numbered", "written"} : At(e, s)
      BY <1>4 DEF PutObject, WriteFile, ReadChecksum
    <3> QED
      BY <3>1, AtStep DEF Processing
  <2>2. step'[e] = "idle"
        \/ (sbom'[e].instance = sbom[e].instance /\ sbom'[e].purl = sbom[e].purl)
    <3>1. CASE \E err : Finish(e, err)
      BY <1>1, <3>1 DEF Finish, Shape
    <3>2. CASE sbom' = sbom
      BY <3>2
    <3>3. CASE \E c : sbom' = [sbom EXCEPT ![e].checksum = c]
      BY <1>1, <2>1, <3>3 DEF Shape, Sboms
    <3> QED
      BY <1>4, <3>1, <3>2, <3>3 DEF PutObject, WriteFile, ReadChecksum
  <2>3. Numbered(e)'
    BY <2>1, <2>2 DEF SoloInv, Numbered, DocumentsOf
  <2> QED
    BY <1>1, <2>1, <2>3, SoloSame
<1>5. CASE InsertSbom(e)
  <2>1. At(e, "stored") /\ step'[e] = "package"
    BY <1>1, <1>5 DEF InsertSbom, Continue, Shape
  <2>2. CASE sboms' = Insert(sboms, SbomDoc(e))
    BY <1>1, <2>1, <2>2, SoloInsert
  <2>3. CASE sboms' = sboms
    BY <1>1, <2>1, <2>3, SoloSame DEF Numbered
  <2> QED
    BY <1>5, <2>2, <2>3 DEF InsertSbom
<1> QED
  BY <1>2, <1>3, <1>4, <1>5, MostAreQuiet

LEMMA AlwaysSolo ==
  ASSUME ~Overlap
  PROVE  SyncSpec => [](SyncInv /\ IInv /\ SoloInv)
<1>1. SyncInit => SoloInv
  <2> SUFFICES ASSUME SyncInit PROVE SoloInv
    OBVIOUS
  <2>1. sboms = <<>> /\ DOMAIN sboms = {} /\ \A e \in Executions : pc[e] = "new"
    BY DEF SyncInit, Init
  <2>2. \A p : DocumentsOf(p) = {}
    BY <2>1 DEF DocumentsOf
  <2>3. \A p : Cardinality(DocumentsOf(p)) = 0
    BY <2>2, FS_EmptySet
  <2>4. NoneSkipped
    BY <2>3 DEF NoneSkipped
  <2> QED
    BY <2>1, <2>4 DEF SoloInv, Alone, Running, InstancesInOrder, Numbered
<1>2. SyncInv /\ IInv /\ SoloInv /\ [SyncNext]_vars => SoloInv'
  <2>1. ASSUME SyncInv, IInv, SoloInv, UNCHANGED vars PROVE SoloInv'
    BY <2>1 DEF vars, taskVars, syncVars, SoloInv, Alone, Running, InstancesInOrder, NoneSkipped,
                Numbered, DocumentsOf
  <2> QED
    BY <2>1, SoloStep DEF SyncNext
<1> QED
  BY <1>1, <1>2, AlwaysSyncInv, PTL DEF SyncSpec

\* The instances of a Package URL are 1, 2, 3 ... in the order of their documents, when
\* syncs do not overlap.
THEOREM OneAfterTheOther ==
  ASSUME ~Overlap
  PROVE  SyncSpec => []InstancesInOrder
<1>1. SoloInv => InstancesInOrder
  BY DEF SoloInv
<1> QED
  BY <1>1, AlwaysSolo, PTL

------------------------------------------------------------------------------
(* The files of syncs that do not overlap, when no two Package URLs share a name. *)

NamesApart == \A p, q \in Purls : FormatFileName[p] = FormatFileName[q] => p = q

\* What an execution has written is what it was given, and its checksum is of that.
Filed(e) ==
  pc[e] = "processing" =>
    /\ step[e] \in {"written", "stored"} => files[NameOf(e)] = sbom[e].raw
    /\ step[e] = "stored" => sbom[e].checksum = sbom[e].raw

FileInv == FilesMatchChecksums /\ \A e \in Executions : Filed(e)

\* The files of a Package URL's documents are those with its instances up to their number.
Held(p) == {FileName(p, n) : n \in 1..Cardinality(DocumentsOf(p))}

\* The name an execution is about to write is the name of no document.
LEMMA NewName ==
  ASSUME SyncInv, SoloInv, NamesApart, NEW e \in Executions, pc[e] = "processing",
         step[e] = "numbered", NEW p \in Purls
  PROVE  NameOf(e) \notin Held(p)
<1>1. InTarget(e) /\ sboms \in Seq(SbomDocs)
  BY DEF SyncInv, Shape
<1>2. sbom[e].purl \in Purls
  BY <1>1 DEF InTarget, Sboms
<1>3. sbom[e].instance = Cardinality(DocumentsOf(sbom[e].purl)) + 1
  BY DEF SoloInv, Numbered
<1>4. ASSUME NEW n \in 1..Cardinality(DocumentsOf(p)), NameOf(e) = FileName(p, n) PROVE FALSE
  <2>1. FormatFileName[p] = FormatFileName[sbom[e].purl] /\ n = sbom[e].instance
    BY <1>4 DEF NameOf, FileName
  <2>2. p = sbom[e].purl
    BY <1>2, <2>1 DEF NamesApart
  <2>3. Cardinality(DocumentsOf(p)) \in Nat
    BY <1>1, DocumentsFinite
  <2>4. \A c \in Nat : \A m \in 1..c : m # c + 1
    OBVIOUS
  <2> QED
    BY <1>3, <2>1, <2>2, <2>3, <2>4, Zenon
<1> QED
  BY <1>4 DEF Held

\* The document's file is among the files of its Package URL.
LEMMA DocumentHeld ==
  ASSUME SyncInv, InstancesInOrder, NEW i \in DOMAIN sboms
  PROVE  /\ sboms[i].purl \in Purls
         /\ sboms[i].instance \in 1..Cardinality(DocumentsOf(sboms[i].purl))
         /\ FileName(sboms[i].purl, sboms[i].instance) \in Held(sboms[i].purl)
<1> DEFINE p == sboms[i].purl
           n == sboms[i].instance
<1>1. sboms \in Seq(SbomDocs)
  BY DEF SyncInv, Shape
<1>2. sboms[i] \in SbomDocs
  BY <1>1
<1>3. p \in Purls /\ n \in Nat \ {0} /\ i \in DocumentsOf(p)
  BY <1>2 DEF SbomDocs, DocumentsOf
<1>4. n = Cardinality({j \in 1..i : sboms[j].purl = p})
  BY DEF InstancesInOrder
<1>5. n <= Cardinality(DocumentsOf(p)) /\ Cardinality(DocumentsOf(p)) \in Nat
  BY <1>1, <1>3, <1>4, DocumentsFinite
<1> HIDE DEF n, p
<1>6. n \in 1..Cardinality(DocumentsOf(p))
  BY <1>3, <1>5
<1>7. FileName(p, n) \in Held(p)
  BY <1>6 DEF Held
<1> QED
  BY <1>3, <1>6, <1>7 DEF n, p

\* What a step does to the files of documents: nothing.
LEMMA HeldStay ==
  ASSUME SyncInv, IInv, SoloInv, NamesApart, NEW e \in Executions, SyncWork(e) \/ SyncCrash(e)
  PROVE  \A p \in Purls : \A name \in Held(p) : name \in DOMAIN files =>
           name \in DOMAIN files' /\ files'[name] = files[name]
<1>1. CASE files' = files
  BY <1>1
<1>2. CASE At(e, "numbered") /\ \E c : files' = Stored(NameOf(e), c)
  <2>1. \A p \in Purls : NameOf(e) \notin Held(p)
    BY <1>2, NewName DEF At, Processing
  <2>2. PICK c : files' = Stored(NameOf(e), c)
    BY <1>2
  <2>3. \A name \in DOMAIN files : name # NameOf(e) =>
          name \in DOMAIN files' /\ files'[name] = files[name]
    BY <2>2 DEF Stored
  <2> QED
    BY <2>1, <2>3
<1>3. files' = files \/ (At(e, "numbered") /\ \E c : files' = Stored(NameOf(e), c))
  BY MostAreQuiet DEF Quiet, SetInstance, PutObject, WriteFile, ReadChecksum, InsertSbom
<1> QED
  BY <1>1, <1>2, <1>3

LEMMA FileStep ==
  ASSUME SyncInv, IInv, ~Overlap, SoloInv, NamesApart, FileInv,
         NEW e \in Executions, SyncWork(e) \/ SyncCrash(e)
  PROVE  FileInv'
<1>1. Others(e) /\ Alone' /\ Shape /\ sboms \in Seq(SbomDocs) /\ InstancesInOrder
  BY OthersAlone, StaysAlone DEF SyncInv, SoloInv, Shape
<1>2. ASSUME NEW i \in DOMAIN sboms
      PROVE  LET name == FileName(sboms[i].purl, sboms[i].instance)
             IN  name \in DOMAIN files' /\ files'[name] = sboms[i].checksum
  <2>1. FileName(sboms[i].purl, sboms[i].instance) \in Held(sboms[i].purl) /\ sboms[i].purl \in Purls
    BY <1>1, DocumentHeld
  <2>2. LET name == FileName(sboms[i].purl, sboms[i].instance)
        IN  name \in DOMAIN files /\ files[name] = sboms[i].checksum
    BY DEF FileInv, FilesMatchChecksums
  <2> QED
    BY <2>1, <2>2, HeldStay
<1>3. sboms' = sboms => FilesMatchChecksums'
  BY <1>2 DEF FilesMatchChecksums, FileName
<1>4. ASSUME Filed(e)', pc'[e] = "processing"
      PROVE  \A f \in Executions : Filed(f)'
  BY <1>1, <1>4 DEF Filed, Alone, Running
<1>5. ASSUME files' = files
      PROVE  \A f \in Executions : f # e => Filed(f)'
  <2> SUFFICES ASSUME NEW f \in Executions, f # e PROVE Filed(f)'
    OBVIOUS
  <2>1. NameOf(f)' = NameOf(f)
    BY <1>1 DEF Others, NameOf, FileName
  <2> QED
    BY <1>1, <1>5, <2>1 DEF Others, FileInv, Filed
<1>6. CASE Quiet(e)
  <2>1. Filed(e)'
    BY <1>6 DEF Quiet, Filed
  <2> QED
    BY <1>3, <1>5, <1>6, <2>1 DEF Quiet, FileInv
<1>7. CASE SetInstance(e)
  <2>1. Filed(e)' /\ sboms' = sboms /\ files' = files
    BY <1>1, <1>7 DEF SetInstance, Continue, Filed, Shape
  <2> QED
    BY <1>3, <1>5, <2>1 DEF FileInv
<1>8. CASE PutObject(e) \/ WriteFile(e)
  <2>1. At(e, "numbered") /\ sboms' = sboms
    BY <1>8 DEF PutObject, WriteFile
  <2>2. pc[e] = "processing" /\ sbom[e] \in Sboms /\ pc' = pc
    BY <1>8, <2>1, AtStep DEF Processing, PutObject, WriteFile, Finish, TargetDone, Continue, taskVars
  <2>3. Filed(e)'
    <3>1. CASE step'[e] = "idle"
      BY <3>1 DEF Filed
    <3>2. CASE /\ files' = Stored(NameOf(e), sbom[e].raw)
               /\ sbom' = [sbom EXCEPT ![e].checksum = sbom[e].raw]
               /\ Continue(e, "stored")
      <4>1. /\ sbom'[e].raw = sbom[e].raw /\ sbom'[e].checksum = sbom[e].raw
            /\ sbom'[e].purl = sbom[e].purl /\ sbom'[e].instance = sbom[e].instance
        BY <1>1, <2>2, <3>2 DEF Shape, Sboms
      <4>2. NameOf(e)' = NameOf(e)
        BY <4>1 DEF NameOf
      <4>3. files'[NameOf(e)] = sbom[e].raw
        BY <3>2 DEF Stored
      <4> QED
        BY <4>1, <4>2, <4>3 DEF Filed
    <3>3. CASE /\ files' = Stored(NameOf(e), sbom[e].raw) /\ sbom' = sbom
               /\ Continue(e, "written")
      <4>1. NameOf(e)' = NameOf(e) /\ step'[e] = "written"
        BY <1>1, <3>3 DEF NameOf, Continue, Shape
      <4>2. files'[NameOf(e)] = sbom[e].raw
        BY <3>3 DEF Stored
      <4> QED
        BY <3>3, <4>1, <4>2 DEF Filed
    <3> QED
      BY <1>1, <1>8, <3>1, <3>2, <3>3 DEF PutObject, WriteFile, Finish, Shape
  <2> QED
    BY <1>3, <1>4, <2>1, <2>2, <2>3 DEF FileInv
<1>9. CASE ReadChecksum(e)
  <2>1. /\ At(e, "written") /\ sboms' = sboms /\ files' = files
        /\ sbom' = [sbom EXCEPT ![e].checksum = files[NameOf(e)]]
    BY <1>9 DEF ReadChecksum
  <2>2. pc[e] = "processing" /\ step[e] = "written" /\ sbom[e] \in Sboms
    BY <2>1, AtStep DEF Processing
  <2>3. files[NameOf(e)] = sbom[e].raw
    BY <2>2 DEF FileInv, Filed
  <2>4. /\ sbom'[e].raw = sbom[e].raw /\ sbom'[e].checksum = sbom[e].raw
        /\ sbom'[e].purl = sbom[e].purl /\ sbom'[e].instance = sbom[e].instance
    BY <1>1, <2>1, <2>2, <2>3 DEF Shape, Sboms
  <2>5. NameOf(e)' = NameOf(e)
    BY <2>4 DEF NameOf
  <2>6. Filed(e)'
    BY <2>1, <2>3, <2>4, <2>5 DEF Filed
  <2> QED
    BY <1>3, <1>5, <2>1, <2>6 DEF FileInv
<1>10. CASE InsertSbom(e)
  <2>1. At(e, "stored") /\ files' = files /\ step'[e] = "package"
    BY <1>1, <1>10 DEF InsertSbom, Continue, Shape
  <2>2. Filed(e)'
    BY <2>1 DEF Filed
  <2>3. FilesMatchChecksums'
    <3>1. CASE sboms' = sboms
      BY <1>3, <3>1
    <3>2. CASE sboms' = Insert(sboms, SbomDoc(e))
      <4> DEFINE doc == SbomDoc(e)
      <4>1. step[e] = "stored" /\ pc[e] = "processing" /\ InTarget(e)
        BY <2>1, AtStep DEF Processing
      <4>2. FileName(doc.purl, doc.instance) \in DOMAIN files
            /\ files[FileName(doc.purl, doc.instance)] = doc.checksum
        BY <4>1 DEF FileInv, Filed, SbomDoc, NameOf, InTarget
      <4> HIDE DEF doc
      <4>3. sboms' = Append(sboms, doc)
        BY <3>2 DEF Insert, doc
      <4>4. /\ DOMAIN sboms' = DOMAIN sboms \cup {Len(sboms) + 1} /\ sboms'[Len(sboms) + 1] = doc
            /\ \A i \in DOMAIN sboms : sboms'[i] = sboms[i]
        BY <1>1, <4>3
      <4> QED
        BY <1>2, <2>1, <4>2, <4>4 DEF FilesMatchChecksums, FileName
    <3> QED
      BY <1>10, <3>1, <3>2 DEF InsertSbom
  <2> QED
    BY <1>5, <2>1, <2>2, <2>3 DEF FileInv
<1> QED
  BY <1>6, <1>7, <1>8, <1>9, <1>10, MostAreQuiet

LEMMA AlwaysFiled ==
  ASSUME ~Overlap, NamesApart
  PROVE  SyncSpec => [](SyncInv /\ IInv /\ SoloInv /\ FileInv)
<1>1. SyncInit => FileInv
  <2> SUFFICES ASSUME SyncInit PROVE FileInv
    OBVIOUS
  <2>1. DOMAIN sboms = {} /\ \A e \in Executions : pc[e] = "new"
    BY DEF SyncInit, Init
  <2> QED
    BY <2>1 DEF FileInv, FilesMatchChecksums, Filed
<1>2. SyncInv /\ IInv /\ SoloInv /\ FileInv /\ [SyncNext]_vars => FileInv'
  <2>1. ASSUME FileInv, UNCHANGED vars PROVE FileInv'
    BY <2>1 DEF vars, taskVars, syncVars, FileInv, FilesMatchChecksums, Filed, NameOf, FileName
  <2> QED
    BY <2>1, FileStep DEF SyncNext
<1> QED
  BY <1>1, <1>2, AlwaysSolo, PTL DEF SyncSpec

\* Then the file of a committed Sbom holds what its checksum was computed from, and goes
\* on holding it.
THEOREM FilesKept ==
  ASSUME ~Overlap, NamesApart
  PROVE  SyncSpec => []FilesMatchChecksums
<1>1. FileInv => FilesMatchChecksums
  BY DEF FileInv
<1> QED
  BY <1>1, AlwaysFiled, PTL

------------------------------------------------------------------------------
(* Documents and files together implement the archive. *)

\* The archive of a Package URL is the files named after its instances, in order.
LEMMA ArchiveIs ==
  ASSUME SyncInv, InstancesInOrder, NoneSkipped, NEW p \in Purls
  PROVE  ArchiveOf(p) = [n \in 1..Cardinality(DocumentsOf(p)) |-> files[FileName(p, n)]]
<1>1. sboms \in Seq(SbomDocs) /\ DOMAIN sboms = 1..Len(sboms) /\ Len(sboms) \in Nat
  BY DEF SyncInv, Shape
<1>2. ASSUME NEW i \in DocumentsOf(p)
      PROVE  sboms[i].instance = Cardinality(DocumentsOf(p) \cap 1..i)
  <2>1. i \in DOMAIN sboms /\ sboms[i].purl = p
    BY DEF DocumentsOf
  <2>2. {j \in 1..i : sboms[j].purl = p} = DocumentsOf(p) \cap 1..i
    BY <1>1, <2>1 DEF DocumentsOf
  <2> QED
    BY <2>1, <2>2 DEF InstancesInOrder
<1>3. ASSUME NEW n \in 1..Cardinality(DocumentsOf(p))
      PROVE  sboms[Nth(p, n)].instance = n
  <2>1. \E i \in DocumentsOf(p) : Cardinality(DocumentsOf(p) \cap 1..i) = n
    BY <1>2 DEF NoneSkipped
  <2>2. Nth(p, n) \in DocumentsOf(p) /\ Cardinality(DocumentsOf(p) \cap 1..Nth(p, n)) = n
    BY <2>1 DEF Nth
  <2> QED
    BY <1>2, <2>2
<1> QED
  BY <1>3 DEF ArchiveOf

\* The first c values of h, seen as a sequence, and the same with one more.
LEMMA AppendToFunction ==
  ASSUME NEW c \in Nat, NEW h
  PROVE  [n \in 1..(c + 1) |-> h[n]] = Append([n \in 1..c |-> h[n]], h[c + 1])
<1> DEFINE S == {h[n] : n \in 1..(c + 1)}
           f == [n \in 1..c |-> h[n]]
<1>1. f \in Seq(S) /\ h[c + 1] \in S /\ Len(f) = c /\ \A n \in 1..c : f[n] = h[n]
  <2>1. f \in [1..c -> S]
    OBVIOUS
  <2> QED
    BY <2>1
<1> HIDE DEF S, f
<1>2. /\ Append(f, h[c + 1]) \in Seq(S) /\ Len(Append(f, h[c + 1])) = c + 1
      /\ \A n \in 1..c : Append(f, h[c + 1])[n] = f[n]
      /\ Append(f, h[c + 1])[c + 1] = h[c + 1]
  BY <1>1, AppendProperties
<1>3. Append(f, h[c + 1]) = [n \in 1..(c + 1) |-> Append(f, h[c + 1])[n]]
  BY <1>2
<1>4. \A n \in 1..(c + 1) : Append(f, h[c + 1])[n] = h[n]
  <2>1. \A n \in 1..(c + 1) : n \in 1..c \/ n = c + 1
    OBVIOUS
  <2> QED
    BY <1>1, <1>2, <2>1
<1> QED
  BY <1>3, <1>4 DEF f

FilesInOrder ==
  \A p \in Purls : ArchiveOf(p) = [n \in 1..Cardinality(DocumentsOf(p)) |-> files[FileName(p, n)]]

\* The documents after an insert.
LEMMA OneMore ==
  ASSUME SyncInv, NEW e \in Executions, sboms' = Insert(sboms, SbomDoc(e)), NEW p
  PROVE  /\ p = sbom[e].purl => Cardinality(DocumentsOf(p)') = Cardinality(DocumentsOf(p)) + 1
         /\ p # sbom[e].purl => DocumentsOf(p)' = DocumentsOf(p)
<1> DEFINE last == Len(sboms) + 1
<1>1. sboms \in Seq(SbomDocs)
  BY DEF SyncInv, Shape
<1>2. /\ DOMAIN sboms' = DOMAIN sboms \cup {last} /\ last \notin DOMAIN sboms
      /\ sboms'[last] = SbomDoc(e) /\ \A i \in DOMAIN sboms : sboms'[i] = sboms[i]
  BY <1>1 DEF Insert
<1> HIDE DEF last
<1>3. SbomDoc(e).purl = sbom[e].purl
  BY DEF SbomDoc
<1>4. IsFiniteSet(DocumentsOf(p)) /\ last \notin DocumentsOf(p)
  BY <1>1, <1>2, DocumentsFinite DEF DocumentsOf
<1>5. DocumentsOf(p)' = IF p = sbom[e].purl THEN DocumentsOf(p) \cup {last} ELSE DocumentsOf(p)
  BY <1>2, <1>3 DEF DocumentsOf
<1>6. Cardinality(DocumentsOf(p) \cup {last}) = Cardinality(DocumentsOf(p)) + 1
  BY <1>4, FS_AddElement
<1> QED
  BY <1>5, <1>6

LEMMA ArchiveStep ==
  ASSUME SyncInv, IInv, SoloInv, NamesApart, FileInv, FilesInOrder, FilesInOrder',
         NEW e \in Executions, SyncWork(e) \/ SyncCrash(e)
  PROVE  Archive!Next \/ UNCHANGED [p \in Purls |-> ArchiveOf(p)]
<1>1. sboms \in Seq(SbomDocs) /\ SbomsHaveFiles
  BY DEF SyncInv, Shape
<1>2. ASSUME NEW p \in Purls, NEW n \in 1..Cardinality(DocumentsOf(p))
      PROVE  FileName(p, n) \in DOMAIN files /\ files'[FileName(p, n)] = files[FileName(p, n)]
  <2>1. PICK i \in DocumentsOf(p) : sboms[i].instance = n
    BY DEF SoloInv, NoneSkipped
  <2>2. FileName(p, n) \in DOMAIN files
    BY <1>1, <2>1 DEF SbomsHaveFiles, DocumentsOf
  <2>3. FileName(p, n) \in Held(p)
    BY DEF Held
  <2> QED
    BY <2>2, <2>3, HeldStay
<1>3. ASSUME NEW p \in Purls
      PROVE  /\ ArchiveOf(p) = [n \in 1..Cardinality(DocumentsOf(p)) |-> files[FileName(p, n)]]
             /\ ArchiveOf(p)' = [n \in 1..Cardinality(DocumentsOf(p)') |-> files'[FileName(p, n)]]
  BY DEF FilesInOrder, FileName
<1>4. ASSUME NEW p \in Purls, DocumentsOf(p)' = DocumentsOf(p)
      PROVE  ArchiveOf(p)' = ArchiveOf(p)
  <2>1. ArchiveOf(p)' = [n \in 1..Cardinality(DocumentsOf(p)) |-> files'[FileName(p, n)]]
    BY <1>3, <1>4, Zenon
  <2>2. \A n \in 1..Cardinality(DocumentsOf(p)) : files'[FileName(p, n)] = files[FileName(p, n)]
    BY <1>2, Zenon
  <2> QED
    BY <1>3, <2>1, <2>2, Zenon
<1>5. CASE sboms' = sboms
  <2>1. \A p : DocumentsOf(p)' = DocumentsOf(p)
    BY <1>5 DEF DocumentsOf
  <2> QED
    BY <1>4, <2>1
<1>6. CASE At(e, "stored") /\ sboms' = Insert(sboms, SbomDoc(e)) /\ files' = files
  <2>0. PICK q : q = sbom[e].purl
    OBVIOUS
  <2>1. /\ pc[e] = "processing" /\ step[e] = "stored" /\ InTarget(e) /\ q \in Purls
        /\ sbom[e].raw \in Raws
    BY <1>6, <2>0, AtStep DEF Processing
  <2>2. PICK m : m = Cardinality(DocumentsOf(q)) /\ m \in Nat
    BY <1>1, DocumentsFinite
  <2>3. NameOf(e) = FileName(q, m + 1) /\ files[NameOf(e)] = sbom[e].raw
    BY <2>0, <2>1, <2>2 DEF SoloInv, Numbered, FileInv, Filed, NameOf
  <2>4. Cardinality(DocumentsOf(q)') = m + 1
    BY <1>6, <2>0, <2>2, OneMore
  <2>5. PICK f : f = ArchiveOf(q)
    OBVIOUS
  <2>6. PICK g : g = ArchiveOf(q)'
    OBVIOUS
  <2>7. f = [n \in 1..m |-> files[FileName(q, n)]] /\ g = [n \in 1..(m + 1) |-> files[FileName(q, n)]]
    BY <1>3, <1>6, <2>1, <2>2, <2>4, <2>5, <2>6
  <2>8. g = Append(f, sbom[e].raw)
    <3>1. PICK h : h = [n \in 1..(m + 1) |-> files[FileName(q, n)]]
      OBVIOUS
    <3>2. m + 1 \in 1..(m + 1) /\ \A n \in 1..m : n \in 1..(m + 1)
      BY <2>2
    <3>3. h[m + 1] = sbom[e].raw
      BY <2>3, <3>1, <3>2
    <3>4. f = [n \in 1..m |-> h[n]] /\ g = [n \in 1..(m + 1) |-> h[n]]
      BY <2>7, <3>1, <3>2
    <3>5. [n \in 1..(m + 1) |-> h[n]] = Append([n \in 1..m |-> h[n]], h[m + 1])
      BY <2>2, AppendToFunction
    <3> QED
      BY <3>3, <3>4, <3>5, Zenon
  <2>9. \A p \in Purls : ArchiveOf(p)' = IF p = q THEN Append(ArchiveOf(p), sbom[e].raw)
                                                  ELSE ArchiveOf(p)
    BY <1>4, <1>6, <2>0, <2>5, <2>6, <2>8, OneMore
  <2>10. Archive!Commit(q, sbom[e].raw)
    BY <2>1, <2>9 DEF Archive!Commit
  <2> QED
    BY <2>1, <2>10 DEF Archive!Next
<1> QED
  BY <1>5, <1>6, MostAreQuiet
  DEF Quiet, SetInstance, PutObject, WriteFile, ReadChecksum, InsertSbom

\* A sync implements the archive: an SBOM that was committed stays what and where it was.
THEOREM SyncImplementsArchive ==
  ASSUME ~Overlap, NamesApart
  PROVE  SyncSpec => ImplementsArchive
<1>1. SyncInv /\ SoloInv => FilesInOrder
  BY ArchiveIs DEF SoloInv, FilesInOrder
<1>2. SyncInit => Archive!Init
  <2> SUFFICES ASSUME SyncInit PROVE Archive!Init
    OBVIOUS
  <2>1. \A p : DocumentsOf(p) = {}
    BY DEF SyncInit, DocumentsOf
  <2>2. \A p : Cardinality(DocumentsOf(p)) = 0
    BY <2>1, FS_EmptySet
  <2>3. \A p : ArchiveOf(p) = <<>>
    BY <2>2 DEF ArchiveOf
  <2> QED
    BY <2>3 DEF Archive!Init
<1>3. SyncInv /\ IInv /\ SoloInv /\ FileInv /\ FilesInOrder /\ FilesInOrder' /\ [SyncNext]_vars
        => [Archive!Next]_([p \in Purls |-> ArchiveOf(p)])
  <2>1. ASSUME UNCHANGED vars PROVE UNCHANGED [p \in Purls |-> ArchiveOf(p)]
    BY <2>1 DEF vars, syncVars, ArchiveOf, Nth, DocumentsOf, FileName
  <2> QED
    BY <2>1, ArchiveStep DEF SyncNext
<1> QED
  BY <1>1, <1>2, <1>3, AlwaysFiled, PTL DEF SyncSpec, ImplementsArchive, Archive!Spec
==============================================================================
