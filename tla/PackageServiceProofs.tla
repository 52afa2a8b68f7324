------------------------ MODULE PackageServiceProofs ------------------------
(***************************************************************************)
(* Theorems about PackageService, for every set of workers, Package URLs   *)
(* and bounds.                                                             *)
(***************************************************************************)
EXTENDS PackageService, SequenceTheorems, TLAPS

------------------------------------------------------------------------------
(* Type correctness. *)

\* An upsert of a Purl has read Purls.
FoundTyped ==
  \A w \in Workers : phase[w] = "found" /\ job[w].kind = "purl" =>
    \A e \in found[w] : e.doc \in PurlDoc

TypeInv == TypeOK /\ FoundTyped

\* An entity passed to an upsert is one of the four kinds.
LEMMA JobKinds ==
  ASSUME NEW j \in Job
  PROVE  \/ j.kind = "package" /\ j.doc \in PackageDoc
         \/ j.kind = "purl" /\ j.doc \in PurlDoc
         \/ j.kind = "dependency" /\ j.doc \in DependencyDoc
         \/ j.kind = "unsupported" /\ j.doc \in UnsupportedDoc
BY DEF Job

\* A worker inside an upsert carries an entity.
LEMMA BusyJob ==
  ASSUME TypeOK, NEW w \in Workers, phase[w] \in {"called", "found"}
  PROVE  job[w] \in Job
BY DEF TypeOK

\* Entering an upsert with an entity of one of the four kinds keeps the types.
LEMMA EnterTyped ==
  ASSUME TypeInv, NEW w \in Workers, NEW j \in Job, Enter(w, j)
  PROVE  TypeInv'
<1>1. j # NoJob
  BY DEF Job, NoJob
<1>2. TypeOK'
  BY <1>1 DEF TypeInv, TypeOK, Enter, collections
<1>3. FoundTyped'
  BY DEF TypeInv, TypeOK, FoundTyped, Enter, collections
<1>4. QED
  BY <1>2, <1>3 DEF TypeInv

\* SbomSyncTask passes well-formed entities.
LEMMA SyncCallJob ==
  ASSUME NEW w \in Workers, SyncCall(w)
  PROVE  \E j \in Job : Enter(w, j)
<1>1. PICK p \in Purls, x \in Xrefs :
        \/ Enter(w, PackageJob(p, x))
        \/ Enter(w, PurlJob(p, w, 1, x))
        \/ Enter(w, PurlJob(p, w, 0, x))
        \/ \E r \in Purls \ {EmptyPurl} : Enter(w, DependencyJob(r, p, x))
        \/ \E e \in ExternalIds : Enter(w, UnsupportedJob(e, x))
  BY DEF SyncCall
<1>2. PackageJob(p, x) \in Job
  BY DEF PackageJob, Job, PackageDoc, Ids, NoId
<1>3. ASSUME NEW n \in {0, 1}
      PROVE  PurlJob(p, w, n, x) \in Job
  <2>1. n \in 0..MaxIteration
    BY BoundsAssumption
  <2>2. FromComponent(p, w, n, x) \in PurlDoc
    BY <2>1 DEF FromComponent, PurlDoc, TaskRef, Tasks
  <2>3. QED
    BY <2>2 DEF PurlJob, Job, Ids, NoId
<1>4. \A r \in Purls : DependencyJob(r, p, x) \in Job
  BY DEF DependencyJob, Job, DependencyDoc, Ids, NoId
<1>5. \A e \in ExternalIds : UnsupportedJob(e, x) \in Job
  BY DEF UnsupportedJob, Job, UnsupportedDoc, Ids, NoId
<1>6. QED
  BY <1>1, <1>2, <1>3, <1>4, <1>5

\* A scan keeps the shape of the Purl it listed and adds to it.
LEMMA RescanTyped ==
  ASSUME NEW doc \in PurlDoc, NEW w \in Workers, NEW F \in SUBSET Vulnerabilities,
         NextIteration(doc.taskRefs) \in 0..MaxIteration
  PROVE  LET d == InitScan([doc EXCEPT !.vulnerabilities = AddVulnerabilities(@, F)], w)
         IN  d \in PurlDoc /\ d.purl = doc.purl
<1> DEFINE m == [doc EXCEPT !.vulnerabilities = AddVulnerabilities(@, F)]
<1>1. m \in PurlDoc /\ m.taskRefs = doc.taskRefs /\ m.purl = doc.purl
  BY DEF PurlDoc, AddVulnerabilities
<1>2. [task |-> w, iteration |-> NextIteration(m.taskRefs)] \in TaskRef
  BY <1>1 DEF TaskRef, Tasks
<1>3. InitScan(m, w) \in PurlDoc /\ InitScan(m, w).purl = m.purl
  BY <1>1, <1>2 DEF InitScan, PurlDoc
<1>4. QED
  BY <1>1, <1>3

\* A scan passes a Purl it has listed, under the id it was listed with.
LEMMA ScanCallJob ==
  ASSUME TypeInv, NEW w \in Workers, ScanCall(w)
  PROVE  \E j \in Job : Enter(w, j) /\ j.kind = "purl" /\ j.id # NoId
<1>1. PICK i \in DOMAIN purls, F \in SUBSET Vulnerabilities :
        /\ NextIteration(purls[i].taskRefs) \in 0..MaxIteration
        /\ Enter(w, RescanJob(w, i, purls[i], F))
  BY DEF ScanCall
<1>2. purls[i] \in PurlDoc /\ i \in Nat
  BY DEF TypeInv, TypeOK
<1>3. RescanJob(w, i, purls[i], F) \in Job
  BY <1>1, <1>2, RescanTyped DEF RescanJob, Job, Ids
<1>4. i # NoId
  BY DEF NoId, TypeInv, TypeOK
<1>5. RescanJob(w, i, purls[i], F).kind = "purl" /\ RescanJob(w, i, purls[i], F).id # NoId
  BY <1>4 DEF RescanJob
<1>6. QED
  BY <1>1, <1>3, <1>5

LEMMA CallTyped ==
  ASSUME TypeInv, NEW w \in Workers, SyncCall(w) \/ ScanCall(w)
  PROVE  TypeInv'
BY SyncCallJob, ScanCallJob, EnterTyped

LEMMA DocumentsTyped ==
  ASSUME NEW Doc, NEW coll \in Seq(Doc), NEW filter
  PROVE  Documents(coll, filter) \in SUBSET [id : Ids, doc : Doc]
<1>1. Query(coll, filter) \subseteq DOMAIN coll
  BY DEF Query
<1>2. \A i \in DOMAIN coll : i \in Nat /\ coll[i] \in Doc
  OBVIOUS
<1>3. QED
  BY <1>1, <1>2 DEF Documents, Ids

\* What a lookup returns has the types of the collection it went to.
LEMMA ExistingTyped ==
  ASSUME TypeOK, NEW j \in Job
  PROVE  /\ Existing(j) \in SUBSET [id : Ids, doc : PackageDoc \cup PurlDoc \cup DependencyDoc]
         /\ j.kind = "purl" => \A e \in Existing(j) : e.doc \in PurlDoc
<1>1. CASE j.kind = "package"
  <2>1. Existing(j) = Documents(packages, PackageFilter(j.doc))
    BY <1>1 DEF Existing
  <2>2. Existing(j) \in SUBSET [id : Ids, doc : PackageDoc]
    BY <2>1, DocumentsTyped DEF TypeOK
  <2>3. QED
    BY <1>1, <2>2
<1>2. CASE j.kind = "purl"
  <2>1. Existing(j) = Documents(purls, PurlFilter(j.doc))
    BY <1>2 DEF Existing
  <2>2. Existing(j) \in SUBSET [id : Ids, doc : PurlDoc]
    BY <2>1, DocumentsTyped DEF TypeOK
  <2>3. QED
    BY <1>2, <2>2
<1>3. CASE j.kind = "dependency"
  <2>1. Existing(j) = Documents(dependencies, DependencyFilter(j.doc))
    BY <1>3 DEF Existing
  <2>2. Existing(j) \in SUBSET [id : Ids, doc : DependencyDoc]
    BY <2>1, DocumentsTyped DEF TypeOK
  <2>3. QED
    BY <1>3, <2>2
<1>4. CASE j.kind = "unsupported"
  <2>1. Existing(j) = Documents(purls, UnsupportedFilter(j.doc))
    BY <1>4 DEF Existing
  <2>2. Existing(j) \in SUBSET [id : Ids, doc : PurlDoc]
    BY <2>1, DocumentsTyped DEF TypeOK
  <2>3. QED
    BY <1>4, <2>2
<1>5. QED
  BY <1>1, <1>2, <1>3, <1>4, JobKinds

LEMMA LookupTyped ==
  ASSUME TypeInv, NEW w \in Workers, Lookup(w)
  PROVE  TypeInv'
<1>1. job[w] \in Job
  BY BusyJob DEF TypeInv, Lookup
<1>2. TypeOK'
  BY <1>1, ExistingTyped DEF TypeInv, TypeOK, Lookup, Return, collections
<1>3. FoundTyped'
  BY <1>1, ExistingTyped DEF TypeInv, TypeOK, FoundTyped, Lookup, Return
<1>4. QED
  BY <1>2, <1>3 DEF TypeInv

\* The entity read is one of those the query returned.
LEMMA OneFound ==
  ASSUME NEW hits, hits # {}
  PROVE  TheOne(hits) \in hits
BY DEF TheOne

\* $set of a document keeps the collection a collection, also when no document
\* has the id.
LEMMA UpdateProperties ==
  ASSUME NEW Doc, NEW coll \in Seq(Doc), NEW id, NEW d \in Doc
  PROVE  /\ Update(coll, id, d) \in Seq(Doc)
         /\ DOMAIN Update(coll, id, d) = DOMAIN coll
         /\ \A i \in DOMAIN coll : Update(coll, id, d)[i] = IF i = id THEN d ELSE coll[i]
<1>1. CASE id \in DOMAIN coll
  <2>1. id \in 1..Len(coll)
    BY <1>1
  <2>2. QED
    BY <2>1, ExceptSeq DEF Update
<1>2. CASE id \notin DOMAIN coll
  <2>1. Update(coll, id, d) = coll
    BY <1>2 DEF Update
  <2>2. QED
    BY <1>2, <2>1
<1>3. QED
  BY <1>1, <1>2

\* Inserting a document puts it behind all others.
LEMMA InsertProperties ==
  ASSUME NEW Doc, NEW coll \in Seq(Doc), NEW d \in Doc
  PROVE  /\ Insert(coll, d) \in Seq(Doc)
         /\ DOMAIN Insert(coll, d) = DOMAIN coll \cup {Len(coll) + 1}
         /\ \A i \in DOMAIN coll : Insert(coll, d)[i] = coll[i]
         /\ Insert(coll, d)[Len(coll) + 1] = d
         /\ Len(coll) + 1 \notin DOMAIN coll
BY AppendProperties DEF Insert

\* The write of an upsert keeps the type of its collection.
LEMMA UpsertedTyped ==
  ASSUME NEW Doc, NEW coll \in Seq(Doc), NEW hits, NEW new \in Doc, NEW merged,
         hits # {} => merged \in Doc
  PROVE  Upserted(coll, hits, new, merged) \in Seq(Doc)
BY UpdateProperties, InsertProperties DEF Upserted

\* Between references to Snyk projects the comparison of cross references is equality.
LEMMA SnykEq ==
  ASSUME NEW x \in Xrefs, NEW y \in Xrefs
  PROVE  Eq(x, y) <=> x = y
<1>1. PICK r \in SnykRefs : x = FromSnykRef(r)
  BY DEF Xrefs
<1>2. PICK s \in SnykRefs : y = FromSnykRef(s)
  BY DEF Xrefs
<1>3. ASSUME Eq(x, y) PROVE x = y
  <2>1. \A key \in {"orgId", "orgName", "groupId", "groupName", "projectId", "projectName"} :
          x.map[key] = y.map[key]
    BY <1>2, <1>3 DEF Eq, FromSnykRef
  <2>2. /\ r.org_id = s.org_id /\ r.org_name = s.org_name
        /\ r.group_id = s.group_id /\ r.group_name = s.group_name
        /\ r.project_id = s.project_id /\ r.project_name = s.project_name
    BY <1>1, <1>2, <2>1 DEF FromSnykRef
  <2>3. QED
    BY <1>1, <1>2, <2>2 DEF FromSnykRef
<1>4. Eq(x, x)
  BY <1>1 DEF Eq, FromSnykRef
<1>5. QED
  BY <1>3, <1>4

\* The merges of an upsert build entities of their own type.
LEMMA MergesTyped ==
  ASSUME NEW e, e.xrefs \subseteq Xrefs
  PROVE  /\ \A d \in PackageDoc : MergeXrefs(d, e) \in PackageDoc
         /\ \A d \in DependencyDoc : MergeXrefs(d, e) \in DependencyDoc
         /\ \A d \in UnsupportedDoc : MergeXrefs(d, e) \in UnsupportedDoc
         /\ \A d \in PurlDoc : e \in PurlDoc => MergePurl(d, e) \in PurlDoc
<1>1. /\ \A d \in PackageDoc : MergeXrefs(d, e) \in PackageDoc
      /\ \A d \in DependencyDoc : MergeXrefs(d, e) \in DependencyDoc
      /\ \A d \in UnsupportedDoc : MergeXrefs(d, e) \in UnsupportedDoc
  BY DEF MergeXrefs, AddXrefs, PackageDoc, DependencyDoc, UnsupportedDoc
<1>2. \A d \in PurlDoc : e \in PurlDoc => MergePurl(d, e) \in PurlDoc
  BY DEF MergePurl, AddXrefs, AddTaskRefs, AddVulnerabilities, PurlDoc
<1>3. QED
  BY <1>1, <1>2

\* A write keeps the types: a document is inserted as it is or merged with what was read.
LEMMA SaveTyped ==
  ASSUME TypeInv, NEW w \in Workers, Save(w)
  PROVE  TypeInv'
<1> DEFINE hits == found[w]
           new == job[w].doc
           old == TheOne(found[w]).doc
<1>1. job[w] \in Job /\ phase[w] = "found"
  BY BusyJob DEF TypeInv, Save
<1>2. ASSUME hits # {}
      PROVE  old.xrefs \subseteq Xrefs /\ (job[w].kind = "purl" => old \in PurlDoc)
  <2>1. TheOne(found[w]) \in found[w]
    BY <1>2, OneFound
  <2>2. old \in PackageDoc \cup PurlDoc \cup DependencyDoc
    BY <2>1 DEF TypeInv, TypeOK
  <2>3. old.xrefs \subseteq Xrefs
    BY <2>2 DEF PackageDoc, PurlDoc, DependencyDoc
  <2>4. QED
    BY <1>1, <2>1, <2>3 DEF TypeInv, FoundTyped
<1>3. CASE UpsertPackage(w)
  <2>1. new \in PackageDoc
    BY <1>1, <1>3, JobKinds DEF UpsertPackage
  <2>2. hits # {} => MergeXrefs(new, old) \in PackageDoc
    BY <1>2, <2>1, MergesTyped
  <2>3. packages' \in Seq(PackageDoc)
    BY <1>3, <2>1, <2>2, UpsertedTyped DEF UpsertPackage, TypeInv, TypeOK
  <2>4. QED
    BY <1>3, <2>3 DEF TypeInv, TypeOK, FoundTyped, Save, UpsertPackage, Return
<1>4. CASE UpsertPurl(w)
  <2>1. new \in PurlDoc
    BY <1>1, <1>4, JobKinds DEF UpsertPurl
  <2>2. hits # {} => MergePurl(new, old) \in PurlDoc
    BY <1>2, <1>4, <2>1, MergesTyped DEF UpsertPurl
  <2>3. purls' \in Seq(PurlDoc)
    BY <1>4, <2>1, <2>2, UpsertedTyped DEF UpsertPurl, TypeInv, TypeOK
  <2>4. QED
    BY <1>4, <2>3 DEF TypeInv, TypeOK, FoundTyped, Save, UpsertPurl, Return
<1>5. CASE UpsertDependency(w)
  <2>1. new \in DependencyDoc
    BY <1>1, <1>5, JobKinds DEF UpsertDependency
  <2>2. hits # {} => MergeXrefs(new, old) \in DependencyDoc
    BY <1>2, <2>1, MergesTyped
  <2>3. dependencies' \in Seq(DependencyDoc)
    BY <1>5, <2>1, <2>2, UpsertedTyped DEF UpsertDependency, TypeInv, TypeOK
  <2>4. QED
    BY <1>5, <2>3 DEF TypeInv, TypeOK, FoundTyped, Save, UpsertDependency, Return
<1>6. CASE UpsertUnsupported(w)
  <2>1. new \in UnsupportedDoc
    BY <1>1, <1>6, JobKinds DEF UpsertUnsupported
  <2>2. hits # {} => MergeXrefs(new, old) \in UnsupportedDoc
    BY <1>2, <2>1, MergesTyped
  <2>3. unsupported' \in Seq(UnsupportedDoc)
    BY <1>6, <2>1, <2>2, UpsertedTyped DEF UpsertUnsupported, TypeInv, TypeOK
  <2>4. QED
    BY <1>6, <2>3 DEF TypeInv, TypeOK, FoundTyped, Save, UpsertUnsupported, Return
<1>7. QED
  BY <1>3, <1>4, <1>5, <1>6 DEF Save

\* The steps that touch no collection and no entity.
LEMMA QuietTyped ==
  ASSUME TypeInv, NEW w \in Workers,
         RefuseInvalid(w) \/ RefuseSave(w) \/ StoreError(w) \/ Leave(w) \/ Crash(w)
  PROVE  TypeInv'
<1>1. CASE RefuseInvalid(w) \/ RefuseSave(w) \/ StoreError(w)
  BY <1>1 DEF TypeInv, TypeOK, FoundTyped, RefuseInvalid, RefuseSave, StoreError,
              Return, collections
<1>2. CASE Leave(w) \/ Crash(w)
  BY <1>2 DEF TypeInv, TypeOK, FoundTyped, Leave, Crash, Return, collections
<1>3. QED
  BY <1>1, <1>2

LEMMA InitTyped == Init => TypeInv
BY DEF Init, TypeInv, TypeOK, FoundTyped

LEMMA NextTyped == TypeInv /\ [Next]_vars => TypeInv'
<1>1. ASSUME TypeInv, NEW w \in Workers, Step(w)
      PROVE  TypeInv'
  BY <1>1, CallTyped, LookupTyped, SaveTyped, QuietTyped DEF Step
<1>2. TypeInv /\ UNCHANGED vars => TypeInv'
  BY DEF TypeInv, TypeOK, FoundTyped, vars, collections
<1>3. QED
  BY <1>1, <1>2 DEF Next

\* Every collection holds entities of its own type only, whatever overlaps, fails or
\* crashes: the write an upsert builds from two documents is again such an entity.
THEOREM TypeCorrect == Spec => []TypeOK
<1>1. Spec => []TypeInv
  BY InitTyped, NextTyped, PTL DEF Spec
<1>2. QED
  BY <1>1, PTL DEF TypeInv

------------------------------------------------------------------------------
(* Unique documents.  Only a syncer inserts, because a scan's entity carries the id
   of the document it was listed from; so it is enough that two syncs never overlap.
   Scans may overlap anything. *)

SyncsApart == \A s, t \in Syncers : s # t => {s, t} \notin Parallel

\* Two syncers are never inside an upsert together.
SyncersAlone == \A s, t \in Syncers : Busy(s) /\ Busy(t) => s = t

\* A scan upserts Purls that have an id.
ScannersBringIds ==
  \A w \in Scanners : phase[w] \in {"called", "found"} =>
    job[w].kind = "purl" /\ job[w].id # NoId

Key(w) == job[w].doc.purl

\* What an upsert has read still has the key it was read under ...
FoundKeys ==
  \A w \in Workers : phase[w] = "found" =>
    \A e \in found[w] :
      /\ job[w].kind = "purl" =>
           e.id \in DOMAIN purls /\ e.doc.purl = Key(w) /\ purls[e.id].purl = Key(w)
      /\ job[w].kind = "package" =>
           e.id \in DOMAIN packages /\ e.doc.purl = Key(w) /\ packages[e.id].purl = Key(w)

\* ... and what a syncer has not found is still not there.
FoundNone ==
  \A w \in Syncers : phase[w] = "found" /\ found[w] = {} =>
    /\ job[w].kind = "purl" => \A i \in DOMAIN purls : purls[i].purl # Key(w)
    /\ job[w].kind = "package" => \A i \in DOMAIN packages : packages[i].purl # Key(w)

KeyInv ==
  /\ UniqueDocuments
  /\ SyncersAlone
  /\ ScannersBringIds
  /\ FoundKeys
  /\ FoundNone

\* The queries by purl return the documents that hold it.
LEMMA PurlQuery ==
  ASSUME NEW coll \in Seq(PurlDoc), NEW p
  PROVE  Query(coll, [purl |-> p]) = {i \in DOMAIN coll : coll[i].purl = p}
<1>1. DOMAIN [purl |-> p] = {"purl"} /\ [purl |-> p]["purl"] = p
  OBVIOUS
<1>2. ASSUME NEW i \in DOMAIN coll
      PROVE  "purl" \in DOMAIN coll[i] /\ coll[i]["purl"] = coll[i].purl
  <2>1. coll[i] \in PurlDoc
    OBVIOUS
  <2>2. QED
    BY <2>1 DEF PurlDoc
<1>3. QED
  BY <1>1, <1>2 DEF Query

LEMMA PackageQuery ==
  ASSUME NEW coll \in Seq(PackageDoc), NEW p
  PROVE  Query(coll, [purl |-> p]) = {i \in DOMAIN coll : coll[i].purl = p}
<1>1. DOMAIN [purl |-> p] = {"purl"} /\ [purl |-> p]["purl"] = p
  OBVIOUS
<1>2. ASSUME NEW i \in DOMAIN coll
      PROVE  "purl" \in DOMAIN coll[i] /\ coll[i]["purl"] = coll[i].purl
  <2>1. coll[i] \in PackageDoc
    OBVIOUS
  <2>2. QED
    BY <2>1 DEF PackageDoc
<1>3. QED
  BY <1>1, <1>2 DEF Query

\* Every document of a collection keeps its id and its key.
KeysKept(coll, result) ==
  /\ DOMAIN coll \subseteq DOMAIN result
  /\ \A i \in DOMAIN coll : result[i].purl = coll[i].purl

\* A write keyed by what was read leaves every key where it was, and adds the new key
\* only if there was none.
LEMMA KeyedWrite ==
  ASSUME NEW Doc, NEW coll \in Seq(Doc), NEW hits, NEW new \in Doc, NEW merged,
         hits # {} => merged \in Doc,
         UniquePurls(coll),
         hits = {} => \A i \in DOMAIN coll : coll[i].purl # new.purl,
         hits # {} => /\ merged.purl = new.purl
                      /\ \A e \in hits : coll[e.id].purl = new.purl,
         NEW result, result = Upserted(coll, hits, new, merged)
  PROVE  /\ UniquePurls(result)
         /\ KeysKept(coll, result)
         /\ hits # {} => DOMAIN result = DOMAIN coll
<1>1. CASE hits = {}
  <2>1. result = Insert(coll, new)
    BY <1>1 DEF Upserted
  <2>2. /\ DOMAIN Insert(coll, new) = DOMAIN coll \cup {Len(coll) + 1}
        /\ \A i \in DOMAIN coll : Insert(coll, new)[i] = coll[i]
        /\ Insert(coll, new)[Len(coll) + 1] = new
    BY DEF Insert
  <2>3. QED
    BY <1>1, <2>1, <2>2 DEF UniquePurls, KeysKept
<1>2. CASE hits # {}
  <2>1. result = Update(coll, TheOne(hits).id, merged)
    BY <1>2 DEF Upserted
  <2>2. coll[TheOne(hits).id].purl = new.purl
    BY <1>2, OneFound
  <2>3. QED
    BY <1>2, <2>1, <2>2, UpdateProperties DEF UniquePurls, KeysKept
<1>3. QED
  BY <1>1, <1>2

LEMMA InitKeys == Init => KeyInv
<1>1. SUFFICES ASSUME Init PROVE KeyInv
  OBVIOUS
<1>2. \A w \in Workers : phase[w] = "idle"
  BY <1>1 DEF Init
<1>3. SyncersAlone /\ ScannersBringIds /\ FoundKeys /\ FoundNone
  BY <1>2 DEF SyncersAlone, Busy, ScannersBringIds, FoundKeys, FoundNone, Workers
<1>4. UniqueDocuments
  BY <1>1 DEF Init, UniqueDocuments, UniquePurls
<1>5. QED
  BY <1>3, <1>4 DEF KeyInv

\* A worker that is not alone in the critical part cannot be a second syncer.
LEMMA EnterKeys ==
  ASSUME SyncsApart, TypeInv, KeyInv, NEW w \in Workers, NEW j \in Job, Enter(w, j),
         w \in Scanners => j.kind = "purl" /\ j.id # NoId
  PROVE  KeyInv'
<1>1. phase[w] = "idle" /\ phase' = [phase EXCEPT ![w] = "called"]
      /\ job' = [job EXCEPT ![w] = j] /\ found' = found
      /\ packages' = packages /\ purls' = purls
  BY DEF Enter, collections
<1>2. SyncersAlone'
  <2>1. SUFFICES ASSUME NEW s \in Syncers, NEW t \in Syncers, Busy(s)', Busy(t)', s # t
                 PROVE  FALSE
    BY DEF SyncersAlone
  <2>2. \A v \in Workers : v # w => (Busy(v)' <=> Busy(v))
    BY <1>1 DEF Busy, TypeInv, TypeOK
  <2>3. \A v \in Syncers : v # w /\ w \in Syncers => ~Busy(v)
    BY DEF Enter, MayEnter, SyncsApart, Workers
  <2>4. QED
    BY <2>1, <2>2, <2>3 DEF KeyInv, SyncersAlone, Workers
<1>3. ScannersBringIds'
  BY <1>1 DEF KeyInv, ScannersBringIds, TypeInv, TypeOK, Workers
<1>4. FoundKeys' /\ FoundNone'
  BY <1>1 DEF KeyInv, FoundKeys, FoundNone, Key, TypeInv, TypeOK, Workers
<1>5. UniqueDocuments'
  BY <1>1 DEF KeyInv, UniqueDocuments
<1>6. QED
  BY <1>2, <1>3, <1>4, <1>5 DEF KeyInv

LEMMA SyncCallKeys ==
  ASSUME SyncsApart, TypeInv, KeyInv, NEW w \in Workers, SyncCall(w)
  PROVE  KeyInv'
<1>1. w \in Syncers /\ w \notin Scanners
  BY RolesAssumption DEF SyncCall
<1>2. PICK j \in Job : Enter(w, j)
  BY SyncCallJob
<1>3. QED
  BY <1>1, <1>2, EnterKeys

LEMMA ScanCallKeys ==
  ASSUME SyncsApart, TypeInv, KeyInv, NEW w \in Workers, ScanCall(w)
  PROVE  KeyInv'
<1>1. PICK j \in Job : Enter(w, j) /\ j.kind = "purl" /\ j.id # NoId
  BY ScanCallJob
<1>2. QED
  BY <1>1, EnterKeys

\* A lookup finds exactly the documents with the key of its entity.
LEMMA LookupKeys ==
  ASSUME TypeInv, KeyInv, NEW w \in Workers, Lookup(w)
  PROVE  KeyInv'
<1>1. /\ phase[w] = "called" /\ phase' = [phase EXCEPT ![w] = "found"]
      /\ found' = [found EXCEPT ![w] = Existing(job[w])]
      /\ job' = job /\ packages' = packages /\ purls' = purls
  BY DEF Lookup, Return, collections
<1>2. phase'[w] = "found" /\ found'[w] = Existing(job[w])
  BY <1>1 DEF TypeInv, TypeOK
<1>3. \A v \in Workers \ {w} : phase'[v] = phase[v] /\ found'[v] = found[v]
  BY <1>1 DEF TypeInv, TypeOK
<1>4. purls \in Seq(PurlDoc) /\ packages \in Seq(PackageDoc)
  BY DEF TypeInv, TypeOK
<1>5. ASSUME job[w].kind = "purl"
      PROVE  Existing(job[w]) =
               {[id |-> i, doc |-> purls[i]] : i \in {k \in DOMAIN purls : purls[k].purl = Key(w)}}
  BY <1>4, <1>5, PurlQuery DEF Existing, Documents, PurlFilter, Key
<1>6. ASSUME job[w].kind = "package"
      PROVE  Existing(job[w]) =
               {[id |-> i, doc |-> packages[i]] :
                  i \in {k \in DOMAIN packages : packages[k].purl = Key(w)}}
  BY <1>4, <1>6, PackageQuery DEF Existing, Documents, PackageFilter, Key
<1>7. FoundKeys'
  <2>1. ASSUME NEW v \in Workers, phase'[v] = "found", NEW e \in found'[v]
        PROVE  /\ job[v].kind = "purl" =>
                    e.id \in DOMAIN purls /\ e.doc.purl = Key(v) /\ purls[e.id].purl = Key(v)
               /\ job[v].kind = "package" =>
                    e.id \in DOMAIN packages /\ e.doc.purl = Key(v)
                      /\ packages[e.id].purl = Key(v)
    <3>1. CASE v = w
      BY <3>1, <2>1, <1>2, <1>5, <1>6
    <3>2. CASE v # w
      BY <3>2, <2>1, <1>3 DEF KeyInv, FoundKeys
    <3>3. QED
      BY <3>1, <3>2
  <2>2. QED
    BY <2>1, <1>1 DEF FoundKeys, Key
<1>8. FoundNone'
  <2>1. ASSUME NEW v \in Syncers, phase'[v] = "found", found'[v] = {}
        PROVE  /\ job[v].kind = "purl" => \A i \in DOMAIN purls : purls[i].purl # Key(v)
               /\ job[v].kind = "package" => \A i \in DOMAIN packages : packages[i].purl # Key(v)
    <3>1. CASE v = w
      <4>1. ASSUME job[w].kind = "purl", NEW i \in DOMAIN purls, purls[i].purl = Key(w)
            PROVE  [id |-> i, doc |-> purls[i]] \in Existing(job[w])
        BY <1>5, <4>1
      <4>2. ASSUME job[w].kind = "package", NEW i \in DOMAIN packages,
                   packages[i].purl = Key(w)
            PROVE  [id |-> i, doc |-> packages[i]] \in Existing(job[w])
        BY <1>6, <4>2
      <4>3. QED
        BY <3>1, <2>1, <1>2, <4>1, <4>2
    <3>2. CASE v # w
      BY <3>2, <2>1, <1>3 DEF KeyInv, FoundNone, Workers
    <3>3. QED
      BY <3>1, <3>2
  <2>2. QED
    BY <2>1, <1>1 DEF FoundNone, Key
<1>9. SyncersAlone' /\ ScannersBringIds' /\ UniqueDocuments'
  BY <1>1, <1>2, <1>3 DEF KeyInv, SyncersAlone, Busy, ScannersBringIds, UniqueDocuments, Workers
<1>10. QED
  BY <1>7, <1>8, <1>9 DEF KeyInv

\* A step that leaves packages and purls alone and takes its worker out of the upsert.
LEMMA QuietKeys ==
  ASSUME TypeInv, KeyInv, NEW w \in Workers,
         packages' = packages, purls' = purls,
         NEW outcome \in {"idle", "ok", "failed", "dead"},
         phase' = [phase EXCEPT ![w] = outcome],
         \A v \in Workers \ {w} : job'[v] = job[v] /\ found'[v] = found[v],
         Busy(w) \/ outcome \in {"idle", "dead"}
  PROVE  KeyInv'
<1>1. phase'[w] = outcome /\ \A v \in Workers \ {w} : phase'[v] = phase[v]
  BY DEF TypeInv, TypeOK
<1>2. SyncersAlone'
  BY <1>1 DEF KeyInv, SyncersAlone, Busy, Workers
<1>3. ScannersBringIds' /\ UniqueDocuments'
  BY <1>1 DEF KeyInv, ScannersBringIds, UniqueDocuments, Workers
<1>4. FoundKeys' /\ FoundNone'
  BY <1>1 DEF KeyInv, FoundKeys, FoundNone, Key, Workers
<1>5. QED
  BY <1>2, <1>3, <1>4 DEF KeyInv

\* What a write does to the two keyed collections: keys stay where they are, they stay
\* unique, and a scanner adds none.
KeysStable(w) ==
  /\ UniqueDocuments'
  /\ KeysKept(purls, purls') /\ KeysKept(packages, packages')
  /\ w \in Scanners => DOMAIN purls' = DOMAIN purls /\ DOMAIN packages' = DOMAIN packages

LEMMA SaveKeysStable ==
  ASSUME TypeInv, KeyInv, NEW w \in Workers, Save(w)
  PROVE  KeysStable(w)
<1> DEFINE hits == found[w]
           new == job[w].doc
           old == TheOne(found[w]).doc
<1>1. job[w] \in Job /\ phase[w] = "found" /\ ~Refused(w)
  BY BusyJob DEF TypeInv, Save
<1>2. w \in Scanners => hits # {}
  BY <1>1 DEF KeyInv, ScannersBringIds, Refused, InsertAccepts
<1>3. hits = {} => w \in Syncers
  BY <1>2 DEF Workers
<1>4. CASE UpsertPurl(w)
  <2>1. job[w].kind = "purl" /\ new \in PurlDoc
    BY <1>1, <1>4, JobKinds DEF UpsertPurl
  <2>2. hits # {} => MergePurl(new, old) \in PurlDoc
    <3>1. SUFFICES ASSUME hits # {} PROVE MergePurl(new, old) \in PurlDoc
      OBVIOUS
    <3>2. TheOne(found[w]) \in found[w]
      BY <3>1, OneFound
    <3>3. old \in PurlDoc
      BY <1>1, <2>1, <3>2 DEF TypeInv, FoundTyped
    <3>4. QED
      BY <2>1, <3>3, MergesTyped DEF PurlDoc
  <2>3. hits = {} => \A i \in DOMAIN purls : purls[i].purl # new.purl
    BY <1>1, <1>3, <2>1 DEF KeyInv, FoundNone, Key
  <2>4. \A e \in hits : purls[e.id].purl = new.purl
    BY <1>1, <2>1 DEF KeyInv, FoundKeys, Key
  <2>5. MergePurl(new, old).purl = new.purl
    BY DEF MergePurl
  <2>6. UniquePurls(purls) /\ purls \in Seq(PurlDoc)
    BY DEF KeyInv, UniqueDocuments, TypeInv, TypeOK
  <2>7. purls' = Upserted(purls, hits, new, MergePurl(new, old)) /\ packages' = packages
    BY <1>4 DEF UpsertPurl
  <2> HIDE DEF hits, new, old
  <2>8. /\ UniquePurls(purls')
        /\ KeysKept(purls, purls')
        /\ hits # {} => DOMAIN purls' = DOMAIN purls
    BY <2>1, <2>2, <2>3, <2>4, <2>5, <2>6, <2>7, KeyedWrite
  <2>9. QED
    BY <1>2, <2>7, <2>8 DEF KeysStable, KeysKept, UniqueDocuments, KeyInv
<1>5. CASE UpsertPackage(w)
  <2>1. job[w].kind = "package" /\ new \in PackageDoc
    BY <1>1, <1>5, JobKinds DEF UpsertPackage
  <2>2. w \in Syncers
    BY <1>1, <2>1 DEF KeyInv, ScannersBringIds, Workers
  <2> DEFINE merged == MergeXrefs(new, old)
  <2>3. hits # {} => merged \in PackageDoc
    <3>1. SUFFICES ASSUME hits # {} PROVE MergeXrefs(new, old) \in PackageDoc
      OBVIOUS
    <3>2. TheOne(found[w]) \in found[w]
      BY <3>1, OneFound
    <3>3. old \in PackageDoc \cup PurlDoc \cup DependencyDoc
      BY <3>2 DEF TypeInv, TypeOK
    <3>4. old.xrefs \subseteq Xrefs
      BY <3>3 DEF PackageDoc, PurlDoc, DependencyDoc
    <3>5. QED
      BY <2>1, <3>4, MergesTyped
  <2>4. hits = {} => \A i \in DOMAIN packages : packages[i].purl # new.purl
    BY <1>1, <2>1, <2>2 DEF KeyInv, FoundNone, Key
  <2>5. \A e \in hits : packages[e.id].purl = new.purl
    BY <1>1, <2>1 DEF KeyInv, FoundKeys, Key
  <2>6. merged.purl = new.purl
    BY <2>1 DEF MergeXrefs, PackageDoc
  <2>7. UniquePurls(packages) /\ packages \in Seq(PackageDoc)
    BY DEF KeyInv, UniqueDocuments, TypeInv, TypeOK
  <2>8. packages' = Upserted(packages, hits, new, merged) /\ purls' = purls
    BY <1>5 DEF UpsertPackage
  <2> HIDE DEF hits, new, old, merged
  <2>9. /\ UniquePurls(packages')
        /\ KeysKept(packages, packages')
        /\ hits # {} => DOMAIN packages' = DOMAIN packages
    BY <2>1, <2>3, <2>4, <2>5, <2>6, <2>7, <2>8, KeyedWrite
  <2>10. QED
    BY <1>2, <2>8, <2>9 DEF KeysStable, KeysKept, UniqueDocuments, KeyInv
<1>6. CASE UpsertDependency(w) \/ UpsertUnsupported(w)
  BY <1>6 DEF UpsertDependency, UpsertUnsupported, KeysStable, KeysKept, UniqueDocuments, KeyInv
<1>7. QED
  BY <1>4, <1>5, <1>6 DEF Save

LEMMA SaveKeys ==
  ASSUME TypeInv, KeyInv, NEW w \in Workers, Save(w)
  PROVE  KeyInv'
<1>1. KeysStable(w)
  BY SaveKeysStable
<1>2. phase[w] = "found" /\ phase'[w] \in {"ok", "failed"} /\ job' = job /\ found' = found
      /\ \A v \in Workers \ {w} : phase'[v] = phase[v]
  BY DEF Save, Return, TypeInv, TypeOK
<1>3. SyncersAlone' /\ ScannersBringIds'
  BY <1>2 DEF KeyInv, SyncersAlone, Busy, ScannersBringIds, Workers
<1>4. FoundKeys'
  BY <1>1, <1>2 DEF KeyInv, FoundKeys, Key, KeysStable, KeysKept
<1>5. FoundNone'
  <2>1. SUFFICES ASSUME NEW v \in Syncers, phase'[v] = "found", found'[v] = {}
                 PROVE  /\ job[v].kind = "purl" => \A i \in DOMAIN purls' : purls'[i].purl # Key(v)
                        /\ job[v].kind = "package" =>
                             \A i \in DOMAIN packages' : packages'[i].purl # Key(v)
    BY <1>2 DEF FoundNone, Key
  <2>2. v # w /\ v \in Workers /\ phase[v] = "found" /\ found[v] = {}
    BY <1>2, <2>1 DEF Workers
  <2>3. w \in Scanners
    BY <1>2, <2>1, <2>2 DEF KeyInv, SyncersAlone, Busy, Workers
  <2>4. QED
    BY <1>1, <2>1, <2>2, <2>3 DEF KeyInv, FoundNone, KeysStable, KeysKept
<1>6. QED
  BY <1>1, <1>3, <1>4, <1>5 DEF KeyInv, KeysStable

LEMMA NextKeys ==
  ASSUME SyncsApart
  PROVE  TypeInv /\ KeyInv /\ [Next]_vars => KeyInv'
<1>1. ASSUME TypeInv, KeyInv, NEW w \in Workers, Step(w)
      PROVE  KeyInv'
  <2>1. CASE RefuseInvalid(w) \/ RefuseSave(w) \/ StoreError(w)
    BY <1>1, <2>1, QuietKeys
    DEF RefuseInvalid, RefuseSave, StoreError, Return, collections, Busy
  <2>2. CASE Leave(w) \/ Crash(w)
    BY <1>1, <2>2, QuietKeys DEF Leave, Crash, Return, collections, TypeInv, TypeOK
  <2>3. QED
    BY <1>1, <2>1, <2>2, SyncCallKeys, ScanCallKeys, LookupKeys, SaveKeys DEF Step
<1>2. KeyInv /\ UNCHANGED vars => KeyInv'
  BY DEF KeyInv, UniqueDocuments, SyncersAlone, Busy, ScannersBringIds, FoundKeys, FoundNone,
         Key, vars, collections
<1>3. QED
  BY <1>1, <1>2 DEF Next

\* If no two syncs overlap, no two documents of Purl or of Package ever share a Package
\* URL, although scans may overlap everything and any call may fail or crash.
THEOREM UniqueIfSyncsApart ==
  ASSUME SyncsApart
  PROVE  Spec => []UniqueDocuments
<1>1. Spec => []TypeInv
  BY InitTyped, NextTyped, PTL DEF Spec
<1>2. TypeInv /\ KeyInv /\ [Next]_vars => KeyInv'
  BY NextKeys
<1>3. KeyInv => UniqueDocuments
  BY DEF KeyInv
<1>4. QED
  BY <1>1, <1>2, <1>3, InitKeys, PTL DEF Spec

------------------------------------------------------------------------------
(* One reference per task, and frozen duplicates: whatever workers overlap. *)

OneRef(refs) == \A r, s \in refs : r.task = s.task => r = s

\* The entities on their way into the Purl collection refer to a task once, and what was
\* read for them is still there under its key.
RefInv ==
  /\ OneRefPerTask
  /\ \A w \in Workers : phase[w] \in {"called", "found"} /\ job[w].kind = "purl" =>
       OneRef(job[w].doc.taskRefs)
  /\ \A w \in Workers : phase[w] = "found" /\ job[w].kind = "purl" =>
       \A e \in found[w] : /\ OneRef(e.doc.taskRefs)
                           /\ e.id \in DOMAIN purls /\ purls[e.id].purl = Key(w)

\* The references of a merge: those of the new entity, and the old ones of other tasks.
LEMMA MergeOneRef ==
  ASSUME NEW refs, NEW others, OneRef(refs), OneRef(others)
  PROVE  OneRef(AddTaskRefs(refs, others))
BY DEF OneRef, AddTaskRefs

\* What an upsert of a Purl writes: documents of its own key only, each with one
\* reference per task, and every key stays where it is.
LEMMA PurlWrite ==
  ASSUME TypeInv, RefInv, NEW w \in Workers, Save(w)
  PROVE  /\ KeysKept(purls, purls')
         /\ \A i \in DOMAIN purls' :
              \/ i \in DOMAIN purls /\ purls'[i] = purls[i]
              \/ /\ job[w].kind = "purl" /\ purls'[i].purl = Key(w)
                 /\ OneRef(purls'[i].taskRefs)
                 /\ i \in DOMAIN purls => purls[i].purl = Key(w)
<1> DEFINE hits == found[w]
           new == job[w].doc
           old == TheOne(found[w]).doc
           merged == MergePurl(new, old)
<1>1. job[w] \in Job /\ phase[w] = "found" /\ purls \in Seq(PurlDoc)
  BY BusyJob DEF TypeInv, TypeOK, Save
<1>2. CASE purls' = purls
  BY <1>2 DEF KeysKept
<1>3. CASE UpsertPurl(w)
  <2>1. /\ job[w].kind = "purl" /\ new \in PurlDoc /\ OneRef(new.taskRefs)
        /\ purls' = Upserted(purls, hits, new, merged)
    BY <1>1, <1>3, JobKinds DEF UpsertPurl, RefInv
  <2>2. CASE hits = {}
    <3>1. purls' = Insert(purls, new)
      BY <2>1, <2>2 DEF Upserted
    <3>2. new \in PurlDoc
      BY <2>1
    <3> HIDE DEF new
    <3>3. /\ DOMAIN purls' = DOMAIN purls \cup {Len(purls) + 1}
          /\ \A i \in DOMAIN purls : purls'[i] = purls[i]
          /\ purls'[Len(purls) + 1] = new
          /\ Len(purls) + 1 \notin DOMAIN purls
      BY <1>1, <3>1, <3>2 DEF Insert
    <3> QED
      BY <2>1, <3>3 DEF KeysKept, Key, new
  <2>3. CASE hits # {}
    <3>1. TheOne(hits) \in hits
      BY <2>3, OneFound
    <3>2. /\ old \in PurlDoc /\ OneRef(old.taskRefs)
          /\ TheOne(hits).id \in DOMAIN purls /\ purls[TheOne(hits).id].purl = Key(w)
      BY <1>1, <2>1, <3>1 DEF TypeInv, FoundTyped, RefInv
    <3>3. merged \in PurlDoc
      BY <2>1, <3>2, MergesTyped DEF PurlDoc
    <3>4. merged.purl = Key(w) /\ OneRef(merged.taskRefs)
      BY <2>1, <3>2, MergeOneRef DEF MergePurl, Key
    <3>5. purls' = Update(purls, TheOne(hits).id, merged)
      BY <2>1, <2>3 DEF Upserted
    <3> HIDE DEF hits, new, old, merged
    <3>6. /\ DOMAIN purls' = DOMAIN purls
          /\ \A i \in DOMAIN purls : purls'[i] = IF i = TheOne(hits).id THEN merged ELSE purls[i]
      BY <1>1, <3>3, <3>5, UpdateProperties
    <3> QED
      BY <2>1, <3>2, <3>4, <3>6 DEF KeysKept
  <2> QED
    BY <2>2, <2>3
<1> QED
  BY <1>2, <1>3 DEF Save, UpsertPackage, UpsertDependency, UpsertUnsupported

\* A new entity of a sync refers to its task alone; a scan adds its reference to those
\* of the Purl it listed, none of which is its own.
LEMMA CallOneRef ==
  ASSUME TypeInv, RefInv, NEW w \in Workers, SyncCall(w) \/ ScanCall(w)
  PROVE  \E j : Enter(w, j) /\ (j.kind = "purl" => OneRef(j.doc.taskRefs))
<1>1. CASE SyncCall(w)
  <2>1. PICK p \in Purls, x \in Xrefs :
          \/ Enter(w, PackageJob(p, x))
          \/ Enter(w, PurlJob(p, w, 1, x))
          \/ Enter(w, PurlJob(p, w, 0, x))
          \/ \E r \in Purls \ {EmptyPurl} : Enter(w, DependencyJob(r, p, x))
          \/ \E e \in ExternalIds : Enter(w, UnsupportedJob(e, x))
    BY <1>1 DEF SyncCall
  <2>2. /\ PackageJob(p, x).kind # "purl"
        /\ \A r : DependencyJob(r, p, x).kind # "purl"
        /\ \A e : UnsupportedJob(e, x).kind # "purl"
        /\ \A n : OneRef(PurlJob(p, w, n, x).doc.taskRefs)
    BY DEF PackageJob, DependencyJob, UnsupportedJob, PurlJob, FromComponent, OneRef
  <2> QED
    BY <2>1, <2>2
<1>2. CASE ScanCall(w)
  <2>1. PICK i \in DOMAIN purls, F \in SUBSET Vulnerabilities :
          /\ \A r \in purls[i].taskRefs : r.task # w
          /\ Enter(w, RescanJob(w, i, purls[i], F))
    BY <1>2 DEF ScanCall
  <2> DEFINE doc == [purls[i] EXCEPT !.vulnerabilities = AddVulnerabilities(@, F)]
             ref == [task |-> w, iteration |-> NextIteration(doc.taskRefs)]
  <2>2. purls[i] \in PurlDoc /\ OneRef(purls[i].taskRefs)
    BY DEF TypeInv, TypeOK, RefInv, OneRefPerTask, OneRef
  <2>3. doc.taskRefs = purls[i].taskRefs /\ "taskRefs" \in DOMAIN doc
    BY <2>2 DEF PurlDoc
  <2>4. InitScan(doc, w).taskRefs = purls[i].taskRefs \cup {ref} /\ ref.task = w
    BY <2>3 DEF InitScan
  <2>5. OneRef(InitScan(doc, w).taskRefs)
    BY <2>1, <2>2, <2>4 DEF OneRef
  <2>6. RescanJob(w, i, purls[i], F).doc = InitScan(doc, w)
    BY DEF RescanJob
  <2> QED
    BY <2>1, <2>5, <2>6
<1> QED
  BY <1>1, <1>2

LEMMA InitRefs == Init => RefInv
BY DEF Init, RefInv, OneRefPerTask

LEMMA NextRefs == TypeInv /\ RefInv /\ [Next]_vars => RefInv'
<1>1. ASSUME TypeInv, RefInv, NEW w \in Workers, SyncCall(w) \/ ScanCall(w)
      PROVE  RefInv'
  <2>1. PICK j : Enter(w, j) /\ (j.kind = "purl" => OneRef(j.doc.taskRefs))
    BY <1>1, CallOneRef
  <2>2. /\ phase' = [phase EXCEPT ![w] = "called"] /\ job' = [job EXCEPT ![w] = j]
        /\ found' = found /\ purls' = purls
    BY <2>1 DEF Enter, collections
  <2>3. /\ phase'[w] = "called" /\ job'[w] = j
        /\ \A v \in Workers \ {w} : phase'[v] = phase[v] /\ job'[v] = job[v]
    BY <1>1, <2>2 DEF TypeInv, TypeOK
  <2> QED
    BY <1>1, <2>1, <2>2, <2>3 DEF RefInv, OneRefPerTask, Key
<1>2. ASSUME TypeInv, RefInv, NEW w \in Workers, Lookup(w)
      PROVE  RefInv'
  <2>1. /\ phase[w] = "called" /\ phase' = [phase EXCEPT ![w] = "found"]
        /\ found' = [found EXCEPT ![w] = Existing(job[w])]
        /\ job' = job /\ purls' = purls
    BY <1>2 DEF Lookup, Return, collections
  <2>2. /\ phase'[w] = "found" /\ found'[w] = Existing(job[w])
        /\ \A v \in Workers \ {w} : phase'[v] = phase[v] /\ found'[v] = found[v]
    BY <1>2, <2>1 DEF TypeInv, TypeOK
  <2>3. ASSUME job[w].kind = "purl", NEW e \in Existing(job[w])
        PROVE  /\ OneRef(e.doc.taskRefs)
               /\ e.id \in DOMAIN purls /\ purls[e.id].purl = Key(w)
    <3>1. PICK i \in DOMAIN purls : e = [id |-> i, doc |-> purls[i]] /\ purls[i].purl = Key(w)
      BY <1>2, <2>3, PurlQuery DEF Existing, Documents, PurlFilter, Key, TypeInv, TypeOK
    <3> QED
      BY <1>2, <3>1 DEF RefInv, OneRefPerTask, OneRef
  <2> QED
    BY <1>2, <2>1, <2>2, <2>3 DEF RefInv, OneRefPerTask, Key
<1>3. ASSUME TypeInv, RefInv, NEW w \in Workers, Save(w)
      PROVE  RefInv'
  <2>1. /\ phase'[w] \in {"ok", "failed"} /\ job' = job /\ found' = found
        /\ \A v \in Workers \ {w} : phase'[v] = phase[v]
    BY <1>3 DEF Save, Return, TypeInv, TypeOK
  <2>2. /\ KeysKept(purls, purls')
        /\ \A i \in DOMAIN purls' : OneRef(purls'[i].taskRefs)
    BY <1>3, PurlWrite DEF RefInv, OneRefPerTask, OneRef
  <2>3. OneRefPerTask'
    BY <2>2 DEF OneRefPerTask, OneRef
  <2> QED
    BY <1>3, <2>1, <2>2, <2>3 DEF RefInv, KeysKept, Key
<1>4. ASSUME TypeInv, RefInv, NEW w \in Workers,
             RefuseInvalid(w) \/ RefuseSave(w) \/ StoreError(w) \/ Leave(w) \/ Crash(w)
      PROVE  RefInv'
  <2>1. /\ purls' = purls /\ phase'[w] \in {"failed", "idle", "dead"}
        /\ \A v \in Workers \ {w} : phase'[v] = phase[v] /\ job'[v] = job[v] /\ found'[v] = found[v]
    BY <1>4 DEF RefuseInvalid, RefuseSave, StoreError, Leave, Crash, Return, collections, TypeInv,
                TypeOK
  <2> QED
    BY <1>4, <2>1 DEF RefInv, OneRefPerTask, Key
<1>5. RefInv /\ UNCHANGED vars => RefInv'
  BY DEF RefInv, OneRefPerTask, Key, vars, collections
<1> QED
  BY <1>1, <1>2, <1>3, <1>4, <1>5 DEF Next, Step

\* A Purl refers to a task at most once, whatever overlaps: the appended references of
\* init_scan and the merges of upsert_purl never give a task a second one.
THEOREM OneReferencePerTask == Spec => []OneRefPerTask
<1>1. Spec => []TypeInv
  BY InitTyped, NextTyped, PTL DEF Spec
<1>2. RefInv => OneRefPerTask
  BY DEF RefInv
<1> QED
  BY <1>1, <1>2, InitRefs, NextRefs, PTL DEF Spec

\* A step can not put an upsert in flight for a Package URL that has two documents: its
\* lookup finds both of them.
LEMMA FrozenStays ==
  ASSUME TypeInv, RefInv, Next, NEW p \in Purls, Frozen(p)
  PROVE  Frozen(p)' /\ LedgerOf(p)' = LedgerOf(p)
<1> PICK w \in Workers : Step(w)
  BY DEF Next
<1>0. purls \in Seq(PurlDoc)
  BY DEF TypeInv, TypeOK
<1>1. /\ PurlIds(p)' = PurlIds(p)
      /\ \A i \in PurlIds(p) : purls'[i] = purls[i]
  <2>1. CASE purls' = purls
    BY <2>1 DEF PurlIds
  <2>2. CASE Save(w)
    <3>1. CASE job[w].kind = "purl" /\ Key(w) = p
      BY <2>2, <3>1 DEF Frozen, InFlight, Save, Key
    <3>2. CASE ~(job[w].kind = "purl" /\ Key(w) = p)
      <4>1. /\ KeysKept(purls, purls')
            /\ \A i \in DOMAIN purls' :
                 \/ i \in DOMAIN purls /\ purls'[i] = purls[i]
                 \/ /\ job[w].kind = "purl" /\ purls'[i].purl = Key(w)
                    /\ i \in DOMAIN purls => purls[i].purl = Key(w)
        BY <2>2, PurlWrite
      <4> QED
        BY <3>2, <4>1 DEF KeysKept, PurlIds
    <3> QED
      BY <3>1, <3>2
  <2> QED
    BY <2>1, <2>2 DEF Step, SyncCall, ScanCall, Enter, RefuseInvalid, Lookup, RefuseSave,
                      StoreError, Leave, Crash, collections
<1>2. ~InFlight(p)'
  <2>1. ASSUME NEW v \in Workers, phase'[v] = "found", job'[v].kind = "purl", job'[v].doc.purl = p
        PROVE  Refused(v)'
    <3>1. CASE phase[v] = "found" /\ job'[v] = job[v] /\ found'[v] = found[v]
      BY <2>1, <3>1 DEF Frozen, InFlight, Refused
    <3>2. CASE v = w /\ Lookup(w)
      <4>1. found'[w] = Existing(job[w]) /\ job' = job
        BY <3>2 DEF Lookup, TypeInv, TypeOK
      <4>2. Existing(job[w]) = {[id |-> i, doc |-> purls[i]] : i \in PurlIds(p)}
        BY <1>0, <2>1, <3>2, <4>1, PurlQuery DEF Existing, Documents, PurlFilter, PurlIds
      <4>3. PICK i \in PurlIds(p), j \in PurlIds(p) : i # j
        BY DEF Frozen
      <4>4. /\ [id |-> i, doc |-> purls[i]] \in Existing(job[w])
            /\ [id |-> j, doc |-> purls[j]] \in Existing(job[w])
            /\ [id |-> i, doc |-> purls[i]] # [id |-> j, doc |-> purls[j]]
        BY <4>2, <4>3
      <4> QED
        BY <3>2, <4>1, <4>4 DEF Refused, Duplicate
    <3>3. \/ phase[v] = "found" /\ job'[v] = job[v] /\ found'[v] = found[v]
          \/ v = w /\ Lookup(w)
      BY <2>1 DEF Step, SyncCall, ScanCall, Enter, PackageJob, RefuseInvalid, Lookup, RefuseSave,
                  Save, StoreError, Leave, Crash, Return, TypeInv, TypeOK
    <3> QED
      BY <3>1, <3>2, <3>3
  <2> QED
    BY <2>1 DEF InFlight
<1>3. Frozen(p)'
  BY <1>1, <1>2 DEF Frozen
<1>4. LedgerOf(p)' = LedgerOf(p)
  <2>1. {{r.task : r \in purls'[i].taskRefs} : i \in PurlIds(p)}
          = {{r.task : r \in purls[i].taskRefs} : i \in PurlIds(p)}
    BY <1>1
  <2>2. /\ {purls'[i].xrefs : i \in PurlIds(p)} = {purls[i].xrefs : i \in PurlIds(p)}
        /\ {purls'[i].vulnerabilities : i \in PurlIds(p)}
             = {purls[i].vulnerabilities : i \in PurlIds(p)}
    BY <1>1
  <2> QED
    BY <1>1, <2>1, <2>2, Zenon DEF LedgerOf
<1> QED
  BY <1>3, <1>4

\* Once two documents share a Package URL and the upserts that had read before that have
\* drained, what Harbor knows of it is frozen for good.
THEOREM DuplicatesFreeze == Spec => FrozenDuplicates
<1>1. Spec => []TypeInv
  BY InitTyped, NextTyped, PTL DEF Spec
<1>2. TypeInv /\ RefInv /\ [Next]_vars
        => [\A p \in Purls : Frozen(p) => Frozen(p)' /\ LedgerOf(p)' = LedgerOf(p)]_vars
  BY FrozenStays
<1> QED
  BY <1>1, <1>2, InitRefs, NextRefs, PTL DEF Spec, FrozenDuplicates

------------------------------------------------------------------------------
(* PackageService implements PurlLedger when no two upserts overlap: an      *)
(* upsert merges into what is still there, so the step that saves a Purl     *)
(* adds the facts of the new Purl to what was known, and nothing is lost.    *)

\* Workers take turns.
Alone == Parallel = {}

OneBusy == \A v, w \in Workers : Busy(v) /\ Busy(w) => v = w

\* What an upsert of a Purl has read is what is stored.
FoundCurrent ==
  \A w \in Workers : phase[w] = "found" /\ job[w].kind = "purl" =>
    \A e \in found[w] :
      e.id \in DOMAIN purls /\ e.doc = purls[e.id] /\ e.doc.purl = job[w].doc.purl

AloneInv == OneBusy /\ FoundCurrent

LEMMA InitAlone == Init => AloneInv
BY DEF Init, AloneInv, OneBusy, FoundCurrent, Busy

LEMMA LookupCurrent ==
  ASSUME TypeInv, AloneInv, NEW w \in Workers, Lookup(w)
  PROVE  FoundCurrent'
<1>1. /\ phase' = [phase EXCEPT ![w] = "found"]
      /\ found' = [found EXCEPT ![w] = Existing(job[w])]
      /\ job' = job /\ purls' = purls
  BY DEF Lookup, Return, collections
<1>2. purls \in Seq(PurlDoc)
  BY DEF TypeInv, TypeOK
<1>3. ASSUME job[w].kind = "purl", NEW e \in Existing(job[w])
      PROVE  e.id \in DOMAIN purls /\ e.doc = purls[e.id] /\ e.doc.purl = job[w].doc.purl
  <2>1. e \in Documents(purls, [purl |-> job[w].doc.purl])
    BY <1>3 DEF Existing, PurlFilter
  <2>2. QED
    BY <1>2, <2>1, PurlQuery DEF Documents
<1>4. SUFFICES ASSUME NEW v \in Workers, phase'[v] = "found", job[v].kind = "purl",
                      NEW e \in found'[v]
               PROVE  e.id \in DOMAIN purls /\ e.doc = purls[e.id]
                      /\ e.doc.purl = job[v].doc.purl
  BY <1>1 DEF FoundCurrent
<1>5. CASE v = w
  BY <1>1, <1>3, <1>4, <1>5 DEF TypeInv, TypeOK
<1>6. CASE v # w
  BY <1>1, <1>4, <1>6 DEF AloneInv, FoundCurrent, TypeInv, TypeOK
<1>7. QED
  BY <1>5, <1>6

LEMMA NextAlone ==
  ASSUME Alone
  PROVE  TypeInv /\ AloneInv /\ [Next]_vars => AloneInv'
<1>1. ASSUME TypeInv, AloneInv, NEW w \in Workers, Step(w)
      PROVE  AloneInv'
  <2>1. \A v \in Workers \ {w} : phase'[v] = phase[v] /\ job'[v] = job[v] /\ found'[v] = found[v]
    BY <1>1 DEF Step, SyncCall, ScanCall, Enter, RefuseInvalid, Lookup, RefuseSave, Save,
                StoreError, Leave, Crash, Return, TypeInv, TypeOK
  <2>2. phase[w] = "idle" /\ phase'[w] = "called" => \A v \in Workers \ {w} : ~Busy(v)
    BY <1>1 DEF Step, SyncCall, ScanCall, Enter, MayEnter, Alone, RefuseInvalid, Lookup,
                RefuseSave, Save, StoreError, Leave, Crash, Return, TypeInv, TypeOK
  <2>3. phase[w] = "idle" => phase'[w] \in {"called", "dead"}
    BY <1>1 DEF Step, SyncCall, ScanCall, Enter, RefuseInvalid, Lookup, RefuseSave, Save,
                StoreError, Leave, Crash, Return, TypeInv, TypeOK
  <2>4. phase[w] # "dead"
    BY <1>1 DEF Step, SyncCall, ScanCall, Enter, RefuseInvalid, Lookup, RefuseSave, Save,
                StoreError, Leave, Crash
  <2>5. OneBusy'
    BY <1>1, <2>1, <2>2, <2>3, <2>4 DEF AloneInv, OneBusy, Busy
  <2>6. CASE Lookup(w)
    BY <1>1, <2>5, <2>6, LookupCurrent DEF AloneInv
  <2>7. CASE Save(w)
    <3>1. \A v \in Workers \ {w} : ~Busy(v)
      BY <1>1, <2>7 DEF AloneInv, OneBusy, Busy, Save
    <3>2. \A v \in Workers : phase'[v] # "found"
      BY <1>1, <2>1, <2>7, <3>1 DEF Busy, Save, Return, TypeInv, TypeOK
    <3>3. QED
      BY <2>5, <3>2 DEF AloneInv, FoundCurrent
  <2>8. CASE SyncCall(w) \/ ScanCall(w) \/ RefuseInvalid(w) \/ RefuseSave(w)
             \/ StoreError(w) \/ Leave(w) \/ Crash(w)
    <3>1. purls' = purls /\ phase'[w] # "found"
      BY <1>1, <2>8 DEF SyncCall, ScanCall, Enter, RefuseInvalid, RefuseSave, StoreError,
                  Leave, Crash, Return, collections, TypeInv, TypeOK
    <3>2. FoundCurrent'
      BY <1>1, <2>1, <3>1 DEF AloneInv, FoundCurrent
    <3>3. QED
      BY <2>5, <3>2 DEF AloneInv
  <2>9. QED
    BY <1>1, <2>6, <2>7, <2>8 DEF Step
<1>2. AloneInv /\ UNCHANGED vars => AloneInv'
  BY DEF AloneInv, OneBusy, Busy, FoundCurrent, vars, collections
<1>3. QED
  BY <1>1, <1>2 DEF Next

------------------------------------------------------------------------------
(* A save adds to the ledger. *)

TasksOf(doc) == {r.task : r \in doc.taskRefs}

Facts(doc) ==
  [tasks |-> TasksOf(doc), xrefs |-> doc.xrefs, vulnerabilities |-> doc.vulnerabilities]

LEMMA FactsTyped ==
  ASSUME NEW doc \in PurlDoc
  PROVE  Facts(doc) \in Ledger!Entry
<1>1. TasksOf(doc) \subseteq Tasks
  BY DEF TasksOf, PurlDoc, TaskRef
<1>2. QED
  BY <1>1 DEF Facts, PurlDoc, Ledger!Entry

\* What upsert_purl writes knows what both documents knew.
LEMMA MergeFacts ==
  ASSUME NEW new \in PurlDoc, NEW old \in PurlDoc
  PROVE  LET m == MergePurl(new, old)
         IN  /\ m.purl = new.purl
             /\ TasksOf(m) = TasksOf(old) \cup TasksOf(new)
             /\ m.xrefs = old.xrefs \cup new.xrefs
             /\ m.vulnerabilities = old.vulnerabilities \cup new.vulnerabilities
<1> DEFINE m == MergePurl(new, old)
<1>1. m.taskRefs = new.taskRefs \cup {o \in old.taskRefs : \A r \in new.taskRefs : r.task # o.task}
  BY DEF MergePurl, AddTaskRefs
<1>2. TasksOf(m) = TasksOf(old) \cup TasksOf(new)
  BY <1>1 DEF TasksOf
<1>3. m.xrefs = new.xrefs \cup {o \in old.xrefs : \A x \in new.xrefs : ~Eq(x, o)}
  BY DEF MergePurl, AddXrefs
<1>4. \A o \in old.xrefs, x \in new.xrefs : Eq(x, o) <=> x = o
  <2>1. new.xrefs \subseteq Xrefs /\ old.xrefs \subseteq Xrefs
    BY DEF PurlDoc
  <2>2. QED
    BY <2>1, SnykEq
<1>5. m.xrefs = old.xrefs \cup new.xrefs
  BY <1>3, <1>4
<1>6. QED
  BY <1>2, <1>5 DEF MergePurl, AddVulnerabilities

\* One member of a family of sets grows, or joins it.
LEMMA UnionGrows ==
  ASSUME NEW S, NEW i, NEW f, NEW g, NEW A,
         \A j \in S \ {i} : g[j] = f[j],
         i \in S => g[i] = f[i] \cup A,
         i \notin S => g[i] = A
  PROVE  UNION {g[j] : j \in S \cup {i}} = (UNION {f[j] : j \in S}) \cup A
<1>1. ASSUME NEW x PROVE x \in UNION {g[j] : j \in S \cup {i}}
                         <=> x \in (UNION {f[j] : j \in S}) \cup A
  <2>1. CASE i \in S
    BY <2>1
  <2>2. CASE i \notin S
    BY <2>2
  <2>3. QED
    BY <2>1, <2>2
<1>2. QED
  BY <1>1

\* The document `i` of key `p` learns what `new` knows; the others stay.
Learns(i, new) ==
  /\ \A q \in Purls : PurlIds(q)' = IF q = new.purl THEN PurlIds(q) \cup {i} ELSE PurlIds(q)
  /\ \A j \in DOMAIN purls \ {i} : purls'[j] = purls[j]
  /\ i \notin PurlIds(new.purl) => i \notin DOMAIN purls /\ purls'[i] = new
  /\ i \in PurlIds(new.purl) => purls'[i] = MergePurl(new, purls[i])

LEMMA LearnsFacts ==
  ASSUME TypeInv, NEW i, NEW new \in PurlDoc, Learns(i, new)
  PROVE  Ledger!Learn(new.purl, Facts(new))
<1> DEFINE p == new.purl
           S == PurlIds(p)
<1>1. S \subseteq DOMAIN purls /\ \A j \in DOMAIN purls : purls[j] \in PurlDoc
  BY DEF PurlIds, TypeInv, TypeOK
<1>2. /\ i \notin S => purls'[i] = new
      /\ i \in S => /\ TasksOf(purls'[i]) = TasksOf(purls[i]) \cup TasksOf(new)
                    /\ purls'[i].xrefs = purls[i].xrefs \cup new.xrefs
                    /\ purls'[i].vulnerabilities
                         = purls[i].vulnerabilities \cup new.vulnerabilities
  BY <1>1, MergeFacts DEF Learns
<1>3. \A j \in S \ {i} : purls'[j] = purls[j]
  BY <1>1 DEF Learns
<1>4. PurlIds(p)' = S \cup {i}
  BY DEF Learns, PurlDoc
<1>5. UNION {TasksOf(purls'[j]) : j \in S \cup {i}}
        = (UNION {TasksOf(purls[j]) : j \in S}) \cup TasksOf(new)
  <2> DEFINE f == [j \in S |-> TasksOf(purls[j])]
             g == [j \in S \cup {i} |-> TasksOf(purls'[j])]
  <2>1. UNION {g[j] : j \in S \cup {i}} = (UNION {f[j] : j \in S}) \cup TasksOf(new)
    <3>1. \A j \in S \ {i} : g[j] = f[j]
      BY <1>3
    <3>2. i \in S => g[i] = f[i] \cup TasksOf(new)
      BY <1>2
    <3>3. i \notin S => g[i] = TasksOf(new)
      BY <1>2
    <3> HIDE DEF f, g, S
    <3>4. QED
      BY <3>1, <3>2, <3>3, UnionGrows
  <2>2. QED
    BY <2>1
<1>6. UNION {purls'[j].xrefs : j \in S \cup {i}} = (UNION {purls[j].xrefs : j \in S}) \cup new.xrefs
  <2> DEFINE f == [j \in S |-> purls[j].xrefs]
             g == [j \in S \cup {i} |-> purls'[j].xrefs]
  <2>1. UNION {g[j] : j \in S \cup {i}} = (UNION {f[j] : j \in S}) \cup new.xrefs
    <3>1. \A j \in S \ {i} : g[j] = f[j]
      BY <1>3
    <3>2. i \in S => g[i] = f[i] \cup new.xrefs
      BY <1>2
    <3>3. i \notin S => g[i] = new.xrefs
      BY <1>2
    <3> HIDE DEF f, g, S
    <3>4. QED
      BY <3>1, <3>2, <3>3, UnionGrows
  <2>2. QED
    BY <2>1
<1>7. UNION {purls'[j].vulnerabilities : j \in S \cup {i}}
        = (UNION {purls[j].vulnerabilities : j \in S}) \cup new.vulnerabilities
  <2> DEFINE f == [j \in S |-> purls[j].vulnerabilities]
             g == [j \in S \cup {i} |-> purls'[j].vulnerabilities]
  <2>1. UNION {g[j] : j \in S \cup {i}} = (UNION {f[j] : j \in S}) \cup new.vulnerabilities
    <3>1. \A j \in S \ {i} : g[j] = f[j]
      BY <1>3
    <3>2. i \in S => g[i] = f[i] \cup new.vulnerabilities
      BY <1>2
    <3>3. i \notin S => g[i] = new.vulnerabilities
      BY <1>2
    <3> HIDE DEF f, g, S
    <3>4. QED
      BY <3>1, <3>2, <3>3, UnionGrows
  <2>2. QED
    BY <2>1
<1>8. LedgerOf(p)' = [tasks |-> LedgerOf(p).tasks \cup Facts(new).tasks,
                      xrefs |-> LedgerOf(p).xrefs \cup Facts(new).xrefs,
                      vulnerabilities |-> LedgerOf(p).vulnerabilities
                                            \cup Facts(new).vulnerabilities]
  <2> DEFINE T2 == UNION {TasksOf(purls'[j]) : j \in S \cup {i}}
             X2 == UNION {purls'[j].xrefs : j \in S \cup {i}}
             V2 == UNION {purls'[j].vulnerabilities : j \in S \cup {i}}
             T1 == UNION {TasksOf(purls[j]) : j \in S}
             X1 == UNION {purls[j].xrefs : j \in S}
             V1 == UNION {purls[j].vulnerabilities : j \in S}
  <2>1. LedgerOf(p)' = [tasks |-> T2, xrefs |-> X2, vulnerabilities |-> V2]
    BY <1>4 DEF LedgerOf, TasksOf
  <2>2. LedgerOf(p) = [tasks |-> T1, xrefs |-> X1, vulnerabilities |-> V1]
    BY DEF LedgerOf, TasksOf
  <2>3. /\ T2 = T1 \cup TasksOf(new)
        /\ X2 = X1 \cup new.xrefs
        /\ V2 = V1 \cup new.vulnerabilities
    BY <1>5, <1>6, <1>7
  <2>4. Facts(new) = [tasks |-> TasksOf(new), xrefs |-> new.xrefs,
                      vulnerabilities |-> new.vulnerabilities]
    BY DEF Facts
  <2> HIDE DEF S, p, T1, X1, V1, T2, X2, V2
  <2>5. QED
    BY <2>1, <2>2, <2>3, <2>4
<1>9. ASSUME NEW q \in Purls, q # p PROVE LedgerOf(q)' = LedgerOf(q)
  <2>1. PurlIds(q)' = PurlIds(q)
    BY <1>9 DEF Learns
  <2>2. i \notin PurlIds(q)
    BY <1>9 DEF Learns, PurlIds
  <2>3. \A j \in PurlIds(q) : purls'[j] = purls[j]
    BY <2>2 DEF Learns, PurlIds
  <2>4. QED
    BY <2>1, <2>3 DEF LedgerOf
<1>10. p \in Purls
  BY DEF PurlDoc
<1> HIDE DEF p, S
<1>11. QED
  BY <1>8, <1>9, <1>10 DEF Ledger!Learn, p

\* The step that saves a Purl.
LEMMA SaveLearns ==
  ASSUME TypeInv, AloneInv, NEW w \in Workers, Save(w), UpsertPurl(w)
  PROVE  \E i : Learns(i, job[w].doc) /\ job[w].doc \in PurlDoc
<1> DEFINE new == job[w].doc
           old == TheOne(found[w])
<1>1. job[w].kind = "purl" /\ new \in PurlDoc /\ phase[w] = "found"
  BY BusyJob, JobKinds DEF TypeInv, Save, UpsertPurl
<1>2. purls \in Seq(PurlDoc)
  BY DEF TypeInv, TypeOK
<1>3. CASE found[w] = {}
  <2>1. purls' = Insert(purls, new)
    BY <1>3 DEF UpsertPurl, Upserted
  <2>2. /\ DOMAIN purls' = DOMAIN purls \cup {Len(purls) + 1}
        /\ \A j \in DOMAIN purls : purls'[j] = purls[j]
        /\ purls'[Len(purls) + 1] = new
        /\ Len(purls) + 1 \notin DOMAIN purls
    BY <1>2, <2>1 DEF Insert
  <2> HIDE DEF new
  <2>3. \A q \in Purls : PurlIds(q)' =
          IF q = new.purl THEN PurlIds(q) \cup {Len(purls) + 1} ELSE PurlIds(q)
    BY <2>2 DEF PurlIds
  <2>4. Learns(Len(purls) + 1, new)
    BY <2>2, <2>3 DEF Learns, PurlIds
  <2>5. QED
    BY <1>1, <2>4 DEF new
<1>4. CASE found[w] # {}
  <2>1. old \in found[w]
    BY <1>4, OneFound
  <2>2. old.id \in DOMAIN purls /\ old.doc = purls[old.id] /\ purls[old.id].purl = new.purl
    BY <1>1, <2>1 DEF AloneInv, FoundCurrent
  <2>3. purls[old.id] \in PurlDoc
    BY <1>2, <2>2
  <2>4. purls' = Update(purls, old.id, MergePurl(new, purls[old.id]))
    BY <1>4, <2>2 DEF UpsertPurl, Upserted
  <2>5. MergePurl(new, purls[old.id]) \in PurlDoc
        /\ MergePurl(new, purls[old.id]).purl = new.purl
    BY <1>1, <2>3, MergesTyped DEF MergePurl, PurlDoc
  <2> DEFINE k == old.id
             m == MergePurl(new, purls[old.id])
  <2>6. /\ DOMAIN purls' = DOMAIN purls
        /\ \A j \in DOMAIN purls : purls'[j] = IF j = k THEN m ELSE purls[j]
    BY <1>2, <2>4, <2>5, UpdateProperties
  <2>7. k \in DOMAIN purls /\ purls[k].purl = new.purl /\ m.purl = new.purl
        /\ m = MergePurl(new, purls[k])
    BY <2>2, <2>5
  <2> HIDE DEF new, old, k, m
  <2>8. \A q \in Purls : PurlIds(q)' = IF q = new.purl THEN PurlIds(q) \cup {k} ELSE PurlIds(q)
    BY <2>6, <2>7 DEF PurlIds
  <2>9. Learns(k, new)
    BY <2>6, <2>7, <2>8 DEF Learns, PurlIds
  <2>10. QED
    BY <1>1, <2>9 DEF new
<1>5. QED
  BY <1>3, <1>4

\* When upserts do not overlap, nothing recorded about a Package URL is ever lost,
\* whatever fails, is applied without an answer, or crashes.
THEOREM LedgerImplemented ==
  ASSUME Alone
  PROVE  Spec => ImplementsLedger
<1>1. Spec => []TypeInv
  BY InitTyped, NextTyped, PTL DEF Spec
<1>2. TypeInv /\ AloneInv /\ [Next]_vars => AloneInv'
  BY NextAlone
<1>3. Spec => [](TypeInv /\ AloneInv)
  BY <1>1, <1>2, InitAlone, PTL DEF Spec
<1>4. Init => Ledger!Init
  <2>1. Init => \A p \in Purls : PurlIds(p) = {}
    BY DEF Init, PurlIds
  <2>2. QED
    BY <2>1 DEF Ledger!Init, Ledger!Unknown, LedgerOf
<1>5. TypeInv /\ AloneInv /\ [Next]_vars => [Ledger!Next]_([p \in Purls |-> LedgerOf(p)])
  <2>1. ASSUME TypeInv, AloneInv, NEW w \in Workers, Save(w), UpsertPurl(w)
        PROVE  Ledger!Next
    <3>1. PICK i : Learns(i, job[w].doc) /\ job[w].doc \in PurlDoc
      BY <2>1, SaveLearns
    <3>2. Ledger!Learn(job[w].doc.purl, Facts(job[w].doc))
      BY <2>1, <3>1, LearnsFacts
    <3>3. job[w].doc.purl \in Purls /\ Facts(job[w].doc) \in Ledger!Entry
      BY <3>1, FactsTyped DEF PurlDoc
    <3>4. QED
      BY <3>2, <3>3 DEF Ledger!Next
  <2>2. ASSUME NEW w \in Workers, Step(w), ~(Save(w) /\ UpsertPurl(w))
        PROVE  purls' = purls
    BY <2>2 DEF Step, SyncCall, ScanCall, Enter, RefuseInvalid, Lookup, RefuseSave, Save,
                StoreError, Leave, Crash, collections, UpsertPackage, UpsertPurl,
                UpsertDependency, UpsertUnsupported
  <2>3. purls' = purls => UNCHANGED [p \in Purls |-> LedgerOf(p)]
    BY DEF LedgerOf, PurlIds
  <2>4. UNCHANGED vars => purls' = purls
    BY DEF vars, collections
  <2>5. QED
    BY <2>1, <2>2, <2>3, <2>4 DEF Next
<1>6. QED
  BY <1>3, <1>4, <1>5, PTL DEF Spec, ImplementsLedger, Ledger!Spec
=============================================================================
