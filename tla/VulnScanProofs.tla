---------------------------- MODULE VulnScanProofs ----------------------------
(***************************************************************************)
(* Theorems about VulnScan.  It is a TaskProvider, so what is proved of    *)
(* execute() holds of a scan; what it records and what it files agree,     *)
(* whatever overlaps, and stays as it is when nothing does.                *)
(***************************************************************************)
EXTENDS VulnScan, TaskProviderProofs, FiniteSetTheorems

\* A step of a scan, or of a sync meanwhile, is a step of its Task or leaves it alone.
LEMMA ScanStepIsTask == [ScanNext]_vars => [Next]_taskVars
<1>1. ASSUME NEW t \in Syncs, SyncLookup(t) \/ SyncSave(t)
      PROVE  UNCHANGED taskVars
  BY <1>1 DEF SyncLookup, SyncSave
<1>2. ASSUME NEW e \in Executions, ScanWork(e) \/ ScanCrash(e)
      PROVE  Work(e) \/ Crash(e) \/ UNCHANGED taskVars
  <2>1. CASE ScanScript(e) \/ List(e) \/ ScanCrash(e)
    BY <2>1 DEF ScanScript, List, ScanCrash, Work, Script
  <2>2. CASE NoFindings(e) \/ Findings(e) \/ StoreFindings(e) \/ Lookup(e) \/ Save(e)
    BY <2>2 DEF NoFindings, Findings, StoreFindings, Lookup, Save, Finish, Continue, Work
  <2>3. QED
    BY <1>2, <2>1, <2>2 DEF ScanWork, ScanStep
<1>3. UNCHANGED vars => UNCHANGED taskVars
  BY DEF vars
<1>4. QED
  BY <1>1, <1>2, <1>3 DEF ScanNext, Next

\* A scan runs the transaction script of TaskProvider, and a sync that goes on meanwhile
\* does not show in its Task.
THEOREM ScanIsTask == ScanSpec => Spec
<1>1. ScanInit => Init
  BY DEF ScanInit
<1>2. QED
  BY <1>1, ScanStepIsTask, PTL DEF ScanSpec, Spec

\* So the Task of a scan tells what happened to its Purls.
THEOREM ScanTruthful == ScanSpec => []StatusTruthful
BY ScanIsTask, TaskTruthful, PTL

------------------------------------------------------------------------------
(* The invariant, whatever scans and syncs overlap. *)

\* The references of a Purl have a latest iteration.
RefsBounded(refs) == \E b \in Nat : \A r \in refs : r.iteration <= b

Docs == {d \in Doc : RefsBounded(d.taskRefs)}

Hits == [id : Nat, doc : Docs]

SyncUpserts == [new : Docs, found : SUBSET Hits]

ScanShape ==
  /\ purls \in Seq(Docs)
  /\ \A n \in DOMAIN files : files[n] \subseteq Vulnerabilities
  /\ listed \in [Executions -> Seq(Docs)]
  /\ step \in [Executions -> {"idle", "scanned", "stored", "found"}]
  /\ purl \in [Executions -> Docs \cup {NoPurl}]
  /\ found \in [Executions -> SUBSET Hits]
  /\ synced \in [Syncs -> SyncUpserts \cup {NoUpsert}]

\* The copies of Purls that somebody may still act on: the collection, the lists of the
\* scans, and what their queries returned.
InCollection == {purls[i] : i \in DOMAIN purls}

InLists == UNION {{listed[f][n] : n \in DOMAIN listed[f]} : f \in Executions}

InQueries == UNION {{hit.doc : hit \in found[f]} : f \in Executions}

InSyncs == UNION {{hit.doc : hit \in synced[t].found} : t \in Syncs}

Copies == InCollection \cup InLists \cup InQueries \cup InSyncs

RefersTo(d, e) == \E r \in d.taskRefs : r.task = e

OnFile(d) == \A r \in Scans(d) : FileName(d.purl, r.iteration) \in DOMAIN files

\* A scan that has not listed the Purls yet has left no reference.
Unlisted(e) == pc[e] \in {"new", "running"}

CopyOK(d) == OnFile(d) /\ \A e \in Executions : Unlisted(e) => ~RefersTo(d, e)

\* A scan lists what does not refer to it.
ListOK(e) ==
  /\ DOMAIN listed[e] = DOMAIN targets[e]
  /\ \A n \in DOMAIN listed[e] : ~RefersTo(listed[e][n], e)

\* Inside process_target the Purl in memory is the listed one with the findings and the
\* scan's reference, and its file is there once store_by_purl has returned.
InTarget(e) ==
  /\ pc[e] \in {"processing", "dead"} /\ next[e] \in DOMAIN listed[e]
  /\ \E findings \in SUBSET Vulnerabilities : purl[e] = Scanned(listed[e][next[e]], e, findings)
  /\ step[e] # "scanned" => OnFile(purl[e])
  /\ \A hit \in found[e] : hit.id \in DOMAIN purls /\ hit.doc.purl = purl[e].purl

Between(e) == purl[e] = NoPurl /\ found[e] = {}

InPlace(e) == ListOK(e) /\ IF step[e] = "idle" THEN Between(e) ELSE InTarget(e)

\* A sync brings a new Purl, and its query has returned documents of that Package URL.
InSync(t) ==
  Upserting(t) =>
    /\ \E p \in Purls, n \in SyncIterations, x \in Xrefs :
         synced[t].new = FromComponent(p, t, n, x)
    /\ \A hit \in synced[t].found :
         hit.id \in DOMAIN purls /\ hit.doc.purl = synced[t].new.purl

ScanInv ==
  /\ ScanShape
  /\ \A d \in Copies : CopyOK(d)
  /\ \A e \in Executions : InPlace(e)
  /\ \A t \in Syncs : InSync(t)
------------------------------------------------------------------------------
(* What the steps are made of. *)

\* The next iteration is larger than every one there is.
LEMMA NextIterationLarger ==
  ASSUME NEW refs, \A r \in refs : r.iteration \in Nat, RefsBounded(refs)
  PROVE  NextIteration(refs) \in Nat /\ \A r \in refs : r.iteration < NextIteration(refs)
<1> DEFINE S == {r.iteration : r \in refs}
           max == CHOOSE n \in S : \A r \in refs : r.iteration <= n
<1>1. CASE refs = {}
  BY <1>1 DEF NextIteration
<1>2. CASE refs # {}
  <2>1. PICK b \in Nat : \A n \in S : n <= b
    BY DEF RefsBounded
  <2>2. S \in SUBSET Nat /\ S # {}
    BY <1>2
  <2>3. PICK m \in S : \A n \in S : n <= m
    <3> HIDE DEF S
    <3> QED
      BY <2>1, <2>2, GreatestNatural
  <2>4. max \in S /\ \A r \in refs : r.iteration <= max
    BY <2>3
  <2>5. NextIteration(refs) = 1 + max
    BY <1>2 DEF NextIteration
  <2> HIDE DEF max
  <2>6. max \in Nat
    BY <2>2, <2>4
  <2> QED
    BY <2>4, <2>5, <2>6
<1> QED
  BY <1>1, <1>2

\* Bounds of two sets of references bound them together.
LEMMA BoundedTogether ==
  ASSUME NEW A, NEW B, \A r \in A \cup B : r.iteration \in Nat, RefsBounded(A), RefsBounded(B)
  PROVE  RefsBounded(A \cup B)
<1>1. PICK a \in Nat : \A r \in A : r.iteration <= a
  BY DEF RefsBounded
<1>2. PICK b \in Nat : \A r \in B : r.iteration <= b
  BY DEF RefsBounded
<1>3. a + b \in Nat /\ \A n \in Nat : n <= a \/ n <= b => n <= a + b
  OBVIOUS
<1>4. \A r \in A \cup B : r.iteration <= a + b
  BY <1>1, <1>2, <1>3
<1> QED
  BY <1>3, <1>4 DEF RefsBounded

LEMMA BoundedBelow ==
  ASSUME NEW A, NEW B, A \subseteq B, RefsBounded(B)
  PROVE  RefsBounded(A)
BY DEF RefsBounded

LEMMA OneBounded ==
  ASSUME NEW ref, ref.iteration \in Nat
  PROVE  RefsBounded({ref})
<1>1. ref.iteration <= ref.iteration
  OBVIOUS
<1> QED
  BY <1>1 DEF RefsBounded

Ref == [task : Tasks, iteration : Nat]

LEMMA DocFields ==
  ASSUME NEW d \in Docs
  PROVE  /\ d.purl \in Purls /\ d.taskRefs \subseteq Ref /\ d.xrefs \subseteq Xrefs
         /\ d.vulnerabilities \subseteq Vulnerabilities /\ RefsBounded(d.taskRefs)
         /\ \A r \in d.taskRefs : r.iteration \in Nat /\ r.task \in Tasks
BY DEF Docs, Doc, Ref

\* What process_target makes of a listed Purl.
LEMMA ScannedDoc ==
  ASSUME NEW d \in Docs, NEW e \in Executions, NEW findings \in SUBSET Vulnerabilities
  PROVE  LET s == Scanned(d, e, findings)
             n == NextIteration(d.taskRefs)
         IN  /\ s \in Docs /\ s.purl = d.purl /\ n \in Nat
             /\ s.taskRefs = d.taskRefs \cup {[task |-> e, iteration |-> n]}
             /\ s.vulnerabilities = d.vulnerabilities \cup findings
             /\ \A r \in d.taskRefs : r.iteration < n
             /\ ~RefersTo(d, e) => Iteration(s, e) = n
<1> DEFINE n == NextIteration(d.taskRefs)
           ref == [task |-> e, iteration |-> n]
           s == Scanned(d, e, findings)
<1>1. /\ d.taskRefs \subseteq Ref /\ d.vulnerabilities \subseteq Vulnerabilities
      /\ RefsBounded(d.taskRefs) /\ \A r \in d.taskRefs : r.iteration \in Nat
  BY DocFields
<1>2. n \in Nat /\ \A r \in d.taskRefs : r.iteration < n
  BY <1>1, NextIterationLarger
<1>3. /\ s.purl = d.purl /\ s.taskRefs = d.taskRefs \cup {ref}
      /\ s.vulnerabilities = d.vulnerabilities \cup findings /\ s.xrefs = d.xrefs
      /\ s = [purl |-> s.purl, taskRefs |-> s.taskRefs, xrefs |-> s.xrefs,
              vulnerabilities |-> s.vulnerabilities]
  <2> DEFINE c == [d EXCEPT !.vulnerabilities = d.vulnerabilities \cup findings]
  <2>1. /\ c.purl = d.purl /\ c.taskRefs = d.taskRefs /\ c.xrefs = d.xrefs
        /\ c.vulnerabilities = d.vulnerabilities \cup findings
        /\ DOMAIN c = {"purl", "taskRefs", "xrefs", "vulnerabilities"}
        /\ c = [purl |-> c.purl, taskRefs |-> c.taskRefs, xrefs |-> c.xrefs,
                vulnerabilities |-> c.vulnerabilities]
    BY DEF Docs, Doc
  <2>2. s = InitScan(c, e)
    BY DEF Scanned, AddVulnerabilities
  <2> HIDE DEF c, s
  <2>3. s = [c EXCEPT !.taskRefs =
               c.taskRefs \cup {[task |-> e, iteration |-> NextIteration(c.taskRefs)]}]
    BY <2>2 DEF InitScan
  <2>4. s = [c EXCEPT !.taskRefs = d.taskRefs \cup {ref}]
    BY <2>1, <2>3
  <2> QED
    BY <2>1, <2>4
<1> HIDE DEF n, s
<1>4. ref \in Ref /\ ref.iteration = n /\ ref.task = e
  BY <1>2 DEF Ref, Tasks
<1>5. RefsBounded({ref})
  BY <1>2, <1>4, OneBounded
<1>6. RefsBounded(d.taskRefs \cup {ref})
  BY <1>1, <1>2, <1>4, <1>5, BoundedTogether
<1>7. s \in Docs
  <2>1. d.purl \in Purls /\ d.xrefs \subseteq Xrefs
    BY DocFields
  <2>2. s.taskRefs \subseteq Ref /\ s.vulnerabilities \subseteq Vulnerabilities
    BY <1>1, <1>3, <1>4
  <2>3. s \in Doc
    BY <1>3, <2>1, <2>2 DEF Doc, Ref
  <2> QED
    BY <1>3, <1>6, <2>3 DEF Docs
<1>8. ASSUME ~RefersTo(d, e) PROVE Iteration(s, e) = n
  <2>1. {r.iteration : r \in {q \in s.taskRefs : q.task = e}} = {n}
    BY <1>3, <1>4, <1>8 DEF RefersTo
  <2> QED
    BY <2>1 DEF Iteration
<1> QED
  BY <1>2, <1>3, <1>7, <1>8 DEF n, s

\* What upsert_purl writes.
LEMMA MergedDoc ==
  ASSUME NEW new \in Docs, NEW old \in Docs
  PROVE  LET m == MergePurl(new, old)
         IN  /\ m \in Docs /\ m.purl = new.purl
             /\ m.taskRefs = new.taskRefs
                  \cup {o \in old.taskRefs : \A r \in new.taskRefs : r.task # o.task}
             /\ m.vulnerabilities = new.vulnerabilities \cup old.vulnerabilities
<1> DEFINE m == MergePurl(new, old)
           kept == {o \in old.taskRefs : \A r \in new.taskRefs : r.task # o.task}
<1>1. /\ m.purl = new.purl /\ m.taskRefs = new.taskRefs \cup kept
      /\ m.vulnerabilities = new.vulnerabilities \cup old.vulnerabilities
      /\ m.xrefs = AddXrefs(new.xrefs, old.xrefs)
      /\ m = [purl |-> m.purl, taskRefs |-> m.taskRefs, xrefs |-> m.xrefs,
              vulnerabilities |-> m.vulnerabilities]
  BY DEF MergePurl, AddTaskRefs, AddVulnerabilities
<1>2. /\ new.taskRefs \subseteq Ref /\ old.taskRefs \subseteq Ref
      /\ RefsBounded(new.taskRefs) /\ RefsBounded(old.taskRefs)
      /\ \A r \in new.taskRefs \cup old.taskRefs : r.iteration \in Nat
      /\ new.purl \in Purls /\ new.xrefs \subseteq Xrefs /\ old.xrefs \subseteq Xrefs
      /\ new.vulnerabilities \subseteq Vulnerabilities /\ old.vulnerabilities \subseteq Vulnerabilities
  BY DocFields
<1> HIDE DEF m
<1>3. RefsBounded(kept)
  BY <1>2, BoundedBelow
<1>4. RefsBounded(new.taskRefs \cup kept)
  BY <1>2, <1>3, BoundedTogether
<1>5. m.xrefs \subseteq Xrefs
  BY <1>1, <1>2 DEF AddXrefs
<1>6. m \in Doc
  BY <1>1, <1>2, <1>5 DEF Doc, Ref
<1> QED
  BY <1>1, <1>4, <1>6 DEF Docs, m

\* A new Purl of a sync.
LEMMA SyncedDoc ==
  ASSUME NEW p \in Purls, NEW t \in Syncs, NEW n \in SyncIterations, NEW x \in Xrefs
  PROVE  LET new == FromComponent(p, t, n, x)
         IN  /\ new \in Docs /\ new.purl = p /\ Scans(new) = {} /\ new.vulnerabilities = {}
             /\ new.taskRefs = {[task |-> t, iteration |-> n]}
             /\ \A e \in Executions : ~RefersTo(new, e)
<1> DEFINE new == FromComponent(p, t, n, x)
           ref == [task |-> t, iteration |-> n]
<1>1. /\ new.purl = p /\ new.taskRefs = {ref} /\ new.xrefs = {x} /\ new.vulnerabilities = {}
      /\ new = [purl |-> new.purl, taskRefs |-> new.taskRefs, xrefs |-> new.xrefs,
                vulnerabilities |-> new.vulnerabilities]
  BY DEF FromComponent
<1> HIDE DEF new
<1>2. ref \in Ref /\ ref.iteration \in Nat /\ ref.task = t
  <2>1. n \in Nat
    BY ScanAssumption
  <2> QED
    BY <2>1 DEF Ref, Tasks
<1>3. RefsBounded({ref})
  BY <1>2, OneBounded
<1>4. new \in Docs
  BY <1>1, <1>2, <1>3 DEF Docs, Doc, Ref
<1>5. t \notin Executions
  BY ScanAssumption
<1> QED
  BY <1>1, <1>2, <1>4, <1>5 DEF Scans, RefersTo, new


------------------------------------------------------------------------------
(* What a step keeps. *)

\* What a step of somebody else, or the death of its process, leaves of a scan.
Kept(f) ==
  /\ pc'[f] \in {pc[f], "dead"} /\ next'[f] = next[f] /\ targets'[f] = targets[f]
  /\ listed'[f] = listed[f] /\ step'[f] = step[f] /\ purl'[f] = purl[f]
  /\ found'[f] = found[f]

\* No scan goes back to before its list ...
Forth == \A f \in Executions : Unlisted(f)' => Unlisted(f)

\* ... and nothing is removed.
Grow == DOMAIN files \subseteq DOMAIN files' /\ DOMAIN purls \subseteq DOMAIN purls' /\ Forth

LEMMA NoneGoesBack == TypeOK /\ [Next]_taskVars => Forth
<1> SUFFICES ASSUME TypeOK, [Next]_taskVars, NEW f \in Executions
             PROVE  Unlisted(f)' => Unlisted(f)
  BY DEF Forth
<1>1. CASE UNCHANGED taskVars
  BY <1>1 DEF taskVars, Unlisted
<1>2. ASSUME NEW e \in Executions, Work(e) \/ Crash(e)
      PROVE  Unlisted(f)' => Unlisted(f)
  <2>1. CASE InitTask(e)
    BY <2>1 DEF InitTask, Write, Goto, TypeOK, Unlisted
  <2>2. CASE Fetch(e)
    BY <2>2 DEF Fetch, Goto, TypeOK, Unlisted
  <2>3. CASE FetchFails(e)
    BY <2>3 DEF FetchFails, Goto, TypeOK, Unlisted
  <2>4. CASE EndRun(e)
    BY <2>4 DEF EndRun, Goto, TypeOK, Unlisted
  <2>5. CASE Complete(e)
    BY <2>5 DEF Complete, Write, Goto, TypeOK, Unlisted
  <2>6. CASE Crash(e)
    BY <2>6 DEF Crash, Goto, TypeOK, Unlisted
  <2>7. CASE \E failed \in BOOLEAN : TargetDone(e, failed)
    BY <2>7 DEF TargetDone, Unlisted
  <2> QED
    BY <1>2, <2>1, <2>2, <2>3, <2>4, <2>5, <2>6, <2>7 DEF Work, Script
<1> QED
  BY <1>1, <1>2 DEF Next

LEMMA KeptInPlace ==
  ASSUME NEW f \in Executions, InPlace(f), Kept(f), Grow
  PROVE  InPlace(f)'
<1>1. ListOK(f)'
  BY DEF InPlace, ListOK, Kept
<1>2. CASE step[f] = "idle"
  BY <1>1, <1>2 DEF InPlace, Between, Kept
<1>3. CASE step[f] # "idle"
  <2>1. InTarget(f)
    BY <1>3 DEF InPlace
  <2>2. (pc[f] \in {"processing", "dead"} /\ next[f] \in DOMAIN listed[f])'
    BY <2>1 DEF InTarget, Kept
  <2>3. (\E findings \in SUBSET Vulnerabilities :
           purl[f] = Scanned(listed[f][next[f]], f, findings))'
    BY <2>1 DEF InTarget, Kept
  <2>4. (step[f] # "scanned" => OnFile(purl[f]))'
    BY <2>1 DEF InTarget, Kept, OnFile, Grow
  <2>5. (\A hit \in found[f] : hit.id \in DOMAIN purls /\ hit.doc.purl = purl[f].purl)'
    BY <2>1 DEF InTarget, Kept, Grow
  <2>6. InTarget(f)'
    BY <2>2, <2>3, <2>4, <2>5 DEF InTarget
  <2> QED
    BY <1>1, <1>3, <2>6 DEF InPlace, Kept
<1> QED
  BY <1>2, <1>3

LEMMA CopyKept ==
  ASSUME NEW d, CopyOK(d), Grow
  PROVE  CopyOK(d)'
BY DEF CopyOK, OnFile, Grow, Forth

\* A step is fine when what it adds to the copies is, and the scan that takes it.
LEMMA Keeps ==
  ASSUME ScanInv, Grow, ScanShape',
         \A f \in Executions : Kept(f) \/ InPlace(f)',
         \A t \in Syncs : synced'[t] = synced[t] \/ InSync(t)',
         \A d \in Copies' : d \in Copies \/ CopyOK(d)
  PROVE  ScanInv'
<1>1. (\A f \in Executions : InPlace(f))'
  BY KeptInPlace DEF ScanInv
<1>2. \A d \in Copies' : CopyOK(d)'
  BY CopyKept DEF ScanInv
<1>3. ASSUME NEW t \in Syncs, synced'[t] = synced[t] PROVE InSync(t)'
  BY <1>3 DEF ScanInv, InSync, Upserting, Grow
<1> QED
  BY <1>1, <1>2, <1>3 DEF ScanInv

\* The documents a step leaves in the collection.
Left == {purls'[i] : i \in DOMAIN purls'}

LEMMA CopiesOf ==
  /\ \A i \in DOMAIN purls : purls[i] \in Copies
  /\ \A f \in Executions : \A n \in DOMAIN listed[f] : listed[f][n] \in Copies
  /\ \A f \in Executions : \A hit \in found[f] : hit.doc \in Copies
  /\ \A t \in Syncs : \A hit \in synced[t].found : hit.doc \in Copies
<1>1. \A i \in DOMAIN purls : purls[i] \in InCollection
  BY DEF InCollection
<1>2. ASSUME NEW f \in Executions, NEW n \in DOMAIN listed[f] PROVE listed[f][n] \in InLists
  BY DEF InLists
<1>3. ASSUME NEW f \in Executions, NEW hit \in found[f] PROVE hit.doc \in InQueries
  BY DEF InQueries
<1>4. ASSUME NEW t \in Syncs, NEW hit \in synced[t].found PROVE hit.doc \in InSyncs
  BY DEF InSyncs
<1> QED
  BY <1>1, <1>2, <1>3, <1>4 DEF Copies

\* Where a copy may be after a step.
LEMMA CopiesAfter ==
  ASSUME NEW d \in Copies'
  PROVE  \/ d \in Left
         \/ \E f \in Executions : \E n \in DOMAIN listed'[f] : d = listed'[f][n]
         \/ \E f \in Executions : \E hit \in found'[f] : d = hit.doc
         \/ \E t \in Syncs : \E hit \in synced'[t].found : d = hit.doc
<1>1. CASE d \in InCollection'
  BY <1>1 DEF InCollection, Left
<1>2. CASE d \in InLists'
  BY <1>2 DEF InLists
<1>3. CASE d \in InQueries'
  BY <1>3 DEF InQueries
<1>4. CASE d \in InSyncs'
  BY <1>4 DEF InSyncs
<1> QED
  BY <1>1, <1>2, <1>3, <1>4 DEF Copies

LEMMA ShapedDocs ==
  ASSUME ScanShape
  PROVE  /\ \A i \in DOMAIN purls : purls[i] \in Docs
         /\ \A f \in Executions : \A n \in DOMAIN listed[f] : listed[f][n] \in Docs
         /\ \A f \in Executions : \A hit \in found[f] : hit.doc \in Docs /\ hit.id \in Nat
         /\ \A t \in Syncs : \A hit \in synced[t].found : hit.doc \in Docs /\ hit.id \in Nat
<1>1. \A i \in DOMAIN purls : purls[i] \in Docs
  BY DEF ScanShape
<1>2. ASSUME NEW f \in Executions PROVE \A n \in DOMAIN listed[f] : listed[f][n] \in Docs
  <2>1. listed[f] \in Seq(Docs)
    BY DEF ScanShape
  <2> QED
    BY <2>1
<1>3. \A f \in Executions : \A hit \in found[f] : hit.doc \in Docs /\ hit.id \in Nat
  BY DEF ScanShape, Hits
<1>4. \A t \in Syncs : \A hit \in synced[t].found : hit.doc \in Docs /\ hit.id \in Nat
  BY DEF ScanShape, SyncUpserts, NoUpsert, Hits
<1> QED
  BY <1>1, <1>2, <1>3, <1>4

\* The end of process_target, whatever it has left in the collection.
LEMMA FinishStep ==
  ASSUME UNCHANGED synced, ScanInv, TypeOK, NEW e \in Executions, NEW error \in BOOLEAN, Finish(e, error), Grow,
         purls' \in Seq(Docs), \A n \in DOMAIN files' : files'[n] \subseteq Vulnerabilities,
         \A d \in Left : d \in Copies \/ CopyOK(d)
  PROVE  ScanInv'
<1>1. ScanShape
  BY DEF ScanInv
<1>2. /\ UNCHANGED <<pc, targets, listed>> /\ next' = [next EXCEPT ![e] = @ + 1]
      /\ step' = [step EXCEPT ![e] = "idle"] /\ purl' = [purl EXCEPT ![e] = NoPurl]
      /\ found' = [found EXCEPT ![e] = {}]
  BY DEF Finish, TargetDone
<1>3. ScanShape'
  BY <1>1, <1>2 DEF ScanShape
<1>4. ASSUME NEW f \in Executions \ {e} PROVE Kept(f)
  BY <1>1, <1>2, <1>4 DEF Kept, ScanShape, TypeOK
<1>5. InPlace(e)'
  <2>1. step'[e] = "idle" /\ purl'[e] = NoPurl /\ found'[e] = {}
    BY <1>1, <1>2 DEF ScanShape
  <2>2. ListOK(e)'
    BY <1>2 DEF ScanInv, InPlace, ListOK
  <2> QED
    BY <2>1, <2>2 DEF InPlace, Between
<1>6. ASSUME NEW d \in Copies' PROVE d \in Copies \/ CopyOK(d)
  <2>1. \A f \in Executions : found'[f] \subseteq found[f]
    BY <1>1, <1>2 DEF ScanShape
  <2>2. \/ d \in Left
        \/ \E f \in Executions : \E n \in DOMAIN listed'[f] : d = listed'[f][n]
        \/ \E f \in Executions : \E hit \in found'[f] : d = hit.doc
        \/ \E t \in Syncs : \E hit \in synced[t].found : d = hit.doc
    BY <1>6, CopiesAfter
  <2> QED
    BY <1>2, <2>1, <2>2, CopiesOf
<1> QED
  BY <1>3, <1>4, <1>5, <1>6, Keeps

------------------------------------------------------------------------------
(* The steps keep the invariant. *)

LEMMA ScriptStep ==
  ASSUME ScanInv, TypeOK, Forth, NEW e \in Executions, ScanScript(e) \/ ScanCrash(e)
  PROVE  ScanInv'
<1>1. ScanShape /\ InPlace(e)
  BY DEF ScanInv
<1>2. UNCHANGED scanVars /\ UNCHANGED <<targets, next>>
  BY DEF ScanScript, ScanCrash, InitTask, FetchFails, EndRun, Complete, Crash
<1>3. ScanShape' /\ Grow
  BY <1>1, <1>2 DEF ScanShape, scanVars, Grow
<1>4. UNCHANGED <<listed, step, purl, found, purls, synced>>
  BY <1>2 DEF scanVars
<1>5. \E l : pc' = [pc EXCEPT ![e] = l]
  BY DEF ScanScript, ScanCrash, InitTask, FetchFails, EndRun, Complete, Crash, Write, Goto
<1>6. ASSUME NEW f \in Executions \ {e} PROVE Kept(f)
  BY <1>2, <1>4, <1>5, <1>6 DEF Kept, TypeOK
<1>7. Kept(e) \/ InPlace(e)'
  <2>1. CASE ScanCrash(e)
    BY <1>2, <1>4, <2>1 DEF ScanCrash, Crash, Goto, Kept, TypeOK
  <2>2. CASE ScanScript(e)
    <3>1. step[e] = "idle"
      <4>1. SUFFICES ASSUME InTarget(e) PROVE FALSE
        BY <1>1 DEF InPlace
      <4>2. pc[e] \in {"processing", "dead"} /\ next[e] \in DOMAIN targets[e]
        BY <1>1, <4>1 DEF InTarget, InPlace, ListOK
      <4> QED
        BY <2>2, <4>2 DEF ScanScript, InitTask, FetchFails, EndRun, Complete
    <3> QED
      BY <1>1, <1>2, <1>4, <3>1 DEF InPlace, ListOK, Between
  <2> QED
    BY <2>1, <2>2
<1>8. ASSUME NEW d \in Copies' PROVE d \in Copies
  BY <1>4, <1>8 DEF Copies, InCollection, InLists, InQueries, InSyncs
<1> QED
  BY <1>3, <1>4, <1>6, <1>7, <1>8, Keeps

LEMMA ListStep ==
  ASSUME ScanInv, TypeOK, Forth, NEW e \in Executions, List(e), UNCHANGED synced
  PROVE  ScanInv'
<1>1. ScanShape /\ InPlace(e)
  BY DEF ScanInv
<1>2. /\ UNCHANGED <<purls, files, step, purl, found, next>> /\ pc[e] = "running"
      /\ pc' = [pc EXCEPT ![e] = "processing"] /\ listed' = [listed EXCEPT ![e] = purls]
      /\ targets'[e] = [i \in DOMAIN purls |-> purls[i].purl]
      /\ \E list : targets' = [targets EXCEPT ![e] = list]
  BY DEF List, Fetch, Goto
<1>3. ScanShape' /\ Grow
  BY <1>1, <1>2 DEF ScanShape, Grow
<1>4. ASSUME NEW f \in Executions \ {e} PROVE Kept(f)
  BY <1>1, <1>2, <1>4 DEF Kept, TypeOK, ScanShape
<1>5. listed'[e] = purls /\ DOMAIN targets'[e] = DOMAIN purls
  BY <1>1, <1>2 DEF ScanShape
<1>6. InPlace(e)'
  <2>1. step[e] = "idle" /\ Between(e)
    BY <1>1, <1>2 DEF InPlace, InTarget
  <2>2. ASSUME NEW n \in DOMAIN purls PROVE ~RefersTo(purls[n], e)
    BY <1>2, CopiesOf DEF ScanInv, CopyOK, Unlisted
  <2>3. ListOK(e)'
    BY <1>5, <2>2 DEF ListOK, RefersTo
  <2> QED
    BY <1>2, <2>1, <2>3 DEF InPlace, Between
<1>7. ASSUME NEW d \in Copies' PROVE d \in Copies
  <2>1. CASE d \in Left
    BY <1>2, <2>1, CopiesOf DEF Left
  <2>2. CASE \E f \in Executions : \E n \in DOMAIN listed'[f] : d = listed'[f][n]
    <3>1. PICK f \in Executions : \E n \in DOMAIN listed'[f] : d = listed'[f][n]
      BY <2>2
    <3>2. listed'[f] \in {listed[f], purls}
      BY <1>1, <1>2 DEF ScanShape
    <3> QED
      BY <3>1, <3>2, CopiesOf
  <2>3. CASE \E f \in Executions : \E hit \in found'[f] : d = hit.doc
    BY <1>2, <2>3, CopiesOf
  <2>4. CASE \E t \in Syncs : \E hit \in synced'[t].found : d = hit.doc
    BY <2>4, CopiesOf
  <2> QED
    BY <1>7, <2>1, <2>2, <2>3, <2>4, CopiesAfter
<1> QED
  BY <1>3, <1>4, <1>6, <1>7, Keeps

\* Inside the loop a scan that has nothing in hand is at a Purl it has listed.
LEMMA AtListed ==
  ASSUME ScanInv, TypeOK, NEW e \in Executions, Processing(e)
  PROVE  /\ next[e] \in DOMAIN listed[e]
         /\ listed[e][next[e]] \in Docs /\ listed[e][next[e]] \in Copies
         /\ ~RefersTo(listed[e][next[e]], e)
<1>1. ListOK(e) /\ ScanShape
  BY DEF ScanInv, InPlace
<1>2. next[e] \in DOMAIN listed[e]
  BY <1>1 DEF ListOK, Processing
<1> QED
  BY <1>1, <1>2, ShapedDocs, CopiesOf DEF ListOK

LEMMA FindingsStep ==
  ASSUME ScanInv, TypeOK, Forth, NEW e \in Executions, Findings(e), UNCHANGED synced
  PROVE  ScanInv'
<1> DEFINE d == listed[e][next[e]]
<1>1. ScanShape /\ InPlace(e) /\ Processing(e) /\ step[e] = "idle"
  BY DEF ScanInv, Findings, At
<1>2. next[e] \in DOMAIN listed[e] /\ d \in Docs /\ pc[e] = "processing"
  BY <1>1, AtListed DEF Processing
<1>3. PICK findings \in SUBSET Vulnerabilities :
        purl' = [purl EXCEPT ![e] = Scanned(d, e, findings)]
  BY DEF Findings
<1>4. /\ UNCHANGED <<taskVars, purls, files, listed, found>>
      /\ step' = [step EXCEPT ![e] = "scanned"]
  BY DEF Findings, Continue
<1>5. Scanned(d, e, findings) \in Docs
  BY <1>2, ScannedDoc
<1> HIDE DEF d
<1>6. ScanShape' /\ Grow
  BY <1>1, <1>3, <1>4, <1>5 DEF ScanShape, Grow
<1>7. ASSUME NEW f \in Executions \ {e} PROVE Kept(f)
  BY <1>1, <1>3, <1>4, <1>7 DEF Kept, TypeOK, ScanShape, taskVars
<1>8. InPlace(e)'
  <2>1. step'[e] = "scanned" /\ purl'[e] = Scanned(d, e, findings) /\ found'[e] = {}
    BY <1>1, <1>3, <1>4 DEF ScanShape, InPlace, Between
  <2>2. UNCHANGED <<pc, next, targets, listed, purls>>
    BY <1>4 DEF taskVars
  <2>3. ListOK(e)'
    BY <1>1, <2>2 DEF InPlace, ListOK
  <2>4. InTarget(e)'
    BY <1>2, <2>1, <2>2 DEF InTarget, d
  <2> QED
    BY <2>1, <2>3, <2>4 DEF InPlace
<1>9. ASSUME NEW g \in Copies' PROVE g \in Copies
  BY <1>4, <1>9 DEF Copies, InCollection, InLists, InQueries, InSyncs
<1> QED
  BY <1>6, <1>7, <1>8, <1>9, Keeps

\* What a scan has in hand.
LEMMA InHand ==
  ASSUME ScanInv, TypeOK, NEW e \in Executions, Processing(e), step[e] # "idle"
  PROVE  /\ purl[e] \in Docs /\ purl[e].purl = listed[e][next[e]].purl
         /\ purl[e].taskRefs = listed[e][next[e]].taskRefs
              \cup {[task |-> e, iteration |-> Iteration(purl[e], e)]}
         /\ listed[e][next[e]].vulnerabilities \subseteq purl[e].vulnerabilities
         /\ Iteration(purl[e], e) \in Nat
         /\ \A r \in listed[e][next[e]].taskRefs : r.iteration < Iteration(purl[e], e)
         /\ step[e] # "scanned" => OnFile(purl[e])
<1>1. InTarget(e)
  BY DEF ScanInv, InPlace
<1>2. listed[e][next[e]] \in Docs /\ ~RefersTo(listed[e][next[e]], e)
  BY AtListed
<1>3. PICK findings \in SUBSET Vulnerabilities :
        purl[e] = Scanned(listed[e][next[e]], e, findings)
  BY <1>1 DEF InTarget
<1> QED
  BY <1>1, <1>2, <1>3, ScannedDoc DEF InTarget

\* A step that ends with process_target and leaves the collection alone.
LEMMA FailStep ==
  ASSUME UNCHANGED synced, ScanInv, TypeOK, Forth, NEW e \in Executions, NEW error \in BOOLEAN, Finish(e, error),
         UNCHANGED purls, DOMAIN files \subseteq DOMAIN files',
         \A n \in DOMAIN files' : files'[n] \subseteq Vulnerabilities
  PROVE  ScanInv'
<1>1. purls' \in Seq(Docs) /\ Grow
  BY DEF ScanInv, ScanShape, Grow
<1>2. \A d \in Left : d \in Copies
  BY CopiesOf DEF Left
<1> QED
  BY <1>1, <1>2, FinishStep

LEMMA NoFindingsStep ==
  ASSUME ScanInv, TypeOK, Forth, NEW e \in Executions, NoFindings(e), UNCHANGED synced
  PROVE  ScanInv'
<1>1. PICK error \in BOOLEAN : Finish(e, error)
  BY DEF NoFindings
<1>2. UNCHANGED <<purls, files>> /\ \A n \in DOMAIN files : files[n] \subseteq Vulnerabilities
  BY DEF NoFindings, ScanInv, ScanShape
<1> QED
  BY <1>1, <1>2, FailStep

\* What store_by_purl may leave: the files there were, and maybe the new one.
LEMMA StoredFiles ==
  ASSUME NEW name, NEW content \in SUBSET Vulnerabilities,
         \A n \in DOMAIN files : files[n] \subseteq Vulnerabilities,
         files' \in NotStored(name, content) \cup {Stored(name, content)}
  PROVE  /\ DOMAIN files \subseteq DOMAIN files'
         /\ \A n \in DOMAIN files' : files'[n] \subseteq Vulnerabilities
         /\ \A n \in DOMAIN files : n # name => files'[n] = files[n]
         /\ files' = Stored(name, content) => name \in DOMAIN files' /\ files'[name] = content
<1>1. \A c : /\ DOMAIN Stored(name, c) = DOMAIN files \cup {name} /\ Stored(name, c)[name] = c
             /\ \A n \in DOMAIN files : n # name => Stored(name, c)[n] = files[n]
  BY DEF Stored
<1>2. CASE files' = files
  BY <1>1, <1>2
<1>3. CASE \E c \in {content, {}} : files' = Stored(name, c)
  BY <1>1, <1>3
<1> QED
  BY <1>2, <1>3 DEF NotStored

LEMMA StoreFindingsStep ==
  ASSUME ScanInv, TypeOK, Forth, NEW e \in Executions, StoreFindings(e), UNCHANGED synced
  PROVE  ScanInv'
<1> DEFINE d == listed[e][next[e]]
           name == FileName(purl[e].purl, Iteration(purl[e], e))
<1>1. /\ ScanShape /\ InPlace(e) /\ InTarget(e) /\ Processing(e) /\ step[e] = "scanned"
      /\ pc[e] = "processing" /\ UNCHANGED purls
  BY DEF ScanInv, StoreFindings, At, InPlace, Processing
<1>2. /\ purl[e] \in Docs /\ purl[e].purl = d.purl
      /\ purl[e].taskRefs = d.taskRefs \cup {[task |-> e, iteration |-> Iteration(purl[e], e)]}
  BY <1>1, InHand
<1>3. d \in Copies
  BY <1>1, AtListed
<1>4. purl[e].vulnerabilities \in SUBSET Vulnerabilities
  BY <1>2, DocFields
<1>5. CASE files' = Stored(name, purl[e].vulnerabilities) /\ Continue(e, "stored")
           /\ UNCHANGED <<listed, purl, found>>
  <2>1. /\ DOMAIN files \subseteq DOMAIN files' /\ name \in DOMAIN files'
        /\ \A n \in DOMAIN files' : files'[n] \subseteq Vulnerabilities
    BY <1>1, <1>4, <1>5, StoredFiles DEF ScanShape
  <2>2. UNCHANGED taskVars /\ step' = [step EXCEPT ![e] = "stored"]
    BY <1>5 DEF Continue
  <2>3. ScanShape' /\ Grow
    BY <1>1, <1>5, <2>1, <2>2 DEF ScanShape, Grow
  <2>4. ASSUME NEW f \in Executions \ {e} PROVE Kept(f)
    BY <1>1, <1>5, <2>2, <2>4 DEF Kept, TypeOK, ScanShape, taskVars
  <2>5. UNCHANGED <<pc, next, targets, listed, purl, found, purls>> /\ step'[e] = "stored"
    BY <1>1, <1>5, <2>2 DEF taskVars, ScanShape
  <2>6. ASSUME NEW r \in Scans(purl[e]) PROVE FileName(purl[e].purl, r.iteration) \in DOMAIN files'
    <3>1. CASE r \in d.taskRefs
      BY <1>2, <1>3, <2>1, <2>6, <3>1 DEF ScanInv, CopyOK, OnFile, Scans
    <3>2. CASE r \notin d.taskRefs
      BY <1>2, <2>1, <2>6, <3>2 DEF Scans
    <3> QED
      BY <3>1, <3>2
  <2>7. InPlace(e)'
    <3>1. ListOK(e)'
      BY <1>1, <2>5 DEF InPlace, ListOK
    <3>2. OnFile(purl[e])'
      BY <2>5, <2>6 DEF OnFile, Scans
    <3>3. InTarget(e)'
      BY <1>1, <2>5, <3>2 DEF InTarget
    <3> QED
      BY <2>5, <3>1, <3>3 DEF InPlace
  <2>8. ASSUME NEW g \in Copies' PROVE g \in Copies
    BY <2>5, <2>8 DEF Copies, InCollection, InLists, InQueries, InSyncs
  <2> QED
    BY <2>3, <2>4, <2>7, <2>8, Keeps
<1>6. CASE files' \in NotStored(name, purl[e].vulnerabilities) /\ Finish(e, TRUE)
  BY <1>1, <1>4, <1>6, StoredFiles, FailStep DEF ScanShape
<1> QED
  BY <1>5, <1>6 DEF StoreFindings

LEMMA LookupStep ==
  ASSUME ScanInv, TypeOK, Forth, NEW e \in Executions, Lookup(e), UNCHANGED synced
  PROVE  ScanInv'
<1> DEFINE hits == Documents(purls, [purl |-> purl[e].purl])
<1>1. /\ ScanShape /\ InPlace(e) /\ InTarget(e) /\ step[e] = "stored" /\ UNCHANGED <<purls, files>>
  BY DEF ScanInv, Lookup, At, InPlace
<1>2. \A hit \in hits : /\ hit.id \in DOMAIN purls /\ hit.doc = purls[hit.id]
                        /\ hit.doc.purl = purl[e].purl /\ hit = [id |-> hit.id, doc |-> hit.doc]
  BY DEF Documents, Query
<1>3. CASE found' = [found EXCEPT ![e] = hits] /\ Continue(e, "found") /\ UNCHANGED <<listed, purl>>
  <2>1. UNCHANGED taskVars /\ step' = [step EXCEPT ![e] = "found"]
    BY <1>3 DEF Continue
  <2>2. hits \subseteq Hits
    <3>1. DOMAIN purls \subseteq Nat /\ \A i \in DOMAIN purls : purls[i] \in Docs
      BY <1>1 DEF ScanShape
    <3> HIDE DEF hits
    <3> QED
      BY <1>2, <3>1 DEF Hits
  <2> HIDE DEF hits
  <2>3. ScanShape' /\ Grow
    BY <1>1, <1>3, <2>1, <2>2 DEF ScanShape, Grow
  <2>4. ASSUME NEW f \in Executions \ {e} PROVE Kept(f)
    BY <1>1, <1>3, <2>1, <2>4 DEF Kept, TypeOK, ScanShape, taskVars
  <2>5. /\ UNCHANGED <<pc, next, targets, listed, purl, purls, files>>
        /\ step'[e] = "found" /\ found'[e] = hits
    BY <1>1, <1>3, <2>1 DEF taskVars, ScanShape
  <2>6. InPlace(e)'
    <3>1. ListOK(e)'
      BY <1>1, <2>5 DEF InPlace, ListOK
    <3>2. OnFile(purl[e])'
      BY <1>1, <2>5 DEF InTarget, OnFile
    <3>3. InTarget(e)'
      BY <1>1, <1>2, <2>5, <3>2 DEF InTarget
    <3> QED
      BY <2>5, <3>1, <3>3 DEF InPlace
  <2>7. ASSUME NEW g \in Copies' PROVE g \in Copies
    <3>1. CASE g \in Left
      BY <1>1, <3>1, CopiesOf DEF Left
    <3>2. CASE \E f \in Executions : \E n \in DOMAIN listed'[f] : g = listed'[f][n]
      BY <1>3, <3>2, CopiesOf
    <3>3. CASE \E f \in Executions : \E hit \in found'[f] : g = hit.doc
      <4>1. PICK f \in Executions : \E hit \in found'[f] : g = hit.doc
        BY <3>3
      <4>2. found'[f] \in {found[f], hits}
        BY <1>1, <1>3 DEF ScanShape
      <4> QED
        BY <1>2, <4>1, <4>2, CopiesOf
    <3>4. CASE \E t \in Syncs : \E hit \in synced'[t].found : g = hit.doc
      BY <3>4, CopiesOf
    <3> QED
      BY <2>7, <3>1, <3>2, <3>3, <3>4, CopiesAfter
  <2> QED
    BY <2>3, <2>4, <2>6, <2>7, Keeps
<1>4. CASE Finish(e, TRUE)
  BY <1>1, <1>4, FailStep DEF ScanShape
<1> QED
  BY <1>3, <1>4 DEF Lookup

\* An update puts one document in place of another.
LEMMA Updated ==
  ASSUME NEW id \in DOMAIN purls, NEW m \in Docs, purls \in Seq(Docs), purls' = Update(purls, id, m)
  PROVE  /\ purls' \in Seq(Docs) /\ DOMAIN purls' = DOMAIN purls /\ purls'[id] = m
         /\ \A i \in DOMAIN purls : i # id => purls'[i] = purls[i]
         /\ \A d \in Left : d = m \/ d \in Copies
<1>1. /\ purls' \in Seq(Docs) /\ DOMAIN purls' = DOMAIN purls /\ purls'[id] = m
      /\ \A i \in DOMAIN purls : i # id => purls'[i] = purls[i]
  BY DEF Update
<1>2. \A d \in Left : d = m \/ d \in Copies
  BY <1>1, CopiesOf DEF Left
<1> QED
  BY <1>1, <1>2

\* What Save writes: one document of the query is replaced by its merge with the Purl of
\* the scan, or nothing is.
LEMMA SavedDoc ==
  ASSUME ScanInv, TypeOK, NEW e \in Executions, Save(e), ~UNCHANGED purls
  PROVE  \E hit \in found[e] :
           LET m == MergePurl(purl[e], hit.doc)
           IN  /\ hit.id \in DOMAIN purls /\ hit.doc.purl = purl[e].purl
               /\ hit.doc \in Docs /\ hit.doc \in Copies /\ m \in Docs
               /\ purls' = Update(purls, hit.id, m)
<1>1. /\ ScanShape /\ InTarget(e) /\ Processing(e) /\ step[e] = "found"
  BY DEF ScanInv, Save, At, InPlace
<1>2. PICK hit \in found[e] : purls' = Update(purls, hit.id, MergePurl(purl[e], hit.doc))
  BY DEF Save
<1>3. hit.doc \in Docs /\ hit.doc \in Copies
  BY <1>1, ShapedDocs, CopiesOf
<1>4. purl[e] \in Docs
  BY <1>1, InHand
<1>5. MergePurl(purl[e], hit.doc) \in Docs
  BY <1>3, <1>4, MergedDoc
<1> QED
  BY <1>1, <1>2, <1>3, <1>5 DEF InTarget

LEMMA SaveStep ==
  ASSUME ScanInv, TypeOK, Forth, NEW e \in Executions, Save(e), UNCHANGED synced
  PROVE  ScanInv'
<1>1. /\ ScanShape /\ InTarget(e) /\ Processing(e) /\ step[e] = "found" /\ UNCHANGED files
      /\ pc[e] = "processing"
  BY DEF ScanInv, Save, At, InPlace, Processing
<1>2. \E error \in BOOLEAN : Finish(e, error)
  BY DEF Save
<1>3. \A n \in DOMAIN files' : files'[n] \subseteq Vulnerabilities
  BY <1>1 DEF ScanShape
<1>4. CASE UNCHANGED purls
  BY <1>1, <1>2, <1>3, <1>4, FailStep
<1>5. CASE ~UNCHANGED purls
  <2>1. PICK hit \in found[e] :
          /\ hit.id \in DOMAIN purls /\ hit.doc.purl = purl[e].purl
          /\ hit.doc \in Docs /\ hit.doc \in Copies /\ MergePurl(purl[e], hit.doc) \in Docs
          /\ purls' = Update(purls, hit.id, MergePurl(purl[e], hit.doc))
    BY <1>5, SavedDoc
  <2> DEFINE d == listed[e][next[e]]
             m == MergePurl(purl[e], hit.doc)
  <2>2. /\ purl[e] \in Docs /\ OnFile(purl[e]) /\ purl[e].purl = d.purl
        /\ purl[e].taskRefs = d.taskRefs \cup {[task |-> e, iteration |-> Iteration(purl[e], e)]}
    BY <1>1, InHand
  <2>3. d \in Copies
    BY <1>1, AtListed
  <2>4. m.purl = purl[e].purl /\ m.taskRefs \subseteq purl[e].taskRefs \cup hit.doc.taskRefs
    BY <2>1, <2>2, MergedDoc
  <2>5. OnFile(hit.doc) /\ CopyOK(d) /\ CopyOK(hit.doc)
    BY <2>1, <2>3 DEF ScanInv, CopyOK
  <2> HIDE DEF m, d
  <2>6. OnFile(m)
    BY <2>1, <2>2, <2>4, <2>5 DEF OnFile, Scans
  <2>7. ASSUME NEW f \in Executions, Unlisted(f) PROVE ~RefersTo(m, f)
    <3>1. f # e
      BY <1>1, <2>7 DEF Unlisted
    <3>2. ~RefersTo(d, f) /\ ~RefersTo(hit.doc, f)
      BY <2>5, <2>7 DEF CopyOK
    <3> QED
      BY <2>2, <2>4, <3>1, <3>2 DEF RefersTo
  <2>8. CopyOK(m)
    BY <2>6, <2>7 DEF CopyOK
  <2>9. /\ purls' \in Seq(Docs) /\ DOMAIN purls' = DOMAIN purls
        /\ \A g \in Left : g = m \/ g \in Copies
    BY <1>1, <2>1, Updated DEF ScanShape, m
  <2> QED
    BY <1>1, <1>2, <1>3, <2>8, <2>9, FinishStep DEF Grow
<1> QED
  BY <1>4, <1>5

LEMMA Appended ==
  ASSUME NEW m \in Docs, purls \in Seq(Docs), purls' = Insert(purls, m)
  PROVE  /\ purls' \in Seq(Docs) /\ DOMAIN purls \subseteq DOMAIN purls'
         /\ \A i \in DOMAIN purls : purls'[i] = purls[i]
         /\ \A i \in DOMAIN purls' : i \in DOMAIN purls \/ purls'[i] = m
         /\ \A d \in Left : d = m \/ d \in Copies
<1>1. purls' = Append(purls, m)
  BY DEF Insert
<1>2. /\ purls' \in Seq(Docs) /\ DOMAIN purls \subseteq DOMAIN purls'
      /\ \A i \in DOMAIN purls : purls'[i] = purls[i]
      /\ \A i \in DOMAIN purls' : i \in DOMAIN purls \/ purls'[i] = m
  BY <1>1
<1>3. \A d \in Left : d = m \/ d \in Copies
  BY <1>2, CopiesOf DEF Left
<1> QED
  BY <1>2, <1>3

\* What a sync writes: a new Purl, or its merge with the one its query has returned.
LEMMA SyncedWrite ==
  ASSUME ScanInv, NEW t \in Syncs, SyncSave(t), ~UNCHANGED purls
  PROVE  \E p \in Purls, n \in SyncIterations, x \in Xrefs :
           LET new == FromComponent(p, t, n, x)
           IN  /\ new = synced[t].new
               /\ \/ synced[t].found = {} /\ purls' = Insert(purls, new)
                  \/ \E hit \in synced[t].found :
                       /\ hit.id \in DOMAIN purls /\ hit.doc \in Docs /\ hit.doc \in Copies
                       /\ hit.doc.purl = p /\ MergePurl(new, hit.doc) \in Docs
                       /\ purls' = Update(purls, hit.id, MergePurl(new, hit.doc))
<1>1. Upserting(t) /\ InSync(t) /\ ScanShape
  BY DEF SyncSave, ScanInv
<1>2. PICK p \in Purls, n \in SyncIterations, x \in Xrefs :
        synced[t].new = FromComponent(p, t, n, x)
  BY <1>1 DEF InSync
<1> DEFINE new == FromComponent(p, t, n, x)
<1>3. new = synced[t].new /\ new \in Docs /\ new.purl = p
  BY <1>2, SyncedDoc
<1> HIDE DEF new
<1>4. \/ synced[t].found = {} /\ purls' = Insert(purls, new)
      \/ \E hit \in synced[t].found : purls' = Update(purls, hit.id, MergePurl(new, hit.doc))
  BY <1>3 DEF SyncSave
<1>5. ASSUME NEW hit \in synced[t].found
      PROVE  /\ hit.id \in DOMAIN purls /\ hit.doc \in Docs /\ hit.doc \in Copies
             /\ hit.doc.purl = p /\ MergePurl(new, hit.doc) \in Docs
  <2>1. hit.doc \in Docs /\ hit.doc \in Copies
    BY <1>1, <1>5, ShapedDocs, CopiesOf
  <2>2. hit.id \in DOMAIN purls /\ hit.doc.purl = p
    BY <1>1, <1>3, <1>5 DEF InSync
  <2> QED
    BY <1>3, <2>1, <2>2, MergedDoc
<1> QED
  BY <1>3, <1>4, <1>5 DEF new

LEMMA SyncSaveStep ==
  ASSUME ScanInv, NEW t \in Syncs, SyncSave(t)
  PROVE  ScanInv'
<1>1. /\ UNCHANGED <<taskVars, files, listed, step, purl, found>> /\ ScanShape
      /\ synced' = [synced EXCEPT ![t] = NoUpsert]
  BY DEF SyncSave, ScanInv
<1>2. \A f \in Executions : Kept(f)
  BY <1>1 DEF Kept, taskVars
<1>3. \A u \in Syncs : synced'[u] = IF u = t THEN NoUpsert ELSE synced[u]
  BY <1>1 DEF ScanShape
<1>4. \A u \in Syncs : synced'[u] = synced[u] \/ InSync(u)'
  BY <1>3 DEF InSync, Upserting
<1>5. \A u \in Syncs : \A hit \in synced'[u].found : hit.doc \in Copies
  BY <1>3, CopiesOf DEF NoUpsert
<1>6. /\ purls' \in Seq(Docs) /\ DOMAIN purls \subseteq DOMAIN purls'
      /\ \A d \in Left : d \in Copies \/ CopyOK(d)
  <2>1. CASE UNCHANGED purls
    BY <1>1, <2>1, CopiesOf DEF ScanShape, Left
  <2>2. CASE ~UNCHANGED purls
    <3>1. PICK p \in Purls, n \in SyncIterations, x \in Xrefs :
            LET new == FromComponent(p, t, n, x)
            IN  \/ purls' = Insert(purls, new)
                \/ \E hit \in synced[t].found :
                     /\ hit.id \in DOMAIN purls /\ hit.doc \in Docs /\ hit.doc \in Copies
                     /\ hit.doc.purl = p /\ MergePurl(new, hit.doc) \in Docs
                     /\ purls' = Update(purls, hit.id, MergePurl(new, hit.doc))
      BY <2>2, SyncedWrite
    <3> DEFINE new == FromComponent(p, t, n, x)
    <3>2. /\ new \in Docs /\ new.purl = p /\ Scans(new) = {}
          /\ \A e \in Executions : ~RefersTo(new, e)
      BY SyncedDoc
    <3> HIDE DEF new
    <3>3. CASE purls' = Insert(purls, new)
      <4>1. CopyOK(new)
        BY <3>2 DEF CopyOK, OnFile
      <4> QED
        BY <1>1, <3>2, <3>3, <4>1, Appended DEF ScanShape
    <3>4. ASSUME NEW hit \in synced[t].found, hit.id \in DOMAIN purls, hit.doc \in Docs,
                 hit.doc \in Copies, hit.doc.purl = p, MergePurl(new, hit.doc) \in Docs,
                 purls' = Update(purls, hit.id, MergePurl(new, hit.doc))
          PROVE  /\ purls' \in Seq(Docs) /\ DOMAIN purls \subseteq DOMAIN purls'
                 /\ \A d \in Left : d \in Copies \/ CopyOK(d)
      <4> DEFINE m == MergePurl(new, hit.doc)
      <4>1. CopyOK(hit.doc)
        BY <3>4 DEF ScanInv
      <4>2. m.purl = p /\ m.taskRefs \subseteq new.taskRefs \cup hit.doc.taskRefs
        BY <3>2, <3>4, MergedDoc
      <4>3. /\ purls' \in Seq(Docs) /\ DOMAIN purls' = DOMAIN purls
            /\ \A g \in Left : g = m \/ g \in Copies
        BY <1>1, <3>4, Updated DEF ScanShape
      <4> HIDE DEF m
      <4>4. OnFile(m)
        BY <3>2, <3>4, <4>1, <4>2 DEF CopyOK, OnFile, Scans
      <4>5. CopyOK(m)
        BY <3>2, <4>1, <4>2, <4>4 DEF CopyOK, RefersTo
      <4> QED
        BY <4>3, <4>5
    <3> QED
      BY <3>1, <3>3, <3>4 DEF new
  <2> QED
    BY <2>1, <2>2
<1>7. ScanShape' /\ Grow
  BY <1>1, <1>3, <1>6 DEF ScanShape, Grow, Forth, Unlisted, taskVars
<1>8. ASSUME NEW d \in Copies' PROVE d \in Copies \/ CopyOK(d)
  BY <1>1, <1>5, <1>6, <1>8, CopiesAfter, CopiesOf
<1> QED
  BY <1>2, <1>4, <1>7, <1>8, Keeps

LEMMA SyncLookupStep ==
  ASSUME ScanInv, NEW t \in Syncs, SyncLookup(t)
  PROVE  ScanInv'
<1>1. UNCHANGED <<taskVars, purls, files, listed, step, purl, found>> /\ ScanShape
  BY DEF SyncLookup, ScanInv
<1>2. PICK p \in Purls, n \in SyncIterations, x \in Xrefs :
        synced' = [synced EXCEPT ![t] = [new |-> FromComponent(p, t, n, x),
                                         found |-> Documents(purls, [purl |-> p])]]
  BY DEF SyncLookup
<1> DEFINE new == FromComponent(p, t, n, x)
           hits == Documents(purls, [purl |-> p])
<1>3. new \in Docs /\ new.purl = p
  BY SyncedDoc
<1>4. \A hit \in hits : /\ hit.id \in DOMAIN purls /\ hit.doc = purls[hit.id]
                        /\ hit.doc.purl = p /\ hit = [id |-> hit.id, doc |-> hit.doc]
  BY DEF Documents, Query
<1>5. synced'[t].new = new /\ synced'[t].found = hits
  BY <1>1, <1>2 DEF ScanShape
<1>6. hits \subseteq Hits
  <2>1. DOMAIN purls \subseteq Nat /\ \A i \in DOMAIN purls : purls[i] \in Docs
    BY <1>1 DEF ScanShape
  <2> HIDE DEF hits
  <2> QED
    BY <1>4, <2>1 DEF Hits
<1>7. InSync(t)'
  <2>1. \A hit \in hits : hit.id \in DOMAIN purls' /\ hit.doc.purl = p
    BY <1>1, <1>4
  <2> QED
    BY <1>3, <1>5, <2>1 DEF InSync
<1>8. ScanShape' /\ Grow
  <2>1. [new |-> new, found |-> hits] \in SyncUpserts
    BY <1>3, <1>6 DEF SyncUpserts
  <2> HIDE DEF new, hits
  <2>2. synced' = [synced EXCEPT ![t] = [new |-> new, found |-> hits]]
    BY <1>2 DEF new, hits
  <2>3. synced' \in [Syncs -> SyncUpserts \cup {NoUpsert}]
    BY <1>1, <2>1, <2>2 DEF ScanShape
  <2> QED
    BY <1>1, <2>3 DEF ScanShape, Grow, Forth, Unlisted, taskVars
<1> HIDE DEF new, hits
<1>9. \A f \in Executions : Kept(f)
  BY <1>1 DEF Kept, taskVars
<1>10. \A u \in Syncs : u # t => synced'[u] = synced[u]
  BY <1>1, <1>2 DEF ScanShape
<1>11. \A u \in Syncs : \A hit \in synced'[u].found : hit.doc \in Copies
  BY <1>4, <1>5, <1>10, CopiesOf
<1>12. ASSUME NEW d \in Copies' PROVE d \in Copies
  <2>1. \A g \in Left : g \in Copies
    BY <1>1, CopiesOf DEF Left
  <2> QED
    BY <1>1, <1>11, <1>12, <2>1, CopiesAfter, CopiesOf
<1> QED
  BY <1>7, <1>8, <1>9, <1>10, <1>12, Keeps

LEMMA InitScanInv == ScanInit => ScanInv
<1> SUFFICES ASSUME ScanInit PROVE ScanInv
  OBVIOUS
<1>1. ScanShape
  <2>1. <<>> \in Seq(Docs) /\ DOMAIN files = {}
    BY DEF ScanInit
  <2> QED
    BY <2>1 DEF ScanInit, ScanShape
<1>2. \A d \in Copies : FALSE
  BY DEF ScanInit, Copies, InCollection, InLists, InQueries, InSyncs, NoUpsert
<1>3. \A e \in Executions : InPlace(e)
  BY DEF ScanInit, Init, InPlace, ListOK, Between
<1>4. \A t \in Syncs : InSync(t)
  BY DEF ScanInit, InSync, Upserting
<1> QED
  BY <1>1, <1>2, <1>3, <1>4 DEF ScanInv

LEMMA NextScanInv == ScanInv /\ TypeOK /\ [ScanNext]_vars => ScanInv'
<1> SUFFICES ASSUME ScanInv, TypeOK, [ScanNext]_vars PROVE ScanInv'
  OBVIOUS
<1>1. Forth
  BY ScanStepIsTask, NoneGoesBack
<1>2. CASE UNCHANGED vars
  <2>1. UNCHANGED <<pc, next, targets, listed, step, purl, found, purls, files, synced>>
    BY <1>2 DEF vars, taskVars, scanVars
  <2>2. ScanShape' /\ Grow
    BY <1>1, <2>1 DEF ScanInv, ScanShape, Grow
  <2>3. \A f \in Executions : Kept(f)
    BY <2>1 DEF Kept
  <2>4. \A d \in Copies' : d \in Copies
    BY <2>1 DEF Copies, InCollection, InLists, InQueries, InSyncs
  <2> QED
    BY <2>1, <2>2, <2>3, <2>4, Keeps
<1>3. ASSUME NEW t \in Syncs, SyncLookup(t) \/ SyncSave(t) PROVE ScanInv'
  BY <1>3, SyncLookupStep, SyncSaveStep
<1>4. ASSUME NEW e \in Executions, ScanWork(e) \/ ScanCrash(e) PROVE ScanInv'
  BY <1>1, <1>4, ScriptStep, ListStep, NoFindingsStep, FindingsStep, StoreFindingsStep, LookupStep,
     SaveStep DEF ScanWork, ScanStep
<1> QED
  BY <1>2, <1>3, <1>4 DEF ScanNext

LEMMA AlwaysScanInv == ScanSpec => [](ScanInv /\ TypeOK)
<1>1. ScanSpec => []TypeOK
  BY ScanIsTask, TaskTypeCorrect, PTL
<1>2. ScanSpec => []ScanInv
  BY <1>1, InitScanInv, NextScanInv, PTL DEF ScanSpec
<1> QED
  BY <1>1, <1>2, PTL

\* Whatever scans and syncs overlap, the collection holds well-formed Purls, and a scan
\* has a target for every Purl it listed and a Purl in hand exactly inside process_target.
THEOREM ScanTypeCorrect == ScanSpec => []ScanTypeOK
<1>1. ASSUME ScanInv PROVE ScanTypeOK
  <2>1. ScanShape
    BY <1>1 DEF ScanInv
  <2>2. purls \in Seq(Doc) /\ \A n \in DOMAIN files : files[n] \subseteq Vulnerabilities
    <3>1. Docs \subseteq Doc
      BY DEF Docs
    <3> QED
      BY <2>1, <3>1 DEF ScanShape
  <2>3. ASSUME NEW e \in Executions
        PROVE  /\ purl[e] \in Doc \cup {NoPurl} /\ (step[e] # "idle" <=> purl[e] # NoPurl)
               /\ DOMAIN listed[e] = DOMAIN targets[e]
    <3>1. InPlace(e) /\ purl[e] \in Docs \cup {NoPurl}
      BY <1>1, <2>1 DEF ScanInv, ScanShape
    <3>2. CASE step[e] = "idle"
      BY <3>1, <3>2 DEF InPlace, ListOK, Between
    <3>3. CASE step[e] # "idle"
      <4>1. InTarget(e) /\ listed[e][next[e]] \in Docs
        BY <2>1, <3>1, <3>3, ShapedDocs DEF InPlace, InTarget
      <4>2. purl[e] \in Docs
        BY <4>1, ScannedDoc DEF InTarget
      <4>3. \A d \in Docs : d # NoPurl
        BY DEF Docs, Doc, NoPurl
      <4> QED
        BY <3>1, <3>3, <4>2, <4>3 DEF InPlace, ListOK, Docs
    <3> QED
      BY <3>2, <3>3
  <2> QED
    BY <2>2, <2>3 DEF ScanTypeOK
<1> QED
  BY <1>1, AlwaysScanInv, PTL

\* Whatever scans and syncs overlap, every scan on record in a Purl has a findings file:
\* StoreFindings comes before Save, and only a file that was reported as written does.
THEOREM ScansOnFile == ScanSpec => []RecordedScansHaveFiles
<1>1. ScanInv => RecordedScansHaveFiles
  BY CopiesOf DEF ScanInv, CopyOK, OnFile, RecordedScansHaveFiles
<1> QED
  BY <1>1, AlwaysScanInv, PTL

------------------------------------------------------------------------------
(* The invariant of scans that overlap nothing. *)

Alone == \A e, f \in Executions : Running(e) /\ Running(f) => e = f

OnePurlEach == \A i, j \in DOMAIN purls : purls[i].purl = purls[j].purl => i = j

\* Nobody but the scan touches the collection: what it has not reached is as listed, what
\* its query returned is what is there, and its file is as it wrote it.
Undisturbed(e) ==
  pc[e] = "processing" =>
    /\ DOMAIN purls = DOMAIN listed[e]
    /\ \A n \in DOMAIN purls :
         purls[n].purl = listed[e][n].purl /\ (n >= next[e] => purls[n] = listed[e][n])
    /\ step[e] \in {"stored", "found"} =>
         files[FileName(purl[e].purl, Iteration(purl[e], e))] = purl[e].vulnerabilities
    /\ step[e] = "found" => \A hit \in found[e] : hit.doc = purls[hit.id]

\* The query of a sync has returned what is there.
Apart(t) ==
  Upserting(t) =>
    /\ \A e \in Executions : ~Running(e)
    /\ \A u \in Syncs : Upserting(u) => u = t
    /\ synced[t].found = Documents(purls, [purl |-> synced[t].new.purl])

SoloInv ==
  /\ Alone /\ OnePurlEach
  /\ \A e \in Executions : Undisturbed(e)
  /\ \A t \in Syncs : Apart(t)

\* A step of one scan leaves the others alone.
LEMMA OthersAlone ==
  ASSUME ScanInv, TypeOK, NEW e \in Executions, ScanWork(e) \/ ScanCrash(e)
  PROVE  \A f \in Executions : f # e => pc'[f] = pc[f]
<1>1. pc' = pc \/ \E l : pc' = [pc EXCEPT ![e] = l]
  <2>1. CASE ScanScript(e) \/ List(e) \/ ScanCrash(e)
    BY <2>1 DEF ScanScript, List, ScanCrash, InitTask, Fetch, FetchFails, EndRun, Complete, Crash,
                Write, Goto
  <2>2. CASE NoFindings(e) \/ Findings(e) \/ StoreFindings(e) \/ Lookup(e) \/ Save(e)
    BY <2>2 DEF NoFindings, Findings, StoreFindings, Lookup, Save, Finish, Continue, TargetDone,
                taskVars
  <2> QED
    BY <2>1, <2>2 DEF ScanWork, ScanStep
<1> QED
  BY <1>1 DEF TypeOK

\* Who takes a step is running, or is about to begin or dies before it has.
LEMMA WhoSteps ==
  ASSUME ScanInv, TypeOK, NEW e \in Executions, ScanWork(e) \/ ScanCrash(e)
  PROVE  Running(e) \/ (pc[e] = "new" /\ (ScanScript(e) \/ ScanCrash(e)))
<1>1. CASE ScanScript(e) \/ ScanCrash(e)
  BY <1>1 DEF ScanScript, ScanCrash, InitTask, FetchFails, EndRun, Complete, Crash, Running, TypeOK
<1>2. CASE List(e)
  BY <1>2 DEF List, Fetch, Running
<1>3. CASE NoFindings(e) \/ Findings(e) \/ StoreFindings(e) \/ Lookup(e) \/ Save(e)
  BY <1>3 DEF NoFindings, Findings, StoreFindings, Lookup, Save, At, Processing, Running
<1> QED
  BY <1>1, <1>2, <1>3 DEF ScanWork, ScanStep

\* No scan begins while another one is running.
LEMMA StaysAlone ==
  ASSUME ScanInv, TypeOK, ~Overlap, Alone, NEW e \in Executions, ScanWork(e) \/ ScanCrash(e)
  PROVE  Alone'
<1>1. \A f \in Executions : f # e => pc'[f] = pc[f]
  BY OthersAlone
<1>2. Running(e)' => Running(e) \/ \A f \in Executions : ~Running(f)
  <2>1. CASE Running(e)
    BY <2>1
  <2>2. CASE pc[e] = "new" /\ ScanCrash(e)
    BY <2>2 DEF ScanCrash, Crash, Goto, Running, TypeOK
  <2>3. CASE pc[e] = "new" /\ ScanScript(e)
    BY <2>3 DEF ScanScript, Quiet
  <2> QED
    BY <2>1, <2>2, <2>3, WhoSteps
<1> QED
  BY <1>1, <1>2 DEF Alone, Running

LEMMA OthersUndisturbed ==
  ASSUME ScanInv, TypeOK, SoloInv, NEW e \in Executions, ScanWork(e) \/ ScanCrash(e)
  PROVE  \A f \in Executions : f # e => Undisturbed(f)'
<1> SUFFICES ASSUME NEW f \in Executions, f # e PROVE Undisturbed(f)'
  OBVIOUS
<1>1. pc'[f] = pc[f]
  BY OthersAlone
<1>2. CASE Running(e)
  BY <1>1, <1>2 DEF SoloInv, Alone, Running, Undisturbed
<1>3. CASE pc[e] = "new" /\ (ScanScript(e) \/ ScanCrash(e))
  <2>1. UNCHANGED scanVars /\ next' = next
    BY <1>3 DEF ScanScript, ScanCrash, InitTask, FetchFails, EndRun, Complete, Crash
  <2>2. Undisturbed(f)
    BY DEF SoloInv
  <2> QED
    BY <1>1, <2>1, <2>2 DEF Undisturbed, scanVars
<1> QED
  BY <1>2, <1>3, WhoSteps

\* What a scan has in hand is what is in the collection, with its findings and reference,
\* and only that document has its Package URL.
LEMMA InCollectionToo ==
  ASSUME ScanInv, TypeOK, SoloInv, NEW e \in Executions, Processing(e), step[e] # "idle"
  PROVE  /\ next[e] \in DOMAIN purls /\ purls[next[e]] = listed[e][next[e]]
         /\ \A i \in DOMAIN purls : purls[i].purl = purl[e].purl => i = next[e]
         /\ DOMAIN purls = DOMAIN listed[e]
<1>1. Undisturbed(e) /\ pc[e] = "processing" /\ OnePurlEach /\ next[e] \in Nat
  BY DEF SoloInv, Processing, TypeOK
<1>2. next[e] \in DOMAIN listed[e] /\ purl[e].purl = listed[e][next[e]].purl
  BY AtListed, InHand
<1>3. next[e] >= next[e]
  BY <1>1
<1>4. next[e] \in DOMAIN purls /\ purls[next[e]] = listed[e][next[e]]
  BY <1>1, <1>2, <1>3 DEF Undisturbed
<1> QED
  BY <1>1, <1>2, <1>4 DEF OnePurlEach, Undisturbed

\* The end of process_target, when it leaves the collection as it is.
LEMMA FinishedUndisturbed ==
  ASSUME ScanInv, TypeOK, SoloInv, NEW e \in Executions, NEW error, Finish(e, error),
         UNCHANGED purls
  PROVE  Undisturbed(e)'
<1>1. /\ UNCHANGED <<pc, listed, purls>> /\ next' = [next EXCEPT ![e] = @ + 1]
      /\ step' = [step EXCEPT ![e] = "idle"] /\ Processing(e)
  BY DEF Finish, TargetDone
<1>2. pc[e] = "processing" /\ Undisturbed(e) /\ ScanShape
  BY <1>1 DEF Processing, SoloInv, ScanInv
<1>3. step'[e] = "idle"
  BY <1>1, <1>2 DEF ScanShape
<1>4. \A n \in Nat : n >= next'[e] => n >= next[e]
  <2>1. next[e] \in Nat /\ next'[e] = next[e] + 1
    BY <1>1 DEF TypeOK
  <2> QED
    BY <2>1
<1>5. DOMAIN purls \subseteq Nat
  BY <1>2 DEF ScanShape
<1> QED
  BY <1>1, <1>2, <1>3, <1>4, <1>5 DEF Undisturbed

\* What Save writes when nothing overlaps: the document it listed, with the findings and
\* the reference.
LEMMA SavedAlone ==
  ASSUME ScanInv, TypeOK, SoloInv, NEW e \in Executions, Save(e), ~UNCHANGED purls
  PROVE  \E m \in Docs :
           /\ next[e] \in DOMAIN purls /\ purls' = Update(purls, next[e], m)
           /\ m.purl = purl[e].purl /\ m.purl = purls[next[e]].purl
           /\ m.taskRefs = purl[e].taskRefs /\ m.vulnerabilities = purl[e].vulnerabilities
<1>1. Processing(e) /\ step[e] = "found"
  BY DEF Save, At
<1>2. PICK hit \in found[e] :
        /\ hit.id \in DOMAIN purls /\ hit.doc.purl = purl[e].purl
        /\ hit.doc \in Docs /\ MergePurl(purl[e], hit.doc) \in Docs
        /\ purls' = Update(purls, hit.id, MergePurl(purl[e], hit.doc))
  BY SavedDoc
<1>3. hit.doc = purls[hit.id]
  BY <1>1, <1>2 DEF SoloInv, Undisturbed, Processing
<1>4. hit.id = next[e] /\ hit.doc = listed[e][next[e]]
  BY <1>1, <1>2, <1>3, InCollectionToo
<1> DEFINE m == MergePurl(purl[e], hit.doc)
<1>5. /\ purl[e] \in Docs
      /\ hit.doc.taskRefs \subseteq purl[e].taskRefs
      /\ hit.doc.vulnerabilities \subseteq purl[e].vulnerabilities
  BY <1>1, <1>4, InHand
<1>6. /\ m.purl = purl[e].purl
      /\ m.vulnerabilities = purl[e].vulnerabilities \cup hit.doc.vulnerabilities
      /\ m.taskRefs = purl[e].taskRefs
           \cup {o \in hit.doc.taskRefs : \A r \in purl[e].taskRefs : r.task # o.task}
  BY <1>2, <1>5, MergedDoc
<1> HIDE DEF m
<1>7. m.taskRefs = purl[e].taskRefs /\ m.vulnerabilities = purl[e].vulnerabilities
  BY <1>5, <1>6
<1> QED
  BY <1>2, <1>3, <1>4, <1>6, <1>7 DEF m

LEMMA StaysUndisturbed ==
  ASSUME ScanInv, TypeOK, SoloInv, NEW e \in Executions, ScanWork(e) \/ ScanCrash(e)
  PROVE  Undisturbed(e)'
<1>1. ScanShape /\ InPlace(e) /\ Undisturbed(e) /\ DOMAIN purls \subseteq Nat
  BY DEF ScanInv, SoloInv, ScanShape
<1>2. CASE \E error : Finish(e, error) /\ UNCHANGED purls
  BY <1>2, FinishedUndisturbed
<1>3. CASE ScanScript(e) \/ ScanCrash(e)
  BY <1>3 DEF ScanScript, ScanCrash, InitTask, FetchFails, EndRun, Complete, Crash, Write, Goto,
              TypeOK, Undisturbed
<1>4. CASE List(e)
  <2>1. UNCHANGED <<purls, step>> /\ listed'[e] = purls /\ step[e] = "idle"
    BY <1>1, <1>4 DEF List, Fetch, ScanShape, InPlace, InTarget
  <2> QED
    BY <2>1 DEF Undisturbed
<1>5. ASSUME NEW s, Continue(e, s), UNCHANGED <<purls, listed>>, pc[e] = "processing",
             s \in {"stored", "found"} =>
               files'[FileName(purl[e].purl, Iteration(purl[e], e))] = purl[e].vulnerabilities,
             s \in {"stored", "found"} => UNCHANGED purl,
             s = "found" => \A hit \in found'[e] : hit.doc = purls[hit.id]
      PROVE  Undisturbed(e)'
  <2>1. UNCHANGED <<pc, next>> /\ step'[e] = s
    BY <1>1, <1>5 DEF Continue, taskVars, ScanShape
  <2> QED
    BY <1>1, <1>5, <2>1 DEF Undisturbed, FileName, Iteration
<1>6. CASE Findings(e)
  BY <1>5, <1>6 DEF Findings, At, Processing
<1>7. CASE StoreFindings(e) /\ Continue(e, "stored")
  <2> DEFINE name == FileName(purl[e].purl, Iteration(purl[e], e))
  <2>1. At(e, "scanned") /\ UNCHANGED purls
    BY <1>7 DEF StoreFindings
  <2>2. files' = Stored(name, purl[e].vulnerabilities) /\ UNCHANGED <<listed, purl, found>>
    <3>1. ~Finish(e, TRUE)
      BY <1>1, <1>7 DEF Continue, Finish, ScanShape
    <3> QED
      BY <1>7, <3>1 DEF StoreFindings
  <2>3. files'[name] = purl[e].vulnerabilities
    BY <2>2 DEF Stored
  <2> QED
    BY <1>5, <1>7, <2>1, <2>2, <2>3 DEF At, Processing
<1>8. CASE Lookup(e) /\ Continue(e, "found")
  <2>1. At(e, "stored") /\ UNCHANGED <<purls, files>>
    BY <1>8 DEF Lookup
  <2>2. UNCHANGED <<listed, purl>> /\ found'[e] = Documents(purls, [purl |-> purl[e].purl])
    <3>1. ~Finish(e, TRUE)
      BY <1>1, <1>8 DEF Continue, Finish, ScanShape
    <3> QED
      BY <1>1, <1>8, <3>1 DEF Lookup, ScanShape
  <2>3. \A hit \in found'[e] : hit.doc = purls[hit.id]
    BY <2>2 DEF Documents
  <2>4. files'[FileName(purl[e].purl, Iteration(purl[e], e))] = purl[e].vulnerabilities
    BY <1>1, <2>1 DEF At, Processing, Undisturbed
  <2> QED
    BY <1>5, <1>8, <2>1, <2>2, <2>3, <2>4 DEF At, Processing
<1>9. CASE Save(e) /\ ~UNCHANGED purls
  <2>1. Processing(e) /\ step[e] = "found" /\ pc[e] = "processing"
    BY <1>9 DEF Save, At, Processing
  <2>2. PICK m \in Docs : /\ next[e] \in DOMAIN purls /\ purls' = Update(purls, next[e], m)
                          /\ m.purl = purls[next[e]].purl
    BY <1>9, SavedAlone
  <2>3. /\ DOMAIN purls' = DOMAIN purls /\ purls'[next[e]] = m
        /\ \A i \in DOMAIN purls : i # next[e] => purls'[i] = purls[i]
    BY <1>1, <2>2, Updated DEF ScanShape
  <2>4. UNCHANGED <<pc, listed>> /\ step'[e] = "idle" /\ next'[e] = next[e] + 1 /\ next[e] \in Nat
    BY <1>1, <1>9 DEF Save, Finish, TargetDone, ScanShape, TypeOK
  <2>5. \A n \in Nat : n >= next'[e] => n >= next[e] /\ n # next[e]
    BY <2>4
  <2>6. ASSUME NEW n \in DOMAIN purls
        PROVE  purls'[n].purl = listed[e][n].purl /\ (n >= next'[e] => purls'[n] = listed[e][n])
    BY <1>1, <2>1, <2>2, <2>3, <2>5, <2>6 DEF Undisturbed
  <2>7. DOMAIN purls = DOMAIN listed[e]
    BY <1>1, <2>1 DEF Undisturbed
  <2> QED
    BY <2>3, <2>4, <2>6, <2>7 DEF Undisturbed
<1>10. CASE NoFindings(e)
  BY <1>2, <1>10 DEF NoFindings
<1>11. CASE StoreFindings(e) \/ Lookup(e) \/ Save(e)
  BY <1>2, <1>7, <1>8, <1>9, <1>11 DEF StoreFindings, Lookup, Save
<1> QED
  BY <1>3, <1>4, <1>6, <1>10, <1>11 DEF ScanWork, ScanStep

\* Every document keeps its Package URL.
LEMMA SameNames ==
  ASSUME purls \in Seq(Docs), OnePurlEach, NEW i \in DOMAIN purls, NEW m \in Docs,
         m.purl = purls[i].purl, purls' = Update(purls, i, m)
  PROVE  OnePurlEach'
<1>1. /\ DOMAIN purls' = DOMAIN purls /\ purls'[i] = m
      /\ \A j \in DOMAIN purls : j # i => purls'[j] = purls[j]
  BY Updated
<1>2. \A j \in DOMAIN purls : purls'[j].purl = purls[j].purl
  BY <1>1
<1> QED
  BY <1>1, <1>2 DEF OnePurlEach

\* A scan takes no step while a sync upserts, unless it dies before it has begun.
LEMMA SyncsApart ==
  ASSUME ScanInv, TypeOK, ~Overlap, SoloInv, NEW e \in Executions, ScanWork(e) \/ ScanCrash(e)
  PROVE  \A t \in Syncs : Apart(t)'
<1> SUFFICES ASSUME NEW t \in Syncs, Upserting(t)' PROVE Apart(t)'
  BY DEF Apart
<1>1. UNCHANGED synced
  BY DEF ScanWork, ScanScript, ScanCrash, scanVars
<1>2. Upserting(t) /\ Apart(t)
  BY <1>1 DEF Upserting, SoloInv
<1>3. \A f \in Executions : ~Running(f)
  BY <1>2 DEF Apart
<1>4. pc[e] = "new" /\ ScanCrash(e)
  BY <1>2, <1>3, WhoSteps DEF ScanScript, Quiet
<1>5. UNCHANGED purls /\ \A f \in Executions : ~Running(f)'
  BY <1>3, <1>4 DEF ScanCrash, Crash, Goto, scanVars, Running, TypeOK
<1> QED
  BY <1>1, <1>2, <1>5 DEF Apart, Upserting

LEMMA SoloStep ==
  ASSUME ScanInv, TypeOK, ~Overlap, SoloInv, NEW e \in Executions, ScanWork(e) \/ ScanCrash(e)
  PROVE  SoloInv'
<1>1. /\ Alone' /\ \A f \in Executions : Undisturbed(f)'
      /\ \A t \in Syncs : Apart(t)'
  BY StaysAlone, StaysUndisturbed, OthersUndisturbed, SyncsApart DEF SoloInv
<1>2. OnePurlEach /\ purls \in Seq(Docs)
  BY DEF SoloInv, ScanInv, ScanShape
<1>3. CASE UNCHANGED purls
  BY <1>1, <1>2, <1>3 DEF SoloInv, OnePurlEach
<1>4. CASE ~UNCHANGED purls
  <2>1. Save(e)
    BY <1>4 DEF ScanWork, ScanStep, ScanScript, ScanCrash, List, NoFindings, Findings, StoreFindings, Lookup,
                scanVars
  <2>2. OnePurlEach'
    BY <1>2, <1>4, <2>1, SavedAlone, SameNames
  <2> QED
    BY <1>1, <2>2 DEF SoloInv
<1> QED
  BY <1>3, <1>4

\* A sync goes on when no scan does, and no other sync.
LEMMA SoloLookup ==
  ASSUME ScanInv, ~Overlap, SoloInv, NEW t \in Syncs, SyncLookup(t)
  PROVE  SoloInv'
<1>1. /\ UNCHANGED <<pc, purls>> /\ \A e \in Executions : ~Running(e) /\ pc[e] # "processing"
      /\ \A u \in Syncs : ~Upserting(u)
  BY DEF SyncLookup, Quiet, Running, taskVars
<1>2. Alone' /\ OnePurlEach' /\ \A e \in Executions : Undisturbed(e)'
  BY <1>1 DEF SoloInv, Alone, OnePurlEach, Running, Undisturbed
<1>3. PICK p \in Purls, n \in SyncIterations, x \in Xrefs :
        synced' = [synced EXCEPT ![t] = [new |-> FromComponent(p, t, n, x),
                                         found |-> Documents(purls, [purl |-> p])]]
  BY DEF SyncLookup
<1> DEFINE new == FromComponent(p, t, n, x)
<1>4. new.purl = p
  BY SyncedDoc
<1> HIDE DEF new
<1>5. /\ synced'[t].new.purl = p /\ synced'[t].found = Documents(purls, [purl |-> p])
      /\ \A u \in Syncs : u # t => synced'[u] = synced[u]
  BY <1>3, <1>4 DEF ScanInv, ScanShape, new
<1>6. ASSUME NEW u \in Syncs, Upserting(u)' PROVE u = t
  BY <1>1, <1>5, <1>6 DEF Upserting
<1>7. \A e \in Executions : ~Running(e)'
  BY <1>1 DEF Running
<1>8. ASSUME NEW u \in Syncs PROVE Apart(u)'
  BY <1>1, <1>5, <1>6, <1>7 DEF Apart
<1> QED
  BY <1>2, <1>8 DEF SoloInv

LEMMA SoloSave ==
  ASSUME ScanInv, ~Overlap, SoloInv, NEW t \in Syncs, SyncSave(t)
  PROVE  SoloInv'
<1>1. /\ UNCHANGED pc /\ Upserting(t) /\ Apart(t) /\ \A e \in Executions : ~Running(e) /\ pc[e] # "processing"
      /\ synced' = [synced EXCEPT ![t] = NoUpsert]
  BY DEF SyncSave, SoloInv, Apart, Running, taskVars
<1>2. Alone' /\ \A e \in Executions : Undisturbed(e)'
  BY <1>1 DEF SoloInv, Alone, Running, Undisturbed
<1>3. ASSUME NEW u \in Syncs PROVE Apart(u)'
  <2>1. synced'[u] = IF u = t THEN NoUpsert ELSE synced[u]
    BY <1>1 DEF ScanInv, ScanShape
  <2>2. u # t => ~Upserting(u)
    BY <1>1 DEF Apart
  <2> QED
    BY <2>1, <2>2 DEF Apart, Upserting
<1>4. OnePurlEach /\ purls \in Seq(Docs)
  BY DEF SoloInv, ScanInv, ScanShape
<1>5. OnePurlEach'
  <2>1. CASE UNCHANGED purls
    BY <1>4, <2>1 DEF OnePurlEach
  <2>2. CASE ~UNCHANGED purls
    <3>1. PICK p \in Purls, n \in SyncIterations, x \in Xrefs :
            LET new == FromComponent(p, t, n, x)
            IN  /\ new = synced[t].new
                /\ \/ synced[t].found = {} /\ purls' = Insert(purls, new)
                   \/ \E hit \in synced[t].found :
                        /\ hit.id \in DOMAIN purls /\ hit.doc \in Docs /\ hit.doc.purl = p
                        /\ MergePurl(new, hit.doc) \in Docs
                        /\ purls' = Update(purls, hit.id, MergePurl(new, hit.doc))
      BY <2>2, SyncedWrite
    <3> DEFINE new == FromComponent(p, t, n, x)
    <3>2. new \in Docs /\ new.purl = p /\ new = synced[t].new
      BY <3>1, SyncedDoc
    <3> HIDE DEF new
    <3>3. synced[t].found = Documents(purls, [purl |-> p])
      BY <1>1, <3>2 DEF Apart
    <3>4. CASE synced[t].found = {} /\ purls' = Insert(purls, new)
      <4>1. \A i \in DOMAIN purls : purls[i].purl # p
        <5>1. ASSUME NEW i \in DOMAIN purls, purls[i].purl = p PROVE FALSE
          <6>1. "purl" \in DOMAIN purls[i]
            BY <1>4 DEF Docs, Doc
          <6>2. i \in Query(purls, [purl |-> p])
            BY <5>1, <6>1 DEF Query
          <6>3. [id |-> i, doc |-> purls[i]] \in Documents(purls, [purl |-> p])
            BY <6>2 DEF Documents
          <6> QED
            BY <3>3, <3>4, <6>3
        <5> QED
          BY <5>1
      <4>2. purls' = Append(purls, new)
        BY <3>4 DEF Insert
      <4>3. /\ DOMAIN purls' = DOMAIN purls \cup {Len(purls) + 1} /\ purls'[Len(purls) + 1] = new
            /\ \A i \in DOMAIN purls : purls'[i] = purls[i]
        BY <1>4, <3>2, <4>2
      <4> QED
        BY <1>4, <3>2, <4>1, <4>3 DEF OnePurlEach
    <3>5. ASSUME NEW hit \in synced[t].found, hit.id \in DOMAIN purls, hit.doc \in Docs,
                 hit.doc.purl = p, MergePurl(new, hit.doc) \in Docs,
                 purls' = Update(purls, hit.id, MergePurl(new, hit.doc))
          PROVE  OnePurlEach'
      <4>1. hit.doc = purls[hit.id]
        BY <3>3, <3>5 DEF Documents
      <4>2. MergePurl(new, hit.doc).purl = purls[hit.id].purl
        BY <3>2, <3>5, <4>1, MergedDoc
      <4> QED
        BY <1>4, <3>5, <4>2, SameNames
    <3> QED
      BY <3>1, <3>4, <3>5 DEF new
  <2> QED
    BY <2>1, <2>2
<1> QED
  BY <1>2, <1>3, <1>5 DEF SoloInv

LEMMA AlwaysSolo ==
  ASSUME ~Overlap
  PROVE  ScanSpec => [](ScanInv /\ TypeOK /\ SoloInv)
<1>1. ScanInit => SoloInv
  <2> SUFFICES ASSUME ScanInit PROVE SoloInv
    OBVIOUS
  <2>1. DOMAIN purls = {} /\ \A e \in Executions : pc[e] = "new"
    BY DEF ScanInit, Init
  <2> QED
    BY <2>1 DEF SoloInv, Alone, Running, OnePurlEach, Undisturbed, ScanInit, Apart, Upserting
<1>2. ScanInv /\ TypeOK /\ SoloInv /\ [ScanNext]_vars => SoloInv'
  <2>1. ASSUME SoloInv, UNCHANGED vars PROVE SoloInv'
    BY <2>1 DEF vars, taskVars, scanVars, SoloInv, Alone, Running, OnePurlEach, Undisturbed, Apart,
                Upserting
  <2> QED
    BY <2>1, SoloStep, SoloLookup, SoloSave DEF ScanNext
<1> QED
  BY <1>1, <1>2, AlwaysScanInv, PTL DEF ScanSpec

------------------------------------------------------------------------------
(* The files of scans that overlap nothing, when no two Package URLs share a name. *)

NamesApart == \A p, q \in Purls : FormatFileName[p] = FormatFileName[q] => p = q

\* The name a scan is about to write is the name of no scan on record.
LEMMA NewName ==
  ASSUME ScanInv, TypeOK, SoloInv, NamesApart, NEW e \in Executions, Processing(e), step[e] = "scanned",
         NEW i \in DOMAIN purls, NEW r \in Scans(purls[i])
  PROVE  FileName(purls[i].purl, r.iteration) # FileName(purl[e].purl, Iteration(purl[e], e))
<1>1. SUFFICES ASSUME FileName(purls[i].purl, r.iteration)
                        = FileName(purl[e].purl, Iteration(purl[e], e))
               PROVE  FALSE
  OBVIOUS
<1>2. /\ purls[i] \in Docs /\ purl[e] \in Docs /\ Iteration(purl[e], e) \in Nat
      /\ \A q \in listed[e][next[e]].taskRefs : q.iteration < Iteration(purl[e], e)
  BY ShapedDocs, InHand DEF ScanInv
<1>3. /\ FormatFileName[purls[i].purl] = FormatFileName[purl[e].purl]
      /\ r.iteration = Iteration(purl[e], e)
  BY <1>1 DEF FileName
<1>4. purls[i].purl \in Purls /\ purl[e].purl \in Purls
  BY <1>2, DocFields
<1>5. purls[i].purl = purl[e].purl
  BY <1>3, <1>4 DEF NamesApart
<1>6. purls[i] = listed[e][next[e]]
  BY <1>5, InCollectionToo
<1>7. r.iteration < Iteration(purl[e], e)
  BY <1>2, <1>6 DEF Scans
<1>8. \A n \in Nat : ~(n < n)
  OBVIOUS
<1> QED
  BY <1>2, <1>3, <1>7, <1>8, Zenon

\* So a step leaves the files of scans on record alone.
LEMMA RecordedFilesStay ==
  ASSUME ScanInv, TypeOK, SoloInv, NamesApart, NEW e \in Executions, ScanWork(e) \/ ScanCrash(e)
  PROVE  \A i \in DOMAIN purls : \A r \in Scans(purls[i]) :
           LET name == FileName(purls[i].purl, r.iteration)
           IN  name \in DOMAIN files /\ files'[name] = files[name]
<1>1. \A i \in DOMAIN purls : \A r \in Scans(purls[i]) :
        FileName(purls[i].purl, r.iteration) \in DOMAIN files
  BY CopiesOf DEF ScanInv, CopyOK, OnFile
<1>2. CASE UNCHANGED files
  BY <1>1, <1>2
<1>3. CASE StoreFindings(e)
  <2> DEFINE name == FileName(purl[e].purl, Iteration(purl[e], e))
  <2>1. Processing(e) /\ step[e] = "scanned"
    BY <1>3 DEF StoreFindings, At
  <2>2. files' \in NotStored(name, purl[e].vulnerabilities) \cup {Stored(name, purl[e].vulnerabilities)}
    BY <1>3 DEF StoreFindings
  <2>3. /\ purl[e].vulnerabilities \in SUBSET Vulnerabilities
        /\ \A n \in DOMAIN files : files[n] \subseteq Vulnerabilities
    BY <2>1, InHand, DocFields DEF ScanInv, ScanShape
  <2>4. \A n \in DOMAIN files : n # name => files'[n] = files[n]
    BY <2>2, <2>3, StoredFiles
  <2>5. \A i \in DOMAIN purls : \A r \in Scans(purls[i]) : FileName(purls[i].purl, r.iteration) # name
    BY <2>1, NewName
  <2> QED
    BY <1>1, <2>4, <2>5
<1> QED
  BY <1>2, <1>3 DEF ScanWork, ScanStep, ScanScript, ScanCrash, List, NoFindings, Findings, Lookup, Save, scanVars

\* The latest scan on record in a document has left its findings in its file.
Latest(d) ==
  \A r \in Scans(d) : (\A s \in Scans(d) : s.iteration <= r.iteration) =>
    files[FileName(d.purl, r.iteration)] = d.vulnerabilities

LEMMA LatestIs ==
  ASSUME ScanInv
  PROVE  LatestScanOnFile <=> \A i \in DOMAIN purls : Latest(purls[i])
<1>1. \A i \in DOMAIN purls : \A r \in Scans(purls[i]) :
        FileName(purls[i].purl, r.iteration) \in DOMAIN files
  BY CopiesOf DEF ScanInv, CopyOK, OnFile
<1> QED
  BY <1>1 DEF LatestScanOnFile, Latest

\* Save: the scan that is saved is the latest, and its file is as it wrote it.
LEMMA SavedLatest ==
  ASSUME ScanInv, TypeOK, SoloInv, NEW e \in Executions, Processing(e), step[e] = "found",
         NEW m \in Docs, m.purl = purl[e].purl, m.taskRefs = purl[e].taskRefs,
         m.vulnerabilities = purl[e].vulnerabilities
  PROVE  Latest(m)
<1> DEFINE n == Iteration(purl[e], e)
<1>1. /\ purl[e].taskRefs = listed[e][next[e]].taskRefs \cup {[task |-> e, iteration |-> n]}
      /\ n \in Nat /\ \A r \in listed[e][next[e]].taskRefs : r.iteration < n
      /\ listed[e][next[e]] \in Docs
  BY InHand, AtListed
<1>2. files[FileName(purl[e].purl, n)] = purl[e].vulnerabilities
  BY DEF SoloInv, Undisturbed, Processing
<1> HIDE DEF n
<1>3. [task |-> e, iteration |-> n] \in Scans(m)
  BY <1>1 DEF Scans
<1>4. ASSUME NEW r \in Scans(m), \A s \in Scans(m) : s.iteration <= r.iteration
      PROVE  r.iteration = n
  <2>1. n <= r.iteration
    BY <1>3, <1>4
  <2>2. CASE r \in listed[e][next[e]].taskRefs
    <3>1. r.iteration \in Nat /\ r.iteration < n
      BY <1>1, <2>2, DocFields
    <3> QED
      BY <1>1, <2>1, <3>1
  <2> QED
    BY <1>1, <1>4, <2>2 DEF Scans
<1> QED
  BY <1>2, <1>4 DEF Latest

LEMMA LatestStep ==
  ASSUME ScanInv, TypeOK, SoloInv, NamesApart, LatestScanOnFile, RecordedScansHaveFiles',
         NEW e \in Executions, ScanWork(e) \/ ScanCrash(e)
  PROVE  LatestScanOnFile'
<1>1. \A i \in DOMAIN purls : Latest(purls[i])
  BY LatestIs
<1>2. ASSUME NEW i \in DOMAIN purls, NEW d, d = purls[i] PROVE Latest(d)'
  BY <1>1, <1>2, RecordedFilesStay DEF Latest, FileName, Scans
<1>4. SUFFICES \A i \in DOMAIN purls' : \E d : d = purls'[i] /\ Latest(d)'
  BY DEF RecordedScansHaveFiles, LatestScanOnFile, Latest, Scans, FileName
<1>5. CASE UNCHANGED purls
  BY <1>2, <1>5
<1>6. CASE ~UNCHANGED purls
  <2>1. Save(e)
    BY <1>6 DEF ScanWork, ScanStep, ScanScript, ScanCrash, List, NoFindings, Findings, StoreFindings, Lookup,
                scanVars
  <2>2. PICK m \in Docs :
          /\ next[e] \in DOMAIN purls /\ purls' = Update(purls, next[e], m)
          /\ m.purl = purl[e].purl /\ m.taskRefs = purl[e].taskRefs
          /\ m.vulnerabilities = purl[e].vulnerabilities
    BY <1>6, <2>1, SavedAlone
  <2>3. Processing(e) /\ step[e] = "found" /\ UNCHANGED files /\ purls \in Seq(Docs)
    BY <2>1 DEF Save, At, ScanInv, ScanShape
  <2>4. Latest(m)'
    BY <2>2, <2>3, SavedLatest DEF Latest, Scans, FileName
  <2>5. /\ DOMAIN purls' = DOMAIN purls /\ purls'[next[e]] = m
        /\ \A j \in DOMAIN purls : j # next[e] => purls'[j] = purls[j]
    BY <2>2, <2>3, Updated
  <2> QED
    BY <1>2, <2>4, <2>5
<1> QED
  BY <1>5, <1>6

LEMMA LatestSync ==
  ASSUME ScanInv, SoloInv, LatestScanOnFile, RecordedScansHaveFiles', NEW t \in Syncs,
         SyncLookup(t) \/ SyncSave(t)
  PROVE  LatestScanOnFile'
<1>1. \A i \in DOMAIN purls : Latest(purls[i])
  BY LatestIs
<1>2. UNCHANGED files /\ purls \in Seq(Docs)
  BY DEF SyncLookup, SyncSave, ScanInv, ScanShape
<1>3. CASE UNCHANGED purls
  BY <1>2, <1>3 DEF LatestScanOnFile, Scans, FileName
<1>4. CASE ~UNCHANGED purls
  <2>1. SyncSave(t) /\ Upserting(t) /\ Apart(t)
    BY <1>4 DEF SyncLookup, SyncSave, SoloInv
  <2>2. PICK p \in Purls, n \in SyncIterations, x \in Xrefs :
          LET new == FromComponent(p, t, n, x)
          IN  /\ new = synced[t].new
              /\ \/ purls' = Insert(purls, new)
                 \/ \E hit \in synced[t].found :
                      /\ hit.id \in DOMAIN purls /\ hit.doc \in Docs /\ hit.doc.purl = p
                      /\ MergePurl(new, hit.doc) \in Docs
                      /\ purls' = Update(purls, hit.id, MergePurl(new, hit.doc))
    BY <1>4, <2>1, SyncedWrite
  <2> DEFINE new == FromComponent(p, t, n, x)
  <2>3. /\ new \in Docs /\ new.purl = p /\ Scans(new) = {} /\ new.vulnerabilities = {}
        /\ new.taskRefs = {[task |-> t, iteration |-> n]}
    BY SyncedDoc
  <2> HIDE DEF new
  <2>4. \A i \in DOMAIN purls' : Latest(purls'[i])
    <3>1. CASE purls' = Insert(purls, new)
      <4>1. Latest(new)
        BY <2>3 DEF Latest
      <4> QED
        BY <1>1, <1>2, <2>3, <3>1, <4>1, Appended
    <3>2. ASSUME NEW hit \in synced[t].found, hit.id \in DOMAIN purls, hit.doc \in Docs,
                 hit.doc.purl = p, MergePurl(new, hit.doc) \in Docs,
                 purls' = Update(purls, hit.id, MergePurl(new, hit.doc))
          PROVE  \A j \in DOMAIN purls' : Latest(purls'[j])
      <4> DEFINE i == hit.id
                 m == MergePurl(new, hit.doc)
      <4>1. hit.doc = purls[i]
        BY <2>1, <3>2 DEF Apart, Documents
      <4>2. /\ m.purl = new.purl
            /\ m.vulnerabilities = new.vulnerabilities \cup hit.doc.vulnerabilities
            /\ m.taskRefs = new.taskRefs
                 \cup {o \in hit.doc.taskRefs : \A r \in new.taskRefs : r.task # o.task}
        BY <2>3, <3>2, MergedDoc
      <4>3. /\ DOMAIN purls' = DOMAIN purls /\ purls'[i] = m
            /\ \A j \in DOMAIN purls : j # i => purls'[j] = purls[j]
        BY <1>2, <3>2, Updated
      <4> HIDE DEF m
      <4>4. Scans(m) = Scans(hit.doc)
        <5>1. t \notin Executions
          BY ScanAssumption
        <5> QED
          BY <2>3, <4>2, <5>1 DEF Scans
      <4>5. Latest(hit.doc)
        BY <1>1, <3>2, <4>1
      <4>6. m.purl = hit.doc.purl /\ m.vulnerabilities = hit.doc.vulnerabilities
        BY <2>3, <3>2, <4>2
      <4>7. Latest(m)
        BY <4>4, <4>5, <4>6 DEF Latest
      <4> QED
        BY <1>1, <4>3, <4>7
    <3> QED
      BY <2>2, <3>1, <3>2 DEF new
  <2> QED
    BY <1>2, <2>4 DEF RecordedScansHaveFiles, LatestScanOnFile, Latest, Scans, FileName
<1> QED
  BY <1>3, <1>4

LEMMA AlwaysLatest ==
  ASSUME ~Overlap, NamesApart
  PROVE  ScanSpec => [](ScanInv /\ TypeOK /\ SoloInv /\ LatestScanOnFile)
<1>1. ScanInit => LatestScanOnFile
  BY DEF ScanInit, LatestScanOnFile
<1>2. ScanInv /\ TypeOK /\ SoloInv /\ LatestScanOnFile /\ RecordedScansHaveFiles' /\ [ScanNext]_vars
        => LatestScanOnFile'
  <2>1. ASSUME LatestScanOnFile, UNCHANGED vars PROVE LatestScanOnFile'
    BY <2>1 DEF vars, scanVars, LatestScanOnFile, Scans, FileName
  <2> QED
    BY <2>1, LatestStep, LatestSync DEF ScanNext
<1> QED
  BY <1>1, <1>2, AlwaysSolo, ScansOnFile, PTL DEF ScanSpec

\* When nothing overlaps, the file of the latest scan on record holds exactly the
\* vulnerabilities of the Purl: scans that failed or died and syncs in between leave no gap
\* between the store and the files.
THEOREM LatestOnFile ==
  ASSUME ~Overlap, NamesApart
  PROVE  ScanSpec => []LatestScanOnFile
BY AlwaysLatest, PTL

\* Nor does a scan then ever touch the findings file of a scan on record, whether its write
\* is reported as failed or not.
THEOREM RecordedFilesKept ==
  ASSUME ~Overlap, NamesApart
  PROVE  ScanSpec => FilesOnRecordKept
<1>1. ScanInv /\ TypeOK /\ SoloInv /\ [ScanNext]_vars =>
        [\A i \in DOMAIN purls : \A r \in Scans(purls[i]) :
           LET name == FileName(purls[i].purl, r.iteration)
           IN  name \in DOMAIN files => files'[name] = files[name]]_vars
  <2>1. ASSUME ScanInv, TypeOK, SoloInv, ScanNext
        PROVE  \A i \in DOMAIN purls : \A r \in Scans(purls[i]) :
                 LET name == FileName(purls[i].purl, r.iteration)
                 IN  name \in DOMAIN files => files'[name] = files[name]
    <3>1. CASE \E t \in Syncs : SyncLookup(t) \/ SyncSave(t)
      BY <3>1 DEF SyncLookup, SyncSave
    <3>2. CASE \E e \in Executions : ScanWork(e) \/ ScanCrash(e)
      BY <2>1, <3>2, RecordedFilesStay
    <3> QED
      BY <2>1, <3>1, <3>2 DEF ScanNext
  <2> QED
    BY <2>1
<1> QED
  BY <1>1, AlwaysSolo, PTL DEF ScanSpec, FilesOnRecordKept
==============================================================================
