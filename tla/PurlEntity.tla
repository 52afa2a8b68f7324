------------------------------ MODULE PurlEntity ------------------------------
(***************************************************************************)
(* The Purl entity of core and the merges the upserts of PackageService    *)
(* are built from.  The lists of the code that are only ever searched and  *)
(* appended to (task references, cross references, vulnerabilities) are    *)
(* sets here; an empty set of vulnerabilities stands for None.             *)
(***************************************************************************)
EXTENDS CrossReference, Naturals

\* Purl::from_component: a fresh Purl refers to the running task and the Snyk project.
FromComponent(p, w, n, x) ==
  [purl |-> p,
   taskRefs |-> {[task |-> w, iteration |-> n]},
   xrefs |-> {x},
   vulnerabilities |-> {}]

\* Mutant of NextIteration: the iteration of the latest reference is given again.
LatestIteration(refs) ==
  IF refs = {} THEN 1
  ELSE CHOOSE n \in {r.iteration : r \in refs} : \A r \in refs : r.iteration <= n

\* The iteration Purl::init_scan gives the next scan of a Purl.
NextIteration(refs) ==
  IF refs = {} THEN 1
  ELSE 1 + (CHOOSE n \in {r.iteration : r \in refs} : \A r \in refs : r.iteration <= n)

\* Purl::init_scan appends its reference without looking for one of the same task.
InitScan(doc, w) ==
  [doc EXCEPT !.taskRefs = @ \cup {[task |-> w, iteration |-> NextIteration(doc.taskRefs)]}]

\* Mutant of AddTaskRefs: the check for a reference of the same task is dropped.
AddTaskRefsUnchecked(refs, others) == refs \cup others

\* Purl::task_refs, once for every reference of `others`: a reference is added unless
\* its task is referred to already.  (`others` refers to a task once: OneRefPerTask.)
AddTaskRefs(refs, others) ==
  refs \cup {o \in others : \A r \in refs : r.task # o.task}

\* Purl::vulnerabilities, by identity: what is already there stays, the rest is added.
AddVulnerabilities(current, others) == current \cup others

\* Mutant of MergePurl: the block that merges the existing vulnerabilities is missing.
MergePurlWithoutFindings(new, existing) ==
  [purl |-> new.purl,
   taskRefs |-> AddTaskRefs(new.taskRefs, existing.taskRefs),
   xrefs |-> AddXrefs(new.xrefs, existing.xrefs),
   vulnerabilities |-> new.vulnerabilities]

\* What upsert_purl writes over the document it read.
MergePurl(new, existing) ==
  [purl |-> new.purl,
   taskRefs |-> AddTaskRefs(new.taskRefs, existing.taskRefs),
   xrefs |-> AddXrefs(new.xrefs, existing.xrefs),
   vulnerabilities |-> AddVulnerabilities(new.vulnerabilities, existing.vulnerabilities)]

\* What the three other upserts write over the document they read: only the cross
\* references of the old document survive.
MergeXrefs(new, existing) ==
  [new EXCEPT !.xrefs = AddXrefs(@, existing.xrefs)]
===============================================================================
