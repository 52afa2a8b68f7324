----------------------------- MODULE TaskProvider -----------------------------
(***************************************************************************)
(* core's TaskProvider: the transaction script every command runs.  Insert *)
(* a Task as Started, run (fetch the targets, process them one by one,     *)
(* collect the error of each target that fails), then write the outcome    *)
(* into the Task.  The store can fail, apply a write and lose the reply,   *)
(* and the process can die at any step.                                    *)
(*                                                                         *)
(* What processing a target does is a matter of the provider: SbomSync and *)
(* VulnScan extend this module and take its steps as part of theirs.       *)
(***************************************************************************)
EXTENDS Naturals, Sequences, FiniteSets

CONSTANTS
  Executions,   \* runs of a command, each with the Task it creates
  Keys,         \* what errors are keyed by: a Snyk project id, or a Package URL
  TargetLists   \* the lists of targets, by key, that fetching may return

ASSUME TargetAssumption == TargetLists \subseteq Seq(Keys) \ {<<>>}

VARIABLES
  records,   \* the Task collection: the document of each execution, or NoRecord
  pc,        \* where each execution is in execute()
  task,      \* its Task in memory: err and ref_errs
  targets,   \* the targets it fetched
  next,      \* the position of the target it processes next
  errors     \* the errors run() has collected so far, by key

taskVars == <<records, pc, task, targets, next, errors>>

Statuses == {"Started", "Complete", "CompleteWithErrors", "Failed"}
Terminal == Statuses \ {"Started"}

Record == [status : Statuses, count : Nat, err : BOOLEAN, refErrs : SUBSET Keys,
           errTotal : Nat]

NoRecord == [status |-> "none"]

\* Task::new, as Service::insert stores it.
NewRecord ==
  [status |-> "Started", count |-> 0, err |-> FALSE, refErrs |-> {}, errTotal |-> 0]

Init ==
  /\ records = [e \in Executions |-> NoRecord]
  /\ pc = [e \in Executions |-> "new"]
  /\ task = [e \in Executions |-> NewRecord]
  /\ targets = [e \in Executions |-> <<>>]
  /\ next = [e \in Executions |-> 1]
  /\ errors = [e \in Executions |-> {}]

Goto(e, l) == pc' = [pc EXCEPT ![e] = l]

\* A write either succeeds, fails, or is applied although the caller is told it
\* failed (retryWrites is off, so the driver does not try again).
Write(e, document, onSuccess) ==
  \/ /\ records' = [records EXCEPT ![e] = document]
     /\ Goto(e, onSuccess) \/ Goto(e, "error")
  \/ /\ Goto(e, "error")
     /\ UNCHANGED records

\* Mutant of InitTask: an error of init() is logged, and the run goes on.
InitTaskUnchecked(e) ==
  /\ pc[e] = "new"
  /\ records' \in {records, [records EXCEPT ![e] = NewRecord]}
  /\ Goto(e, "running")
  /\ UNCHANGED <<task, targets, next, errors>>

\* TaskProvider::init.
InitTask(e) ==
  /\ pc[e] = "new"
  /\ Write(e, NewRecord, "running")
  /\ UNCHANGED <<task, targets, next, errors>>

\* The targets are fetched: never an empty list, which is an error of the run.
Fetch(e) ==
  /\ pc[e] = "running"
  /\ \E list \in TargetLists :
       /\ targets' = [targets EXCEPT ![e] = list]
       /\ task' = [task EXCEPT ![e].count = Len(list)]
  /\ Goto(e, "processing")
  /\ UNCHANGED <<records, next, errors>>

\* run() returns Err: execute() puts it into the Task and goes on to complete it.
FetchFails(e) ==
  /\ pc[e] = "running"
  /\ task' = [task EXCEPT ![e].err = TRUE]
  /\ Goto(e, "completing")
  /\ UNCHANGED <<records, targets, next, errors>>

Target(e) == targets[e][next[e]]

Processing(e) == pc[e] = "processing" /\ next[e] \in DOMAIN targets[e]

\* Mutant of TargetDone: the error is kept under the position of the target.
TargetDoneByPosition(e, failed) ==
  /\ Processing(e)
  /\ errors' = IF failed THEN [errors EXCEPT ![e] = @ \cup {next[e]}] ELSE errors
  /\ next' = [next EXCEPT ![e] = @ + 1]
  /\ UNCHANGED <<records, pc, task, targets>>

\* One turn of run()'s loop: an error is kept under the target's key, and the loop
\* goes on with the next target.
TargetDone(e, failed) ==
  /\ Processing(e)
  /\ errors' = IF failed THEN [errors EXCEPT ![e] = @ \cup {Target(e)}] ELSE errors
  /\ next' = [next EXCEPT ![e] = @ + 1]
  /\ UNCHANGED <<records, pc, task, targets>>

\* run() returns Ok(errors): execute() puts them into the Task.
EndRun(e) ==
  /\ pc[e] = "processing"
  /\ next[e] \notin DOMAIN targets[e]
  /\ task' = [task EXCEPT ![e].refErrs = errors[e]]
  /\ Goto(e, "completing")
  /\ UNCHANGED <<records, targets, next, errors>>

\* complete() filters the Option that holds the map of errors, not the map: the count
\* is 1 as soon as there is an error.
ErrTotal(refErrs) == IF refErrs = {} THEN 0 ELSE 1

\* Mutant of Completed: the status is decided before the error of the run is looked at.
CompletedIgnoringErr(t) ==
  [t EXCEPT !.errTotal = ErrTotal(t.refErrs),
            !.status = IF ErrTotal(t.refErrs) > 0 THEN "CompleteWithErrors" ELSE "Complete"]

\* The Task as complete() writes it.
Completed(t) ==
  IF t.err THEN [t EXCEPT !.status = "Failed"]
  ELSE [t EXCEPT !.errTotal = ErrTotal(t.refErrs),
                 !.status = IF ErrTotal(t.refErrs) > 0 THEN "CompleteWithErrors"
                                                       ELSE "Complete"]

\* Mutant of Complete: the result of the update is dropped.
CompleteUnchecked(e) ==
  /\ pc[e] = "completing"
  /\ records' \in {records, [records EXCEPT ![e] = Completed(task[e])]}
  /\ Goto(e, "ok")
  /\ UNCHANGED <<task, targets, next, errors>>

\* TaskProvider::complete, with its result.
Complete(e) ==
  /\ pc[e] = "completing"
  /\ Write(e, Completed(task[e]), "ok")
  /\ UNCHANGED <<task, targets, next, errors>>

\* The process dies; nothing ever takes its Task up again.
Crash(e) ==
  /\ pc[e] \notin {"ok", "error", "dead"}
  /\ Goto(e, "dead")
  /\ UNCHANGED <<records, task, targets, next, errors>>

\* The steps of execute(), run()'s loop apart.
Script(e) ==
  InitTask(e) \/ Fetch(e) \/ FetchFails(e) \/ EndRun(e) \/ Complete(e)

Work(e) == Script(e) \/ \E failed \in BOOLEAN : TargetDone(e, failed)

Next == \E e \in Executions : Work(e) \/ Crash(e)

Spec == Init /\ [][Next]_taskVars

------------------------------------------------------------------------------
(* Properties. *)

\* The Task collection holds well-formed Tasks only.
TypeOK ==
  /\ records \in [Executions -> Record \cup {NoRecord}]
  /\ pc \in [Executions -> {"new", "running", "processing", "completing",
                            "ok", "error", "dead"}]
  /\ task \in [Executions -> Record]
  /\ targets \in [Executions -> TargetLists \cup {<<>>}]
  /\ next \in [Executions -> Nat \ {0}]
  /\ errors \in [Executions -> SUBSET Keys]

Status(e) == records[e].status

Told(e) == IF pc[e] \in {"ok", "error"} THEN pc[e] ELSE "nothing"

\* A settled Task tells what happened: Failed when run() failed as a whole and no target
\* was processed, Complete when every target was processed without an error, otherwise
\* CompleteWithErrors, with the key of every target that failed.
StatusTruthful ==
  \A e \in Executions : Status(e) \in Terminal =>
    /\ Status(e) = "Failed" <=> targets[e] = <<>>
    /\ Status(e) # "Failed" => next[e] = Len(targets[e]) + 1
    /\ Status(e) = "Complete" <=> targets[e] # <<>> /\ errors[e] = {}
    /\ records[e].refErrs = errors[e]
    /\ records[e].count = Len(targets[e])

\* Nothing is fetched or processed for a Task that is not on record.
RecordedBeforeRun ==
  \A e \in Executions :
    pc[e] \in {"running", "processing", "completing"} => Status(e) = "Started"

Abstract == INSTANCE TaskRecord
              WITH status <- [e \in Executions |-> Status(e)],
                   told <- [e \in Executions |-> Told(e)]

\* execute() implements TaskRecord.
ImplementsTaskRecord == Abstract!Spec

\* A Task on record settles, unless its process dies or the command is told that the
\* Task could not be written.
StartedSettles ==
  \A e \in Executions :
    Status(e) = "Started" ~> Status(e) \in Terminal \/ pc[e] \in {"error", "dead"}

==============================================================================
