-------------------------- MODULE TaskProviderProofs --------------------------
(***************************************************************************)
(* Theorems about TaskProvider, for every set of executions and all lists  *)
(* of targets.                                                             *)
(***************************************************************************)
EXTENDS TaskProvider, WellFoundedInduction, TLAPS

\* What an execution has in memory before its run, during the loop, and after it.
Fresh(e) ==
  targets[e] = <<>> /\ errors[e] = {} /\ task[e] = NewRecord /\ next[e] = 1

InLoop(e) ==
  /\ targets[e] \in TargetLists
  /\ task[e] = [NewRecord EXCEPT !.count = Len(targets[e])]
  /\ next[e] \in 1..(Len(targets[e]) + 1)

RunFailed(e) ==
  targets[e] = <<>> /\ errors[e] = {} /\ task[e] = [NewRecord EXCEPT !.err = TRUE]

LoopOver(e) ==
  /\ targets[e] \in TargetLists
  /\ next[e] = Len(targets[e]) + 1
  /\ task[e] = [NewRecord EXCEPT !.count = Len(targets[e]), !.refErrs = errors[e]]

RunOver(e) == RunFailed(e) \/ LoopOver(e)

\* What is on record and in memory at each point of execute().
Stage(e) ==
  /\ pc[e] = "new" => Fresh(e) /\ records[e] = NoRecord
  /\ pc[e] = "running" => Fresh(e) /\ records[e] = NewRecord
  /\ pc[e] = "processing" => InLoop(e) /\ records[e] = NewRecord
  /\ pc[e] = "completing" => RunOver(e) /\ records[e] = NewRecord
  /\ pc[e] = "ok" => Status(e) \in Terminal
  /\ \/ records[e] \in {NoRecord, NewRecord}
     \/ RunOver(e) /\ records[e] = Completed(task[e])

IInv == TypeOK /\ \A e \in Executions : Stage(e)

\* complete() settles the Task.
LEMMA CompletedTerminal ==
  ASSUME NEW t \in Record
  PROVE  Completed(t) \in Record /\ Completed(t).status \in Terminal
BY DEF Completed, ErrTotal, Record, Terminal, Statuses

\* Without an error of the run, the errors of the targets decide.
LEMMA CompletedFields ==
  ASSUME NEW t \in Record, ~t.err
  PROVE  /\ Completed(t).refErrs = t.refErrs /\ Completed(t).count = t.count
         /\ Completed(t).status = "Complete" <=> t.refErrs = {}
         /\ Completed(t).status # "Failed"
<1>1. Completed(t) = [t EXCEPT !.errTotal = ErrTotal(t.refErrs),
                               !.status = IF ErrTotal(t.refErrs) > 0 THEN "CompleteWithErrors"
                                                                     ELSE "Complete"]
  BY DEF Completed
<1>2. Completed(t).status = IF ErrTotal(t.refErrs) > 0 THEN "CompleteWithErrors" ELSE "Complete"
  BY <1>1 DEF Record
<1>3. ErrTotal(t.refErrs) > 0 <=> t.refErrs # {}
  BY DEF ErrTotal
<1>4. Completed(t).refErrs = t.refErrs /\ Completed(t).count = t.count
  BY <1>1 DEF Record
<1>5. QED
  BY <1>2, <1>3, <1>4

LEMMA NewRecordTyped == NewRecord \in Record
BY DEF NewRecord, Record, Statuses

LEMMA NewRecordNotTerminal ==
  /\ NewRecord.status = "Started"
  /\ NoRecord.status = "none"
  /\ "Started" \notin Terminal /\ "none" \notin Terminal
BY DEF NewRecord, NoRecord, Terminal, Statuses

\* A list of targets has a length, and no position before the first.
LEMMA ListTyped ==
  ASSUME NEW list \in TargetLists
  PROVE  list \in Seq(Keys) /\ Len(list) \in Nat \ {0} /\ DOMAIN list = 1..Len(list)
<1>1. list \in Seq(Keys) /\ list # <<>>
  BY TargetAssumption
<1>2. QED
  BY <1>1

LEMMA InitIInv == Init => IInv
<1>1. SUFFICES ASSUME Init PROVE IInv
  OBVIOUS
<1>2. TypeOK
  BY <1>1, NewRecordTyped DEF Init, TypeOK
<1>3. \A e \in Executions : Stage(e)
  BY <1>1 DEF Init, Stage, Fresh
<1>4. QED
  BY <1>2, <1>3 DEF IInv

\* The other executions keep their stage when a step of `e` leaves them alone.
LEMMA OthersKeepStage ==
  ASSUME NEW e \in Executions, NEW f \in Executions, Stage(f),
         pc'[f] = pc[f], records'[f] = records[f], task'[f] = task[f],
         targets'[f] = targets[f], next'[f] = next[f], errors'[f] = errors[f]
  PROVE  Stage(f)'
BY DEF Stage, Fresh, InLoop, RunOver, RunFailed, LoopOver, Status

LEMMA InitTaskIInv ==
  ASSUME IInv, NEW e \in Executions, InitTask(e)
  PROVE  IInv'
<1>1. TypeOK'
  BY NewRecordTyped DEF IInv, TypeOK, InitTask, Write, Goto
<1>2. Stage(e)'
  BY NewRecordNotTerminal
  DEF IInv, TypeOK, InitTask, Write, Goto, Stage, Fresh
<1>3. ASSUME NEW f \in Executions, f # e PROVE Stage(f)'
  BY <1>3, OthersKeepStage DEF IInv, TypeOK, InitTask, Write, Goto
<1>4. QED
  BY <1>1, <1>2, <1>3 DEF IInv

LEMMA FetchIInv ==
  ASSUME IInv, NEW e \in Executions, Fetch(e)
  PROVE  IInv'
<1>1. PICK list \in TargetLists :
        /\ targets' = [targets EXCEPT ![e] = list]
        /\ task' = [task EXCEPT ![e].count = Len(list)]
  BY DEF Fetch
<1>2. Len(list) \in Nat \ {0}
  BY ListTyped
<1>3. TypeOK'
  <2>1. [task[e] EXCEPT !.count = Len(list)] \in Record
    BY <1>2 DEF IInv, TypeOK, Record
  <2>2. task' \in [Executions -> Record]
    BY <1>1, <2>1 DEF IInv, TypeOK
  <2>3. QED
    BY <1>1, <2>2 DEF IInv, TypeOK, Fetch, Goto
<1>4. pc'[e] = "processing" /\ targets'[e] = list /\ next'[e] = 1
      /\ records'[e] = NewRecord /\ task'[e] = [NewRecord EXCEPT !.count = Len(list)]
  BY <1>1 DEF IInv, TypeOK, Fetch, Goto, Stage, Fresh
<1>5. InLoop(e)'
  BY <1>2, <1>4 DEF InLoop
<1>6. Stage(e)'
  BY <1>4, <1>5 DEF Stage
<1>7. ASSUME NEW f \in Executions, f # e PROVE Stage(f)'
  BY <1>1, <1>7, OthersKeepStage DEF IInv, TypeOK, Fetch, Goto
<1>8. QED
  BY <1>3, <1>6, <1>7 DEF IInv

LEMMA FetchFailsIInv ==
  ASSUME IInv, NEW e \in Executions, FetchFails(e)
  PROVE  IInv'
<1>1. TypeOK'
  BY DEF IInv, TypeOK, FetchFails, Goto, Record
<1>2. pc'[e] = "completing" /\ RunFailed(e)' /\ records'[e] = NewRecord
  BY DEF IInv, TypeOK, FetchFails, Goto, Stage, Fresh, RunFailed
<1>3. Stage(e)'
  BY <1>2 DEF Stage, RunOver
<1>4. ASSUME NEW f \in Executions, f # e PROVE Stage(f)'
  BY <1>4, OthersKeepStage DEF IInv, TypeOK, FetchFails, Goto
<1>5. QED
  BY <1>1, <1>3, <1>4 DEF IInv

LEMMA TargetDoneIInv ==
  ASSUME IInv, NEW e \in Executions, NEW failed \in BOOLEAN, TargetDone(e, failed)
  PROVE  IInv'
<1>1. pc[e] = "processing" /\ next[e] \in DOMAIN targets[e]
  BY DEF TargetDone, Processing
<1>2. InLoop(e) /\ records[e] = NewRecord
  BY <1>1 DEF IInv, Stage
<1>3. targets[e] \in Seq(Keys) /\ Len(targets[e]) \in Nat /\ next[e] \in 1..Len(targets[e])
  BY <1>1, <1>2, ListTyped DEF InLoop
<1>4. Target(e) \in Keys
  BY <1>3 DEF Target
<1>5. TypeOK'
  BY <1>3, <1>4 DEF IInv, TypeOK, TargetDone
<1>6. next'[e] = next[e] + 1 /\ targets' = targets /\ task' = task /\ pc' = pc
      /\ records' = records
  BY DEF IInv, TypeOK, TargetDone
<1>7. InLoop(e)'
  BY <1>2, <1>3, <1>6 DEF InLoop
<1>8. Stage(e)'
  BY <1>1, <1>2, <1>6, <1>7 DEF Stage
<1>9. ASSUME NEW f \in Executions, f # e PROVE Stage(f)'
  BY <1>9, OthersKeepStage DEF IInv, TypeOK, TargetDone
<1>10. QED
  BY <1>5, <1>8, <1>9 DEF IInv

LEMMA EndRunIInv ==
  ASSUME IInv, NEW e \in Executions, EndRun(e)
  PROVE  IInv'
<1>1. TypeOK'
  BY DEF IInv, TypeOK, EndRun, Goto, Record
<1>2. InLoop(e) /\ records[e] = NewRecord
  BY DEF IInv, Stage, EndRun
<1>3. Len(targets[e]) \in Nat /\ DOMAIN targets[e] = 1..Len(targets[e])
  BY <1>2, ListTyped DEF InLoop
<1>4. next[e] = Len(targets[e]) + 1
  BY <1>2, <1>3 DEF EndRun, InLoop
<1>5. pc'[e] = "completing" /\ LoopOver(e)' /\ records'[e] = NewRecord
  BY <1>2, <1>4 DEF IInv, TypeOK, EndRun, Goto, InLoop, LoopOver, NewRecord
<1>6. Stage(e)'
  BY <1>5 DEF Stage, RunOver
<1>7. ASSUME NEW f \in Executions, f # e PROVE Stage(f)'
  BY <1>7, OthersKeepStage DEF IInv, TypeOK, EndRun, Goto
<1>8. QED
  BY <1>1, <1>6, <1>7 DEF IInv

LEMMA CompleteIInv ==
  ASSUME IInv, NEW e \in Executions, Complete(e)
  PROVE  IInv'
<1>1. task[e] \in Record
  BY DEF IInv, TypeOK
<1>2. TypeOK'
  BY <1>1, CompletedTerminal DEF IInv, TypeOK, Complete, Write, Goto
<1>3. RunOver(e) /\ records[e] = NewRecord
  BY DEF IInv, Stage, Complete
<1>4. RunOver(e)'
  BY <1>3 DEF Complete, RunOver, RunFailed, LoopOver
<1>5. /\ records'[e] \in {NewRecord, Completed(task[e])}
      /\ pc'[e] \in {"ok", "error"}
      /\ pc'[e] = "ok" => records'[e] = Completed(task[e])
      /\ task' = task
  BY <1>3 DEF IInv, TypeOK, Complete, Write, Goto
<1>6. Stage(e)'
  BY <1>1, <1>4, <1>5, CompletedTerminal DEF Stage, Status
<1>7. ASSUME NEW f \in Executions, f # e PROVE Stage(f)'
  BY <1>7, OthersKeepStage DEF IInv, TypeOK, Complete, Write, Goto
<1>8. QED
  BY <1>2, <1>6, <1>7 DEF IInv

LEMMA CrashIInv ==
  ASSUME IInv, NEW e \in Executions, Crash(e)
  PROVE  IInv'
<1>1. TypeOK'
  BY DEF IInv, TypeOK, Crash, Goto
<1>2. pc'[e] = "dead" /\ UNCHANGED <<records, task, targets, next, errors>>
  BY DEF IInv, TypeOK, Crash, Goto
<1>3. Stage(e)'
  BY <1>2 DEF IInv, Stage, RunOver, RunFailed, LoopOver
<1>4. ASSUME NEW f \in Executions, f # e PROVE Stage(f)'
  BY <1>4, OthersKeepStage DEF IInv, TypeOK, Crash, Goto
<1>5. QED
  BY <1>1, <1>3, <1>4 DEF IInv

LEMMA NextIInv == IInv /\ [Next]_taskVars => IInv'
<1>1. ASSUME IInv, NEW e \in Executions, Work(e) \/ Crash(e)
      PROVE  IInv'
  BY <1>1, InitTaskIInv, FetchIInv, FetchFailsIInv, TargetDoneIInv, EndRunIInv,
     CompleteIInv, CrashIInv DEF Work, Script
<1>2. ASSUME IInv, UNCHANGED taskVars
      PROVE  IInv'
  BY <1>2 DEF IInv, TypeOK, Stage, Fresh, InLoop, RunOver, RunFailed, LoopOver, Status,
              taskVars
<1>3. QED
  BY <1>1, <1>2 DEF Next

LEMMA AlwaysIInv == Spec => []IInv
BY InitIInv, NextIInv, PTL DEF Spec

\* The Task collection and the memory of every execution are well formed.
THEOREM TaskTypeCorrect == Spec => []TypeOK
<1>1. IInv => TypeOK
  BY DEF IInv
<1>2. QED
  BY <1>1, AlwaysIInv, PTL

\* A settled Task tells what happened in its run, whatever failed on the way.
THEOREM TaskTruthful == Spec => []StatusTruthful
<1>1. ASSUME IInv PROVE StatusTruthful
  <2>1. SUFFICES ASSUME NEW e \in Executions, Status(e) \in Terminal
                 PROVE  /\ Status(e) = "Failed" <=> targets[e] = <<>>
                        /\ Status(e) # "Failed" => next[e] = Len(targets[e]) + 1
                        /\ Status(e) = "Complete" <=> targets[e] # <<>> /\ errors[e] = {}
                        /\ records[e].refErrs = errors[e]
                        /\ records[e].count = Len(targets[e])
    BY DEF StatusTruthful
  <2>2. RunOver(e) /\ records[e] = Completed(task[e])
    BY <1>1, <2>1, NewRecordNotTerminal DEF IInv, Stage, Status
  <2>3. CASE RunFailed(e)
    BY <2>2, <2>3 DEF RunFailed, Completed, NewRecord, Status
  <2>4. CASE LoopOver(e)
    <3>1. targets[e] # <<>>
      BY <2>4, TargetAssumption DEF LoopOver
    <3>2. task[e] \in Record /\ ~task[e].err /\ task[e].refErrs = errors[e]
          /\ task[e].count = Len(targets[e])
      BY <1>1, <2>4 DEF LoopOver, NewRecord, IInv, TypeOK
    <3>3. /\ records[e].refErrs = errors[e] /\ records[e].count = Len(targets[e])
          /\ Status(e) = "Complete" <=> errors[e] = {}
          /\ Status(e) # "Failed"
      BY <2>2, <3>2, CompletedFields DEF Status
    <3>4. QED
      BY <2>4, <3>1, <3>3 DEF LoopOver
  <2>5. QED
    BY <2>2, <2>3, <2>4 DEF RunOver
<1>2. QED
  BY <1>1, AlwaysIInv, PTL

\* Nothing is fetched or processed for a Task that is not on record.
THEOREM TaskRecordedBeforeRun == Spec => []RecordedBeforeRun
<1>1. IInv => RecordedBeforeRun
  BY NewRecordNotTerminal DEF IInv, Stage, RecordedBeforeRun, Status
<1>2. QED
  BY <1>1, AlwaysIInv, PTL

------------------------------------------------------------------------------
(* execute() implements TaskRecord. *)

status == [e \in Executions |-> Status(e)]
told == [e \in Executions |-> Told(e)]

\* A step of execute() writes the Task, answers the command, or is invisible.
LEMMA StepAdvances ==
  ASSUME IInv, NEW e \in Executions, Work(e) \/ Crash(e)
  PROVE  Abstract!Next \/ UNCHANGED <<status, told>>
<1> DEFINE s == Status(e)'
           t == Told(e)'
<1>1. pc[e] \notin {"ok", "error"}
  BY DEF Work, Script, InitTask, Fetch, FetchFails, EndRun, Complete, TargetDone,
         Processing, Crash
<1>2. \A f \in Executions \ {e} : pc'[f] = pc[f] /\ records'[f] = records[f]
  BY DEF IInv, TypeOK, Work, Script, InitTask, Fetch, FetchFails, EndRun, Complete,
         TargetDone, Crash, Write, Goto
<1>3. status' = [status EXCEPT ![e] = s] /\ told' = [told EXCEPT ![e] = t]
  BY <1>2 DEF status, told, Status, Told
<1>4. told[e] = "nothing" /\ status[e] = Status(e)
  BY <1>1 DEF told, Told, status
<1>5. t \in {"nothing", "ok", "error"}
  BY DEF Told
<1>6. s \in {Status(e)} \cup Abstract!Successors(Status(e)) /\ (t = "ok" => s \in Abstract!Terminal)
  <2>1. CASE InitTask(e)
    <3>1. Status(e) = "none" /\ s \in {"none", "Started"} /\ t # "ok"
      BY <2>1, NewRecordNotTerminal
      DEF IInv, TypeOK, Stage, InitTask, Write, Goto, Status, Told
    <3>2. QED
      BY <3>1 DEF Abstract!Successors
  <2>2. CASE Complete(e)
    <3>1. task[e] \in Record /\ records[e] = NewRecord
      BY <2>2 DEF IInv, TypeOK, Stage, Complete
    <3>2. Status(e) = "Started"
      BY <3>1, NewRecordNotTerminal DEF Status
    <3>3. Completed(task[e]).status \in Terminal
      BY <3>1, CompletedTerminal
    <3>4. s \in {"Started"} \cup Terminal /\ (t = "ok" => s \in Terminal)
      BY <2>2, <3>1, <3>2, <3>3 DEF IInv, TypeOK, Complete, Write, Goto, Status, Told
    <3>5. Terminal = Abstract!Terminal
      BY DEF Terminal, Statuses, Abstract!Terminal
    <3>6. QED
      BY <3>2, <3>4, <3>5 DEF Abstract!Successors
  <2>3. CASE Fetch(e) \/ FetchFails(e) \/ EndRun(e) \/ Crash(e)
             \/ \E failed \in BOOLEAN : TargetDone(e, failed)
    BY <2>3 DEF IInv, TypeOK, Fetch, FetchFails, EndRun, Crash, TargetDone, Processing,
                Goto, Status, Told
  <2>4. QED
    BY <2>1, <2>2, <2>3 DEF Work, Script
<1>7. Abstract!Advance(e)
  BY <1>3, <1>4, <1>5, <1>6 DEF Abstract!Advance, status, told
<1>8. QED
  BY <1>7 DEF Abstract!Next

\* The Task document appears as Started, settles at most once, and a command that is told
\* "ok" has a settled Task.
THEOREM TaskRecordImplemented == Spec => ImplementsTaskRecord
<1>1. Init => Abstract!Init
  BY DEF Init, Abstract!Init, Status, Told, NoRecord
<1>2. IInv /\ [Next]_taskVars => [Abstract!Next]_<<status, told>>
  <2>1. UNCHANGED taskVars => UNCHANGED <<status, told>>
    BY DEF taskVars, status, told, Status, Told
  <2>2. QED
    BY <2>1, StepAdvances DEF Next
<1>3. QED
  BY <1>1, <1>2, AlwaysIInv, PTL
  DEF Spec, ImplementsTaskRecord, Abstract!Spec, status, told

------------------------------------------------------------------------------
\* A set of naturals that is not empty and is bounded has a greatest element.  Cited by
\* the modules about instances and iterations, which are one more than the greatest.
LEMMA GreatestNatural ==
  ASSUME NEW S \in SUBSET Nat, S # {}, NEW b \in Nat, \A n \in S : n <= b
  PROVE  \E m \in S : \A n \in S : n <= m
<1> DEFINE R == OpToRel(<, Nat)
           T == {b - n : n \in S}
<1>1. IsWellFoundedOn(R, Nat)
  BY NatLessThanWellFounded
<1>2. \A m, n \in Nat : n < m => <<n, m>> \in R
  BY DEF OpToRel
<1>3. \A n \in S : n \in Nat /\ b \in Nat /\ n <= b /\ b - n \in Nat
  OBVIOUS
<1>4. T \subseteq Nat /\ T # {}
  <2>1. \A n \in S : b - n \in Nat
    BY <1>3
  <2>2. PICK s \in S : TRUE
    OBVIOUS
  <2>3. b - s \in T
    OBVIOUS
  <2> QED
    BY <2>1, <2>3
<1>5. PICK t \in T : \A u \in T : ~(<<u, t>> \in R)
  <2> HIDE DEF R, T
  <2> QED
    BY <1>1, <1>4, WFMin
<1>6. PICK m \in S : t = b - m
  OBVIOUS
<1>7. ASSUME NEW n \in S PROVE n <= m
  <2>1. b - n \in T /\ b - n \in Nat /\ t \in Nat
    BY <1>3, <1>4, <1>7
  <2>2. ~(b - n < t)
    <3> HIDE DEF R
    <3> QED
      BY <1>2, <1>5, <2>1
  <2> QED
    BY <1>3, <1>6, <1>7, <2>2
<1> QED
  BY <1>7
==============================================================================
