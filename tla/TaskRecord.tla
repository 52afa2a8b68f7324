------------------------------ MODULE TaskRecord ------------------------------
(***************************************************************************)
(* What a Task document promises to whoever reads it, and what the command *)
(* that ran the Task is told: the document appears as Started, settles at  *)
(* most once, and never changes after the command has been answered.  The  *)
(* command is told "ok" only when the document has settled; "error" says   *)
(* nothing of the document.  TaskProvider implements this.                 *)
(***************************************************************************)
CONSTANT Executions

Terminal == {"Complete", "CompleteWithErrors", "Failed"}

VARIABLES
  status,   \* the stored status of each execution's Task, or "none"
  told      \* what each command has been told: "nothing", "ok" or "error"

Init ==
  /\ status = [e \in Executions |-> "none"]
  /\ told = [e \in Executions |-> "nothing"]

Successors(s) ==
  CASE s = "none"    -> {"Started"}
    [] s = "Started" -> Terminal
    [] OTHER         -> {}

\* A step of one execution writes the document, answers the command, or both.
Advance(e) ==
  /\ told[e] = "nothing"
  /\ \E s \in {status[e]} \cup Successors(status[e]), t \in {"nothing", "ok", "error"} :
       /\ t = "ok" => s \in Terminal
       /\ status' = [status EXCEPT ![e] = s]
       /\ told' = [told EXCEPT ![e] = t]

Next == \E e \in Executions : Advance(e)

Spec == Init /\ [][Next]_<<status, told>>
==============================================================================
