-------------------------- MODULE TaskStateMachine --------------------------
(***************************************************************************)
(* The HMAS task state machine of src/state_machine.cpp: the transition    *)
(* table and try_transition, and the tolerant walks the orchestrator       *)
(* composes from it (src/orchestrator.cpp).  A task is a record with (at   *)
(* least) the fields layer and state; timestamps are abstracted.           *)
(***************************************************************************)
EXTENDS HmasTypes

TaskEvent == {"Submit", "Delegate", "Start", "Escalate", "Retry", "Complete", "Fail"}

(***************************************************************************)
(* The table.  A pair that is not listed is rejected: the state stays.     *)
(* Pending -> Delegated is guarded to L3 leaves.                           *)
(***************************************************************************)
Target(l, s, e) ==
  CASE s = "Pending"     /\ e = "Submit"            -> "Decomposing"
    [] s = "Pending"     /\ e = "Delegate" /\ l = 3 -> "Delegated"
    [] s = "Decomposing" /\ e = "Delegate"          -> "Delegated"
    [] s = "Delegated"   /\ e = "Start"             -> "InProgress"
    [] s = "InProgress"  /\ e = "Escalate"          -> "Escalated"
    [] s = "Escalated"   /\ e = "Retry"             -> "Delegated"
    [] s = "InProgress"  /\ e = "Complete"          -> "Completed"
    [] s = "InProgress"  /\ e = "Fail"              -> "Failed"
    [] s = "Escalated"   /\ e = "Fail"              -> "Failed"
    [] OTHER                                        -> s

\* try_transition returns true: no row of the table is a self-loop.
Accepts(t, e) == Target(t.layer, t.state, e) # t.state

try_transition(t, e) == [t EXCEPT !.state = Target(t.layer, t.state, e)]

(***************************************************************************)
(* The chained, individually guarded transitions of the handlers, as       *)
(* functions of the layer and the state of the task they start from.       *)
(***************************************************************************)

\* The transition e, attempted only from state from.
Attempt(l, s, from, e) == IF s = from THEN Target(l, s, e) ELSE s

\* Pending: Delegate if the table allows it (a leaf), otherwise Submit.
LeavePending(l, s) ==
  Attempt(l, s, "Pending",
          IF Target(l, "Pending", "Delegate") = "Pending" THEN "Submit" ELSE "Delegate")

Forward == [l \in Layer |-> [s \in TaskState |->
  Attempt(l, Attempt(l, LeavePending(l, s), "Decomposing", "Delegate"), "Delegated", "Start")]]

\* on_myrmidon_started: a retry first when the task was escalated.
Started == [l \in Layer |-> [s \in TaskState |->
  Forward[l][Attempt(l, s, "Escalated", "Retry")]]]

\* Mutant of Finished: only a task that is InProgress can be completed.
FinishedStrict == [l \in Layer |-> [s \in TaskState |-> Target(l, s, "Complete")]]

\* Mutant of Finished: the last transition of the walk is forgotten.
FinishedNot == [l \in Layer |-> [s \in TaskState |-> Started[l][s]]]

\* on_myrmidon_completion.
Finished == [l \in Layer |-> [s \in TaskState |-> Target(l, Started[l][s], "Complete")]]

\* Mutant of Broken: a failure report is believed whatever the state.
BrokenAnyway == [l \in Layer |-> [s \in TaskState |-> "Failed"]]

\* on_myrmidon_failed: Fail is valid from Escalated, so there is no retry.
Broken == [l \in Layer |-> [s \in TaskState |-> Target(l, Forward[l][s], "Fail")]]

\* Mutant of Assigned: delegate does not walk a coordination node through Decomposing.
AssignedLeaf == [l \in Layer |-> [s \in TaskState |-> Target(l, s, "Delegate")]]

\* delegate: Delegate, or Submit and then Delegate for a Pending coordination node.
Assigned == [l \in Layer |-> [s \in TaskState |->
  IF Target(l, s, "Delegate") # s THEN Target(l, s, "Delegate")
  ELSE Target(l, Attempt(l, s, "Pending", "Submit"), "Delegate")]]

Walk(f, t) == [t EXCEPT !.state = f[t.layer][t.state]]

=============================================================================
