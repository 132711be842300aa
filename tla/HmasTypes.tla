----------------------------- MODULE HmasTypes ------------------------------
(***************************************************************************)
(* The types of include/agamemnon/hmas_types.hpp: layers, task states and  *)
(* the HMAS task record.  The lists blocked_by and child_task_ids are sets *)
(* of ids; assigned_lead_id is reduced to whether it is set (claimed) and  *)
(* the escalation records to their number; titles, repositories, parents   *)
(* and timestamps are left out.                                            *)
(***************************************************************************)
EXTENDS Naturals

\* L0 chief architect, L1 component lead, L2 module lead, L3 task agent.
Layer == 0 .. 3

TaskState == {"Pending", "Decomposing", "Delegated", "InProgress",
              "Escalated", "Completed", "Failed"}

Terminal == {"Completed", "Failed"}

HmasTask(Id) ==
  [id : Id, layer : Layer, state : TaskState, children : SUBSET Id,
   blocked_by : SUBSET Id, claimed : BOOLEAN, escalations : Nat]

\* A task as decompose, on_epic_registered and split_task make it.
NewTask(id, layer, children, blockers) ==
  [id |-> id, layer |-> layer, state |-> "Pending", children |-> children,
   blocked_by |-> blockers, claimed |-> FALSE, escalations |-> 0]

=============================================================================
