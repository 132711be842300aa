--------------------------- MODULE PlanExecution ----------------------------
(***************************************************************************)
(* A plan of PlanningBreakdown, driven by the orchestrator one completion  *)
(* at a time: submit delegates the root, and the completion of a task      *)
(* delegates those of its children whose blockers are all completed        *)
(* (src/orchestrator.cpp).  What Orchestrator does with overlapping        *)
(* handlers on one plan, this module does serially on every small plan.    *)
(***************************************************************************)
EXTENDS PlanningBreakdown

CONSTANTS Briefs   \* the briefs that clients may submit

VARIABLES
  brief,      \* the submitted brief
  plan,       \* its plan, as a function from id to task
  delegated,  \* ids that have been delegated
  completed   \* ids that have been completed

planVars == <<brief, plan, delegated, completed>>

ById(list) == [id \in {list[k].id : k \in DOMAIN list} |->
                 list[CHOOSE k \in DOMAIN list : list[k].id = id]]

PlanInit ==
  /\ brief \in Briefs
  /\ plan = ById(decompose(1, brief))
  /\ delegated = {<<1>>}
  /\ completed = {}

\* Mutant of Unblocked: the blockers are checked before the completion is recorded.
UnblockedBefore(id, done) ==
  {c \in plan[id].children : c \notin delegated /\ plan[c].blocked_by \subseteq completed}

\* Mutant of Unblocked: blockers are not checked at all.
AllChildren(id, done) == plan[id].children \ delegated

\* delegate_unblocked_children, once completed holds done.
Unblocked(id, done) ==
  {c \in plan[id].children : c \notin delegated /\ plan[c].blocked_by \subseteq done}

Complete(id) ==
  /\ id \in delegated \ completed
  /\ completed' = completed \cup {id}
  /\ delegated' = delegated \cup Unblocked(id, completed')
  /\ UNCHANGED <<brief, plan>>

PlanNext == \E id \in DOMAIN plan : Complete(id)

\* Nothing is left to complete: every task is, or those that remain wait for ever.
PlanDone == delegated = completed /\ UNCHANGED planVars

-----------------------------------------------------------------------------

\* The blocked_by relation has no cycle: no set of tasks waits for itself.
BlockersAcyclic ==
  \A S \in SUBSET DOMAIN plan :
    S = {} \/ \E id \in S : plan[id].blocked_by \cap S = {}

\* Every blocker lists the task among its children, where its completion looks for it.
BlockersTracked ==
  \A id \in DOMAIN plan : \A b \in plan[id].blocked_by : id \in plan[b].children

\* A plan without cycles whose blockers all list the tasks that wait for them runs to its
\* end whatever the order of completions: these are the only ways in which decompose and
\* delegate_unblocked_children can leave a task behind.
RunsToEnd ==
  BlockersAcyclic /\ BlockersTracked => <>(completed = DOMAIN plan)

\* Tasks are delegated in dependency order, and a leaf never before its module lead and
\* the leaves it names in "(depends on: ...)" have completed.
InDependencyOrder ==
  \A id \in delegated :
    /\ plan[id].blocked_by \subseteq completed
    /\ Len(id) > 1 => SubSeq(id, 1, Len(id) - 1) \in completed
    /\ Len(id) = 4 => IssueBlockers(1, brief, id) \subseteq completed

=============================================================================
