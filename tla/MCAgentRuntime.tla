--------------------------- MODULE MCAgentRuntime ---------------------------
(***************************************************************************)
(* The agent runtime for TLC: leads and task agents on a pool of two       *)
(* threads, two awaiters of PullOrSteal, the inbox of an agent without a   *)
(* scheduler, and chains of coroutines.  The four share no state: `part`   *)
(* says which one runs.                                                    *)
(***************************************************************************)
EXTENDS LeadAgents, PullOrSteal, AgentInbox, CoroutineTask

VARIABLE part

MCModuleLeads == <<"m1", "m2">>
MCTaskAgents == <<"t1", "t2">>

Plan(top, parts, tasks, goals, faults) ==
    [top |-> top, parts |-> parts, tasks |-> tasks, goals |-> goals, faults |-> faults]

(* Two goals whose commands may fail; a pool that is shut down; a goal that *)
(* is cancelled; task agents that are marked as failed, recover or leave; a *)
(* goal without numbers; a component with two modules, whose commands may   *)
(* fail or not.                                                             *)
MCPlans ==
    {Plan("m1", 0, 2, 2, {"fail"}),
     Plan("m1", 0, 2, 1, {"shutdown"}),
     Plan("m1", 0, 2, 1, {"cancel"}),
     Plan("m1", 0, 2, 1, {"mark", "leave"}),
     Plan("m1", 0, 0, 1, {}),
     Plan("component", 2, 1, 1, {"fail"}),
     Plan("component", 2, 2, 1, {})}

MCLetter == {"h1", "h2", "n", "l"}
MCPriority ==
    [m \in MCLetter |-> IF m = "n" THEN "NORMAL" ELSE IF m = "l" THEN "LOW" ELSE "HIGH"]

leadVars == <<schedulerVars, agentVars>>

RuntimeInit ==
    /\ AgentInit /\ PullInit /\ InboxInit /\ TaskInit
    /\ part \in {"agents", "pullers", "inbox", "tasks"}
    /\ part # "agents" => plan = CHOOSE p \in Plans : TRUE
    /\ part # "tasks" => chain = 1 /\ driver = "plain"

RuntimeNext ==
    /\ UNCHANGED part
    /\ \/ part = "agents" /\ AgentNext /\ UNCHANGED <<pullVars, inboxVars, taskVars>>
       \/ part = "pullers" /\ PullNext /\ UNCHANGED <<leadVars, inboxVars, taskVars>>
       \/ part = "inbox" /\ InboxNext /\ UNCHANGED <<leadVars, pullVars, taskVars>>
       \/ part = "tasks" /\ TaskNext /\ UNCHANGED <<leadVars, pullVars, inboxVars>>

RuntimeFairness ==
    /\ \A w \in Worker : WF_leadVars(part = "agents" /\ WorkerStep(w))
    /\ WF_leadVars(part = "agents" /\ (start \/ Joined) /\ UNCHANGED agentVars)
    /\ WF_leadVars(part = "agents" /\ Driver)
    /\ \A p \in Puller : WF_pullVars(part = "pullers" /\ Pull(p))
    /\ \A r \in Reader : WF_inboxVars(part = "inbox" /\ Read(r))
    /\ \A t \in {OutsideThread} \cup PoolThread : WF_taskVars(part = "tasks" /\ TaskStep(t))

RuntimeSpec ==
    /\ RuntimeInit
    /\ [][RuntimeNext]_<<leadVars, pullVars, inboxVars, taskVars, part>>
    /\ RuntimeFairness

(* task.hpp:65-87, 147-214: TaskCompletes where the coroutines run. *)
TasksComplete == part = "tasks" => TaskCompletes
=============================================================================
