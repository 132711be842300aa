----------------------------- MODULE LeadAgents -----------------------------
(***************************************************************************)
(* The agents on the scheduler: the chief, a component lead, its module    *)
(* leads and the task agents (src/src/agents/, src/include/                *)
(* agamemnon_agents/agents/), and the router between them.  Every message  *)
(* is an item of work for its receiver; several threads may be handling    *)
(* messages of one lead, which takes its locks call by call.               *)
(***************************************************************************)
EXTENDS WorkStealing, Sequences, FiniteSets

CONSTANTS
    ModuleLeads,  \* available_module_leads_: a sequence of agents
    TaskAgents,   \* available_task_agents_: a sequence of agents
    Plans         \* what the chief may ask for, and which faults go with it

Chief == "chief"
Component == "component"
Module == {ModuleLeads[i] : i \in DOMAIN ModuleLeads}
Tasker == {TaskAgents[i] : i \in DOMAIN TaskAgents}
Lead == {Component} \cup Module

VARIABLES
    plan,               \* [top, parts, tasks, goals, faults]
    asked,              \* goals the chief has sent
    current_state_, expected_results_, received_results_, failed_results_,
    results_, requester_id_,
    goal,               \* history: lead -> the goal it works on
    at,                 \* worker -> where in processMessage it is
    failed_,            \* task agents marked as failed
    agents_             \* agents registered with the router

coordination == <<current_state_, expected_results_, received_results_,
                  failed_results_, results_, requester_id_, goal>>
agentVars == <<plan, asked, coordination, at, failed_, agents_>>

MaxSub == 2
Goals == 1 .. 2

Kind == {"goal", "response", "refusal", "failed", "module_result", "cancel", "ack"}

(* A message, and which subtask of which goal it is about: the payload is   *)
(* left out, and so is msg_id, which no receiver looks at.                  *)
Msg(kind, from, to, g, sub) ==
    [kind |-> kind, from |-> from, to |-> to, goal |-> g, sub |-> sub]

Message ==
    LET Between(kinds, from, to, subs) ==
            [kind : kinds, from : from, to : to, goal : Goals, sub : subs]
    IN  UNION {Between({"goal"}, {Chief}, Lead, {0}),
               Between({"cancel"}, {Chief}, Lead \cup Tasker, {0}),
               Between({"goal"}, {Component}, Module, 1 .. MaxSub),
               Between({"goal"}, Module, Tasker, 1 .. MaxSub),
               Between({"response", "refusal", "failed"}, Tasker, Module, 1 .. MaxSub),
               Between({"failed", "module_result"}, Lead, {Component, Chief}, {0}),
               Between({"ack", "refusal"}, Lead \cup Tasker, {Chief}, {0})}

(* The agents have names of their own; delegateSubtasks throws where there  *)
(* is no task agent, or fewer module leads than parts of the goal.          *)
ASSUME AgentAssumption ==
    /\ Work = Message
    /\ ModuleLeads \in Seq(Module) /\ TaskAgents \in Seq(Tasker) /\ TaskAgents # << >>
    /\ Module \cap Tasker = {} /\ {"", Chief, Component} \cap (Module \cup Tasker) = {}
    /\ \A p \in Plans : /\ p.top \in Lead /\ p.goals \in {0} \cup Goals
                       /\ p.parts \in 0 .. Len(ModuleLeads) /\ p.parts <= MaxSub
                       /\ p.tasks \in 0 .. MaxSub

Begin == [do |-> "begin", i |-> 0]

AgentInit ==
    /\ SchedulerInit
    /\ plan \in Plans /\ asked = 0
    /\ current_state_ = [l \in Lead |-> "IDLE"]
    /\ expected_results_ = [l \in Lead |-> 0]
    /\ received_results_ = [l \in Lead |-> 0]
    /\ failed_results_ = [l \in Lead |-> 0]
    /\ results_ = [l \in Lead |-> {}]
    /\ requester_id_ = [l \in Lead |-> ""]
    /\ goal = [l \in Lead |-> 0]
    /\ at = [w \in Worker |-> Begin]
    /\ failed_ = {} /\ agents_ = {Chief} \cup Lead \cup Tasker
-----------------------------------------------------------------------------
\* Mutant of routeMessage: everything goes to the first thread.
RoutePinned(m) ==
    IF m.to \in agents_ THEN submitTo(0, m) /\ UNCHANGED next_worker_index_
    ELSE UNCHANGED queueVars

(* An agent that is not registered gets nothing, and its sender is not      *)
(* told; an agent with a scheduler has the message submitted.               *)
routeMessage(m) ==
    IF m.to \in agents_ THEN submit(m) ELSE UNCHANGED queueVars

transitionTo(l, s) == current_state_' = [current_state_ EXCEPT ![l] = s]

\* Mutant of initializeCoordination: the counters are not reset.
InitializeExpected(l, n) ==
    /\ expected_results_' = [expected_results_ EXCEPT ![l] = n]
    /\ results_' = [results_ EXCEPT ![l] = {}]
    /\ UNCHANGED <<received_results_, failed_results_>>

initializeCoordination(l, n) ==
    /\ expected_results_' = [expected_results_ EXCEPT ![l] = n]
    /\ received_results_' = [received_results_ EXCEPT ![l] = 0]
    /\ failed_results_' = [failed_results_ EXCEPT ![l] = 0]
    /\ results_' = [results_ EXCEPT ![l] = {}]

Count(l) ==
    /\ received_results_' = [received_results_ EXCEPT ![l] = @ + 1]
    /\ UNCHANGED <<current_state_, expected_results_, requester_id_, goal>>

(* The last one in, whether result or failure. *)
AllIn(l) == received_results_[l] + 1 >= expected_results_[l]

recordResult(l, m) ==
    /\ Count(l)
    /\ results_' = [results_ EXCEPT ![l] = @ \cup {m}]
    /\ UNCHANGED failed_results_

\* Mutant of recordFailure: a failure does not count as a report.
RecordFailureApart(l) ==
    /\ failed_results_' = [failed_results_ EXCEPT ![l] = @ + 1]
    /\ UNCHANGED <<current_state_, expected_results_, received_results_, results_,
                   requester_id_, goal>>

recordFailure(l) ==
    /\ Count(l)
    /\ failed_results_' = [failed_results_ EXCEPT ![l] = @ + 1]
    /\ UNCHANGED results_

hasFailures(l) == failed_results_[l] > 0
-----------------------------------------------------------------------------
Goto(w, do, i) == at' = [at EXCEPT ![w] = [do |-> do, i |-> i]]

(* A step inside processMessage that sends nothing. *)
Within(w, do, i) == Goto(w, do, i) /\ UNCHANGED schedulerVars

(* The last step of processMessage, which sends m if there is one to send. *)
Return(w) == Done(w) /\ UNCHANGED queueVars /\ at' = [at EXCEPT ![w] = Begin]
ReturnSending(w, m) == Done(w) /\ routeMessage(m) /\ at' = [at EXCEPT ![w] = Begin]

Resting == UNCHANGED <<plan, asked, failed_, agents_>>

(* Thread w is at step `do` of a message of these kinds to one of `agents`. *)
Handling(w, do, kinds, agents) ==
    /\ Running(w) /\ at[w].do = do /\ hand[w].kind \in kinds /\ hand[w].to \in agents
    /\ (do = "begin" => hand[w].to \in agents_)

(* What a goal falls apart into: one goal a module, one command a number. *)
decomposeGoal(l) == IF l = Component THEN plan.parts ELSE plan.tasks

Subordinate(l, i) ==
    IF l = Component THEN ModuleLeads[i]
    ELSE TaskAgents[((i - 1) % Len(TaskAgents)) + 1]

NewGoal(w) ==
    LET m == hand[w] IN
    /\ Handling(w, "begin", {"goal"}, Lead) /\ Resting
    /\ requester_id_' = [requester_id_ EXCEPT ![m.to] = m.from]
    /\ goal' = [goal EXCEPT ![m.to] = m.goal]
    /\ UNCHANGED <<expected_results_, received_results_, failed_results_, results_>>
    /\ transitionTo(m.to, "PLANNING") /\ Within(w, "initialize", 0)

Initialize(w) ==
    LET l == hand[w].to IN
    /\ Handling(w, "initialize", {"goal"}, Lead) /\ Resting
    /\ UNCHANGED <<requester_id_, goal>>
    /\ \/ /\ decomposeGoal(l) = 0 /\ transitionTo(l, "ERROR") /\ Return(w)
          /\ UNCHANGED <<expected_results_, received_results_, failed_results_, results_>>
       \/ /\ decomposeGoal(l) > 0 /\ initializeCoordination(l, decomposeGoal(l))
          /\ UNCHANGED current_state_ /\ Within(w, "wait", 0)

Wait(w) ==
    LET l == hand[w].to IN
    /\ Handling(w, "wait", {"goal"}, Lead) /\ Resting
    /\ transitionTo(l, "WAITING") /\ Within(w, "delegate", 1)
    /\ UNCHANGED <<expected_results_, received_results_, failed_results_, results_,
                   requester_id_, goal>>

delegateSubtasks(w) ==
    LET l == hand[w].to
        i == at[w].i
        m == Msg("goal", l, Subordinate(l, i), hand[w].goal, i)
    IN  /\ Handling(w, "delegate", {"goal"}, Lead) /\ Resting /\ UNCHANGED coordination
        /\ IF i = decomposeGoal(l) THEN ReturnSending(w, m)
           ELSE /\ routeMessage(m) /\ Goto(w, "delegate", i + 1)
                /\ UNCHANGED <<running_, shutdown_requested_, starts, pc, probe, hand, executed>>

processSubordinateResult(w) ==
    LET m == hand[w]
        kinds == IF m.to = Component THEN {"module_result"} ELSE {"response", "refusal"}
    IN  /\ Handling(w, "begin", {"module_result", "response", "refusal"}, Lead)
        /\ m.kind \in kinds /\ Resting
        /\ recordResult(m.to, m)
        /\ IF AllIn(m.to) THEN Within(w, "decide", 0) ELSE Return(w)

(* A component lead goes on with whatever results it has. *)
Decide(w) ==
    LET l == hand[w].to IN
    /\ Handling(w, "decide", Kind, Lead) /\ Resting /\ UNCHANGED coordination
    /\ Within(w, IF l # Component /\ hasFailures(l) THEN "error" ELSE "synthesize", 0)

Settle(w) ==
    LET l == hand[w].to IN
    /\ Handling(w, at[w].do, Kind, Lead) /\ at[w].do \in {"error", "synthesize"}
    /\ transitionTo(l, IF at[w].do = "error" THEN "ERROR" ELSE "SYNTHESIZING")
    /\ Resting /\ Return(w)
    /\ UNCHANGED <<expected_results_, received_results_, failed_results_, results_,
                   requester_id_, goal>>

processSubordinateFailure(w) ==
    LET l == hand[w].to IN
    /\ Handling(w, "begin", {"failed"}, Lead) /\ Resting
    /\ recordFailure(l)
    /\ IF AllIn(l) THEN Within(w, "fail", 0) ELSE Return(w)

Fail(w) ==
    LET l == hand[w].to IN
    /\ Handling(w, "fail", {"failed"}, Lead) /\ Resting
    /\ transitionTo(l, "ERROR") /\ Within(w, "tell", 0)
    /\ UNCHANGED <<expected_results_, received_results_, failed_results_, results_,
                   requester_id_, goal>>

Tell(w) ==
    LET l == hand[w].to IN
    /\ Handling(w, "tell", {"failed"}, Lead) /\ Resting /\ UNCHANGED coordination
    /\ ReturnSending(w, Msg("failed", l, requester_id_[l], hand[w].goal, 0))

(* A lead acknowledges a cancellation; it consults it nowhere. *)
handleCancellation(w) ==
    LET m == hand[w] IN
    /\ Handling(w, "begin", {"cancel"}, Lead) /\ Resting /\ UNCHANGED coordination
    /\ ReturnSending(w, Msg("ack", m.to, m.from, m.goal, m.sub))

(* What becomes of a command: it may match none of the allowed patterns.    *)
validateCommand == IF "fail" \in plan.faults THEN {"allowed", "rejected"} ELSE {"allowed"}

(* It runs in a shell, whose exit status may be other than zero; a rejected *)
(* one does not run.                                                        *)
executeBash ==
    UNION {IF v = "rejected" THEN {"failed"}
           ELSE IF "fail" \in plan.faults THEN {"response", "failed"} ELSE {"response"} :
               v \in validateCommand}

(* A task agent runs the command, which may fail; one that was marked as    *)
(* failed refuses it in a message that looks like a result.                 *)
TaskProcess(w) ==
    LET m == hand[w]
        Reply(kind) == ReturnSending(w, Msg(kind, m.to, m.from, m.goal, m.sub))
    IN  /\ Handling(w, "begin", {"goal", "cancel"}, Tasker) /\ Resting
        /\ UNCHANGED coordination
        /\ \/ m.to \in failed_ /\ Reply("refusal")
           \/ m.to \notin failed_ /\ m.kind = "cancel" /\ Reply("ack")
           \/ /\ m.to \notin failed_ /\ m.kind = "goal"
              /\ \E outcome \in executeBash : Reply(outcome)

(* The chief only turns the message into a response; an agent that is gone  *)
(* when its message's turn comes is not called.                             *)
NothingToDo(w) ==
    /\ Running(w) /\ at[w] = Begin /\ hand[w].to \in {Chief} \cup (Tasker \ agents_)
    /\ Resting /\ UNCHANGED coordination /\ Return(w)

processMessage(w) ==
    \/ NewGoal(w) \/ Initialize(w) \/ Wait(w) \/ delegateSubtasks(w)
    \/ processSubordinateResult(w) \/ Decide(w) \/ Settle(w)
    \/ processSubordinateFailure(w) \/ Fail(w) \/ Tell(w)
    \/ handleCancellation(w) \/ TaskProcess(w) \/ NothingToDo(w)
-----------------------------------------------------------------------------
Outside == UNCHANGED <<running_, shutdown_requested_, starts, pc, probe, hand, executed, at>>

(* The chief asks for the next thing when the last one has ended. *)
SendGoal ==
    /\ asked < plan.goals /\ goal[plan.top] = asked
    /\ current_state_[plan.top] \in {"IDLE", "ERROR"}
    /\ asked' = asked + 1 /\ routeMessage(Msg("goal", Chief, plan.top, asked + 1, 0))
    /\ Outside /\ UNCHANGED <<plan, coordination, failed_, agents_>>

SendCancel(a) ==
    /\ "cancel" \in plan.faults /\ a \in {plan.top} \cup Tasker
    /\ \A m \in sent : m.kind # "cancel"
    /\ routeMessage(Msg("cancel", Chief, a, 1, 0))
    /\ Outside /\ UNCHANGED agentVars

(* Whoever drives the agents takes a lead's results when it has them all    *)
(* and passes a module's on to whoever asked for it.                        *)
synthesizeResults(l) ==
    /\ current_state_[l] = "SYNTHESIZING" /\ transitionTo(l, "IDLE")
    /\ routeMessage(Msg("module_result", l, requester_id_[l], goal[l], 0))
    /\ Outside
    /\ UNCHANGED <<plan, asked, failed_, agents_, expected_results_, received_results_,
                   failed_results_, results_, requester_id_, goal>>

synthesizeComponentResult ==
    /\ current_state_[Component] = "SYNTHESIZING" /\ transitionTo(Component, "IDLE")
    /\ Outside
    /\ UNCHANGED <<queueVars, plan, asked, failed_, agents_, expected_results_,
                   received_results_, failed_results_, results_, requester_id_, goal>>

markAsFailed(t) ==
    /\ "mark" \in plan.faults /\ t \notin failed_ /\ failed_' = failed_ \cup {t}
    /\ UNCHANGED <<schedulerVars, plan, asked, coordination, at, agents_>>

recover(t) ==
    /\ t \in failed_ /\ failed_' = failed_ \ {t}
    /\ UNCHANGED <<schedulerVars, plan, asked, coordination, at, agents_>>

(* The agent is taken off the router and destroyed. *)
unregisterAgent(t) ==
    /\ "leave" \in plan.faults /\ t \in agents_ /\ agents_' = agents_ \ {t}
    /\ \A w \in Worker : Running(w) => hand[w].to # t
    /\ UNCHANGED <<schedulerVars, plan, asked, coordination, at, failed_>>

Driver ==
    \/ SendGoal \/ synthesizeComponentResult
    \/ \E l \in Module : synthesizeResults(l)

Pool ==
    \/ start \/ ("shutdown" \in plan.faults /\ shutdown) \/ Joined

WorkerStep(w) == (Seek(w) /\ UNCHANGED agentVars) \/ processMessage(w)

AgentNext ==
    \/ Pool /\ UNCHANGED agentVars
    \/ \E w \in Worker : WorkerStep(w)
    \/ Driver
    \/ \E a \in Lead \cup Tasker : SendCancel(a)
    \/ \E t \in Tasker : markAsFailed(t) \/ recover(t) \/ unregisterAgent(t)

AgentSpec == AgentInit /\ [][AgentNext]_<<schedulerVars, agentVars>>
-----------------------------------------------------------------------------
(* lead_agent_base_impl.hpp:57-91, module_lead_agent.cpp:87-104,            *)
(* component_lead_agent.cpp:91-104: a module lead that synthesizes has one  *)
(* result for every subtask of the goal it was last given, none of another  *)
(* goal and none missing, and no subtask failed, however its messages were  *)
(* spread over the threads; a component lead goes on only when each module  *)
(* it asked has answered about this goal.                                   *)
ResultsComplete ==
    /\ \A l \in Module : current_state_[l] = "SYNTHESIZING" =>
        /\ failed_results_[l] = 0
        /\ {<<m.goal, m.sub>> : m \in results_[l]} = {goal[l]} \X (1 .. plan.tasks)
    /\ current_state_[Component] = "SYNTHESIZING" =>
        /\ \A m \in results_[Component] : m.goal = goal[Component]
        /\ Cardinality(results_[Component]) + failed_results_[Component] = plan.parts

(* coordination_state.hpp:113-135, lead_agent_base.hpp:132-139, "preventing *)
(* permanent DAG deadlock": a module lead that took up a goal gets to an    *)
(* end of it, unless the pool is shut down or an agent is taken away.       *)
ModuleSettles ==
    [](~shutdown_requested_ /\ Tasker \subseteq agents_) =>
        \A l \in Module : (current_state_[l] = "WAITING") ~> (current_state_[l] # "WAITING")

(* lead_agent_base.hpp:150-154: "When all subordinates have reported        *)
(* terminal events and at least one has failed, send a TASK_FAILED message  *)
(* to our own requester so the ComponentLeadAgent (or ChiefArchitect) above *)
(* us does not remain permanently stuck".                                   *)
FailurePropagates ==
    \A l \in Module :
        (current_state_[l] = "ERROR" /\ failed_results_[l] > 0) =>
            \/ \E w \in Worker : Running(w) /\ hand[w].to = l
            \/ \E m \in sent : m.kind = "failed" /\ m.from = l /\ m.goal = goal[l]
=============================================================================
