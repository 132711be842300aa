------------------------------ MODULE DagWalker ------------------------------
(***************************************************************************)
(* DAGWalker.advance_dag (dag_walker.py), called by the background scan    *)
(* and by whoever else holds the walker.  The calls share self.tasks and   *)
(* self.agents and interleave at their awaits, get_agents and assign_task. *)
(*                                                                         *)
(* A call works on the agent objects of the list it found or fetched; a    *)
(* later call replaces self.agents by new objects, on which the marks of   *)
(* the earlier call do not show.  The cycle check that opens a call is     *)
(* module CycleSearch; here the dependencies are acyclic.                  *)
(***************************************************************************)
EXTENDS Naturals, FiniteSets

CONSTANTS
  Task, Agent,
  Dependencies,   \* task -> set of tasks
  Caller,         \* coroutines that call advance_dag, one call at a time each
  NoAgent, Idle,
  MaxFaults       \* how often get_agents or assign_task may raise

\* A call at assign_task: what it has selected, and what is left of its lists; current if its
\* list of agents still is self.agents.
Assigning == [pc : {"assign"}, task : Task, agent : Agent, avail : SUBSET Agent,
              todo : SUBSET Task, current : BOOLEAN]

\* A call that has asked for the agents, one that has the answer on its way, and Assigning.
CallRecord == [pc : {"ask"}] \cup [pc : {"answered"}, occupied : SUBSET Agent] \cup Assigning

ASSUME ConstantsAssumption ==
  /\ Dependencies \in [Task -> SUBSET Task]
  /\ NoAgent \notin Agent /\ Idle \notin CallRecord
  /\ MaxFaults \in Nat

VARIABLES
  done,           \* tasks in a terminal status (the owner of self.tasks keeps it current)
  assigned,       \* task.assigned_agent_id
  busy,           \* agents of self.agents with a current_task_id
  call,           \* the call each caller is in
  held,           \* server: the tasks an agent has been given and has not finished
  given,          \* history: how often the server was told to assign a task
  overlapped,     \* history: a call began while another was under way
  faults

vars == <<done, assigned, busy, call, held, given, overlapped, faults>>

Init ==
  /\ done = {}
  /\ assigned = [t \in Task |-> NoAgent]
  /\ busy = {}
  /\ call = [c \in Caller |-> Idle]
  /\ held = [a \in Agent |-> {}]
  /\ given = [t \in Task |-> 0]
  /\ overlapped = FALSE
  /\ faults = 0

Fault == faults < MaxFaults /\ faults' = faults + 1

\* The server's agents that have a current task.
Occupied == {a \in Agent : held[a] # {}}

\* Mutant of get_ready_tasks: a dependency need only have been assigned.
ReadyAssigned ==
  {t \in Task \ done : assigned[t] = NoAgent /\
                       \A d \in Dependencies[t] : d \in done \/ assigned[d] # NoAgent}

get_ready_tasks ==
  {t \in Task \ done : assigned[t] = NoAgent /\ Dependencies[t] \subseteq done}

-----------------------------------------------------------------------------
\* advance_dag is called; it asks the server for the agents.
advance_dag(c) ==
  /\ call[c] = Idle
  /\ call' = [call EXCEPT ![c] = [pc |-> "ask"]]
  /\ overlapped' = (overlapped \/ \E k \in Caller : call[k] # Idle)
  /\ UNCHANGED <<done, assigned, busy, held, given, faults>>

\* Mutant of Iterate: a selected agent stays available.
IterateShared(c, calls, avail, todo, list, current) ==
  IF avail = {} \/ todo = {}
    THEN call' = [calls EXCEPT ![c] = Idle] /\ busy' = list /\ UNCHANGED assigned
    ELSE \E a \in avail, t \in todo :
           /\ call' = [calls EXCEPT ![c] = [pc |-> "assign", task |-> t, agent |-> a, avail |-> avail,
                                            todo |-> todo \ {t}, current |-> current]]
           /\ busy' = IF current THEN list \cup {a} ELSE list
           /\ assigned' = [assigned EXCEPT ![t] = a]

\* The body of the loop up to its await: an agent of the call's list and a task are marked.
\* The marks show in self.agents (list) if the call's list still is that list.
Iterate(c, calls, avail, todo, list, current) ==
  IF avail = {} \/ todo = {}
    THEN call' = [calls EXCEPT ![c] = Idle] /\ busy' = list /\ UNCHANGED assigned
    ELSE \E a \in avail, t \in todo :
           /\ call' = [calls EXCEPT ![c] = [pc |-> "assign", task |-> t, agent |-> a, avail |-> avail \ {a},
                                            todo |-> todo \ {t}, current |-> current]]
           /\ busy' = IF current THEN list \cup {a} ELSE list
           /\ assigned' = [assigned EXCEPT ![t] = a]

\* The server answers with its agents as they are now.
get_agents(c) ==
  /\ call[c] # Idle /\ call[c].pc = "ask"
  /\ call' = [call EXCEPT ![c] = [pc |-> "answered", occupied |-> Occupied]]
  /\ UNCHANGED <<done, assigned, busy, held, given, faults, overlapped>>

Outdated(k) == IF k # Idle /\ k.pc = "assign" THEN [k EXCEPT !.current = FALSE] ELSE k

\* Mutant of Refresh: the answer is not used.
RefreshNot(c) ==
  /\ call[c] # Idle /\ call[c].pc = "answered"
  /\ Iterate(c, call, Agent \ busy, get_ready_tasks, busy, TRUE)
  /\ UNCHANGED <<done, held, given, faults, overlapped>>

\* The answer arrives: it replaces self.agents, the ready tasks are listed, and the loop begins.
Refresh(c) ==
  /\ call[c] # Idle /\ call[c].pc = "answered"
  /\ Iterate(c, [k \in Caller |-> Outdated(call[k])],
             Agent \ call[c].occupied, get_ready_tasks, call[c].occupied, TRUE)
  /\ UNCHANGED <<done, held, given, faults, overlapped>>

\* get_agents raised: the cached list is used.
FallBack(c) ==
  /\ call[c] # Idle /\ call[c].pc = "ask"
  /\ Fault
  /\ Iterate(c, call, Agent \ busy, get_ready_tasks, busy, TRUE)
  /\ UNCHANGED <<done, held, given, overlapped>>

\* The server carries out assign_task, and the loop goes on.
assign_task(c) ==
  /\ call[c] # Idle /\ call[c].pc = "assign"
  /\ held' = [held EXCEPT ![call[c].agent] = @ \cup ({call[c].task} \ done)]
  /\ given' = [given EXCEPT ![call[c].task] = @ + 1]
  /\ Iterate(c, call, call[c].avail, call[c].todo, busy, call[c].current)
  /\ UNCHANGED <<done, faults, overlapped>>

\* assign_task raises: the call ends, its marks stay.
AssignThrows(c) ==
  /\ call[c] # Idle /\ call[c].pc = "assign"
  /\ Fault
  /\ call' = [call EXCEPT ![c] = Idle]
  /\ UNCHANGED <<done, assigned, busy, held, given, overlapped>>

\* An agent finishes a task.
FinishTask(a) ==
  /\ \E t \in held[a] :
       /\ done' = done \cup {t}
       /\ held' = [held EXCEPT ![a] = @ \ {t}]
  /\ UNCHANGED <<assigned, busy, call, given, faults, overlapped>>

Step(c) == get_agents(c) \/ Refresh(c) \/ FallBack(c) \/ assign_task(c) \/ AssignThrows(c)

Next ==
  \/ \E c \in Caller : advance_dag(c) \/ Step(c)
  \/ \E a \in Agent : FinishTask(a)

Spec == Init /\ [][Next]_vars

\* The scan loop calls again and again, the server answers, agents finish their tasks.
Fairness ==
  /\ \A c \in Caller : WF_vars(advance_dag(c)) /\ WF_vars(Step(c))
  /\ \A a \in Agent : WF_vars(FinishTask(a))

FairSpec == Spec /\ Fairness

-----------------------------------------------------------------------------
\* No agent is given a task before it has finished the one it has (double-assignment).
OneTaskPerAgent == \A a \in Agent : Cardinality(held[a]) <= 1

\* As long as no two calls have overlapped, no agent has two tasks and no task is assigned
\* twice, also when get_agents raised and the cached list was used, or assign_task raised.
NoDoubleAssignment ==
  ~ overlapped => OneTaskPerAgent /\ \A t \in Task : given[t] <= 1

\* A task reaches an agent only after all its dependencies are in a terminal status, also
\* when calls overlap and lists are stale.
DependenciesFirst ==
  \A a \in Agent : \A t \in held[a] : Dependencies[t] \subseteq done

\* A task that get_ready_tasks leaves out although the server was never told of it.
Orphan(t) ==
  /\ assigned[t] # NoAgent /\ given[t] = 0
  /\ \A c \in Caller : call[c] # Idle /\ call[c].pc = "assign" => call[c].task # t

\* The background scan gets the whole DAG done, overlapping calls and stale lists or not;
\* only a task whose assign_task raised can stop it.
ScanFinishes == <>(done = Task \/ \E t \in Task : Orphan(t))

\* The background scan, the safety net of issue #98, gets the whole DAG done.
AllDone == <>(done = Task)

=============================================================================
