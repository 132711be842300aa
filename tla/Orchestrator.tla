---------------------------- MODULE Orchestrator ----------------------------
(***************************************************************************)
(* The HMAS orchestrator (src/orchestrator.cpp) over the task collection   *)
(* of the store.  Handlers run at the same time on the HTTP thread pool    *)
(* (src/routes.cpp) and on the delivery threads of the NATS subscriptions  *)
(* (src/server_main.cpp).  Each handler reads a COPY of a task under the   *)
(* store's lock, changes the copy, and writes the whole record back under  *)
(* the lock later: store calls are the atomic steps of the model, and      *)
(* anything may happen between two of them.                                *)
(*                                                                         *)
(* Lists that the code only searches or walks are sets (child_task_ids,    *)
(* blocked_by); the walk visits them in any order.  Timestamps, titles and *)
(* payloads other than the task id are abstracted.                         *)
(***************************************************************************)
EXTENDS TaskStateMachine, Sequences, FiniteSets

CONSTANTS
  Id,             \* task ids
  NoTask,         \* what get_hmas_task returns for an id that is not stored
  Brief,          \* the briefs that clients may submit
  Plan,           \* Plan[b]: the task list PlanningBreakdown::decompose returns for b
  Uuid,           \* Uuid[k]: the k-th id generated for an epic root or a split child
  Thread,         \* handler threads
  Serves,         \* Serves[th]: the handlers that run on thread th
  ExtraBlockers,  \* the lists of blockers a split request may give for a subtask
  MaxSplit,       \* subtasks in one split request
  MaxCalls,       \* escalate, split and complete requests made by HTTP clients
  MaxFaults,      \* store writes that throw because GitHub is unreachable
  Copies,         \* consumers of the two subjects that each dispatch is published to
  Announce,       \* `started' events: may they (not) name their agent? {}: workers publish none
  Outcomes        \* how a worker may end a task: "complete", "fail"

Handler == {"submit", "epic", "escalate", "split", "httpComplete",
            "started", "complete", "fail"}

ReportKind == {"started", "complete", "fail"}

Task == HmasTask(Id)

PlanIds(b) == {Plan[b][i].id : i \in DOMAIN Plan[b]}

ASSUME ConstantsAssumption ==
  /\ NoTask \notin Task
  /\ Plan \in [Brief -> Seq(Task)]
  /\ \A b \in Brief :
       /\ Plan[b] # << >>
       /\ Plan[b][1].blocked_by = {}
       /\ \A i \in DOMAIN Plan[b] : Plan[b][i].state = "Pending"
  /\ \A b \in Brief : \A i, j \in DOMAIN Plan[b] :
       Plan[b][i].id = Plan[b][j].id => i = j
  /\ \A b, c \in Brief : b # c => PlanIds(b) \cap PlanIds(c) = {}
  /\ Uuid \in Seq(Id)
  /\ \A i, j \in DOMAIN Uuid : Uuid[i] = Uuid[j] => i = j
  /\ \A b \in Brief : \A i \in DOMAIN Uuid : Uuid[i] \notin PlanIds(b)
  /\ Serves \in [Thread -> SUBSET Handler]
  /\ ExtraBlockers \subseteq SUBSET Id
  /\ MaxSplit \in Nat /\ MaxCalls \in Nat /\ MaxFaults \in Nat
  /\ Copies \in 1 .. 2
  /\ Announce \subseteq BOOLEAN
  /\ Outcomes \subseteq {"complete", "fail"}

VARIABLES
  tasks,       \* the store's HMAS collection: Id -> task, or NoTask
  submitted,   \* briefs whose submission has begun
  planned,     \* briefs whose submission has ended: their plan is known to the client
  minted,      \* how many uuids have been generated
  pc,          \* per thread: where its handler is
  op,          \* per thread: the handler it runs
  copy,        \* per thread: its local copy of the task it will write back
  creates,     \* per thread: tasks it still has to create
  todo,        \* per thread: children delegate_unblocked_children has not visited
  child,       \* per thread: the id of the child it is visiting
  unseen,      \* per thread: blockers of that child it has not checked
  queue,       \* dispatch messages no worker has taken, counted per task
  running,     \* tasks that workers are executing, counted per task
  reports,     \* events workers published, not yet delivered: counted per kind and task
  calls,       \* HTTP requests made so far
  faults,      \* store writes that have thrown so far
  dispatched,  \* history: ids that were ever dispatched
  done         \* history: ids whose stored state was ever Completed

locals == <<pc, op, copy, creates, todo, child, unseen>>
workers == <<queue, running, reports>>
vars == <<tasks, submitted, planned, minted, locals, workers, calls, faults, dispatched, done>>

Init ==
  /\ tasks = [id \in Id |-> NoTask]
  /\ submitted = {}
  /\ planned = {}
  /\ minted = 0
  /\ pc = [th \in Thread |-> "idle"]
  /\ op = [th \in Thread |-> "none"]
  /\ copy = [th \in Thread |-> NoTask]
  /\ creates = [th \in Thread |-> << >>]
  /\ todo = [th \in Thread |-> {}]
  /\ child = [th \in Thread |-> NoTask]
  /\ unseen = [th \in Thread |-> {}]
  /\ queue = [id \in Id |-> 0]
  /\ running = [id \in Id |-> 0]
  /\ reports = [k \in ReportKind |-> [id \in Id |-> 0]]
  /\ calls = 0
  /\ faults = 0
  /\ dispatched = {}
  /\ done = {}

Stored(id) == tasks[id] # NoTask

(***************************************************************************)
(* Starting a handler on a thread that serves it and runs no other.  Begin *)
(* leaves it at location at, with the local copy c and the tasks in list   *)
(* to create.                                                              *)
(***************************************************************************)
Free(th, h) == pc[th] = "idle" /\ h \in Serves[th]

Begin(th, h, at, c, list) ==
  /\ pc' = [pc EXCEPT ![th] = at]
  /\ op' = [op EXCEPT ![th] = h]
  /\ copy' = [copy EXCEPT ![th] = c]
  /\ creates' = [creates EXCEPT ![th] = list]
  /\ UNCHANGED <<tasks, planned, todo, child, unseen, faults, dispatched, done>>

\* submit: decompose is pure, so the handler goes straight to creating the tasks;
\* it keeps the first of the list, the L0 root.
Submit(th, b) ==
  /\ Free(th, "submit")
  /\ b \notin submitted
  /\ submitted' = submitted \cup {b}
  /\ Begin(th, "submit", "create", Plan[b][1], Plan[b])
  /\ UNCHANGED <<minted, workers, calls>>

\* on_epic_registered: a placeholder root, which then parks in Decomposing.
on_epic_registered(th) ==
  /\ Free(th, "epic")
  /\ minted < Len(Uuid)
  /\ minted' = minted + 1
  /\ LET root == NewTask(Uuid[minted + 1], 0, {}, {})
     IN  Begin(th, "epic", "create", try_transition(root, "Submit"), <<root>>)
  /\ UNCHANGED <<submitted, workers, calls>>

\* Clients know a task from the plan that submit returns, workers from its dispatch.
Known(id) == id \in dispatched \/ \E b \in planned : id \in PlanIds(b)

\* An HTTP request about a task; one about an unknown or unsuitable task changes nothing.
Request(th, h, id) ==
  /\ Free(th, h)
  /\ calls < MaxCalls
  /\ Stored(id) /\ Known(id)
  /\ calls' = calls + 1
  /\ UNCHANGED <<submitted, workers>>

escalate(th, id) ==
  /\ Request(th, "escalate", id)
  /\ Accepts(tasks[id], "Escalate")
  /\ Begin(th, "escalate", "write",
           [try_transition(tasks[id], "Escalate") EXCEPT !.escalations = @ + 1], << >>)
  /\ UNCHANGED minted

CompleteRequest(th, id) ==
  /\ Request(th, "httpComplete", id)
  /\ Begin(th, "httpComplete", "write", Walk(Finished, tasks[id]), << >>)
  /\ UNCHANGED minted

(***************************************************************************)
(* split_task: n well-formed subtasks, chained, each blocked by the        *)
(* original and by the caller's blockers.  When the request has a further  *)
(* subtask without a title the handler returns an error after creating the *)
(* n before it, and does not write the original (no copy).                 *)
(***************************************************************************)
SplitChildren(t, n, extra) ==
  [k \in 1 .. n |->
     NewTask(Uuid[minted + k], t.layer, {},
             {t.id} \cup extra \cup (IF k = 1 THEN {} ELSE {Uuid[minted + k - 1]}))]

\* Mutant of WithChildren: the original forgets the children it had.
OnlyChildren(t, new) == [t EXCEPT !.children = {new[k].id : k \in DOMAIN new}]

\* The original lists the new tasks as children, for delegate_unblocked_children.
WithChildren(t, new) == [t EXCEPT !.children = @ \cup {new[k].id : k \in DOMAIN new}]

split_task(th, id) ==
  /\ Request(th, "split", id)
  /\ \E n \in 1 .. MaxSplit, extra \in ExtraBlockers, malformed \in BOOLEAN :
    /\ minted + n <= Len(Uuid)
    /\ minted' = minted + n
    /\ LET new == SplitChildren(tasks[id], n, extra)
       IN  Begin(th, "split", "create",
                 IF malformed THEN NoTask ELSE WithChildren(tasks[id], new), new)

\* An event a worker published is delivered to a thread of its subscription.
Deliver(th, h, id) ==
  /\ Free(th, h)
  /\ reports[h][id] > 0
  /\ reports' = [reports EXCEPT ![h][id] = @ - 1]
  /\ UNCHANGED <<submitted, minted, queue, running, calls>>

on_myrmidon_started(th, id) ==
  /\ Deliver(th, "started", id)
  /\ \E named \in Announce :   \* does the event name its agent?
       Begin(th, "started", "write",
             [Walk(Started, tasks[id]) EXCEPT !.claimed = @ \/ named], << >>)

on_myrmidon_completion(th, id) ==
  /\ Deliver(th, "complete", id)
  /\ Begin(th, "complete", "write", Walk(Finished, tasks[id]), << >>)

on_myrmidon_failed(th, id) ==
  /\ Deliver(th, "fail", id)
  /\ Begin(th, "fail", "write", Walk(Broken, tasks[id]), << >>)

(***************************************************************************)
(* The steps of a running handler.                                         *)
(***************************************************************************)
Goto(th, at) ==
  /\ pc' = [pc EXCEPT ![th] = at]
  /\ creates' = [creates EXCEPT ![th] = << >>]
  /\ UNCHANGED <<op, copy, todo, child, unseen>>

Return(th) ==
  /\ pc' = [pc EXCEPT ![th] = "idle"]
  /\ op' = [op EXCEPT ![th] = "none"]
  /\ copy' = [copy EXCEPT ![th] = NoTask]
  /\ creates' = [creates EXCEPT ![th] = << >>]
  /\ todo' = [todo EXCEPT ![th] = {}]
  /\ child' = [child EXCEPT ![th] = NoTask]
  /\ unseen' = [unseen EXCEPT ![th] = {}]

\* The walk over child_task_ids goes on with the children in rest, or the handler ends.
NextChild(th, rest) ==
  IF rest = {} THEN Return(th)
  ELSE /\ pc' = [pc EXCEPT ![th] = "visit"]
       /\ op' = [op EXCEPT ![th] = "delegate"]
       /\ copy' = [copy EXCEPT ![th] = NoTask]
       /\ todo' = [todo EXCEPT ![th] = rest]
       /\ child' = [child EXCEPT ![th] = NoTask]
       /\ unseen' = [unseen EXCEPT ![th] = {}]
       /\ UNCHANGED creates

\* What no step of a running handler touches, and what only some of them do.
Outside == <<submitted, minted, running, reports, calls>>
Effects == <<tasks, planned, queue, faults, dispatched, done>>

\* Where a handler goes when its last task is created: submit reads the root again,
\* on_epic_registered and split_task write the copy they hold, and a split that met a
\* malformed subtask returns its error.
AllCreated(th) ==
  IF copy[th] = NoTask THEN Return(th)
  ELSE Goto(th, IF op[th] = "submit" THEN "root" ELSE "write")

\* create_hmas_task: the issue is created first, then the record is inserted.
create_hmas_task(th) ==
  /\ pc[th] = "create"
  /\ LET t == Head(creates[th]) IN tasks' = [tasks EXCEPT ![t.id] = t]
  /\ IF Len(creates[th]) = 1
       THEN AllCreated(th)
       ELSE /\ creates' = [creates EXCEPT ![th] = Tail(@)]
            /\ UNCHANGED <<pc, op, copy, todo, child, unseen>>
  /\ UNCHANGED <<planned, queue, faults, dispatched, done, Outside>>

\* GitHub is unreachable: create_issue throws, nothing is inserted, the handler ends.
CreateThrows(th) ==
  /\ pc[th] = "create"
  /\ faults < MaxFaults
  /\ faults' = faults + 1
  /\ Return(th)
  /\ UNCHANGED <<tasks, planned, queue, dispatched, done, Outside>>

\* submit reads the root again and drives it to Delegated.
SubmitRoot(th) ==
  /\ pc[th] = "root"
  /\ copy' = [copy EXCEPT ![th] =
                 try_transition(try_transition(tasks[@.id], "Submit"), "Delegate")]
  /\ pc' = [pc EXCEPT ![th] = "write"]
  /\ UNCHANGED <<op, creates, todo, child, unseen, Effects, Outside>>

\* update_hmas_task replaces the whole record of a stored task, whatever it is by now.
update_hmas_task(th) ==
  /\ pc[th] = "write"
  /\ IF Stored(copy[th].id)
       THEN /\ tasks' = [tasks EXCEPT ![copy[th].id] = copy[th]]
            /\ done' = IF copy[th].state = "Completed" THEN done \cup {copy[th].id} ELSE done
       ELSE UNCHANGED <<tasks, done>>
  /\ UNCHANGED <<planned, queue, dispatched, Outside>>

Update(th) ==
  /\ update_hmas_task(th)
  /\ \/ /\ op[th] \in {"submit", "epic", "escalate", "delegate"}
        /\ Goto(th, "dispatch")
     \/ /\ op[th] \in {"complete", "httpComplete"}
        /\ Goto(th, "children")
     \/ /\ op[th] \in {"started", "fail", "split"}
        /\ Return(th)
  /\ UNCHANGED faults

\* The record is replaced in memory, then update_issue_body throws: the handler ends.
UpdateThrows(th) ==
  /\ update_hmas_task(th)
  /\ faults < MaxFaults
  /\ faults' = faults + 1
  /\ Return(th)

\* dispatch_task: the task is published on its legacy and on its role-addressed subject.
dispatch_task(th) ==
  /\ pc[th] = "dispatch"
  /\ queue' = [queue EXCEPT ![copy[th].id] = @ + Copies]
  /\ dispatched' = dispatched \cup {copy[th].id}
  /\ planned' = IF op[th] = "submit"
                  THEN planned \cup {b \in Brief : copy[th].id \in PlanIds(b)} ELSE planned
  /\ IF op[th] = "delegate" THEN NextChild(th, todo[th]) ELSE Return(th)
  /\ UNCHANGED <<tasks, faults, done, Outside>>

(***************************************************************************)
(* delegate_unblocked_children, run by the completion handlers.            *)
(***************************************************************************)
delegate_unblocked_children(th) ==
  /\ pc[th] = "children"
  /\ NextChild(th, tasks[copy[th].id].children)
  /\ UNCHANGED <<Effects, Outside>>

VisitChild(th, c) ==
  /\ pc[th] = "visit"
  /\ IF Stored(c) /\ tasks[c].state = "Pending"
       THEN /\ pc' = [pc EXCEPT ![th] = "blockers"]
            /\ todo' = [todo EXCEPT ![th] = @ \ {c}]
            /\ child' = [child EXCEPT ![th] = c]
            /\ unseen' = [unseen EXCEPT ![th] = tasks[c].blocked_by]
            /\ UNCHANGED <<op, copy, creates>>
       ELSE NextChild(th, todo[th] \ {c})
  /\ UNCHANGED <<Effects, Outside>>

\* Mutant of Clear: a blocker that is under way does not block.
UnderWay(b) == Stored(b) /\ tasks[b].state # "Pending"

\* A blocker that is not stored still blocks.
Clear(b) == Stored(b) /\ tasks[b].state = "Completed"

CheckBlocker(th, b) ==
  /\ pc[th] = "blockers"
  /\ IF Clear(b)
       THEN /\ unseen' = [unseen EXCEPT ![th] = @ \ {b}]
            /\ UNCHANGED <<pc, op, copy, creates, todo, child>>
       ELSE NextChild(th, todo[th])
  /\ UNCHANGED <<Effects, Outside>>

\* delegate reads the child again; nothing happens if it has left Pending meanwhile.
delegate(th) ==
  /\ pc[th] = "blockers"
  /\ unseen[th] = {}
  /\ LET t == tasks[child[th]]
     IN  IF Assigned[t.layer][t.state] = t.state
           THEN NextChild(th, todo[th])
           ELSE /\ copy' = [copy EXCEPT ![th] = Walk(Assigned, t)]
                /\ pc' = [pc EXCEPT ![th] = "write"]
                /\ UNCHANGED <<op, creates, todo, child, unseen>>
  /\ UNCHANGED <<Effects, Outside>>

(***************************************************************************)
(* The myrmidons (external): a worker takes a dispatched task, may         *)
(* announce that it started, and reports how it ended.                     *)
(***************************************************************************)
Claim(id) ==
  /\ queue[id] > 0
  /\ queue' = [queue EXCEPT ![id] = @ - 1]
  /\ running' = [running EXCEPT ![id] = @ + 1]
  /\ reports' = IF Announce # {}
                  THEN [reports EXCEPT !["started"][id] = @ + 1] ELSE reports
  /\ UNCHANGED <<tasks, submitted, planned, minted, locals, calls, faults, dispatched, done>>

Finish(id, outcome) ==
  /\ running[id] > 0
  /\ outcome \in Outcomes
  /\ running' = [running EXCEPT ![id] = @ - 1]
  /\ reports' = [reports EXCEPT ![outcome][id] = @ + 1]
  /\ UNCHANGED <<tasks, submitted, planned, minted, locals, queue, calls, faults, dispatched, done>>

(***************************************************************************)
(* The specification.                                                      *)
(***************************************************************************)
Receive(th, id) ==
  \/ on_myrmidon_started(th, id)
  \/ on_myrmidon_completion(th, id)
  \/ on_myrmidon_failed(th, id)

Continue(th) ==
  \/ create_hmas_task(th)
  \/ SubmitRoot(th)
  \/ Update(th)
  \/ dispatch_task(th)
  \/ delegate_unblocked_children(th)
  \/ \E c \in todo[th] : VisitChild(th, c)
  \/ \E b \in unseen[th] : CheckBlocker(th, b)
  \/ delegate(th)

Next ==
  \/ \E th \in Thread :
       \/ \E b \in Brief : Submit(th, b)
       \/ on_epic_registered(th)
       \/ \E id \in Id :
            \/ escalate(th, id)
            \/ split_task(th, id)
            \/ CompleteRequest(th, id)
            \/ Receive(th, id)
       \/ Continue(th)
       \/ CreateThrows(th)
       \/ UpdateThrows(th)
  \/ \E id \in Id : Claim(id) \/ \E outcome \in Outcomes : Finish(id, outcome)

Spec == Init /\ [][Next]_vars

\* A handler that runs goes on; published events are delivered; workers finish their work.
Fairness ==
  /\ \A th \in Thread : WF_vars(Continue(th))
  /\ \A id \in Id : /\ WF_vars(\E th \in Thread : Receive(th, id))
                    /\ WF_vars(Claim(id))
                    /\ WF_vars(\E outcome \in Outcomes : Finish(id, outcome))

FairSpec == Spec /\ Fairness

-----------------------------------------------------------------------------
(***************************************************************************)
(* Properties.                                                             *)
(***************************************************************************)

Location == {"idle", "create", "root", "write", "dispatch", "children", "visit", "blockers"}

\* Every variable keeps its type: what is stored, copied and created are whole HMAS
\* task records, under their own id.
TypeOK ==
  /\ tasks \in [Id -> Task \cup {NoTask}]
  /\ \A id \in Id : Stored(id) => tasks[id].id = id
  /\ submitted \subseteq Brief
  /\ planned \subseteq Brief
  /\ minted \in 0 .. Len(Uuid)
  /\ pc \in [Thread -> Location]
  /\ op \in [Thread -> Handler \cup {"none", "delegate"}]
  /\ copy \in [Thread -> Task \cup {NoTask}]
  /\ creates \in [Thread -> Seq(Task)]
  /\ todo \in [Thread -> SUBSET Id]
  /\ child \in [Thread -> Id \cup {NoTask}]
  /\ unseen \in [Thread -> SUBSET Id]
  /\ queue \in [Id -> Nat]
  /\ running \in [Id -> Nat]
  /\ reports \in [ReportKind -> [Id -> Nat]]
  /\ calls \in 0 .. MaxCalls
  /\ faults \in 0 .. MaxFaults
  /\ dispatched \subseteq Id
  /\ done \subseteq Id

\* delegate_unblocked_children waits for all blockers: a task is dispatched to the workers
\* only after every task it is blocked by has been stored as Completed, whichever handlers
\* overlap and however stale the copies they write back are.
WaitAll ==
  \A id \in dispatched : Stored(id) /\ tasks[id].blocked_by \subseteq done

\* The dispatch of id is certain: it happened, or a thread has stored the task and is about
\* to publish it.
Covered(id) ==
  \/ id \in dispatched
  \/ \E th \in Thread : pc[th] = "dispatch" /\ copy[th].id = id

\* No task is active without a worker having been told: as long as no store write has
\* thrown, a task that left Pending (other than by being completed from outside) was
\* dispatched by submit, on_epic_registered or delegate, or is about to be.
ActiveIsDispatched ==
  faults = 0 =>
    \A id \in Id :
      Stored(id) /\ tasks[id].state \notin {"Pending", "Completed"} => Covered(id)

\* delegate and submit make a task Delegated and publish it: a stored Delegated task was
\* dispatched or is about to be, store faults or not.
DelegatedIsPublished ==
  \A id \in Id : Stored(id) /\ tasks[id].state = "Delegated" => Covered(id)

\* Nothing is going on: no handler runs, no worker works, no message is under way.
Quiet ==
  /\ \A th \in Thread : pc[th] = "idle"
  /\ \A id \in Id : queue[id] = 0 /\ running[id] = 0
  /\ \A k \in ReportKind, id \in Id : reports[k][id] = 0

\* When nothing is going on, no Pending task has all its blockers Completed: completing the
\* last blocker of a task delegates it (delegate_unblocked_children).
NoneLeftBehind ==
  Quiet => \A id \in Id :
    Stored(id) /\ tasks[id].state = "Pending" =>
      \E b \in tasks[id].blocked_by : ~ Stored(b) \/ tasks[b].state # "Completed"

\* The subtasks of a split are chained: when the original and every earlier subtask that
\* one waits for are Completed, and nothing is going on, it is not left Pending (split_task).
RemainderRuns ==
  Quiet => \A p \in Id : Stored(p) =>
    \A c, d \in tasks[p].children :
      /\ Stored(c) /\ Stored(d) /\ c \in tasks[d].blocked_by
      /\ \A b \in tasks[d].blocked_by : Stored(b) /\ tasks[b].state = "Completed"
      => tasks[d].state # "Pending"

\* Completed and Failed are terminal: no stored task ever leaves them.
TerminalIsFinal ==
  [][\A id \in Id : Stored(id) /\ tasks[id].state \in Terminal =>
       tasks[id]'.state = tasks[id].state]_tasks

\* A handler never erases what another one recorded on a task: its escalation records, the
\* remainder subtasks of a split, its assignment (escalate, split_task,
\* on_myrmidon_started).
NothingErased ==
  [][\A id \in Id : Stored(id) =>
       /\ tasks[id].escalations <= tasks[id]'.escalations
       /\ tasks[id].children \subseteq tasks[id]'.children
       /\ tasks[id].claimed => tasks[id]'.claimed]_tasks

\* A submitted brief runs to its end: every task of its plan becomes and stays Completed.
BriefCompletes ==
  \A b \in Brief :
    b \in submitted ~> [](\A id \in PlanIds(b) : Stored(id) /\ tasks[id].state = "Completed")

=============================================================================
