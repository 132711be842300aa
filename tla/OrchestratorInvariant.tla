----------------------- MODULE OrchestratorInvariant -----------------------
(*****************************************************************************)
(* The inductive invariant behind the theorems about Orchestrator, what a    *)
(* step of one thread leaves of it to the others, and that it is preserved   *)
(* by the steps of a running handler and of the workers; OrchestratorProofs  *)
(* adds the first steps of the handlers and draws the conclusions.           *)
(*****************************************************************************)
EXTENDS Orchestrator, TLAPS

(***************************************************************************)
(* What the walks of TaskStateMachine return, for every layer and state.   *)
(***************************************************************************)

\* The transition table maps states to states.
LEMMA TargetType ==
  ASSUME NEW l \in Layer, NEW s \in TaskState, NEW e \in TaskEvent
  PROVE  Target(l, s, e) \in TaskState
BY DEF Target, TaskState

\* Walking forward ends in InProgress, unless the task was Escalated or in a terminal state:
\* then it stays where it is.
LEMMA ForwardValue ==
  ASSUME NEW l \in Layer, NEW s \in TaskState
  PROVE  Forward[l][s] = IF s \in {"Escalated", "Completed", "Failed"} THEN s ELSE "InProgress"
<1>1. Forward[l][s] =
        Attempt(l, Attempt(l, LeavePending(l, s), "Decomposing", "Delegate"), "Delegated", "Start")
  BY DEF Forward
<1>2. LeavePending(l, s) = IF s = "Pending" THEN IF l = 3 THEN "Delegated" ELSE "Decomposing" ELSE s
  BY DEF LeavePending, Attempt, Target
<1>3. CASE s = "Pending" /\ l = 3
  BY <1>1, <1>2, <1>3 DEF Attempt, Target
<1>4. CASE s = "Pending" /\ l # 3
  BY <1>1, <1>2, <1>4 DEF Attempt, Target
<1>5. CASE s # "Pending"
  BY <1>1, <1>2, <1>5 DEF Attempt, Target, TaskState
<1> QED BY <1>3, <1>4, <1>5

\* on_myrmidon_started takes every task that is not in a terminal state to InProgress.
LEMMA StartedValue ==
  ASSUME NEW l \in Layer, NEW s \in TaskState
  PROVE  Started[l][s] = IF s \in Terminal THEN s ELSE "InProgress"
<1>1. Attempt(l, s, "Escalated", "Retry") = IF s = "Escalated" THEN "Delegated" ELSE s
  BY DEF Attempt, Target
<1>2. Attempt(l, s, "Escalated", "Retry") \in TaskState
  BY <1>1 DEF TaskState
<1>3. Started[l][s] = Forward[l][Attempt(l, s, "Escalated", "Retry")]
  BY DEF Started
<1> QED BY <1>1, <1>2, <1>3, ForwardValue DEF Terminal

\* on_myrmidon_completion completes every task that has not failed.
LEMMA FinishedValue ==
  ASSUME NEW l \in Layer, NEW s \in TaskState
  PROVE  Finished[l][s] = IF s = "Failed" THEN "Failed" ELSE "Completed"
<1>1. Finished[l][s] = Target(l, Started[l][s], "Complete")
  BY DEF Finished
<1> QED BY <1>1, StartedValue DEF Terminal, Target

\* on_myrmidon_failed fails every task that is not completed.
LEMMA BrokenValue ==
  ASSUME NEW l \in Layer, NEW s \in TaskState
  PROVE  Broken[l][s] = IF s = "Completed" THEN "Completed" ELSE "Failed"
<1>1. Broken[l][s] = Target(l, Forward[l][s], "Fail")
  BY DEF Broken
<1> QED BY <1>1, ForwardValue DEF Target

\* delegate moves Pending and Decomposing tasks to Delegated, and no other.
LEMMA AssignedValue ==
  ASSUME NEW l \in Layer, NEW s \in TaskState
  PROVE  Assigned[l][s] = IF s \in {"Pending", "Decomposing"} THEN "Delegated" ELSE s
<1>1. Assigned[l][s] = IF Target(l, s, "Delegate") # s THEN Target(l, s, "Delegate")
                       ELSE Target(l, Attempt(l, s, "Pending", "Submit"), "Delegate")
  BY DEF Assigned
<1>2. CASE s = "Pending"
  BY <1>1, <1>2 DEF Attempt, Target, Layer
<1>3. CASE s = "Decomposing"
  BY <1>1, <1>3 DEF Attempt, Target
<1>4. CASE s \notin {"Pending", "Decomposing"}
  BY <1>1, <1>4 DEF Attempt, Target
<1> QED BY <1>2, <1>3, <1>4

(***************************************************************************)
(* The invariant.                                                          *)
(***************************************************************************)

Active(t) == t.state \notin {"Pending", "Completed"}

Ready(blockers) == blockers \subseteq done

\* The copy a handler will write back is of a stored task, has the blockers of the stored
\* record, and is active only if the task is ready.
GoodCopy(th) ==
  /\ copy[th] \in Task
  /\ Stored(copy[th].id)
  /\ copy[th].blocked_by = tasks[copy[th].id].blocked_by
  /\ Active(copy[th]) => Ready(copy[th].blocked_by)

\* The handlers that publish the task they write.
Dispatching == {"submit", "epic", "escalate", "delegate"}

\* What each location of a handler guarantees.
ThreadInv(th) ==
  /\ pc[th] = "create" =>
       /\ creates[th] # << >>
       /\ op[th] = "submit" =>
            /\ copy[th] \in Task
            /\ IF Stored(copy[th].id) THEN tasks[copy[th].id].blocked_by = {}
               ELSE Head(creates[th]) = copy[th] /\ copy[th].blocked_by = {}
       /\ op[th] = "epic" =>
            /\ copy[th] \in Task
            /\ Len(creates[th]) = 1
            /\ Head(creates[th]).id = copy[th].id
            /\ Head(creates[th]).blocked_by = {} /\ copy[th].blocked_by = {}
       /\ op[th] = "split" /\ copy[th] # NoTask => GoodCopy(th)
       /\ op[th] \in {"submit", "epic", "split"}
  /\ pc[th] = "root" =>
       /\ op[th] = "submit"
       /\ copy[th] \in Task
       /\ Stored(copy[th].id) /\ tasks[copy[th].id].blocked_by = {}
  /\ pc[th] = "write" =>
       /\ GoodCopy(th)
       /\ op[th] \in Dispatching => Ready(copy[th].blocked_by)
  /\ pc[th] \in {"dispatch", "children"} =>
       copy[th] \in Task /\ Stored(copy[th].id)
  /\ pc[th] = "dispatch" => Ready(tasks[copy[th].id].blocked_by)
  /\ pc[th] = "blockers" =>
       /\ child[th] \in Id
       /\ Stored(child[th])
       /\ Ready(tasks[child[th]].blocked_by \ unseen[th])

\* Ids that a handler will insert: nobody has inserted them and nobody else will.
Pending(th) == {creates[th][i].id : i \in DOMAIN creates[th]}

Unused(id) == ~ Stored(id) /\ \A th \in Thread : id \notin Pending(th)

FreshInv ==
  /\ \A th \in Thread : \A i \in DOMAIN creates[th] :
       /\ ~ Stored(creates[th][i].id)
       /\ creates[th][i].state = "Pending"
       /\ \A j \in DOMAIN creates[th] : creates[th][i].id = creates[th][j].id => i = j
  /\ \A th, other \in Thread : th # other => Pending(th) \cap Pending(other) = {}
  /\ \A b \in Brief \ submitted : \A id \in PlanIds(b) : Unused(id)
  /\ \A k \in DOMAIN Uuid : k > minted => Unused(Uuid[k])

\* Messages and running work are about dispatched tasks.
KnownToWorkers ==
  \A id \in Id :
    (queue[id] > 0 \/ running[id] > 0 \/ \E k \in ReportKind : reports[k][id] > 0)
      => id \in dispatched

\* Stored tasks: what is active is ready, what is Completed is in done.
StoreInv ==
  \A id \in Id : Stored(id) =>
    /\ Active(tasks[id]) => Ready(tasks[id].blocked_by)
    /\ tasks[id].state = "Completed" => id \in done

Inv ==
  /\ TypeOK
  /\ \A th \in Thread : ThreadInv(th)
  /\ FreshInv
  /\ KnownToWorkers
  /\ StoreInv
  /\ WaitAll

-----------------------------------------------------------------------------
(***************************************************************************)
(* How the steps of one thread look to the others.                         *)
(***************************************************************************)

\* Records are never removed, never change their blockers, and done only grows.
Rely ==
  /\ \A id \in Id : Stored(id) => Stored(id)' /\ tasks'[id].blocked_by = tasks[id].blocked_by
  /\ done \subseteq done'

SameLocals(th) ==
  /\ pc'[th] = pc[th] /\ op'[th] = op[th] /\ copy'[th] = copy[th]
  /\ creates'[th] = creates[th] /\ todo'[th] = todo[th]
  /\ child'[th] = child[th] /\ unseen'[th] = unseen[th]

\* Nobody else inserts the task a submitting thread will insert next.
HeadKept(th) ==
  creates[th] # << >> =>
    (~ Stored(Head(creates[th]).id) => tasks'[Head(creates[th]).id] = NoTask)

\* The empty sequence.
LEMMA EmptySeq ==
  ASSUME NEW S
  PROVE  << >> \in Seq(S) /\ \A s \in Seq(S) : s = << >> <=> Len(s) = 0
  OBVIOUS

\* A stored record is a task, filed under its id.
LEMMA StoredTask ==
  ASSUME TypeOK, NEW id \in Id, Stored(id)
  PROVE  tasks[id] \in Task /\ tasks[id].id = id
BY DEF TypeOK, Stored

\* A thread keeps its guarantee while others take steps that satisfy Rely.
LEMMA OtherThread ==
  ASSUME NEW th \in Thread, ThreadInv(th), Rely, SameLocals(th), HeadKept(th)
  PROVE  ThreadInv(th)'
<1> USE DEF Rely, SameLocals
<1>1. \A t \in Task : t.id \in Id
  BY DEF Task, HmasTask
<1>2. ASSUME GoodCopy(th) PROVE GoodCopy(th)'
  BY <1>1, <1>2 DEF GoodCopy, Ready, Active, Stored
<1>3. CASE pc[th] = "create"
  <2>1. CASE op[th] = "submit"
    BY <1>1, <1>3, <2>1 DEF ThreadInv, HeadKept, Stored
  <2>2. CASE op[th] = "epic"
    BY <1>1, <1>3, <2>2 DEF ThreadInv
  <2>3. CASE op[th] = "split"
    BY <1>2, <1>3, <2>3 DEF ThreadInv
  <2> QED BY Zenon, <1>3, <2>1, <2>2, <2>3 DEF ThreadInv
<1>4. CASE pc[th] = "root"
  BY <1>1, <1>4 DEF ThreadInv, Stored
<1>5. CASE pc[th] = "write"
  BY <1>2, <1>5 DEF ThreadInv, Ready
<1>6. CASE pc[th] \in {"dispatch", "children"}
  BY <1>1, <1>6 DEF ThreadInv, Stored, Ready
<1>7. CASE pc[th] = "blockers"
  BY <1>7 DEF ThreadInv, Stored, Ready
<1>8. CASE pc[th] \notin {"create", "root", "write", "dispatch", "children", "blockers"}
  BY <1>8 DEF ThreadInv
<1> QED BY <1>3, <1>4, <1>5, <1>6, <1>7, <1>8

(***************************************************************************)
(* The parts of the invariant that a step leaves alone.                    *)
(***************************************************************************)

LocalTypes ==
  /\ pc \in [Thread -> Location]
  /\ op \in [Thread -> Handler \cup {"none", "delegate"}]
  /\ copy \in [Thread -> Task \cup {NoTask}]
  /\ creates \in [Thread -> Seq(Task)]
  /\ todo \in [Thread -> SUBSET Id]
  /\ child \in [Thread -> Id \cup {NoTask}]
  /\ unseen \in [Thread -> SUBSET Id]

OthersSame(th) == \A o \in Thread \ {th} : SameLocals(o)

\* The elements of a sequence over S are in S.
LEMMA SeqElement ==
  ASSUME NEW S, NEW s \in Seq(S), NEW i \in DOMAIN s
  PROVE  s[i] \in S
OBVIOUS

\* The tail of a sequence is empty exactly when it has one element.
LEMMA TailEmpty ==
  ASSUME NEW S, NEW s \in Seq(S), s # << >>
  PROVE  Tail(s) = << >> <=> Len(s) = 1
<1>1. Len(Tail(s)) = Len(s) - 1 /\ Tail(s) \in Seq(S)
  OBVIOUS
<1>2. Len(Tail(s)) = 0 <=> Tail(s) = << >>
  BY Zenon, <1>1, EmptySeq
<1> QED BY <1>1, <1>2

\* Everything a handler will create, everything a plan contains, has an id of Id.
LEMMA IdsInId ==
  /\ TypeOK => \A th \in Thread : \A i \in DOMAIN creates[th] :
                 creates[th][i] \in Task /\ creates[th][i].id \in Id
  /\ \A b \in Brief : \A i \in DOMAIN Plan[b] : Plan[b][i] \in Task /\ Plan[b][i].id \in Id
  /\ \A k \in DOMAIN Uuid : Uuid[k] \in Id
<1>1. \A t \in Task : t.id \in Id
  BY DEF Task, HmasTask
<1>2. ASSUME TypeOK, NEW th \in Thread, NEW i \in DOMAIN creates[th]
      PROVE  creates[th][i] \in Task
  <2>1. creates[th] \in Seq(Task)
    BY <1>2 DEF TypeOK
  <2> QED BY <2>1, SeqElement
<1>3. ASSUME NEW b \in Brief, NEW i \in DOMAIN Plan[b] PROVE Plan[b][i] \in Task
  <2>1. Plan[b] \in Seq(Task)
    BY ConstantsAssumption
  <2> QED BY <2>1, SeqElement
<1>4. ASSUME NEW k \in DOMAIN Uuid PROVE Uuid[k] \in Id
  BY ConstantsAssumption, SeqElement
<1> QED BY <1>1, <1>2, <1>3, <1>4

\* What is at least a positive number is positive.
LEMMA StillPositive == \A a, b \in Nat : a <= b /\ a > 0 => b > 0
OBVIOUS

\* What FreshInv says of one task that a handler will insert, and of two of two handlers.
LEMMA FreshEntry ==
  ASSUME FreshInv, NEW th \in Thread, NEW i \in DOMAIN creates[th]
  PROVE  /\ ~ Stored(creates[th][i].id) /\ creates[th][i].state = "Pending"
         /\ \A j \in DOMAIN creates[th] : creates[th][i].id = creates[th][j].id => i = j
BY DEF FreshInv

LEMMA FreshApart ==
  ASSUME FreshInv, NEW th \in Thread, NEW other \in Thread, th # other
  PROVE  /\ Pending(th) \cap Pending(other) = {}
         /\ \A i \in DOMAIN creates[th], j \in DOMAIN creates[other] :
              creates[th][i].id # creates[other][j].id
<1>1. Pending(th) \cap Pending(other) = {}
  BY DEF FreshInv
<1> QED BY Zenon, <1>1 DEF Pending

\* FreshInv survives a step that neither inserts a task nor reserves ids.
LEMMA FreshKept ==
  ASSUME TypeOK, FreshInv, UNCHANGED <<submitted, minted>>,
         \A id \in Id : Stored(id)' <=> Stored(id),
         \A th \in Thread : creates'[th] = creates[th] \/ creates'[th] = << >>
  PROVE  FreshInv'
<1>1. \A th \in Thread : \A i \in DOMAIN creates[th] : creates[th][i].id \in Id
  BY IdsInId
<1>2. \A th \in Thread : Pending(th)' \subseteq Pending(th)
  BY DEF Pending
<1>3. \A id \in Id : Unused(id) => Unused(id)'
  BY <1>2 DEF Unused
<1>4. \A b \in Brief : PlanIds(b) \subseteq Id
  BY IdsInId DEF PlanIds
<1>5. \A k \in DOMAIN Uuid : Uuid[k] \in Id
  BY IdsInId
<1>6. \A th \in Thread : \A i \in (DOMAIN creates[th])' :
       /\ ~ Stored(creates[th][i].id)'
       /\ creates'[th][i].state = "Pending"
       /\ \A j \in (DOMAIN creates[th])' : creates'[th][i].id = creates'[th][j].id => i = j
  BY <1>1 DEF FreshInv
<1>7. \A th, other \in Thread : th # other => Pending(th)' \cap Pending(other)' = {}
  BY <1>2 DEF FreshInv
<1>8. \A b \in Brief \ submitted' : \A id \in PlanIds(b) : Unused(id)'
  BY <1>3, <1>4 DEF FreshInv
<1>9. \A k \in DOMAIN Uuid : k > minted' => Unused(Uuid[k])'
  BY <1>3, <1>5 DEF FreshInv
<1> QED BY <1>6, <1>7, <1>8, <1>9 DEF FreshInv

\* A step that changes only the locals of one thread keeps the invariant if that thread
\* keeps its guarantee.
LEMMA LocalStep ==
  ASSUME Inv, NEW th \in Thread, UNCHANGED <<Effects, Outside>>, OthersSame(th),
         creates'[th] = creates[th] \/ creates'[th] = << >>,
         LocalTypes', ThreadInv(th)'
  PROVE  Inv'
<1>1. TypeOK'
  BY DEF Inv, TypeOK, LocalTypes, Effects, Outside, Stored
<1>2. \A o \in Thread : ThreadInv(o)'
  <2>1. SUFFICES ASSUME NEW o \in Thread, o # th PROVE ThreadInv(o)'
    OBVIOUS
  <2>2. Rely /\ HeadKept(o)
    BY DEF Rely, HeadKept, Effects, Stored
  <2>3. SameLocals(o)
    BY <2>1 DEF OthersSame
  <2> QED BY <2>2, <2>3, OtherThread DEF Inv
<1>3. FreshInv'
  <2>1. \A id \in Id : Stored(id)' <=> Stored(id)
    BY DEF Effects, Stored
  <2>2. \A o \in Thread : creates'[o] = creates[o] \/ creates'[o] = << >>
    BY DEF OthersSame, SameLocals
  <2> QED BY <2>1, <2>2, FreshKept DEF Inv, Outside
<1>4. KnownToWorkers' /\ StoreInv' /\ WaitAll'
  BY DEF Inv, KnownToWorkers, StoreInv, WaitAll, Effects, Outside, Stored, Active, Ready
<1> QED BY <1>1, <1>2, <1>3, <1>4 DEF Inv

\* A handler that ends leaves its thread idle.
LEMMA ReturnLocals ==
  ASSUME TypeOK, NEW th \in Thread, Return(th)
  PROVE  LocalTypes' /\ OthersSame(th) /\ creates'[th] = << >> /\ ThreadInv(th)'
<1>1. pc'[th] = "idle"
  BY DEF Return, TypeOK
<1>2. ThreadInv(th)'
  BY <1>1 DEF ThreadInv
<1>3. LocalTypes'
  <2>1. LocalTypes
    BY DEF TypeOK, LocalTypes
  <2>2. pc' \in [Thread -> Location]
    BY <2>1 DEF Return, LocalTypes, Location
  <2>3. op' \in [Thread -> Handler \cup {"none", "delegate"}]
    BY <2>1 DEF Return, LocalTypes
  <2>4. copy' \in [Thread -> Task \cup {NoTask}] /\ child' \in [Thread -> Id \cup {NoTask}]
    BY <2>1 DEF Return, LocalTypes
  <2>5. creates' \in [Thread -> Seq(Task)]
    BY <2>1, EmptySeq DEF Return, LocalTypes
  <2>6. todo' \in [Thread -> SUBSET Id]
    BY <2>1 DEF Return, LocalTypes
  <2>7. unseen' \in [Thread -> SUBSET Id]
    BY <2>1 DEF Return, LocalTypes
  <2> QED BY <2>2, <2>3, <2>4, <2>5, <2>6, <2>7 DEF LocalTypes
<1> QED BY <1>2, <1>3 DEF Return, TypeOK, OthersSame, SameLocals

\* A walk that goes on to the next child has no obligations either.
LEMMA NextChildLocals ==
  ASSUME TypeOK, NEW th \in Thread, NEW rest \in SUBSET Id, NextChild(th, rest)
  PROVE  /\ LocalTypes' /\ OthersSame(th) /\ ThreadInv(th)'
         /\ creates'[th] = creates[th] \/ creates'[th] = << >>
<1>1. CASE rest = {}
  BY <1>1, ReturnLocals DEF NextChild
<1>2. CASE rest # {}
  <2>1. pc'[th] = "visit"
    BY <1>2 DEF NextChild, TypeOK
  <2>2. ThreadInv(th)'
    BY <2>1 DEF ThreadInv
  <2>3. LocalTypes'
    <3>1. LocalTypes
      BY DEF TypeOK, LocalTypes
    <3>2. pc' \in [Thread -> Location]
      BY Zenon, <1>2, <3>1 DEF NextChild, LocalTypes, Location
    <3>3. op' \in [Thread -> Handler \cup {"none", "delegate"}]
      BY Zenon, <1>2, <3>1 DEF NextChild, LocalTypes
    <3>4. copy' \in [Thread -> Task \cup {NoTask}] /\ child' \in [Thread -> Id \cup {NoTask}]
      BY Zenon, <1>2, <3>1 DEF NextChild, LocalTypes
    <3>5. creates' \in [Thread -> Seq(Task)]
      BY <1>2, <3>1 DEF NextChild, LocalTypes
    <3>6. todo' = [todo EXCEPT ![th] = rest] /\ unseen' = [unseen EXCEPT ![th] = {}]
      BY <1>2 DEF NextChild
    <3>7. todo \in [Thread -> SUBSET Id] /\ unseen \in [Thread -> SUBSET Id]
      BY <3>1 DEF LocalTypes
    <3>8. todo' \in [Thread -> SUBSET Id]
      BY <3>6, <3>7
    <3>9. unseen' \in [Thread -> SUBSET Id]
      BY <3>6, <3>7
    <3> QED BY <3>2, <3>3, <3>4, <3>5, <3>8, <3>9 DEF LocalTypes
  <2> QED BY <1>2, <2>2, <2>3 DEF NextChild, TypeOK, OthersSame, SameLocals
<1> QED BY <1>1, <1>2

-----------------------------------------------------------------------------
(***************************************************************************)
(* The steps of a running handler, one lemma per action.                   *)
(***************************************************************************)

\* submit reads the root again: it is stored and waits for nothing.
LEMMA SubmitRootInv == ASSUME Inv, NEW th \in Thread, SubmitRoot(th) PROVE Inv'
<1> DEFINE root == tasks[copy[th].id]
           c == try_transition(try_transition(root, "Submit"), "Delegate")
<1>1. copy[th] \in Task /\ Stored(copy[th].id) /\ root.blocked_by = {} /\ op[th] = "submit"
  BY Zenon DEF SubmitRoot, Inv, ThreadInv
<1>2. copy[th].id \in Id
  BY <1>1 DEF Task, HmasTask
<1>3. root \in Task /\ root.id = copy[th].id
  BY <1>1, <1>2, StoredTask DEF Inv
<1>4. c \in Task /\ c.id = root.id /\ c.blocked_by = root.blocked_by
  <2>1. \A t \in Task, e \in TaskEvent :
          /\ try_transition(t, e) \in Task
          /\ try_transition(t, e).id = t.id /\ try_transition(t, e).blocked_by = t.blocked_by
    BY TargetType DEF try_transition, Task, HmasTask
  <2> QED BY <1>3, <2>1 DEF TaskEvent
<1> HIDE DEF c
<1>5. /\ pc' = [pc EXCEPT ![th] = "write"] /\ copy' = [copy EXCEPT ![th] = c]
      /\ UNCHANGED <<op, creates, todo, child, unseen>>
  BY DEF SubmitRoot, c
<1>6. LocalTypes' /\ OthersSame(th)
  BY <1>4, <1>5 DEF LocalTypes, OthersSame, SameLocals, Inv, TypeOK, Location
<1>7. UNCHANGED <<Effects, Outside>>
  BY DEF SubmitRoot
<1>8. ThreadInv(th)'
  <2>1. pc'[th] = "write" /\ copy'[th] = c /\ op'[th] = "submit" /\ tasks' = tasks
    BY <1>1, <1>5, <1>7 DEF Inv, TypeOK, Effects
  <2>2. GoodCopy(th)'
    BY Zenon, <1>1, <1>3, <1>4, <2>1 DEF GoodCopy, Stored, Active, Ready
  <2> QED BY <1>1, <1>4, <2>1, <2>2 DEF ThreadInv, Ready
<1> QED BY <1>5, <1>6, <1>7, <1>8, LocalStep

\* delegate_unblocked_children starts its walk.
LEMMA ChildrenInv ==
  ASSUME Inv, NEW th \in Thread, delegate_unblocked_children(th) PROVE Inv'
<1>1. copy[th] \in Task /\ Stored(copy[th].id)
  BY Zenon DEF Inv, ThreadInv, delegate_unblocked_children
<1>2. tasks[copy[th].id] \in Task
  BY <1>1, StoredTask DEF Inv, Task, HmasTask
<1>3. tasks[copy[th].id].children \in SUBSET Id
  BY <1>2 DEF Task, HmasTask
<1>4. TypeOK /\ NextChild(th, tasks[copy[th].id].children) /\ UNCHANGED <<Effects, Outside>>
  BY DEF Inv, delegate_unblocked_children
<1> QED BY Zenon, <1>3, <1>4, NextChildLocals, LocalStep

\* The walk reads a child; a Pending one gets its blockers checked.
LEMMA VisitChildInv ==
  ASSUME Inv, NEW th \in Thread, NEW c \in todo[th], VisitChild(th, c) PROVE Inv'
<1>1. c \in Id /\ todo[th] \ {c} \in SUBSET Id
  BY DEF Inv, TypeOK
<1>2. UNCHANGED <<Effects, Outside>>
  BY DEF VisitChild
<1>3. CASE Stored(c) /\ tasks[c].state = "Pending"
  <2>1. tasks[c].blocked_by \in SUBSET Id
    BY <1>1, <1>3, StoredTask DEF Inv, Task, HmasTask
  <2>2. /\ pc' = [pc EXCEPT ![th] = "blockers"] /\ todo' = [todo EXCEPT ![th] = @ \ {c}]
        /\ child' = [child EXCEPT ![th] = c]
        /\ unseen' = [unseen EXCEPT ![th] = tasks[c].blocked_by]
        /\ UNCHANGED <<op, copy, creates>>
    BY <1>3 DEF VisitChild
  <2>3. LocalTypes' /\ OthersSame(th)
    BY <1>1, <2>1, <2>2 DEF LocalTypes, OthersSame, SameLocals, Inv, TypeOK, Location
  <2>4. ThreadInv(th)'
    <3>1. pc'[th] = "blockers" /\ child'[th] = c /\ unseen'[th] = tasks[c].blocked_by
      BY <2>2 DEF Inv, TypeOK
    <3>2. tasks' = tasks
      BY <1>2 DEF Effects
    <3> QED BY <1>1, <1>3, <3>1, <3>2 DEF ThreadInv, Stored, Ready
  <2> QED BY <1>2, <2>2, <2>3, <2>4, LocalStep
<1>4. CASE ~ (Stored(c) /\ tasks[c].state = "Pending")
  <2>1. TypeOK /\ NextChild(th, todo[th] \ {c})
    BY <1>4 DEF Inv, VisitChild
  <2> QED BY <1>1, <1>2, <2>1, NextChildLocals, LocalStep
<1> QED BY <1>3, <1>4

\* A blocker seen Completed is in done, and stays there.
LEMMA CheckBlockerInv ==
  ASSUME Inv, NEW th \in Thread, NEW b \in unseen[th], CheckBlocker(th, b) PROVE Inv'
<1>1. b \in Id /\ todo[th] \in SUBSET Id
  BY DEF Inv, TypeOK
<1>2. UNCHANGED <<Effects, Outside>>
  BY DEF CheckBlocker
<1>3. CASE Clear(b)
  <2>1. unseen' = [unseen EXCEPT ![th] = @ \ {b}] /\ UNCHANGED <<pc, op, copy, creates, todo, child>>
    BY <1>3 DEF CheckBlocker
  <2>2. LocalTypes' /\ OthersSame(th)
    BY <2>1 DEF LocalTypes, OthersSame, SameLocals, Inv, TypeOK
  <2>3. b \in done
    BY <1>1, <1>3 DEF Clear, Inv, StoreInv
  <2>4. ThreadInv(th)'
    <3>1. pc[th] = "blockers" /\ pc'[th] = "blockers"
      BY Zenon, <2>1 DEF CheckBlocker
    <3>2. unseen'[th] = unseen[th] \ {b} /\ child'[th] = child[th]
      BY <2>1 DEF Inv, TypeOK
    <3>3. tasks' = tasks /\ done' = done
      BY <1>2 DEF Effects
    <3>4. child[th] \in Id /\ Stored(child[th]) /\ Ready(tasks[child[th]].blocked_by \ unseen[th])
      BY Zenon, <3>1 DEF Inv, ThreadInv
    <3> QED BY <2>3, <3>1, <3>2, <3>3, <3>4 DEF ThreadInv, Stored, Ready
  <2> QED BY <1>2, <2>1, <2>2, <2>4, LocalStep
<1>4. CASE ~ Clear(b)
  <2>1. TypeOK /\ NextChild(th, todo[th])
    BY <1>4 DEF Inv, CheckBlocker
  <2> QED BY <1>1, <1>2, <2>1, NextChildLocals, LocalStep
<1> QED BY <1>3, <1>4

\* A walk changes the state of a record and nothing else.
LEMMA WalkTask ==
  ASSUME NEW t \in Task, NEW f, f[t.layer][t.state] \in TaskState
  PROVE  /\ Walk(f, t) \in Task
         /\ Walk(f, t).id = t.id /\ Walk(f, t).blocked_by = t.blocked_by
         /\ Walk(f, t).state = f[t.layer][t.state]
BY DEF Walk, Task, HmasTask

\* delegate takes over a child all of whose blockers were seen Completed.
LEMMA DelegateInv == ASSUME Inv, NEW th \in Thread, delegate(th) PROVE Inv'
<1> DEFINE t == tasks[child[th]]
           c == Walk(Assigned, t)
<1>1. /\ pc[th] = "blockers" /\ unseen[th] = {} /\ child[th] \in Id /\ Stored(child[th])
      /\ Ready(t.blocked_by)
  BY Zenon DEF delegate, Inv, ThreadInv, Ready
<1>2. t \in Task /\ t.id = child[th]
  BY Zenon, <1>1, StoredTask DEF Inv
<1>3. UNCHANGED <<Effects, Outside>>
  BY Zenon DEF delegate
<1>4. CASE Assigned[t.layer][t.state] = t.state
  <2>1. TypeOK /\ NextChild(th, todo[th]) /\ todo[th] \in SUBSET Id
    BY Zenon, <1>4 DEF Inv, delegate, TypeOK
  <2> QED BY Zenon, <1>3, <2>1, NextChildLocals, LocalStep
<1>5. CASE Assigned[t.layer][t.state] # t.state
  <2>1. t.layer \in Layer /\ t.state \in TaskState
    BY Zenon, <1>2 DEF Task, HmasTask
  <2>2. Assigned[t.layer][t.state] \in TaskState
    BY Zenon, <2>1, AssignedValue DEF TaskState
  <2>3. c \in Task /\ c.id = t.id /\ c.blocked_by = t.blocked_by
    BY Zenon, <1>2, <2>2, WalkTask
  <2>4. /\ pc' = [pc EXCEPT ![th] = "write"] /\ copy' = [copy EXCEPT ![th] = c]
        /\ UNCHANGED <<op, creates, todo, child, unseen>>
    BY Zenon, <1>5 DEF delegate
  <2> HIDE DEF c
  <2>5. LocalTypes' /\ OthersSame(th)
    BY <2>3, <2>4 DEF LocalTypes, OthersSame, SameLocals, Inv, TypeOK, Location
  <2>6. ThreadInv(th)'
    <3>1. pc'[th] = "write" /\ copy'[th] = c /\ op'[th] = op[th] /\ tasks' = tasks /\ done' = done
      BY <1>3, <2>4 DEF Inv, TypeOK, Effects
    <3>2. GoodCopy(th)'
      BY <1>1, <1>2, <2>3, <3>1 DEF GoodCopy, Stored, Active, Ready
    <3> QED BY Zenon, <1>1, <2>3, <3>1, <3>2 DEF ThreadInv, Ready
  <2> QED BY Zenon, <1>3, <2>4, <2>5, <2>6, LocalStep
<1> QED BY <1>4, <1>5

(***************************************************************************)
(* The steps that write the store.                                         *)
(***************************************************************************)

\* What update_hmas_task does to the store, seen from outside.
LEMMA WriteEffect ==
  ASSUME Inv, NEW th \in Thread, update_hmas_task(th)
  PROVE  /\ copy[th] \in Task /\ copy[th].id \in Id /\ Stored(copy[th].id)
         /\ GoodCopy(th)
         /\ tasks' = [tasks EXCEPT ![copy[th].id] = copy[th]]
         /\ tasks' \in [Id -> Task \cup {NoTask}]
         /\ \A id \in Id : (Stored(id)' <=> Stored(id)) /\ (Stored(id)' => tasks'[id].id = id)
         /\ Rely
         /\ done' \subseteq Id
         /\ copy[th].state = "Completed" => copy[th].id \in done'
<1>1. pc[th] = "write" /\ GoodCopy(th)
  BY Zenon DEF Inv, ThreadInv, update_hmas_task
<1>2. copy[th] \in Task /\ Stored(copy[th].id)
  BY <1>1 DEF GoodCopy
<1>3. copy[th].id \in Id
  BY Zenon, <1>2 DEF Task, HmasTask
<1>4. tasks' = [tasks EXCEPT ![copy[th].id] = copy[th]]
  BY <1>2 DEF update_hmas_task
<1>5. done' = IF copy[th].state = "Completed" THEN done \cup {copy[th].id} ELSE done
  BY <1>2 DEF update_hmas_task
<1>6. tasks \in [Id -> Task \cup {NoTask}] /\ done \subseteq Id
  BY DEF Inv, TypeOK
<1>7. copy[th] # NoTask
  BY <1>2, ConstantsAssumption
<1>8. \A id \in Id : (Stored(id)' <=> Stored(id)) /\ (Stored(id)' => tasks'[id].id = id)
  BY Zenon, <1>2, <1>3, <1>4, <1>6, <1>7 DEF Stored, Inv, TypeOK
<1>9. Rely
  BY <1>1, <1>3, <1>4, <1>5, <1>6, <1>8 DEF Rely, GoodCopy
<1>10. tasks' \in [Id -> Task \cup {NoTask}] /\ done' \subseteq Id
  BY <1>2, <1>3, <1>4, <1>5, <1>6
<1> QED BY Zenon, <1>1, <1>2, <1>3, <1>4, <1>5, <1>8, <1>9, <1>10

\* A write keeps the invariant, whatever the handler does next, if its thread keeps its
\* guarantee.
LEMMA WriteStep ==
  ASSUME Inv, NEW th \in Thread, update_hmas_task(th), OthersSame(th),
         creates'[th] = creates[th] \/ creates'[th] = << >>,
         LocalTypes', ThreadInv(th)', faults' \in 0 .. MaxFaults
  PROVE  Inv'
<1> DEFINE c == copy[th]
<1>1. UNCHANGED <<planned, queue, dispatched, Outside>>
  BY DEF update_hmas_task
<1>2. TypeOK'
  BY Zenon, <1>1, WriteEffect DEF Inv, TypeOK, LocalTypes, Outside
<1>3. \A o \in Thread : ThreadInv(o)'
  <2>1. SUFFICES ASSUME NEW o \in Thread, o # th PROVE ThreadInv(o)'
    BY Zenon
  <2>2. Rely
    BY Zenon, WriteEffect
  <2>3. HeadKept(o)
    <3>1. SUFFICES ASSUME creates[o] # << >>, ~ Stored(Head(creates[o]).id)
                   PROVE  tasks'[Head(creates[o]).id] = NoTask
      BY DEF HeadKept
    <3>2. creates[o] \in Seq(Task)
      BY DEF Inv, TypeOK
    <3>3. Head(creates[o]) = creates[o][1] /\ 1 \in DOMAIN creates[o]
      BY <3>1, <3>2
    <3>4. Head(creates[o]).id \in Id
      BY <3>3, IdsInId DEF Inv
    <3> QED BY Zenon, <3>1, <3>4, WriteEffect DEF Stored
  <2>4. SameLocals(o)
    BY <2>1 DEF OthersSame
  <2> QED BY Zenon, <2>2, <2>3, <2>4, OtherThread DEF Inv
<1>4. FreshInv'
  <2>1. \A o \in Thread : creates'[o] = creates[o] \/ creates'[o] = << >>
    BY Zenon DEF OthersSame, SameLocals
  <2> QED BY Zenon, <1>1, <2>1, WriteEffect, FreshKept DEF Inv, Outside
<1>5. KnownToWorkers'
  BY Zenon, <1>1 DEF Inv, KnownToWorkers, Outside
<1>6. WaitAll'
  <2>1. dispatched \subseteq Id
    BY DEF Inv, TypeOK
  <2> QED BY Zenon, <1>1, <2>1, WriteEffect DEF Inv, WaitAll, Rely
<1>7. StoreInv'
  <2>1. SUFFICES ASSUME NEW id \in Id, Stored(id)'
                 PROVE  /\ Active(tasks'[id]) => tasks'[id].blocked_by \subseteq done'
                        /\ tasks'[id].state = "Completed" => id \in done'
    BY DEF StoreInv, Active, Ready
  <2>2. done \subseteq done'
    BY WriteEffect DEF Rely
  <2>3. CASE id = c.id
    <3>1. tasks'[id] = c
      BY Zenon, <2>3, WriteEffect DEF Inv, TypeOK
    <3>2. Active(c) => c.blocked_by \subseteq done
      BY Zenon, WriteEffect DEF GoodCopy, Ready
    <3> QED BY Zenon, <2>2, <2>3, <3>1, <3>2, WriteEffect
  <2>4. CASE id # c.id
    <3>1. tasks'[id] = tasks[id] /\ Stored(id)
      BY Zenon, <2>1, <2>4, WriteEffect DEF Inv, TypeOK
    <3> QED BY Zenon, <2>2, <3>1 DEF Inv, StoreInv, Ready
  <2> QED BY <2>3, <2>4
<1> QED BY <1>2, <1>3, <1>4, <1>5, <1>6, <1>7 DEF Inv

\* The handler writes its copy and goes on to publish, to walk the children, or to return.
LEMMA UpdateInv == ASSUME Inv, NEW th \in Thread, Update(th) PROVE Inv'
<1>1. update_hmas_task(th) /\ faults' = faults /\ pc[th] = "write"
  BY DEF Update, update_hmas_task
<1>2. faults' \in 0 .. MaxFaults /\ TypeOK
  BY <1>1 DEF Inv, TypeOK
<1>3. ASSUME NEW at \in {"dispatch", "children"}, Goto(th, at),
             at = "dispatch" => op[th] \in Dispatching
      PROVE  Inv'
  <2>1. LocalTypes' /\ OthersSame(th) /\ creates'[th] = << >>
    BY <1>3 DEF Goto, LocalTypes, OthersSame, SameLocals, Inv, TypeOK, Location
  <2>2. pc'[th] = at /\ copy'[th] = copy[th]
    BY <1>3 DEF Goto, Inv, TypeOK
  <2>3. tasks'[copy[th].id] = copy[th]
    BY Zenon, <1>1, WriteEffect DEF Inv, TypeOK
  <2>4. op[th] \in Dispatching => copy[th].blocked_by \subseteq done'
    BY Zenon, <1>1, WriteEffect DEF Inv, ThreadInv, Ready, Rely
  <2>5. copy[th] \in Task /\ tasks'[copy[th].id] # NoTask
    BY Zenon, <1>1, WriteEffect DEF Stored
  <2>6. ThreadInv(th)'
    BY Zenon, <1>3, <2>2, <2>3, <2>4, <2>5 DEF ThreadInv, Ready, Stored
  <2> QED BY <1>1, <1>2, <2>1, <2>6, WriteStep
<1>4. ASSUME Return(th) PROVE Inv'
  BY Zenon, <1>1, <1>2, <1>4, ReturnLocals, WriteStep
<1> QED BY <1>3, <1>4 DEF Update, Dispatching

\* A fault is counted only below the bound.
LEMMA FaultCounted ==
  ASSUME TypeOK, faults < MaxFaults, faults' = faults + 1
  PROVE  faults' \in 0 .. MaxFaults
<1>1. MaxFaults \in Nat /\ faults \in 0 .. MaxFaults
  BY Zenon, ConstantsAssumption DEF TypeOK
<1> QED BY <1>1

\* The record is written and then the handler is aborted.
LEMMA UpdateThrowsInv == ASSUME Inv, NEW th \in Thread, UpdateThrows(th) PROVE Inv'
<1>1. update_hmas_task(th) /\ Return(th) /\ TypeOK
  BY DEF UpdateThrows, Inv
<1>2. faults' \in 0 .. MaxFaults
  BY Zenon, <1>1, FaultCounted DEF UpdateThrows
<1> QED BY <1>1, <1>2, ReturnLocals, WriteStep

\* dispatch_task publishes a stored task that is ready.
LEMMA DispatchInv == ASSUME Inv, NEW th \in Thread, dispatch_task(th) PROVE Inv'
<1> DEFINE i == copy[th].id
<1>1. /\ copy[th] \in Task /\ Stored(i) /\ tasks[i].blocked_by \subseteq done /\ TypeOK
  BY Zenon DEF dispatch_task, Inv, ThreadInv, Ready
<1>2. i \in Id
  BY Zenon, <1>1 DEF Task, HmasTask
<1>3. UNCHANGED <<tasks, faults, done, Outside>> /\ dispatched' = dispatched \cup {i}
  BY Zenon DEF dispatch_task
<1>4. queue' = [queue EXCEPT ![i] = @ + Copies] /\ planned' \subseteq Brief
  BY DEF dispatch_task, Inv, TypeOK
<1>5. /\ LocalTypes' /\ OthersSame(th) /\ ThreadInv(th)'
      /\ creates'[th] = creates[th] \/ creates'[th] = << >>
  <2>1. todo[th] \in SUBSET Id
    BY <1>1 DEF TypeOK
  <2>2. CASE NextChild(th, todo[th])
    BY Zenon, <1>1, <2>1, <2>2, NextChildLocals
  <2>3. CASE Return(th)
    BY Zenon, <1>1, <2>3, ReturnLocals
  <2> QED BY Zenon, <2>2, <2>3 DEF dispatch_task
<1> HIDE DEF i
<1>6. queue' \in [Id -> Nat]
  <2>1. queue \in [Id -> Nat] /\ Copies \in 1 .. 2
    BY Zenon, <1>1, ConstantsAssumption DEF TypeOK
  <2>2. queue[i] + Copies \in Nat
    BY <1>2, <2>1
  <2> QED BY <1>2, <1>4, <2>1, <2>2
<1>7. TypeOK'
  BY Zenon, <1>1, <1>2, <1>3, <1>4, <1>5, <1>6 DEF TypeOK, LocalTypes, Outside, Stored
<1>8. \A o \in Thread : ThreadInv(o)'
  <2>1. SUFFICES ASSUME NEW o \in Thread, o # th PROVE ThreadInv(o)'
    BY <1>5
  <2>2. Rely /\ HeadKept(o) /\ SameLocals(o)
    BY <1>3, <1>5, <2>1 DEF Rely, HeadKept, Stored, OthersSame
  <2> QED BY <2>2, OtherThread DEF Inv
<1>9. FreshInv'
  <2>1. \A o \in Thread : creates'[o] = creates[o] \/ creates'[o] = << >>
    BY Zenon, <1>5 DEF OthersSame, SameLocals
  <2> QED BY <1>1, <1>3, <2>1, FreshKept DEF Inv, Outside, Stored
<1>10. KnownToWorkers'
  BY Zenon, <1>1, <1>2, <1>3, <1>4, ConstantsAssumption DEF Inv, KnownToWorkers, Outside, TypeOK
<1>11. StoreInv' /\ WaitAll'
  BY Zenon, <1>1, <1>3 DEF Inv, StoreInv, WaitAll, Stored, Active, Ready
<1> QED BY <1>7, <1>8, <1>9, <1>10, <1>11 DEF Inv

\* A creation that throws ends the handler.
LEMMA CreateThrowsInv == ASSUME Inv, NEW th \in Thread, CreateThrows(th) PROVE Inv'
<1>1. /\ Return(th) /\ TypeOK /\ UNCHANGED <<tasks, planned, queue, dispatched, done, Outside>>
  BY DEF CreateThrows, Inv
<1>2. faults' \in 0 .. MaxFaults
  BY Zenon, <1>1, FaultCounted DEF CreateThrows
<1>3. LocalTypes' /\ OthersSame(th) /\ creates'[th] = << >> /\ ThreadInv(th)'
  BY <1>1, ReturnLocals
<1>4. TypeOK'
  BY <1>1, <1>2, <1>3 DEF TypeOK, LocalTypes, Outside, Stored
<1>5. \A o \in Thread : ThreadInv(o)'
  <2>1. SUFFICES ASSUME NEW o \in Thread, o # th PROVE ThreadInv(o)'
    BY Zenon, <1>3
  <2>2. Rely /\ HeadKept(o) /\ SameLocals(o)
    BY <1>1, <1>3, <2>1 DEF Rely, HeadKept, Stored, OthersSame
  <2> QED BY <2>2, OtherThread DEF Inv
<1>6. FreshInv'
  <2>1. \A o \in Thread : creates'[o] = creates[o] \/ creates'[o] = << >>
    BY Zenon, <1>3 DEF OthersSame, SameLocals
  <2> QED BY <1>1, <2>1, FreshKept DEF Inv, Outside, Stored
<1>7. KnownToWorkers' /\ StoreInv' /\ WaitAll'
  BY Zenon, <1>1 DEF Inv, KnownToWorkers, Outside, StoreInv, WaitAll, Stored, Active, Ready
<1> QED BY <1>4, <1>5, <1>6, <1>7 DEF Inv

\* A step of the workers, or none at all.
LEMMA WorkerStep ==
  ASSUME Inv,
         UNCHANGED <<tasks, submitted, planned, minted, locals, calls, faults, dispatched, done>>,
         queue' \in [Id -> Nat], running' \in [Id -> Nat],
         reports' \in [ReportKind -> [Id -> Nat]], KnownToWorkers'
  PROVE  Inv'
<1>1. TypeOK'
  BY DEF Inv, TypeOK, Stored, locals
<1>2. \A th \in Thread : ThreadInv(th)'
  <2>1. SUFFICES ASSUME NEW th \in Thread PROVE ThreadInv(th)'
    OBVIOUS
  <2>2. Rely /\ HeadKept(th) /\ SameLocals(th)
    BY DEF Rely, HeadKept, SameLocals, Stored, locals
  <2> QED BY <2>2, OtherThread DEF Inv
<1>3. FreshInv'
  BY FreshKept DEF Inv, locals, Stored
<1>4. StoreInv' /\ WaitAll'
  BY DEF Inv, StoreInv, WaitAll, Active, Ready, Stored
<1> QED BY <1>1, <1>2, <1>3, <1>4 DEF Inv

\* One more report of a kind about a task leaves counts of reports.
LEMMA OneMoreReport ==
  ASSUME NEW Kinds, NEW f \in [Kinds -> [Id -> Nat]], NEW k \in Kinds, NEW id \in Id
  PROVE  [f EXCEPT ![k][id] = @ + 1] \in [Kinds -> [Id -> Nat]]
<1>1. f[k] \in [Id -> Nat]
  OBVIOUS
<1>2. [f[k] EXCEPT ![id] = @ + 1] \in [Id -> Nat]
  BY <1>1
<1> QED BY <1>2

\* A worker takes a dispatched task.
LEMMA ClaimInv == ASSUME Inv, NEW id \in Id, Claim(id) PROVE Inv'
<1>1. UNCHANGED <<tasks, submitted, planned, minted, locals, calls, faults, dispatched, done>>
  BY DEF Claim
<1>2. queue' \in [Id -> Nat] /\ running' \in [Id -> Nat]
  BY DEF Claim, Inv, TypeOK
<1>3. reports' \in [ReportKind -> [Id -> Nat]]
  <2>1. reports \in [ReportKind -> [Id -> Nat]]
    BY DEF Inv, TypeOK
  <2>2. "started" \in ReportKind
    BY DEF ReportKind
  <2>3. [reports EXCEPT !["started"][id] = @ + 1] \in [ReportKind -> [Id -> Nat]]
    BY <2>1, <2>2, OneMoreReport
  <2>4. reports' = reports \/ reports' = [reports EXCEPT !["started"][id] = @ + 1]
    BY DEF Claim
  <2> QED BY <2>1, <2>3, <2>4
<1>4. KnownToWorkers'
  <2>1. id \in dispatched
    BY DEF Claim, Inv, KnownToWorkers
  <2>2. \A x \in Id \ {id} : /\ queue'[x] = queue[x] /\ running'[x] = running[x]
                             /\ \A k \in ReportKind : reports'[k][x] = reports[k][x]
    BY DEF Claim, Inv, TypeOK, ReportKind
  <2> QED BY <1>1, <2>1, <2>2 DEF Inv, KnownToWorkers
<1> QED BY <1>1, <1>2, <1>3, <1>4, WorkerStep

\* A worker reports how a task ended.
LEMMA FinishInv == ASSUME Inv, NEW id \in Id, NEW outcome \in Outcomes, Finish(id, outcome) PROVE Inv'
<1>1. UNCHANGED <<tasks, submitted, planned, minted, locals, queue, calls, faults, dispatched, done>>
  BY DEF Finish
<1>2. outcome \in ReportKind
  BY ConstantsAssumption DEF ReportKind
<1>3. running' \in [Id -> Nat]
  BY DEF Finish, Inv, TypeOK
<1>4. reports' \in [ReportKind -> [Id -> Nat]]
  <2>1. reports \in [ReportKind -> [Id -> Nat]]
    BY DEF Inv, TypeOK
  <2>2. reports' = [reports EXCEPT ![outcome][id] = @ + 1]
    BY DEF Finish
  <2> QED BY <1>2, <2>1, <2>2, OneMoreReport
<1>5. KnownToWorkers'
  <2>1. id \in dispatched
    BY DEF Finish, Inv, KnownToWorkers
  <2>2. \A x \in Id \ {id} : /\ running'[x] = running[x]
                             /\ \A k \in ReportKind : reports'[k][x] = reports[k][x]
    BY <1>2 DEF Finish, Inv, TypeOK
  <2> QED BY Zenon, <1>1, <2>1, <2>2 DEF Inv, KnownToWorkers
<1>6. queue' \in [Id -> Nat]
  BY <1>1 DEF Inv, TypeOK
<1> QED BY <1>1, <1>3, <1>4, <1>5, <1>6, WorkerStep

(***************************************************************************)
(* create_hmas_task inserts the first of the tasks that remain.            *)
(***************************************************************************)

\* What is left to create after an insertion is what was left before, but for the first.
LEMMA CreateFresh ==
  ASSUME Inv, NEW th \in Thread, creates[th] # << >>, UNCHANGED <<submitted, minted>>,
         tasks' = [tasks EXCEPT ![Head(creates[th]).id] = Head(creates[th])],
         creates'[th] = Tail(creates[th]),
         \A o \in Thread \ {th} : creates'[o] = creates[o]
  PROVE  FreshInv'
<1> DEFINE t == Head(creates[th])
<1>1. creates[th] \in Seq(Task) /\ tasks \in [Id -> Task \cup {NoTask}]
  BY DEF Inv, TypeOK
<1>2. t = creates[th][1] /\ 1 \in DOMAIN creates[th]
  BY <1>1
<1>3. /\ \A i \in DOMAIN Tail(creates[th]) : /\ i + 1 \in DOMAIN creates[th]
                                             /\ i \in Nat /\ i + 1 # 1
                                             /\ Tail(creates[th])[i] = creates[th][i + 1]
  BY <1>1
<1>4. t.id \in Id /\ \A o \in Thread : \A i \in DOMAIN creates[o] : creates[o][i].id \in Id
  BY <1>2, IdsInId DEF Inv
<1>5. /\ \A id \in Id : id # t.id => tasks'[id] = tasks[id]
      /\ \A id \in Id : id # t.id /\ ~ Stored(id) => tasks'[id] = NoTask
  BY <1>1 DEF Stored
<1> HIDE DEF t
<1>6. \A o \in Thread : Pending(o)' \subseteq Pending(o)
  <2>1. ASSUME NEW o \in Thread \ {th} PROVE Pending(o)' \subseteq Pending(o)
    BY Zenon DEF Pending
  <2>2. Pending(th)' \subseteq Pending(th)
    BY <1>3 DEF Pending
  <2> QED BY Zenon, <2>1, <2>2
<1>7. t.id \in Pending(th)
  BY <1>2 DEF Pending
<1>8. \A id \in Id : Unused(id) => Unused(id)'
  BY <1>5, <1>6, <1>7 DEF Unused, Stored
<1>9. \A b \in Brief : PlanIds(b) \subseteq Id
  BY IdsInId DEF PlanIds
<1>10. ASSUME NEW o \in Thread, NEW i \in (DOMAIN creates[o])'
       PROVE  /\ ~ Stored(creates[o][i].id)'
              /\ creates'[o][i].state = "Pending"
              /\ \A j \in (DOMAIN creates[o])' : creates'[o][i].id = creates'[o][j].id => i = j
  <2>1. CASE o = th
    <3>1. creates'[o] = Tail(creates[th])
      BY <2>1
    <3>2. /\ i + 1 \in DOMAIN creates[th] /\ i \in Nat /\ i + 1 # 1
          /\ creates'[o][i] = creates[th][i + 1]
      BY Zenon, <1>3, <3>1
    <3>3. creates[th][i + 1].id # t.id
      BY Zenon, <1>2, <3>2, FreshEntry DEF Inv
    <3>4. ~ Stored(creates[th][i + 1].id) /\ creates[th][i + 1].state = "Pending"
      BY Zenon, <3>2, FreshEntry DEF Inv
    <3>5. tasks'[creates'[o][i].id] = NoTask
      <4>1. tasks'[creates[th][i + 1].id] = NoTask
        BY Zenon, <1>4, <1>5, <3>2, <3>3, <3>4
      <4> QED BY Zenon, <3>2, <4>1
    <3>6. ASSUME NEW j \in (DOMAIN creates[o])', creates'[o][i].id = creates'[o][j].id
          PROVE  i = j
      <4>1. /\ j + 1 \in DOMAIN creates[th] /\ j \in Nat
            /\ creates'[o][j] = creates[th][j + 1]
        BY <1>3, <3>1
      <4>2. creates[th][i + 1].id = creates[th][j + 1].id
        BY Zenon, <3>2, <3>6, <4>1
      <4>3. i + 1 = j + 1
        BY Zenon, <3>2, <4>1, <4>2, FreshEntry DEF Inv
      <4> QED BY <3>2, <4>1, <4>3
    <3> QED BY Zenon, <3>2, <3>4, <3>5, <3>6 DEF Stored
  <2>2. CASE o # th
    <3>1. creates'[o] = creates[o]
      BY <2>2
    <3>2. /\ ~ Stored(creates[o][i].id) /\ creates[o][i].state = "Pending"
          /\ \A j \in DOMAIN creates[o] : creates[o][i].id = creates[o][j].id => i = j
      BY Zenon, <3>1, FreshEntry DEF Inv
    <3>3. creates[o][i].id # t.id
      <4>1. i \in DOMAIN creates[o] /\ FreshInv
        BY Zenon, <3>1 DEF Inv
      <4>2. \A a \in DOMAIN creates[o] : \A b \in DOMAIN creates[th] :
              creates[o][a].id # creates[th][b].id
        BY Zenon, <2>2, <4>1, FreshApart
      <4> QED BY Zenon, <1>2, <4>1, <4>2
    <3>4. tasks'[creates'[o][i].id] = NoTask
      <4>1. tasks'[creates[o][i].id] = NoTask
        BY Zenon, <1>4, <1>5, <3>1, <3>2, <3>3
      <4> QED BY Zenon, <3>1, <4>1
    <3> QED BY Zenon, <3>1, <3>2, <3>4 DEF Stored
  <2> QED BY Zenon, <2>1, <2>2
<1>11. \A o, other \in Thread : o # other => Pending(o)' \cap Pending(other)' = {}
  BY Zenon, <1>6 DEF Inv, FreshInv
<1>12. \A b \in Brief \ submitted' : \A id \in PlanIds(b) : Unused(id)'
  BY Zenon, <1>8, <1>9 DEF Inv, FreshInv
<1>13. \A k \in DOMAIN Uuid : k > minted' => Unused(Uuid[k])'
  BY Zenon, <1>8, IdsInId DEF Inv, FreshInv
<1> QED BY Zenon, <1>10, <1>11, <1>12, <1>13 DEF FreshInv

\* The copy of a stored task stays good.
LEMMA GoodCopyKept ==
  ASSUME NEW th \in Thread, GoodCopy(th), Rely, copy'[th] = copy[th]
  PROVE  GoodCopy(th)'
<1>1. copy[th].id \in Id
  BY DEF GoodCopy, Task, HmasTask
<1> QED BY Zenon, <1>1 DEF GoodCopy, Rely, Ready, Active, Stored

\* The creating handler keeps its guarantee.
LEMMA CreateInv == ASSUME Inv, NEW th \in Thread, create_hmas_task(th) PROVE Inv'
<1> DEFINE t == Head(creates[th])
<1>1. /\ TypeOK /\ FreshInv /\ pc[th] = "create" /\ creates[th] # << >>
      /\ UNCHANGED <<planned, queue, faults, dispatched, done, Outside>>
      /\ tasks' = [tasks EXCEPT ![t.id] = t]
  BY Zenon DEF Inv, ThreadInv, create_hmas_task
<1>2. creates[th] \in Seq(Task) /\ tasks \in [Id -> Task \cup {NoTask}] /\ copy[th] \in Task \cup {NoTask}
  BY <1>1 DEF TypeOK
<1>3. t = creates[th][1] /\ 1 \in DOMAIN creates[th] /\ Tail(creates[th]) \in Seq(Task)
  BY <1>1, <1>2
<1>4. t \in Task /\ t.id \in Id /\ ~ Stored(t.id) /\ t.state = "Pending" /\ t # NoTask
  <2>1. t \in Task /\ t.id \in Id
    BY <1>1, <1>3, IdsInId
  <2>2. ~ Stored(t.id) /\ t.state = "Pending"
    BY Zenon, <1>1, <1>3, FreshEntry
  <2> QED BY Zenon, <2>1, <2>2, ConstantsAssumption
<1> HIDE DEF t
<1>5. /\ tasks'[t.id] = t
      /\ \A id \in Id : id # t.id => tasks'[id] = tasks[id]
  BY <1>1, <1>2, <1>4
<1>6. Rely
  BY <1>1, <1>4, <1>5 DEF Rely, Stored
<1>7. /\ LocalTypes' /\ OthersSame(th) /\ ThreadInv(th)'
      /\ creates'[th] = Tail(creates[th])
  <2>1. op[th] \in {"submit", "epic", "split"}
    BY Zenon, <1>1 DEF Inv, ThreadInv
  <2>2. op[th] = "submit" => /\ copy[th] \in Task /\ tasks'[copy[th].id] # NoTask
                             /\ tasks'[copy[th].id].blocked_by = {}
    <3>1. SUFFICES ASSUME op[th] = "submit"
                   PROVE  /\ copy[th] \in Task /\ tasks'[copy[th].id] # NoTask
                          /\ tasks'[copy[th].id].blocked_by = {}
      OBVIOUS
    <3>2. copy[th] \in Task /\ copy[th].id \in Id
      BY Zenon, <1>1, <3>1 DEF Inv, ThreadInv, Task, HmasTask
    <3>3. CASE Stored(copy[th].id)
      BY Zenon, <1>1, <1>6, <3>1, <3>2, <3>3 DEF Inv, ThreadInv, Rely, Stored
    <3>4. CASE ~ Stored(copy[th].id)
      <4>1. t = copy[th] /\ copy[th].blocked_by = {}
        BY Zenon, <1>1, <3>1, <3>4 DEF Inv, ThreadInv, t
      <4> QED BY Zenon, <1>4, <1>5, <3>2, <4>1
    <3> QED BY Zenon, <3>3, <3>4
  <2>3. op[th] = "epic" => /\ copy[th] \in Task /\ t.id = copy[th].id
                           /\ t.blocked_by = {} /\ copy[th].blocked_by = {}
                           /\ Len(creates[th]) = 1
    BY Zenon, <1>1 DEF Inv, ThreadInv, t
  <2>4. op[th] = "split" /\ copy[th] # NoTask => GoodCopy(th)
    BY Zenon, <1>1 DEF Inv, ThreadInv
  <2>5. CASE Len(creates[th]) = 1 /\ copy[th] = NoTask
    <3>1. Return(th)
      BY <2>5 DEF create_hmas_task, AllCreated
    <3>2. Tail(creates[th]) = << >>
      BY <1>1, <1>2, <2>5, TailEmpty
    <3> QED BY Zenon, <1>1, <3>1, <3>2, ReturnLocals
  <2>6. CASE Len(creates[th]) = 1 /\ copy[th] # NoTask
    <3> DEFINE at == IF op[th] = "submit" THEN "root" ELSE "write"
    <3>1. Goto(th, at)
      BY Zenon, <2>6 DEF create_hmas_task, AllCreated
    <3>2. Tail(creates[th]) = << >>
      BY <1>1, <1>2, <2>6, TailEmpty
    <3>3. at \in Location
      BY DEF Location
    <3>4. /\ pc' = [pc EXCEPT ![th] = at] /\ creates' = [creates EXCEPT ![th] = << >>]
          /\ UNCHANGED <<op, copy, todo, child, unseen>>
      BY <3>1 DEF Goto
    <3>5. pc'[th] = at /\ copy'[th] = copy[th] /\ op'[th] = op[th] /\ creates'[th] = << >>
      BY <1>1, <3>4 DEF TypeOK
    <3>6. LocalTypes' /\ OthersSame(th)
      <4>1. OthersSame(th)
        BY <1>1, <3>4 DEF TypeOK, LocalTypes, OthersSame, SameLocals
      <4>2. pc' \in [Thread -> Location] /\ creates' \in [Thread -> Seq(Task)]
        BY <1>1, <3>3, <3>4, EmptySeq DEF TypeOK, LocalTypes
      <4> QED BY Zenon, <1>1, <3>4, <4>1, <4>2 DEF TypeOK, LocalTypes
    <3>7. CASE op[th] = "submit"
      BY Zenon, <2>2, <3>2, <3>5, <3>6, <3>7 DEF ThreadInv, Stored
    <3>8. CASE op[th] = "epic"
      <4>1. GoodCopy(th)'
        BY Zenon, <1>4, <1>5, <2>3, <3>5, <3>8 DEF GoodCopy, Stored, Ready
      <4> QED BY Zenon, <2>3, <3>2, <3>5, <3>6, <3>8, <4>1 DEF ThreadInv, Ready
    <3>9. CASE op[th] = "split"
      <4>1. GoodCopy(th)'
        BY Zenon, <1>6, <2>4, <2>6, <3>5, <3>9, GoodCopyKept
      <4> QED BY Zenon, <3>2, <3>5, <3>6, <3>9, <4>1 DEF ThreadInv, Dispatching
    <3> QED BY Zenon, <2>1, <3>7, <3>8, <3>9
  <2>7. CASE Len(creates[th]) # 1
    <3>1. /\ creates' = [creates EXCEPT ![th] = Tail(@)]
          /\ UNCHANGED <<pc, op, copy, todo, child, unseen>>
      BY <2>7 DEF create_hmas_task
    <3>2. Tail(creates[th]) # << >>
      BY <1>1, <1>2, <2>7, TailEmpty
    <3>3. LocalTypes' /\ OthersSame(th) /\ creates'[th] = Tail(creates[th])
      BY Zenon, <1>1, <1>3, <3>1 DEF TypeOK, LocalTypes, OthersSame, SameLocals
    <3>4. op[th] = "split" /\ copy[th] # NoTask => GoodCopy(th)'
      BY Zenon, <1>6, <2>4, <3>1, GoodCopyKept
    <3> QED BY Zenon, <1>1, <2>1, <2>2, <2>3, <2>7, <3>1, <3>2, <3>3, <3>4 DEF ThreadInv, Stored
  <2> QED BY Zenon, <2>5, <2>6, <2>7
<1>8. TypeOK'
  <2>1. tasks' \in [Id -> Task \cup {NoTask}]
    BY <1>1, <1>2, <1>4
  <2>2. \A id \in Id : Stored(id)' => tasks'[id].id = id
    BY <1>1, <1>5 DEF TypeOK, Stored
  <2> QED BY Zenon, <1>1, <1>7, <2>1, <2>2 DEF TypeOK, LocalTypes, Outside
<1>9. \A o \in Thread : ThreadInv(o)'
  <2>1. SUFFICES ASSUME NEW o \in Thread, o # th PROVE ThreadInv(o)'
    BY <1>7
  <2>2. HeadKept(o)
    <3>1. SUFFICES ASSUME creates[o] # << >>, ~ Stored(Head(creates[o]).id)
                   PROVE  tasks'[Head(creates[o]).id] = NoTask
      BY DEF HeadKept
    <3>2. creates[o] \in Seq(Task)
      BY <1>1 DEF TypeOK
    <3>3. Head(creates[o]) = creates[o][1] /\ 1 \in DOMAIN creates[o]
      BY <3>1, <3>2
    <3>4. Head(creates[o]).id \in Id
      BY <1>1, <3>3, IdsInId
    <3>5. Head(creates[o]).id # t.id
      BY Zenon, <1>1, <1>3, <2>1, <3>3, FreshApart
    <3> QED BY <1>5, <3>1, <3>4, <3>5 DEF Stored
  <2>3. SameLocals(o)
    BY <1>7, <2>1 DEF OthersSame
  <2> QED BY <1>6, <2>2, <2>3, OtherThread DEF Inv
<1>10. FreshInv'
  <2>1. \A o \in Thread \ {th} : creates'[o] = creates[o]
    BY <1>7 DEF OthersSame, SameLocals
  <2> QED BY Zenon, <1>1, <1>7, <2>1, CreateFresh DEF Outside, t
<1>11. KnownToWorkers'
  BY Zenon, <1>1 DEF Inv, KnownToWorkers, Outside
<1>12. StoreInv'
  BY Zenon, <1>1, <1>4, <1>5 DEF Inv, StoreInv, Active, Ready, Stored
<1>13. WaitAll'
  <2>1. dispatched \subseteq Id
    BY <1>1 DEF TypeOK
  <2> QED BY <1>1, <1>6, <2>1 DEF Inv, WaitAll, Rely
<1> QED BY <1>8, <1>9, <1>10, <1>11, <1>12, <1>13 DEF Inv

(***************************************************************************)
(* The start of a handler.                                                 *)
(***************************************************************************)

\* What Begin does to the thread's locals.
LEMMA BeginLocals ==
  ASSUME TypeOK, NEW th \in Thread, NEW h \in Handler, NEW at \in Location,
         NEW c \in Task \cup {NoTask}, NEW list \in Seq(Task), Begin(th, h, at, c, list)
  PROVE  /\ LocalTypes' /\ OthersSame(th)
         /\ pc'[th] = at /\ op'[th] = h /\ copy'[th] = c /\ creates'[th] = list
BY Zenon DEF Begin, TypeOK, LocalTypes, OthersSame, SameLocals

\* The other threads do not notice.
LEMMA BeginOthers ==
  ASSUME Inv, NEW th \in Thread, NEW o \in Thread, o # th, tasks' = tasks, done' = done,
         OthersSame(th)
  PROVE  ThreadInv(o)'
<1>1. Rely /\ HeadKept(o) /\ SameLocals(o)
  BY DEF Rely, HeadKept, Stored, OthersSame
<1> QED BY <1>1, OtherThread DEF Inv

\* A handler that starts by reading a task and goes straight to writing it back.
LEMMA BeginWrite ==
  ASSUME Inv, NEW th \in Thread, NEW h \in Handler, NEW c \in Task,
         Begin(th, h, "write", c, << >>),
         Stored(c.id), c.blocked_by = tasks[c.id].blocked_by,
         Active(c) \/ h \in Dispatching => Ready(c.blocked_by),
         UNCHANGED <<submitted, minted, queue, running>>,
         reports' \in [ReportKind -> [Id -> Nat]],
         \A k \in ReportKind : \A id \in Id : reports'[k][id] <= reports[k][id],
         calls' \in 0 .. MaxCalls
  PROVE  Inv'
<1>1. UNCHANGED <<tasks, planned, todo, child, unseen, faults, dispatched, done>> /\ TypeOK
  BY Zenon DEF Begin, Inv
<1>2. "write" \in Location /\ << >> \in Seq(Task)
  BY Zenon, EmptySeq DEF Location
<1>3. /\ LocalTypes' /\ OthersSame(th)
      /\ pc'[th] = "write" /\ op'[th] = h /\ copy'[th] = c /\ creates'[th] = << >>
  BY Zenon, <1>1, <1>2, BeginLocals
<1>4. ThreadInv(th)'
  <2>1. GoodCopy(th)'
    BY Zenon, <1>1, <1>3 DEF GoodCopy, Stored, Active, Ready
  <2> QED BY Zenon, <1>1, <1>3, <2>1 DEF ThreadInv, Ready
<1>5. \A o \in Thread : ThreadInv(o)'
  BY Zenon, <1>1, <1>3, <1>4, BeginOthers
<1>6. TypeOK'
  BY Zenon, <1>1, <1>3 DEF TypeOK, LocalTypes, Stored
<1>7. FreshInv'
  <2>1. \A o \in Thread : creates'[o] = creates[o] \/ creates'[o] = << >>
    BY Zenon, <1>3 DEF OthersSame, SameLocals
  <2> QED BY Zenon, <1>1, <2>1, FreshKept DEF Inv, Stored
<1>8. KnownToWorkers'
  <2>1. \A k \in ReportKind : \A id \in Id :
          reports'[k][id] \in Nat /\ reports[k][id] \in Nat /\ reports'[k][id] <= reports[k][id]
    BY Zenon, <1>1 DEF TypeOK
  <2>2. \A k \in ReportKind : \A id \in Id : reports'[k][id] > 0 => reports[k][id] > 0
    BY Zenon, <2>1, StillPositive
  <2> QED BY Zenon, <1>1, <2>2 DEF Inv, KnownToWorkers
<1>9. StoreInv' /\ WaitAll'
  BY Zenon, <1>1 DEF Inv, StoreInv, WaitAll, Active, Ready, Stored
<1> QED BY Zenon, <1>5, <1>6, <1>7, <1>8, <1>9 DEF Inv

\* The step reserves the ids of list: they are unused and distinct, and the step gives up
\* the briefs and uuids they come from.
Reserves(list) ==
  /\ \A i \in DOMAIN list :
       /\ Unused(list[i].id) /\ list[i].state = "Pending"
       /\ \A j \in DOMAIN list : list[i].id = list[j].id => i = j
  /\ \A b \in Brief \ submitted' :
       b \notin submitted /\ \A i \in DOMAIN list : list[i].id \notin PlanIds(b)
  /\ \A k \in DOMAIN Uuid : k > minted' =>
       k > minted /\ \A i \in DOMAIN list : list[i].id # Uuid[k]

\* FreshInv survives the reservation of unused ids.
LEMMA FreshReserved ==
  ASSUME FreshInv, UNCHANGED tasks, NEW th \in Thread, NEW list, creates'[th] = list,
         \A o \in Thread \ {th} : creates'[o] = creates[o], Reserves(list)
  PROVE  FreshInv'
<1>1. \A o \in Thread \ {th} : Pending(o)' = Pending(o)
  BY DEF Pending
<1>2. Pending(th)' = {list[i].id : i \in DOMAIN list}
  BY DEF Pending
<1>3. \A id : Unused(id) /\ id \notin Pending(th)' => Unused(id)'
  BY Zenon, <1>1 DEF Unused, Stored
<1>4. ASSUME NEW o \in Thread, NEW i \in (DOMAIN creates[o])'
      PROVE  /\ ~ Stored(creates[o][i].id)'
             /\ creates'[o][i].state = "Pending"
             /\ \A j \in (DOMAIN creates[o])' : creates'[o][i].id = creates'[o][j].id => i = j
  <2>1. CASE o = th
    BY Zenon, <2>1 DEF Reserves, Unused, Stored
  <2>2. CASE o # th
    <3>1. creates'[o] = creates[o]
      BY Zenon, <2>2
    <3>2. /\ ~ Stored(creates[o][i].id) /\ creates[o][i].state = "Pending"
          /\ \A j \in DOMAIN creates[o] : creates[o][i].id = creates[o][j].id => i = j
      BY Zenon, <3>1, FreshEntry
    <3> QED BY Zenon, <3>1, <3>2 DEF Stored
  <2> QED BY Zenon, <2>1, <2>2
<1>5. \A o, other \in Thread : o # other => Pending(o)' \cap Pending(other)' = {}
  <2>1. ASSUME NEW o \in Thread, o # th, NEW id \in Pending(o)', id \in Pending(th)'
        PROVE  FALSE
    <3>1. PICK i \in DOMAIN list : id = list[i].id
      BY Zenon, <1>2, <2>1
    <3>2. Unused(list[i].id)
      BY DEF Reserves
    <3> QED BY Zenon, <1>1, <2>1, <3>1, <3>2 DEF Unused
  <2>2. \A o, other \in Thread \ {th} : o # other => Pending(o)' \cap Pending(other)' = {}
    <3>1. ASSUME NEW o \in Thread \ {th}, NEW other \in Thread \ {th}, o # other
          PROVE  Pending(o)' \cap Pending(other)' = {}
      <4>1. Pending(o)' = Pending(o) /\ Pending(other)' = Pending(other)
        BY Zenon, <1>1
      <4>2. Pending(o) \cap Pending(other) = {}
        BY Zenon, <3>1, FreshApart
      <4> QED BY <4>1, <4>2
    <3> QED BY Zenon, <3>1
  <2> QED BY <2>1, <2>2
<1>6. ASSUME NEW b \in Brief \ submitted', NEW id \in PlanIds(b) PROVE Unused(id)'
  <2>1. b \in Brief \ submitted /\ \A i \in DOMAIN list : list[i].id \notin PlanIds(b)
    BY DEF Reserves
  <2>2. Unused(id)
    BY Zenon, <2>1 DEF FreshInv
  <2>3. id \notin Pending(th)'
    BY <1>2, <2>1
  <2> QED BY <1>3, <2>2, <2>3
<1>7. ASSUME NEW k \in DOMAIN Uuid, k > minted' PROVE Unused(Uuid[k])'
  <2>1. k > minted /\ \A i \in DOMAIN list : list[i].id # Uuid[k]
    BY <1>7 DEF Reserves
  <2>2. Unused(Uuid[k])
    BY Zenon, <2>1 DEF FreshInv
  <2>3. Uuid[k] \notin Pending(th)'
    BY <1>2, <2>1
  <2> QED BY <1>3, <2>2, <2>3
<1> QED BY Zenon, <1>4, <1>5, <1>6, <1>7 DEF FreshInv

\* A handler that starts by reserving ids for the tasks it will create.
LEMMA BeginCreate ==
  ASSUME Inv, NEW th \in Thread, NEW h \in Handler, NEW c \in Task \cup {NoTask},
         NEW list \in Seq(Task), Begin(th, h, "create", c, list), ThreadInv(th)',
         Reserves(list), submitted' \in SUBSET Brief, minted' \in 0 .. Len(Uuid),
         UNCHANGED workers, calls' \in 0 .. MaxCalls
  PROVE  Inv'
<1>1. UNCHANGED <<tasks, planned, todo, child, unseen, faults, dispatched, done>> /\ TypeOK
  BY DEF Begin, Inv
<1>2. "create" \in Location
  BY DEF Location
<1>3. LocalTypes' /\ OthersSame(th) /\ creates'[th] = list
  BY Zenon, <1>1, <1>2, BeginLocals
<1>4. \A o \in Thread : ThreadInv(o)'
  BY <1>1, <1>3, BeginOthers
<1>5. TypeOK'
  BY Zenon, <1>1, <1>3 DEF TypeOK, LocalTypes, Stored, workers
<1>6. FreshInv'
  <2>1. \A o \in Thread \ {th} : creates'[o] = creates[o]
    BY Zenon, <1>3 DEF OthersSame, SameLocals
  <2>2. FreshInv /\ UNCHANGED tasks
    BY <1>1 DEF Inv
  <2> QED BY Zenon, <1>3, <2>1, <2>2, FreshReserved
<1>7. KnownToWorkers' /\ StoreInv' /\ WaitAll'
  BY Zenon, <1>1 DEF Inv, KnownToWorkers, StoreInv, WaitAll, Active, Ready, Stored, workers
<1> QED BY <1>4, <1>5, <1>6, <1>7 DEF Inv

=============================================================================
