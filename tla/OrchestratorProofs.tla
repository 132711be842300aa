------------------------- MODULE OrchestratorProofs -------------------------
(*****************************************************************************)
(* TLAPS proofs about Orchestrator, for every plan, every set of threads     *)
(* and every number of requests and faults: the type invariant, WaitAll and  *)
(* ActiveIsDispatched; and, where one thread runs all handlers, what no step *)
(* undoes: TerminalIsFinal and NothingErased.                                *)
(*****************************************************************************)
EXTENDS OrchestratorInvariant

\* submit reserves the ids of its plan.
LEMMA SubmitInv == ASSUME Inv, NEW th \in Thread, NEW b \in Brief, Submit(th, b) PROVE Inv'
<1>1. /\ Begin(th, "submit", "create", Plan[b][1], Plan[b]) /\ submitted' = submitted \cup {b}
      /\ b \notin submitted /\ UNCHANGED <<minted, workers, calls>> /\ TypeOK
  BY DEF Submit, Inv
<1>2. Plan[b] \in Seq(Task) /\ Plan[b] # << >> /\ Plan[b][1].blocked_by = {}
  BY ConstantsAssumption
<1>3. 1 \in DOMAIN Plan[b] /\ Plan[b][1] = Head(Plan[b])
  BY <1>2
<1>4. Plan[b][1] \in Task
  BY <1>3, IdsInId
<1>5. \A i \in DOMAIN Plan[b] :
        /\ Unused(Plan[b][i].id) /\ Plan[b][i].state = "Pending"
        /\ \A j \in DOMAIN Plan[b] : Plan[b][i].id = Plan[b][j].id => i = j
  BY <1>1, ConstantsAssumption DEF Inv, FreshInv, PlanIds
<1>6. ThreadInv(th)'
  <2>1. "create" \in Location /\ "submit" \in Handler
    BY DEF Location, Handler
  <2>2. /\ pc'[th] = "create" /\ op'[th] = "submit" /\ copy'[th] = Plan[b][1]
        /\ creates'[th] = Plan[b]
    BY <1>1, <1>2, <1>4, <2>1, BeginLocals
  <2>3. tasks' = tasks
    BY <1>1 DEF Begin
  <2>4. ~ Stored(Plan[b][1].id)
    BY <1>3, <1>5 DEF Unused
  <2> QED BY <1>2, <1>3, <1>4, <2>2, <2>3, <2>4 DEF ThreadInv, Stored
<1>7. \A d \in Brief \ submitted' :
        d \notin submitted /\ \A i \in DOMAIN Plan[b] : Plan[b][i].id \notin PlanIds(d)
  <2>1. SUFFICES ASSUME NEW d \in Brief, d \notin submitted' 
                 PROVE  d \notin submitted /\ \A i \in DOMAIN Plan[b] : Plan[b][i].id \notin PlanIds(d)
    OBVIOUS
  <2>2. d # b /\ d \notin submitted
    BY <1>1, <2>1
  <2>3. PlanIds(b) \cap PlanIds(d) = {}
    BY <2>2, ConstantsAssumption
  <2>4. \A i \in DOMAIN Plan[b] : Plan[b][i].id \in PlanIds(b)
    BY DEF PlanIds
  <2> QED BY <2>2, <2>3, <2>4
<1>8. \A k \in DOMAIN Uuid : k > minted' =>
        k > minted /\ \A i \in DOMAIN Plan[b] : Plan[b][i].id # Uuid[k]
  <2>1. \A k \in DOMAIN Uuid : Uuid[k] \notin PlanIds(b)
    BY ConstantsAssumption
  <2> QED BY <1>1, <2>1 DEF PlanIds
<1>9. submitted' \in SUBSET Brief /\ minted' \in 0 .. Len(Uuid) /\ calls' \in 0 .. MaxCalls
  BY <1>1 DEF TypeOK
<1>10. "submit" \in Handler
  BY DEF Handler
<1>11. Reserves(Plan[b])
  BY <1>5, <1>7, <1>8 DEF Reserves
<1> QED BY <1>1, <1>2, <1>4, <1>6, <1>9, <1>10, <1>11, BeginCreate

\* The uuids that are generated next are unused, distinct and of no plan.
LEMMA NextUuids ==
  ASSUME Inv, NEW n \in Nat, minted + n <= Len(Uuid)
  PROVE  /\ \A k \in 1 .. n : /\ minted + k \in DOMAIN Uuid /\ Uuid[minted + k] \in Id
                              /\ Unused(Uuid[minted + k])
                              /\ \A b \in Brief : Uuid[minted + k] \notin PlanIds(b)
         /\ \A k, j \in 1 .. n : Uuid[minted + k] = Uuid[minted + j] => k = j
         /\ \A k \in 1 .. n, j \in DOMAIN Uuid : j > minted + n => Uuid[minted + k] # Uuid[j]
<1>1. minted \in Nat /\ Uuid \in Seq(Id)
  BY ConstantsAssumption DEF Inv, TypeOK
<1>2. DOMAIN Uuid = 1 .. Len(Uuid) /\ Len(Uuid) \in Nat
  BY <1>1
<1>3. \A k \in 1 .. n : minted + k \in DOMAIN Uuid /\ minted + k > minted
  BY <1>1, <1>2
<1>4. \A k \in 1 .. n : Uuid[minted + k] \in Id
  BY <1>3, IdsInId
<1>5. \A k \in 1 .. n : Unused(Uuid[minted + k])
  BY <1>3 DEF Inv, FreshInv
<1>6. \A k \in 1 .. n : \A b \in Brief : Uuid[minted + k] \notin PlanIds(b)
  BY <1>3, ConstantsAssumption
<1>7. \A k, j \in 1 .. n : Uuid[minted + k] = Uuid[minted + j] => minted + k = minted + j
  BY <1>3, ConstantsAssumption
<1>8. \A k \in 1 .. n, j \in DOMAIN Uuid : Uuid[minted + k] = Uuid[j] => minted + k = j
  BY <1>3, ConstantsAssumption
<1>9. \A k, j \in 1 .. n : Uuid[minted + k] = Uuid[minted + j] => k = j
  BY <1>1, <1>7
<1>10. \A k \in 1 .. n, j \in DOMAIN Uuid : j > minted + n => minted + k # j
  BY <1>1, <1>2
<1> QED BY <1>3, <1>4, <1>5, <1>6, <1>8, <1>9, <1>10

\* on_epic_registered reserves one uuid.
LEMMA EpicInv == ASSUME Inv, NEW th \in Thread, on_epic_registered(th) PROVE Inv'
<1> DEFINE root == NewTask(Uuid[minted + 1], 0, {}, {})
           c == try_transition(root, "Submit")
<1>1. /\ Begin(th, "epic", "create", c, <<root>>) /\ minted' = minted + 1 /\ minted < Len(Uuid)
      /\ UNCHANGED <<submitted, workers, calls>> /\ TypeOK
  BY DEF on_epic_registered, Inv
<1>2. minted \in Nat /\ Len(Uuid) \in Nat /\ minted + 1 <= Len(Uuid)
  BY <1>1, ConstantsAssumption DEF TypeOK
<1>3. /\ minted + 1 \in DOMAIN Uuid /\ Uuid[minted + 1] \in Id
      /\ Unused(Uuid[minted + 1])
      /\ \A b \in Brief : Uuid[minted + 1] \notin PlanIds(b)
      /\ \A j \in DOMAIN Uuid : j > minted + 1 => Uuid[minted + 1] # Uuid[j]
  BY <1>2, NextUuids
<1>4. /\ root \in Task /\ root.id = Uuid[minted + 1] /\ root.state = "Pending"
      /\ root.blocked_by = {}
  BY <1>3 DEF NewTask, Task, HmasTask, Layer, TaskState
<1>5. c \in Task /\ c.id = root.id /\ c.blocked_by = {}
  <2>1. Target(root.layer, root.state, "Submit") \in TaskState
    BY <1>4, TargetType DEF Task, HmasTask, TaskEvent
  <2> HIDE DEF root
  <2> QED BY <1>4, <2>1 DEF try_transition, Task, HmasTask
<1> HIDE DEF root, c
<1>6. <<root>> \in Seq(Task) /\ DOMAIN <<root>> = {1} /\ <<root>>[1] = root /\ Len(<<root>>) = 1
      /\ Head(<<root>>) = root /\ <<root>> # << >>
  BY <1>4
<1>7. ThreadInv(th)'
  <2>1. "create" \in Location /\ "epic" \in Handler
    BY DEF Location, Handler
  <2> DEFINE list == <<root>>
  <2>2. Begin(th, "epic", "create", c, list) /\ list \in Seq(Task) /\ TypeOK
    BY <1>1, <1>6
  <2> HIDE DEF list
  <2>3. /\ pc'[th] = "create" /\ op'[th] = "epic" /\ copy'[th] = c /\ creates'[th] = list
    BY <1>5, <2>1, <2>2, BeginLocals
  <2> QED BY <1>4, <1>5, <1>6, <2>3 DEF ThreadInv, list
<1>8. submitted' \in SUBSET Brief /\ minted' \in 0 .. Len(Uuid) /\ calls' \in 0 .. MaxCalls
  BY <1>1, <1>2 DEF TypeOK
<1>9. "epic" \in Handler
  BY DEF Handler
<1>10. \A i \in DOMAIN <<root>> :
         /\ Unused(<<root>>[i].id) /\ <<root>>[i].state = "Pending"
         /\ \A j \in DOMAIN <<root>> : <<root>>[i].id = <<root>>[j].id => i = j
  BY <1>3, <1>4, <1>6
<1>11. \A b \in Brief \ submitted' :
         b \notin submitted /\ \A i \in DOMAIN <<root>> : <<root>>[i].id \notin PlanIds(b)
  BY <1>1, <1>3, <1>4, <1>6
<1>12. \A k \in DOMAIN Uuid : k > minted' =>
         k > minted /\ \A i \in DOMAIN <<root>> : <<root>>[i].id # Uuid[k]
  BY <1>1, <1>2, <1>3, <1>4, <1>6, ConstantsAssumption
<1>13. Reserves(<<root>>)
  BY <1>10, <1>11, <1>12 DEF Reserves
<1> QED BY Zenon, <1>1, <1>5, <1>6, <1>7, <1>8, <1>9, <1>13, BeginCreate

\* A request is about a stored task.
LEMMA RequestFacts ==
  ASSUME Inv, NEW th \in Thread, NEW id \in Id, NEW h, Request(th, h, id)
  PROVE  /\ tasks[id] \in Task /\ tasks[id].id = id /\ Stored(id)
         /\ calls' \in 0 .. MaxCalls /\ UNCHANGED <<submitted, workers>>
<1>1. calls' \in 0 .. MaxCalls
  BY ConstantsAssumption DEF Request, Inv, TypeOK
<1> QED BY <1>1, StoredTask DEF Request, Inv

\* A new task is a task, Pending.
LEMMA NewTaskTyped ==
  ASSUME NEW id \in Id, NEW layer \in Layer, NEW blockers \in SUBSET Id
  PROVE  LET t == NewTask(id, layer, {}, blockers)
         IN  t \in Task /\ t.id = id /\ t.state = "Pending"
BY DEF NewTask, Task, HmasTask, TaskState

\* split_task reserves a uuid per subtask and keeps a copy of the original.
LEMMA SplitInv == ASSUME Inv, NEW th \in Thread, NEW id \in Id, split_task(th, id) PROVE Inv'
<1> DEFINE t == tasks[id]
<1>1. /\ TypeOK /\ Request(th, "split", id) /\ t \in Task /\ t.id = id /\ Stored(id)
      /\ calls' \in 0 .. MaxCalls /\ UNCHANGED <<submitted, workers>>
  BY RequestFacts DEF split_task, Inv
<1>2. PICK n \in 1 .. MaxSplit, extra \in ExtraBlockers, malformed \in BOOLEAN :
        /\ minted + n <= Len(Uuid) /\ minted' = minted + n
        /\ Begin(th, "split", "create",
                 IF malformed THEN NoTask ELSE WithChildren(t, SplitChildren(t, n, extra)),
                 SplitChildren(t, n, extra))
  BY DEF split_task
<1> DEFINE new == SplitChildren(t, n, extra)
           c == IF malformed THEN NoTask ELSE WithChildren(t, new)
<1>3. /\ n \in Nat /\ n >= 1 /\ minted \in Nat /\ Len(Uuid) \in Nat /\ extra \in SUBSET Id
      /\ t.layer \in Layer
  BY <1>1, ConstantsAssumption DEF TypeOK, Task, HmasTask
<1>4. /\ \A k \in 1 .. n : /\ Uuid[minted + k] \in Id /\ Unused(Uuid[minted + k])
                           /\ \A b \in Brief : Uuid[minted + k] \notin PlanIds(b)
      /\ \A k, j \in 1 .. n : Uuid[minted + k] = Uuid[minted + j] => k = j
      /\ \A k \in 1 .. n, j \in DOMAIN Uuid : j > minted + n => Uuid[minted + k] # Uuid[j]
  BY Zenon, <1>2, <1>3, NextUuids
<1>5. ASSUME NEW k \in 1 .. n
      PROVE  /\ new[k] \in Task /\ new[k].id = Uuid[minted + k] /\ new[k].state = "Pending"
  <2> DEFINE blockers == {t.id} \cup extra \cup (IF k = 1 THEN {} ELSE {Uuid[minted + k - 1]})
  <2>1. blockers \in SUBSET Id
    <3>1. CASE k = 1
      BY <1>1, <1>3, <3>1
    <3>2. CASE k # 1
      <4>1. k - 1 \in 1 .. n /\ minted + (k - 1) = minted + k - 1
        BY <1>3, <3>2
      <4>2. Uuid[minted + k - 1] \in Id
        BY <1>4, <4>1
      <4> QED BY <1>1, <1>3, <3>2, <4>2
    <3> QED BY <3>1, <3>2
  <2>2. new[k] = NewTask(Uuid[minted + k], t.layer, {}, blockers)
    BY DEF SplitChildren
  <2> HIDE DEF blockers, new
  <2>3. Uuid[minted + k] \in Id
    BY <1>4
  <2> QED BY <1>3, <2>1, <2>2, <2>3, NewTaskTyped
<1>6. new = [k \in 1 .. n |-> new[k]]
  BY DEF SplitChildren
<1>7. Begin(th, "split", "create", c, new)
  BY <1>2
<1>8. c # NoTask => /\ c \in Task /\ c.id = id /\ c.blocked_by = t.blocked_by
                    /\ c.state = t.state
  <2>1. {new[k].id : k \in DOMAIN new} \in SUBSET Id
    BY <1>4, <1>5, <1>6
  <2> HIDE DEF new
  <2> QED BY <1>1, <2>1 DEF WithChildren, Task, HmasTask
<1> HIDE DEF new, c
<1>9. new \in Seq(Task) /\ DOMAIN new = 1 .. n /\ new # << >>
  <2>1. new \in [1 .. n -> Task]
    BY <1>5, <1>6
  <2>2. new \in Seq(Task) /\ Len(new) = n
    BY <1>3, <2>1
  <2> QED BY <1>3, <2>1, <2>2
<1>10. c \in Task \cup {NoTask}
  BY <1>8
<1>11. ThreadInv(th)'
  <2>1. "create" \in Location /\ "split" \in Handler
    BY DEF Location, Handler
  <2>2. /\ pc'[th] = "create" /\ op'[th] = "split" /\ copy'[th] = c /\ creates'[th] = new
    BY <1>1, <1>7, <1>9, <1>10, <2>1, BeginLocals
  <2>3. tasks' = tasks /\ done' = done
    BY <1>7 DEF Begin
  <2>4. c # NoTask => GoodCopy(th)'
    <3>1. Active(t) => Ready(t.blocked_by)
      BY Zenon, <1>1 DEF Inv, StoreInv
    <3> QED BY <1>1, <1>8, <2>2, <2>3, <3>1 DEF GoodCopy, Stored, Active, Ready
  <2> QED BY <1>9, <2>2, <2>4 DEF ThreadInv
<1>12. submitted' \in SUBSET Brief /\ minted' \in 0 .. Len(Uuid)
  BY <1>1, <1>2, <1>3 DEF TypeOK
<1>13. \A i \in DOMAIN new :
         /\ Unused(new[i].id) /\ new[i].state = "Pending"
         /\ \A j \in DOMAIN new : new[i].id = new[j].id => i = j
  BY Zenon, <1>4, <1>5, <1>9
<1>14. \A b \in Brief \ submitted' :
         b \notin submitted /\ \A i \in DOMAIN new : new[i].id \notin PlanIds(b)
  BY Zenon, <1>1, <1>4, <1>5, <1>9
<1>15. \A k \in DOMAIN Uuid : k > minted' =>
         k > minted /\ \A i \in DOMAIN new : new[i].id # Uuid[k]
  <2>1. \A k \in DOMAIN Uuid : k \in Nat
    <3>1. Uuid \in Seq(Id)
      BY Zenon, ConstantsAssumption
    <3> QED BY <3>1
  <2>2. \A k \in DOMAIN Uuid : k > minted' => k > minted + n /\ k > minted
    BY <1>2, <1>3, <2>1
  <2>3. \A k \in DOMAIN Uuid : k > minted + n =>
          \A i \in 1 .. n : Uuid[minted + i] # Uuid[k]
    BY <1>4
  <2>4. \A i \in DOMAIN new : i \in 1 .. n /\ new[i].id = Uuid[minted + i]
    BY Zenon, <1>5, <1>9
  <2> QED BY Zenon, <2>2, <2>3, <2>4
<1>16. "split" \in Handler
  BY DEF Handler
<1>17. Reserves(new)
  BY Zenon, <1>13, <1>14, <1>15 DEF Reserves
<1> QED BY Zenon, <1>1, <1>7, <1>9, <1>10, <1>11, <1>12, <1>16, <1>17, BeginCreate

\* An event is about a dispatched task, so about one that is stored and ready.
LEMMA DeliverFacts ==
  ASSUME Inv, NEW th \in Thread, NEW id \in Id, NEW h \in ReportKind, Deliver(th, h, id)
  PROVE  /\ tasks[id] \in Task /\ tasks[id].id = id /\ Stored(id) /\ Ready(tasks[id].blocked_by)
         /\ reports' \in [ReportKind -> [Id -> Nat]]
         /\ \A k \in ReportKind : \A x \in Id : reports'[k][x] <= reports[k][x]
         /\ calls' \in 0 .. MaxCalls /\ UNCHANGED <<submitted, minted, queue, running>>
<1>1. TypeOK /\ reports[h][id] > 0 /\ UNCHANGED <<submitted, minted, queue, running, calls>>
  BY DEF Deliver, Inv
<1>2. id \in dispatched
  BY Zenon, <1>1 DEF Inv, KnownToWorkers
<1>3. Stored(id) /\ Ready(tasks[id].blocked_by)
  BY <1>2 DEF Inv, WaitAll, Ready
<1>4. reports' \in [ReportKind -> [Id -> Nat]]
  BY <1>1 DEF Deliver, TypeOK
<1>5. \A k \in ReportKind : \A x \in Id : reports'[k][x] <= reports[k][x]
  BY <1>1 DEF Deliver, TypeOK
<1> QED BY <1>1, <1>3, <1>4, <1>5, StoredTask DEF TypeOK

\* The walks take a task to a task with the same blockers; a walk that makes a task active
\* started from an active or from a dispatched one.
LEMMA WalksOfTask ==
  ASSUME NEW t \in Task, NEW f \in {Started, Finished, Broken}
  PROVE  /\ Walk(f, t) \in Task /\ Walk(f, t).id = t.id /\ Walk(f, t).blocked_by = t.blocked_by
         /\ f = Finished /\ Active(Walk(f, t)) => Active(t)
<1>1. t.layer \in Layer /\ t.state \in TaskState
  BY DEF Task, HmasTask
<1>2. Started[t.layer][t.state] \in TaskState
  BY <1>1, StartedValue DEF TaskState
<1>3. Finished[t.layer][t.state] \in TaskState
  BY <1>1, FinishedValue DEF TaskState
<1>4. Broken[t.layer][t.state] \in TaskState
  BY <1>1, BrokenValue DEF TaskState
<1>5. f[t.layer][t.state] \in TaskState
  BY <1>2, <1>3, <1>4
<1>6. /\ Walk(f, t) \in Task /\ Walk(f, t).id = t.id /\ Walk(f, t).blocked_by = t.blocked_by
      /\ Walk(f, t).state = f[t.layer][t.state]
  BY <1>5, WalkTask
<1>7. ASSUME f = Finished, Active(Walk(f, t)) PROVE Active(t)
  <2>1. Walk(f, t).state \in {"Failed", "Completed"} /\ (t.state # "Failed" => Walk(f, t).state = "Completed")
    BY <1>1, <1>6, <1>7, FinishedValue
  <2> QED BY <1>7, <2>1 DEF Active
<1> QED BY <1>6, <1>7

\* The HTTP completion of a task, ready or not, never makes it active.
LEMMA CompleteRequestInv ==
  ASSUME Inv, NEW th \in Thread, NEW id \in Id, CompleteRequest(th, id) PROVE Inv'
<1> DEFINE t == tasks[id]
           c == Walk(Finished, t)
<1>1. /\ t \in Task /\ t.id = id /\ Stored(id) /\ calls' \in 0 .. MaxCalls
      /\ UNCHANGED <<submitted, workers, minted>> /\ Begin(th, "httpComplete", "write", c, << >>)
  BY Zenon, RequestFacts DEF CompleteRequest
<1>2. /\ c \in Task /\ c.id = id /\ c.blocked_by = t.blocked_by
      /\ Active(c) => Active(t)
  BY <1>1, WalksOfTask
<1> HIDE DEF c
<1>3. Active(c) => Ready(c.blocked_by)
  BY <1>1, <1>2 DEF Inv, StoreInv
<1>4. "httpComplete" \in Handler /\ "httpComplete" \notin Dispatching
  BY DEF Handler, Dispatching
<1>5. /\ reports' \in [ReportKind -> [Id -> Nat]]
      /\ \A k \in ReportKind : \A x \in Id : reports'[k][x] <= reports[k][x]
      /\ UNCHANGED <<submitted, minted, queue, running>>
  BY <1>1 DEF Inv, TypeOK, workers
<1> QED BY Zenon, <1>1, <1>2, <1>3, <1>4, <1>5, BeginWrite

\* escalate starts from a task that is InProgress, so ready.
LEMMA EscalateInv == ASSUME Inv, NEW th \in Thread, NEW id \in Id, escalate(th, id) PROVE Inv'
<1> DEFINE t == tasks[id]
           u == try_transition(t, "Escalate")
           c == [u EXCEPT !.escalations = @ + 1]
<1>1. /\ t \in Task /\ t.id = id /\ Stored(id) /\ calls' \in 0 .. MaxCalls
      /\ UNCHANGED <<submitted, workers, minted>> /\ Begin(th, "escalate", "write", c, << >>)
      /\ Accepts(t, "Escalate")
  BY RequestFacts DEF escalate
<1>2. t.layer \in Layer /\ t.state \in TaskState
  BY <1>1 DEF Task, HmasTask
<1>3. Active(t)
  BY <1>1, <1>2 DEF Accepts, Target, Active
<1>4. Target(t.layer, t.state, "Escalate") \in TaskState
  BY <1>2, TargetType DEF TaskEvent
<1>5. u \in Task /\ u.id = id /\ u.blocked_by = t.blocked_by
  BY <1>1, <1>4 DEF try_transition, Task, HmasTask
<1> HIDE DEF u
<1>6. c \in Task /\ c.id = id /\ c.blocked_by = t.blocked_by
  BY <1>5 DEF Task, HmasTask
<1> HIDE DEF c
<1>7. Ready(c.blocked_by)
  BY Zenon, <1>1, <1>3, <1>6 DEF Inv, StoreInv
<1>8. "escalate" \in Handler
  BY DEF Handler
<1>9. /\ reports' \in [ReportKind -> [Id -> Nat]]
      /\ \A k \in ReportKind : \A x \in Id : reports'[k][x] <= reports[k][x]
      /\ UNCHANGED <<submitted, minted, queue, running>>
  BY <1>1 DEF Inv, TypeOK, workers
<1> QED BY <1>1, <1>6, <1>7, <1>8, <1>9, BeginWrite

\* A `started' event takes a dispatched task to InProgress.
LEMMA StartedInv ==
  ASSUME Inv, NEW th \in Thread, NEW id \in Id, on_myrmidon_started(th, id) PROVE Inv'
<1> DEFINE t == tasks[id]
           u == Walk(Started, t)
<1>1. Deliver(th, "started", id) /\ "started" \in ReportKind /\ "started" \in Handler
  BY DEF on_myrmidon_started, ReportKind, Handler
<1>2. PICK named \in Announce :
        Begin(th, "started", "write", [u EXCEPT !.claimed = @ \/ named], << >>)
  BY DEF on_myrmidon_started
<1> DEFINE c == [u EXCEPT !.claimed = @ \/ named]
<1>3. t \in Task /\ t.id = id /\ Stored(id) /\ Ready(t.blocked_by)
  BY Zenon, <1>1, DeliverFacts
<1>4. u \in Task /\ u.id = id /\ u.blocked_by = t.blocked_by
  BY Zenon, <1>3, WalksOfTask
<1> HIDE DEF u
<1>5. (u.claimed \/ named) \in BOOLEAN
  OBVIOUS
<1>6. c \in Task /\ c.id = id /\ c.blocked_by = t.blocked_by
  BY Zenon, <1>4, <1>5 DEF Task, HmasTask
<1>7. Begin(th, "started", "write", c, << >>)
  BY <1>2
<1> HIDE DEF c
<1> QED BY Zenon, <1>1, <1>3, <1>6, <1>7, DeliverFacts, BeginWrite

\* A completion event completes a dispatched task.
LEMMA CompletionInv ==
  ASSUME Inv, NEW th \in Thread, NEW id \in Id, on_myrmidon_completion(th, id) PROVE Inv'
<1> DEFINE t == tasks[id]
           c == Walk(Finished, t)
<1>1. /\ Deliver(th, "complete", id) /\ "complete" \in ReportKind /\ "complete" \in Handler
      /\ Begin(th, "complete", "write", c, << >>)
  BY DEF on_myrmidon_completion, ReportKind, Handler
<1>2. t \in Task /\ t.id = id /\ Stored(id) /\ Ready(t.blocked_by)
  BY Zenon, <1>1, DeliverFacts
<1>3. c \in Task /\ c.id = id /\ c.blocked_by = t.blocked_by
  BY <1>2, WalksOfTask
<1> HIDE DEF c
<1> QED BY <1>1, <1>2, <1>3, DeliverFacts, BeginWrite

\* A failure event fails a dispatched task.
LEMMA FailedInv ==
  ASSUME Inv, NEW th \in Thread, NEW id \in Id, on_myrmidon_failed(th, id) PROVE Inv'
<1> DEFINE t == tasks[id]
           c == Walk(Broken, t)
<1>1. /\ Deliver(th, "fail", id) /\ "fail" \in ReportKind /\ "fail" \in Handler
      /\ Begin(th, "fail", "write", c, << >>)
  BY DEF on_myrmidon_failed, ReportKind, Handler
<1>2. t \in Task /\ t.id = id /\ Stored(id) /\ Ready(t.blocked_by)
  BY <1>1, DeliverFacts
<1>3. c \in Task /\ c.id = id /\ c.blocked_by = t.blocked_by
  BY <1>2, WalksOfTask
<1> HIDE DEF c
<1> QED BY Zenon, <1>1, <1>2, <1>3, DeliverFacts, BeginWrite

(***************************************************************************)
(* The theorems.                                                           *)
(***************************************************************************)

\* Nothing is stored, reserved or published initially.
LEMMA InitInv == Init => Inv
<1> SUFFICES ASSUME Init PROVE Inv
  OBVIOUS
<1>0. Len(Uuid) \in Nat /\ << >> \in Seq(Task) /\ MaxCalls \in Nat /\ MaxFaults \in Nat
  <2>1. Uuid \in Seq(Id) /\ MaxCalls \in Nat /\ MaxFaults \in Nat
    BY ConstantsAssumption
  <2> QED BY <2>1, EmptySeq
<1> USE DEF Init
<1>1. \A id \in Id : ~ Stored(id)
  BY DEF Stored
<1>2. TypeOK
  <2>1. /\ tasks \in [Id -> Task \cup {NoTask}]
        /\ queue \in [Id -> Nat] /\ running \in [Id -> Nat]
        /\ reports \in [ReportKind -> [Id -> Nat]]
    OBVIOUS
  <2>2. /\ pc \in [Thread -> Location] /\ op \in [Thread -> Handler \cup {"none", "delegate"}]
        /\ copy \in [Thread -> Task \cup {NoTask}]
    BY DEF Location
  <2>3. creates \in [Thread -> Seq(Task)]
    BY <1>0
  <2>4. /\ todo \in [Thread -> SUBSET Id] /\ child \in [Thread -> Id \cup {NoTask}]
        /\ unseen \in [Thread -> SUBSET Id]
    OBVIOUS
  <2>5. minted \in 0 .. Len(Uuid) /\ calls \in 0 .. MaxCalls /\ faults \in 0 .. MaxFaults
    BY <1>0
  <2>6. submitted \subseteq Brief /\ planned \subseteq Brief /\ dispatched \subseteq Id /\ done \subseteq Id
    OBVIOUS
  <2> HIDE DEF Init
  <2> QED BY <1>1, <2>1, <2>2, <2>3, <2>4, <2>5, <2>6 DEF TypeOK
<1>3. \A th \in Thread : ThreadInv(th)
  BY DEF ThreadInv
<1>4. \A th \in Thread : DOMAIN creates[th] = {} /\ Pending(th) = {}
  <2>1. \A th \in Thread : DOMAIN creates[th] = {}
    OBVIOUS
  <2> HIDE DEF Init
  <2> QED BY <2>1 DEF Pending
<1>5. \A id \in Id : Unused(id)
  BY <1>1, <1>4 DEF Unused
<1>6. FreshInv
  <2>1. \A b \in Brief : PlanIds(b) \subseteq Id
    BY IdsInId DEF PlanIds
  <2>2. \A b \in Brief : \A id \in PlanIds(b) : Unused(id)
    BY <1>5, <2>1
  <2>3. \A k \in DOMAIN Uuid : Unused(Uuid[k])
    BY <1>5, IdsInId
  <2>4. \A th, other \in Thread : Pending(th) \cap Pending(other) = {}
    BY <1>4
  <2> HIDE DEF Init
  <2> QED BY <1>4, <2>2, <2>3, <2>4 DEF FreshInv
<1>7. KnownToWorkers /\ StoreInv /\ WaitAll
  <2>1. \A id \in Id : queue[id] = 0 /\ running[id] = 0 /\ \A k \in ReportKind : reports[k][id] = 0
    OBVIOUS
  <2>2. dispatched = {}
    OBVIOUS
  <2> HIDE DEF Init
  <2>3. KnownToWorkers
    BY <2>1 DEF KnownToWorkers
  <2>4. StoreInv /\ WaitAll
    BY <1>1, <2>2 DEF StoreInv, WaitAll
  <2> QED BY <2>3, <2>4
<1> QED BY <1>2, <1>3, <1>6, <1>7 DEF Inv

\* Every step of every handler and of the workers keeps the invariant.
LEMMA NextInv == Inv /\ [Next]_vars => Inv'
<1> SUFFICES ASSUME Inv, [Next]_vars PROVE Inv'
  OBVIOUS
<1>1. CASE UNCHANGED vars
  <2>1. /\ UNCHANGED <<tasks, submitted, planned, minted, locals, calls, faults, dispatched, done>>
        /\ UNCHANGED <<queue, running, reports>>
    BY <1>1 DEF vars, workers
  <2>2. /\ queue' \in [Id -> Nat] /\ running' \in [Id -> Nat]
        /\ reports' \in [ReportKind -> [Id -> Nat]] /\ KnownToWorkers'
    BY <2>1 DEF Inv, TypeOK, KnownToWorkers
  <2> QED BY <2>1, <2>2, WorkerStep
<1>2. ASSUME NEW th \in Thread, Continue(th) PROVE Inv'
  BY <1>2, CreateInv, SubmitRootInv, UpdateInv, DispatchInv, ChildrenInv, VisitChildInv,
     CheckBlockerInv, DelegateInv DEF Continue
<1>3. ASSUME NEW th \in Thread, NEW id \in Id, Receive(th, id) PROVE Inv'
  BY <1>3, StartedInv, CompletionInv, FailedInv DEF Receive
<1> QED BY <1>1, <1>2, <1>3, SubmitInv, EpicInv, EscalateInv, SplitInv, CompleteRequestInv,
          CreateThrowsInv, UpdateThrowsInv, ClaimInv, FinishInv DEF Next

\* Inv is inductive, so it holds in every reachable state of every instance.
THEOREM Invariance == Spec => []Inv
BY InitInv, NextInv, PTL DEF Spec

\* Stored, copied and created records are whole HMAS tasks filed under their own ids, and no
\* count of messages becomes negative, for every plan, thread pool and bound.
THEOREM TypeCorrect == Spec => []TypeOK
<1>1. Inv => TypeOK
  BY DEF Inv
<1> QED BY <1>1, Invariance, PTL

\* submit, on_epic_registered, escalate and delegate publish a task only after everything it
\* is blocked by has been stored as Completed, for every plan and any overlap of handlers.
THEOREM WaitsForBlockers == Spec => []WaitAll
<1>1. Inv => WaitAll
  BY DEF Inv
<1> QED BY <1>1, Invariance, PTL

(***************************************************************************)
(* ActiveIsDispatched.                                                     *)
(***************************************************************************)

\* A handler that does not publish what it writes holds an active copy only of a task whose
\* dispatch is certain.
CopyCovered(th) ==
  pc[th] \in {"create", "write"} /\ op[th] \notin Dispatching /\ copy[th] # NoTask =>
    (Active(copy[th]) => Covered(copy[th].id))

\* Only delegate_unblocked_children visits children.
Visiting(th) == pc[th] \in {"visit", "blockers"} => op[th] = "delegate"

ActiveInv ==
  /\ ActiveIsDispatched
  /\ \A th \in Thread : Visiting(th) /\ (faults = 0 => CopyCovered(th))

\* A dispatch that is certain stays so while one thread takes a step.
LEMMA CoveredKept ==
  ASSUME NEW th \in Thread, OthersSame(th), dispatched \subseteq dispatched',
         pc[th] = "dispatch" => copy[th].id \in dispatched'
  PROVE  \A id : Covered(id) => Covered(id)'
BY DEF Covered, OthersSame, SameLocals

\* What a step of one thread leaves to show of ActiveInv.
LEMMA ActiveStep ==
  ASSUME ActiveInv, NEW th \in Thread, OthersSame(th), dispatched \subseteq dispatched',
         pc[th] = "dispatch" => copy[th].id \in dispatched', faults' = faults,
         faults = 0 => \A id \in Id : Stored(id)' /\ Active(tasks'[id]) =>
                         (Stored(id) /\ Active(tasks[id])) \/ Covered(id)',
         Visiting(th)', faults = 0 => CopyCovered(th)'
  PROVE  ActiveInv'
<1>1. \A id : Covered(id) => Covered(id)'
  BY CoveredKept
<1>2. ActiveIsDispatched'
  <2> SUFFICES ASSUME faults = 0, NEW id \in Id, Stored(id)', Active(tasks'[id])
               PROVE  Covered(id)'
    BY DEF ActiveIsDispatched, Active
  <2>1. CASE Stored(id) /\ Active(tasks[id])
    BY <1>1, <2>1 DEF ActiveInv, ActiveIsDispatched, Active
  <2> QED BY <2>1
<1>3. ASSUME NEW o \in Thread PROVE Visiting(o)' /\ (faults' = 0 => CopyCovered(o)')
  <2>1. CASE o = th
    BY <2>1
  <2>2. CASE o # th
    <3>1. pc'[o] = pc[o] /\ op'[o] = op[o] /\ copy'[o] = copy[o]
      BY Zenon, <2>2 DEF OthersSame, SameLocals
    <3>2. Visiting(o) /\ (faults = 0 => CopyCovered(o))
      BY Zenon DEF ActiveInv
    <3> QED BY <1>1, <3>1, <3>2 DEF Visiting, CopyCovered, Active
  <2> QED BY <2>1, <2>2
<1> QED BY <1>2, <1>3 DEF ActiveInv

\* A step that neither writes the store nor publishes, and after which the thread holds no
\* copy that it will write without publishing it.
LEMMA ActiveLocal ==
  ASSUME ActiveInv, NEW th \in Thread, OthersSame(th), UNCHANGED <<tasks, dispatched, faults>>,
         pc[th] # "dispatch",
         pc'[th] \in {"create", "write"} => op'[th] \in Dispatching,
         pc'[th] \in {"visit", "blockers"} => op'[th] = "delegate"
  PROVE  ActiveInv'
<1>1. \A id \in Id : Stored(id)' /\ Active(tasks'[id]) => Stored(id) /\ Active(tasks[id])
  BY DEF Stored, Active
<1>2. Visiting(th)' /\ CopyCovered(th)'
  BY Zenon DEF Visiting, CopyCovered
<1> QED BY Zenon, <1>1, <1>2, ActiveStep

\* The locals of the thread that starts a handler, and those of the others.
LEMMA BeginThread ==
  ASSUME TypeOK, NEW th \in Thread, NEW h, NEW at, NEW c, NEW list, Begin(th, h, at, c, list)
  PROVE  /\ OthersSame(th) /\ pc'[th] = at /\ op'[th] = h /\ copy'[th] = c
         /\ creates'[th] = list /\ UNCHANGED <<tasks, dispatched, faults, done>>
BY DEF Begin, TypeOK, OthersSame, SameLocals

LEMMA ActiveBegin ==
  ASSUME TypeOK, ActiveInv, NEW th \in Thread, NEW h, NEW at \in {"create", "write"}, NEW c,
         NEW list, Begin(th, h, at, c, list), pc[th] = "idle",
         h \in Dispatching \/ c = NoTask \/ (faults = 0 /\ Active(c) => Covered(c.id))
  PROVE  ActiveInv'
<1>1. /\ OthersSame(th) /\ pc'[th] = at /\ op'[th] = h /\ copy'[th] = c
      /\ UNCHANGED <<tasks, dispatched, faults>>
  BY Zenon, BeginThread
<1>2. \A id : Covered(id) => Covered(id)'
  BY Zenon, <1>1, CoveredKept
<1>3. faults = 0 => CopyCovered(th)'
  BY <1>1, <1>2 DEF CopyCovered, Active
<1>4. Visiting(th)'
  BY <1>1 DEF Visiting
<1>5. \A id \in Id : Stored(id)' /\ Active(tasks'[id]) => Stored(id) /\ Active(tasks[id])
  BY <1>1 DEF Stored, Active
<1> QED BY Zenon, <1>1, <1>3, <1>4, <1>5, ActiveStep

\* Every handler starts with a copy that it will publish, that is not active, or whose
\* dispatch is certain.
LEMMA StartsActive ==
  ASSUME Inv, ActiveInv, NEW th \in Thread, NEW id \in Id,
         \/ escalate(th, id) \/ split_task(th, id) \/ CompleteRequest(th, id) \/ Receive(th, id)
  PROVE  ActiveInv'
<1>0. TypeOK
  BY DEF Inv
<1>1. CASE escalate(th, id)
  <2>1. "escalate" \in Dispatching
    BY DEF Dispatching
  <2>2. pc[th] = "idle"
    BY <1>1 DEF escalate, Request, Free
  <2> QED BY <1>0, <1>1, <2>1, <2>2, ActiveBegin DEF escalate
<1>2. CASE split_task(th, id)
  <2>1. tasks[id] \in Task /\ tasks[id].id = id /\ Stored(id)
    BY Zenon, <1>2, RequestFacts DEF split_task
  <2>2. PICK n \in 1 .. MaxSplit, extra \in ExtraBlockers, malformed \in BOOLEAN :
          Begin(th, "split", "create",
                IF malformed THEN NoTask ELSE WithChildren(tasks[id], SplitChildren(tasks[id], n, extra)),
                SplitChildren(tasks[id], n, extra))
    BY <1>2 DEF split_task
  <2> DEFINE new == SplitChildren(tasks[id], n, extra)
  <2> HIDE DEF new
  <2>3. WithChildren(tasks[id], new).state = tasks[id].state /\ WithChildren(tasks[id], new).id = id
    BY <2>1 DEF WithChildren, Task, HmasTask
  <2> DEFINE c == IF malformed THEN NoTask ELSE WithChildren(tasks[id], new)
  <2>4. c = NoTask \/ (c.state = tasks[id].state /\ c.id = id)
    BY Zenon, <2>3
  <2>5. c = NoTask \/ (faults = 0 /\ Active(c) => Covered(c.id))
    BY Zenon, <2>1, <2>4 DEF ActiveInv, ActiveIsDispatched, Active
  <2>6. pc[th] = "idle" /\ Begin(th, "split", "create", c, new)
    BY Zenon, <1>2, <2>2 DEF split_task, Request, Free, new
  <2> HIDE DEF c
  <2> QED BY Zenon, <1>0, <2>5, <2>6, ActiveBegin
<1>3. CASE CompleteRequest(th, id)
  <2> DEFINE c == Walk(Finished, tasks[id])
  <2>1. tasks[id] \in Task /\ tasks[id].id = id /\ Stored(id)
    BY Zenon, <1>3, RequestFacts DEF CompleteRequest
  <2>2. c.id = id /\ (Active(c) => Active(tasks[id]))
    BY Zenon, <2>1, WalksOfTask
  <2>3. pc[th] = "idle" /\ Begin(th, "httpComplete", "write", c, << >>)
    BY Zenon, <1>3 DEF CompleteRequest, Request, Free
  <2> HIDE DEF c
  <2>4. faults = 0 /\ Active(c) => Covered(c.id)
    BY Zenon, <2>1, <2>2 DEF ActiveInv, ActiveIsDispatched, Active
  <2> QED BY Zenon, <1>0, <2>3, <2>4, ActiveBegin
<1>4. ASSUME NEW h \in ReportKind, Deliver(th, h, id), NEW c, c.id = id,
             Begin(th, h, "write", c, << >>)
      PROVE  ActiveInv'
  <2>1. id \in dispatched
    BY <1>4 DEF Deliver, Inv, KnownToWorkers
  <2>2. Covered(c.id) /\ pc[th] = "idle"
    BY <1>4, <2>1 DEF Covered, Deliver, Free
  <2> QED BY Zenon, <1>0, <1>4, <2>2, ActiveBegin
<1>5. CASE on_myrmidon_started(th, id)
  <2>1. Deliver(th, "started", id) /\ "started" \in ReportKind
    BY <1>5 DEF on_myrmidon_started, ReportKind
  <2>2. PICK named \in Announce :
          Begin(th, "started", "write", [Walk(Started, tasks[id]) EXCEPT !.claimed = @ \/ named], << >>)
    BY <1>5 DEF on_myrmidon_started
  <2>3. Walk(Started, tasks[id]) \in Task /\ Walk(Started, tasks[id]).id = id
    BY Zenon, <2>1, DeliverFacts, WalksOfTask
  <2>4. [Walk(Started, tasks[id]) EXCEPT !.claimed = @ \/ named].id = id
    BY <2>3 DEF Task, HmasTask
  <2> QED BY Zenon, <1>4, <2>1, <2>2, <2>4
<1>6. CASE on_myrmidon_completion(th, id)
  <2>1. Deliver(th, "complete", id) /\ "complete" \in ReportKind
    BY <1>6 DEF on_myrmidon_completion, ReportKind
  <2>2. Walk(Finished, tasks[id]).id = id
    BY Zenon, <2>1, DeliverFacts, WalksOfTask
  <2> QED BY Zenon, <1>4, <1>6, <2>1, <2>2 DEF on_myrmidon_completion
<1>7. CASE on_myrmidon_failed(th, id)
  <2>1. Deliver(th, "fail", id) /\ "fail" \in ReportKind
    BY <1>7 DEF on_myrmidon_failed, ReportKind
  <2>2. Walk(Broken, tasks[id]).id = id
    BY Zenon, <2>1, DeliverFacts, WalksOfTask
  <2> QED BY Zenon, <1>4, <1>7, <2>1, <2>2 DEF on_myrmidon_failed
<1> QED BY <1>1, <1>2, <1>3, <1>5, <1>6, <1>7 DEF Receive

\* submit and on_epic_registered publish what they write.
LEMMA CreatorsActive ==
  ASSUME Inv, ActiveInv, NEW th \in Thread,
         on_epic_registered(th) \/ \E b \in Brief : Submit(th, b)
  PROVE  ActiveInv'
<1>0. TypeOK /\ "submit" \in Dispatching /\ "epic" \in Dispatching
  BY DEF Inv, Dispatching
<1>1. PICK h \in Dispatching : \E c, list : Begin(th, h, "create", c, list)
  BY Zenon, <1>0 DEF Submit, on_epic_registered
<1>2. pc[th] = "idle"
  BY Zenon DEF Submit, on_epic_registered, Free
<1>3. PICK c, list : Begin(th, h, "create", c, list)
  BY <1>1
<1> QED BY <1>0, <1>1, <1>2, <1>3, ActiveBegin

\* The end of a handler, and the next child of a walk, leave no copy behind.
LEMMA ReturnThread ==
  ASSUME TypeOK, NEW th \in Thread, Return(th)
  PROVE  OthersSame(th) /\ pc'[th] = "idle" /\ creates'[th] = << >>
BY Zenon DEF Return, TypeOK, OthersSame, SameLocals

LEMMA NextChildThread ==
  ASSUME TypeOK, NEW th \in Thread, NEW rest, NextChild(th, rest)
  PROVE  /\ OthersSame(th) /\ pc'[th] \in {"idle", "visit"}
         /\ pc'[th] = "visit" => op'[th] = "delegate"
<1>1. CASE rest = {}
  BY <1>1, ReturnThread DEF NextChild
<1>2. CASE rest # {}
  <2>1. /\ pc \in [Thread -> Location] /\ op \in [Thread -> Handler \cup {"none", "delegate"}]
        /\ copy \in [Thread -> Task \cup {NoTask}] /\ todo \in [Thread -> SUBSET Id]
        /\ child \in [Thread -> Id \cup {NoTask}] /\ unseen \in [Thread -> SUBSET Id]
    BY DEF TypeOK
  <2>2. /\ pc' = [pc EXCEPT ![th] = "visit"] /\ op' = [op EXCEPT ![th] = "delegate"]
        /\ copy' = [copy EXCEPT ![th] = NoTask] /\ todo' = [todo EXCEPT ![th] = rest]
        /\ child' = [child EXCEPT ![th] = NoTask] /\ unseen' = [unseen EXCEPT ![th] = {}]
        /\ creates' = creates
    BY <1>2 DEF NextChild
  <2>3. ASSUME NEW o \in Thread \ {th} PROVE SameLocals(o)
    BY <2>1, <2>2 DEF SameLocals
  <2> QED BY <2>1, <2>2, <2>3 DEF OthersSame
<1> QED BY <1>1, <1>2

\* Reading: the steps between two writes.
LEMMA ReadingActive ==
  ASSUME Inv, ActiveInv, NEW th \in Thread,
         \/ SubmitRoot(th) \/ delegate_unblocked_children(th) \/ delegate(th)
         \/ \E c \in todo[th] : VisitChild(th, c)
         \/ \E b \in unseen[th] : CheckBlocker(th, b)
  PROVE  ActiveInv'
<1>0. TypeOK /\ ThreadInv(th) /\ Visiting(th)
  BY Zenon DEF Inv, ActiveInv
<1>1. UNCHANGED <<tasks, dispatched, faults>> /\ pc[th] # "dispatch"
  BY Zenon DEF SubmitRoot, delegate_unblocked_children, delegate, VisitChild, CheckBlocker, Effects
<1>2. ASSUME NEW rest, NextChild(th, rest) PROVE ActiveInv'
  <2>1. /\ OthersSame(th) /\ pc'[th] \in {"idle", "visit"}
        /\ pc'[th] = "visit" => op'[th] = "delegate"
    BY Zenon, <1>0, <1>2, NextChildThread
  <2> QED BY Zenon, <1>1, <2>1, ActiveLocal
<1>3. CASE SubmitRoot(th)
  <2>1. /\ OthersSame(th) /\ pc'[th] = "write" /\ op'[th] = "submit"
    BY Zenon, <1>0, <1>3 DEF SubmitRoot, ThreadInv, TypeOK, OthersSame, SameLocals
  <2> QED BY Zenon, <1>1, <2>1, ActiveLocal DEF Dispatching
<1>4. CASE delegate_unblocked_children(th)
  BY Zenon, <1>2, <1>4 DEF delegate_unblocked_children
<1>5. ASSUME NEW c \in todo[th], VisitChild(th, c) PROVE ActiveInv'
  <2>1. CASE Stored(c) /\ tasks[c].state = "Pending"
    <3>1. pc[th] = "visit" /\ op[th] = "delegate"
      BY Zenon, <1>0, <1>5 DEF VisitChild, Visiting
    <3>2. /\ OthersSame(th) /\ pc'[th] = "blockers" /\ op'[th] = "delegate"
      BY Zenon, <1>0, <1>5, <2>1, <3>1 DEF VisitChild, TypeOK, OthersSame, SameLocals
    <3> QED BY <1>1, <3>2, ActiveLocal
  <2>2. CASE ~ (Stored(c) /\ tasks[c].state = "Pending")
    BY Zenon, <1>2, <1>5, <2>2 DEF VisitChild
  <2> QED BY Zenon, <2>1, <2>2
<1>6. ASSUME NEW b \in unseen[th], CheckBlocker(th, b) PROVE ActiveInv'
  <2>1. CASE Clear(b)
    <3>1. pc[th] = "blockers" /\ op[th] = "delegate"
      BY Zenon, <1>0, <1>6 DEF CheckBlocker, Visiting
    <3>2. /\ OthersSame(th) /\ pc'[th] = "blockers" /\ op'[th] = "delegate"
      BY Zenon, <1>0, <1>6, <2>1, <3>1 DEF CheckBlocker, TypeOK, OthersSame, SameLocals
    <3> QED BY <1>1, <3>2, ActiveLocal
  <2>2. CASE ~ Clear(b)
    BY Zenon, <1>2, <1>6, <2>2 DEF CheckBlocker
  <2> QED BY <2>1, <2>2
<1>7. CASE delegate(th)
  <2> DEFINE t == tasks[child[th]]
  <2>1. CASE Assigned[t.layer][t.state] = t.state
    BY Zenon, <1>2, <1>7, <2>1 DEF delegate
  <2>2. CASE Assigned[t.layer][t.state] # t.state
    <3>1. op[th] = "delegate"
      BY Zenon, <1>0, <1>7 DEF delegate, Visiting
    <3>2. /\ OthersSame(th) /\ pc'[th] = "write" /\ op'[th] = "delegate"
      BY Zenon, <1>0, <1>7, <2>2, <3>1 DEF delegate, TypeOK, OthersSame, SameLocals
    <3> QED BY Zenon, <1>1, <3>2, ActiveLocal DEF Dispatching
  <2> QED BY Zenon, <2>1, <2>2
<1> QED BY Zenon, <1>3, <1>4, <1>5, <1>6, <1>7

\* A created task is Pending.
LEMMA CreateActive ==
  ASSUME Inv, ActiveInv, NEW th \in Thread, create_hmas_task(th) PROVE ActiveInv'
<1> DEFINE t == Head(creates[th])
<1>0. TypeOK /\ FreshInv /\ ThreadInv(th) /\ pc[th] = "create" /\ creates[th] # << >>
  BY Zenon DEF Inv, ThreadInv, create_hmas_task
<1>1. /\ tasks' = [tasks EXCEPT ![t.id] = t] /\ UNCHANGED <<dispatched, faults>>
  BY DEF create_hmas_task
<1>2. t.state = "Pending"
  <2>1. creates[th] \in Seq(Task)
    BY <1>0 DEF TypeOK
  <2>2. t = creates[th][1] /\ 1 \in DOMAIN creates[th]
    BY <1>0, <2>1
  <2> QED BY <1>0, <2>2, FreshEntry
<1> HIDE DEF t
<1>3. \A id \in Id : Stored(id)' /\ Active(tasks'[id]) => Stored(id) /\ Active(tasks[id])
  BY <1>0, <1>1, <1>2 DEF TypeOK, Stored, Active
<1>4. /\ OthersSame(th)
      /\ \/ pc'[th] \in {"idle", "root"}
         \/ pc'[th] \in {"create", "write"} /\ op'[th] = op[th] /\ copy'[th] = copy[th]
  <2>1. CASE Len(creates[th]) = 1
    <3>1. CASE copy[th] = NoTask
      BY Zenon, <1>0, <2>1, <3>1, ReturnThread DEF create_hmas_task, AllCreated
    <3>2. CASE copy[th] # NoTask
      <4>1. PICK at \in {"root", "write"} : Goto(th, at)
        BY Zenon, <2>1, <3>2 DEF create_hmas_task, AllCreated
      <4> QED BY Zenon, <1>0, <4>1 DEF Goto, TypeOK, OthersSame, SameLocals
    <3> QED BY Zenon, <3>1, <3>2
  <2>2. CASE Len(creates[th]) # 1
    BY Zenon, <1>0, <2>2 DEF create_hmas_task, TypeOK, OthersSame, SameLocals
  <2> QED BY Zenon, <2>1, <2>2
<1>5. \A id : Covered(id) => Covered(id)'
  BY Zenon, <1>0, <1>1, <1>4, CoveredKept
<1>6. faults = 0 => CopyCovered(th)'
  <2>1. faults = 0 => CopyCovered(th)
    BY DEF ActiveInv
  <2> QED BY Zenon, <1>0, <1>4, <1>5, <2>1 DEF CopyCovered, Active
<1>7. Visiting(th)'
  BY <1>4 DEF Visiting
<1> QED BY Zenon, <1>0, <1>1, <1>3, <1>4, <1>6, <1>7, ActiveStep

\* A copy is written back: it goes to dispatch, or it is not active, or its dispatch is
\* certain.
LEMMA UpdateActive == ASSUME Inv, ActiveInv, NEW th \in Thread, Update(th) PROVE ActiveInv'
<1>0. TypeOK /\ pc[th] = "write" /\ UNCHANGED <<dispatched, faults>>
  BY Zenon DEF Inv, Update, update_hmas_task
<1>1. /\ copy[th] \in Task /\ copy[th].id \in Id /\ Stored(copy[th].id)
      /\ tasks' = [tasks EXCEPT ![copy[th].id] = copy[th]]
  BY Zenon, WriteEffect DEF Update
<1>2. copy[th] # NoTask
  BY Zenon, <1>1, ConstantsAssumption
<1>3. /\ OthersSame(th) /\ pc'[th] \in {"idle", "dispatch", "children"}
      /\ op[th] \in Dispatching => pc'[th] = "dispatch" /\ copy'[th] = copy[th]
  <2>1. CASE Return(th) /\ op[th] \in {"started", "fail", "split"}
    BY Zenon, <1>0, <2>1, ReturnThread DEF Dispatching
  <2>2. CASE Goto(th, "children") /\ op[th] \in {"complete", "httpComplete"}
    BY Zenon, <1>0, <2>2 DEF Goto, TypeOK, OthersSame, SameLocals, Dispatching
  <2>3. CASE Goto(th, "dispatch")
    BY <1>0, <2>3 DEF Goto, TypeOK, OthersSame, SameLocals
  <2> QED BY Zenon, <2>1, <2>2, <2>3 DEF Update
<1>4. Visiting(th)' /\ CopyCovered(th)'
  BY <1>3 DEF Visiting, CopyCovered
<1>5. \A id : Covered(id) => Covered(id)'
  BY <1>0, <1>3, CoveredKept
<1>6. ASSUME faults = 0, Active(copy[th]), NEW id \in Id, id = copy[th].id PROVE Covered(id)'
  <2>1. CASE op[th] \in Dispatching
    BY Zenon, <1>3, <1>6, <2>1 DEF Covered
  <2>2. CASE op[th] \notin Dispatching
    BY <1>0, <1>2, <1>5, <1>6, <2>2 DEF ActiveInv, CopyCovered
  <2> QED BY <2>1, <2>2
<1>7. faults = 0 => \A id \in Id : Stored(id)' /\ Active(tasks'[id]) =>
                      (Stored(id) /\ Active(tasks[id])) \/ Covered(id)'
  BY Zenon, <1>0, <1>1, <1>6 DEF TypeOK, Stored, Active
<1> QED BY Zenon, <1>0, <1>3, <1>4, <1>7, ActiveStep

\* dispatch_task makes a certain dispatch happen.
LEMMA DispatchActive ==
  ASSUME Inv, ActiveInv, NEW th \in Thread, dispatch_task(th) PROVE ActiveInv'
<1>0. /\ TypeOK /\ UNCHANGED <<tasks, faults>> /\ dispatched' = dispatched \cup {copy[th].id}
  BY Zenon DEF Inv, dispatch_task
<1>1. /\ OthersSame(th) /\ pc'[th] \in {"idle", "visit"}
      /\ pc'[th] = "visit" => op'[th] = "delegate"
  <2>1. Return(th) \/ NextChild(th, todo[th])
    BY DEF dispatch_task
  <2> QED BY <1>0, <2>1, ReturnThread, NextChildThread
<1>2. Visiting(th)' /\ CopyCovered(th)'
  BY <1>1 DEF Visiting, CopyCovered
<1>3. \A id \in Id : Stored(id)' /\ Active(tasks'[id]) => Stored(id) /\ Active(tasks[id])
  BY <1>0 DEF Stored, Active
<1> QED BY Zenon, <1>0, <1>1, <1>2, <1>3, ActiveStep

\* After a fault only Visiting is claimed.
LEMMA ThrowsActive ==
  ASSUME Inv, ActiveInv, NEW th \in Thread, CreateThrows(th) \/ UpdateThrows(th)
  PROVE  ActiveInv'
<1>1. TypeOK /\ Return(th) /\ faults' = faults + 1 /\ faults \in Nat
  <2>1. TypeOK /\ Return(th) /\ faults' = faults + 1
    BY DEF Inv, CreateThrows, UpdateThrows
  <2>2. faults \in 0 .. MaxFaults
    BY <2>1 DEF TypeOK
  <2> QED BY <2>1, <2>2
<1>2. OthersSame(th) /\ pc'[th] = "idle"
  BY <1>1, ReturnThread
<1>3. faults' # 0
  BY <1>1
<1>4. \A o \in Thread : Visiting(o)'
  BY <1>2 DEF ActiveInv, Visiting, OthersSame, SameLocals
<1> QED BY Zenon, <1>3, <1>4 DEF ActiveInv, ActiveIsDispatched

LEMMA StillActive ==
  ASSUME ActiveInv, UNCHANGED <<tasks, locals, faults, dispatched>> PROVE ActiveInv'
<1>1. UNCHANGED <<pc, op, copy>>
  BY DEF locals
<1>2. \A id : Covered(id)' <=> Covered(id)
  BY <1>1 DEF Covered
<1> QED BY Zenon, <1>1, <1>2 DEF ActiveInv, ActiveIsDispatched, Visiting, CopyCovered, Stored, Active

\* Every step of every handler and of the workers keeps ActiveInv.
LEMMA ActiveNext == Inv /\ ActiveInv /\ [Next]_vars => ActiveInv'
<1> SUFFICES ASSUME Inv, ActiveInv, [Next]_vars PROVE ActiveInv'
  OBVIOUS
<1>1. ASSUME NEW th \in Thread, Continue(th) PROVE ActiveInv'
  BY Zenon, <1>1, CreateActive, UpdateActive, DispatchActive, ReadingActive DEF Continue
<1>2. ASSUME NEW id \in Id, Claim(id) \/ \E outcome \in Outcomes : Finish(id, outcome)
      PROVE  ActiveInv'
  BY <1>2, StillActive DEF Claim, Finish
<1>3. CASE UNCHANGED vars
  BY <1>3, StillActive DEF vars
<1> QED BY <1>1, <1>2, <1>3, StartsActive, CreatorsActive, ThrowsActive DEF Next

\* orchestrator.cpp:29-45, 49-101, 307-330, 439-461: no task is active without a worker having been
\* told: as long as no store write has thrown, a task that left Pending other than by being
\* completed was dispatched or is about to be, for every plan, any number of handler threads
\* and any overlap of them.
THEOREM ActiveTasksDispatched == Spec => []ActiveIsDispatched
<1>1. Init => ActiveInv
  BY DEF Init, ActiveInv, ActiveIsDispatched, Stored, Visiting, CopyCovered
<1>2. ActiveInv => ActiveIsDispatched
  BY DEF ActiveInv
<1> QED BY <1>1, <1>2, ActiveNext, Invariance, PTL DEF Spec

(***************************************************************************)
(* Handlers one at a time.                                                 *)
(***************************************************************************)

LoneHandler == \A a, b \in Thread : a = b

\* What a handler writes over a record keeps what is recorded in it.
Keeps(t, u) ==
  /\ t.state \in Terminal => u.state = t.state
  /\ t.escalations <= u.escalations
  /\ t.children \subseteq u.children
  /\ t.claimed => u.claimed

\* The copy of a handler is of the record that is stored, or that it will store.
CurrentCopy(th) ==
  /\ pc[th] = "write" => Keeps(tasks[copy[th].id], copy[th])
  /\ pc[th] = "create" /\ op[th] = "split" /\ copy[th] # NoTask =>
       Keeps(tasks[copy[th].id], copy[th])
  /\ pc[th] = "create" /\ op[th] = "epic" => Keeps(Head(creates[th]), copy[th])

LoneInv == \A th \in Thread : CurrentCopy(th)

\* The changes of state the handlers make keep what is recorded.
LEMMA TransitionKeeps ==
  ASSUME NEW t \in Task, NEW e \in TaskEvent
  PROVE  Keeps(t, try_transition(t, e)) /\ try_transition(t, e) \in Task
         /\ try_transition(t, e).id = t.id
<1>1. t.layer \in Layer /\ t.state \in TaskState
  BY DEF Task, HmasTask
<1>2. Target(t.layer, t.state, e) \in TaskState
  BY <1>1, TargetType
<1>3. t.state \in Terminal => Target(t.layer, t.state, e) = t.state
  BY DEF Terminal, Target
<1>4. try_transition(t, e).state = Target(t.layer, t.state, e)
  BY DEF try_transition, Task, HmasTask
<1> QED BY <1>2, <1>3, <1>4 DEF Keeps, try_transition, Task, HmasTask

LEMMA WalkKeeps ==
  ASSUME NEW t \in Task, NEW f, f[t.layer][t.state] \in TaskState,
         t.state \in Terminal => f[t.layer][t.state] = t.state
  PROVE  Keeps(t, Walk(f, t)) /\ Walk(f, t) \in Task /\ Walk(f, t).id = t.id
<1>1. Walk(f, t).state = f[t.layer][t.state]
  BY WalkTask
<1> QED BY <1>1 DEF Keeps, Walk, Task, HmasTask

LEMMA WalksKeep ==
  ASSUME NEW t \in Task, NEW f \in {Started, Finished, Broken, Assigned}
  PROVE  Keeps(t, Walk(f, t)) /\ Walk(f, t) \in Task /\ Walk(f, t).id = t.id
<1>1. t.layer \in Layer /\ t.state \in TaskState
  BY DEF Task, HmasTask
<1>2. /\ Started[t.layer][t.state] \in TaskState
      /\ t.state \in Terminal => Started[t.layer][t.state] = t.state
  BY <1>1, StartedValue DEF TaskState
<1>3. /\ Finished[t.layer][t.state] \in TaskState
      /\ t.state \in Terminal => Finished[t.layer][t.state] = t.state
  BY <1>1, FinishedValue DEF TaskState, Terminal
<1>4. /\ Broken[t.layer][t.state] \in TaskState
      /\ t.state \in Terminal => Broken[t.layer][t.state] = t.state
  BY <1>1, BrokenValue DEF TaskState, Terminal
<1>5. /\ Assigned[t.layer][t.state] \in TaskState
      /\ t.state \in Terminal => Assigned[t.layer][t.state] = t.state
  BY <1>1, AssignedValue DEF TaskState, Terminal
<1>6. /\ f[t.layer][t.state] \in TaskState
      /\ t.state \in Terminal => f[t.layer][t.state] = t.state
  BY <1>2, <1>3, <1>4, <1>5
<1> QED BY <1>6, WalkKeeps

LEMMA KeepsTwice ==
  ASSUME NEW t \in Task, NEW u \in Task, NEW v \in Task, Keeps(t, u), Keeps(u, v)
  PROVE  Keeps(t, v)
<1>1. t.escalations \in Nat /\ u.escalations \in Nat /\ v.escalations \in Nat
  BY DEF Task, HmasTask
<1> QED BY <1>1 DEF Keeps

\* A handler that starts by writing holds a copy of the record it read.
LEMMA LoneBegin ==
  ASSUME TypeOK, LoneHandler, NEW th \in Thread, NEW h, NEW id \in Id, NEW c, NEW list,
         Begin(th, h, "write", c, list), c.id = id, Keeps(tasks[id], c)
  PROVE  LoneInv'
<1>1. pc'[th] = "write" /\ copy'[th] = c /\ tasks' = tasks
  BY BeginThread
<1>2. CurrentCopy(th)'
  BY Zenon, <1>1 DEF CurrentCopy
<1> QED BY <1>2 DEF LoneInv, LoneHandler

LEMMA LoneStarts ==
  ASSUME Inv, LoneHandler, NEW th \in Thread, NEW id \in Id,
         \/ escalate(th, id) \/ split_task(th, id) \/ CompleteRequest(th, id) \/ Receive(th, id)
  PROVE  LoneInv'
<1> DEFINE t == tasks[id]
<1>0. TypeOK
  BY DEF Inv
<1>1. CASE escalate(th, id)
  <2> DEFINE u == try_transition(t, "Escalate")
             c == [u EXCEPT !.escalations = @ + 1]
  <2>1. t \in Task /\ t.id = id
    BY <1>1, RequestFacts DEF escalate
  <2>2. Keeps(t, u) /\ u \in Task /\ u.id = id
    BY Zenon, <2>1, TransitionKeeps DEF TaskEvent
  <2>3. Begin(th, "escalate", "write", c, << >>)
    BY <1>1 DEF escalate
  <2> HIDE DEF u
  <2>4. Keeps(u, c) /\ c \in Task /\ c.id = id
    BY <2>2 DEF Keeps, Task, HmasTask
  <2> HIDE DEF c
  <2>5. Keeps(t, c)
    BY Zenon, <2>1, <2>2, <2>4, KeepsTwice
  <2> QED BY Zenon, <1>0, <2>3, <2>4, <2>5, LoneBegin
<1>2. CASE split_task(th, id)
  <2>1. t \in Task /\ t.id = id
    BY Zenon, <1>2, RequestFacts DEF split_task
  <2>2. PICK n \in 1 .. MaxSplit, extra \in ExtraBlockers, malformed \in BOOLEAN :
          Begin(th, "split", "create",
                IF malformed THEN NoTask ELSE WithChildren(t, SplitChildren(t, n, extra)),
                SplitChildren(t, n, extra))
    BY <1>2 DEF split_task
  <2> DEFINE new == SplitChildren(t, n, extra)
             c == WithChildren(t, new)
  <2> HIDE DEF new
  <2>3. Keeps(t, c) /\ c.id = id
    BY <2>1 DEF Keeps, WithChildren, Task, HmasTask
  <2>4. /\ pc'[th] = "create" /\ op'[th] = "split" /\ tasks' = tasks
        /\ copy'[th] = NoTask \/ copy'[th] = c
    <3>1. PICK copied : /\ copied = NoTask \/ copied = c
                        /\ Begin(th, "split", "create", copied, new)
      BY <2>2 DEF new
    <3> HIDE DEF c
    <3> QED BY Zenon, <1>0, <3>1, BeginThread
  <2> HIDE DEF c
  <2>5. CurrentCopy(th)'
    BY Zenon, <2>3, <2>4 DEF CurrentCopy
  <2> QED BY <2>5 DEF LoneInv, LoneHandler
<1>3. CASE CompleteRequest(th, id)
  <2>1. t \in Task /\ t.id = id
    BY Zenon, <1>3, RequestFacts DEF CompleteRequest
  <2>2. Keeps(t, Walk(Finished, t)) /\ Walk(Finished, t).id = id
    BY Zenon, <2>1, WalksKeep
  <2> QED BY Zenon, <1>0, <1>3, <2>2, LoneBegin DEF CompleteRequest
<1>4. ASSUME NEW h \in ReportKind, Deliver(th, h, id) PROVE t \in Task /\ t.id = id
  BY Zenon, <1>4, DeliverFacts
<1>5. CASE on_myrmidon_started(th, id)
  <2> DEFINE u == Walk(Started, t)
  <2>1. t \in Task /\ t.id = id
    BY <1>4, <1>5 DEF on_myrmidon_started, ReportKind
  <2>2. Keeps(t, u) /\ u \in Task /\ u.id = id
    BY Zenon, <2>1, WalksKeep
  <2>3. PICK named \in Announce :
          Begin(th, "started", "write", [u EXCEPT !.claimed = @ \/ named], << >>)
    BY <1>5 DEF on_myrmidon_started
  <2> DEFINE c == [u EXCEPT !.claimed = @ \/ named]
  <2>4. Begin(th, "started", "write", c, << >>)
    BY <2>3
  <2> HIDE DEF u
  <2>5. (u.claimed \/ named) \in BOOLEAN
    OBVIOUS
  <2>6. /\ c \in Task /\ c.id = id /\ c.state = u.state
        /\ c.escalations = u.escalations /\ c.children = u.children
        /\ u.escalations \in Nat
    BY Zenon, <2>2, <2>5 DEF Task, HmasTask
  <2>7. c.claimed = (u.claimed \/ named)
    BY <2>2 DEF Task, HmasTask
  <2>8. u.claimed => c.claimed
    BY Zenon, <2>7
  <2> HIDE DEF c
  <2>9. /\ u.state \in Terminal => c.state = u.state
        /\ u.escalations <= c.escalations /\ u.children \subseteq c.children
    BY <2>6
  <2>10. Keeps(u, c)
    BY <2>8, <2>9, Zenon DEF Keeps
  <2>11. Keeps(t, c)
    BY Zenon, <2>1, <2>2, <2>6, <2>10, KeepsTwice
  <2> QED BY Zenon, <1>0, <2>4, <2>6, <2>11, LoneBegin
<1>6. CASE on_myrmidon_completion(th, id)
  <2>1. t \in Task /\ t.id = id
    BY Zenon, <1>4, <1>6 DEF on_myrmidon_completion, ReportKind
  <2>2. Keeps(t, Walk(Finished, t)) /\ Walk(Finished, t).id = id
    BY Zenon, <2>1, WalksKeep
  <2> QED BY Zenon, <1>0, <1>6, <2>2, LoneBegin DEF on_myrmidon_completion
<1>7. CASE on_myrmidon_failed(th, id)
  <2>1. t \in Task /\ t.id = id
    BY Zenon, <1>4, <1>7 DEF on_myrmidon_failed, ReportKind
  <2>2. Keeps(t, Walk(Broken, t)) /\ Walk(Broken, t).id = id
    BY Zenon, <2>1, WalksKeep
  <2> QED BY Zenon, <1>0, <1>7, <2>2, LoneBegin DEF on_myrmidon_failed
<1> QED BY <1>1, <1>2, <1>3, <1>5, <1>6, <1>7 DEF Receive

LEMMA LoneCreators ==
  ASSUME Inv, LoneHandler, NEW th \in Thread,
         on_epic_registered(th) \/ \E b \in Brief : Submit(th, b)
  PROVE  LoneInv'
<1>0. TypeOK
  BY DEF Inv
<1>1. ASSUME NEW b \in Brief, Submit(th, b) PROVE LoneInv'
  <2>1. Begin(th, "submit", "create", Plan[b][1], Plan[b])
    BY Zenon, <1>1 DEF Submit
  <2>2. pc'[th] = "create" /\ op'[th] = "submit"
    <3>1. /\ pc' = [pc EXCEPT ![th] = "create"] /\ op' = [op EXCEPT ![th] = "submit"]
      BY Zenon, <2>1 DEF Begin
    <3>2. th \in DOMAIN pc /\ th \in DOMAIN op
      BY <1>0 DEF TypeOK, LocalTypes
    <3> QED BY Zenon, <3>1, <3>2
  <2> QED BY Zenon, <2>2 DEF CurrentCopy, LoneInv, LoneHandler
<1>2. CASE on_epic_registered(th)
  <2> DEFINE root == NewTask(Uuid[minted + 1], 0, {}, {})
             c == try_transition(root, "Submit")
  <2>1. Begin(th, "epic", "create", c, <<root>>)
    BY <1>2 DEF on_epic_registered
  <2>2. root \in Task
    <3>1. Uuid[minted + 1] \in Id
      <4>1. minted \in 0 .. Len(Uuid) /\ minted < Len(Uuid)
        BY Zenon, <1>0, <1>2 DEF TypeOK, on_epic_registered
      <4>2. Uuid \in Seq(Id)
        BY Zenon, ConstantsAssumption
      <4>3. minted + 1 \in DOMAIN Uuid
        BY <4>1, <4>2
      <4> QED BY <4>2, <4>3, SeqElement
    <3>2. 0 \in Layer /\ {} \in SUBSET Id
      BY DEF Layer
    <3> QED BY Zenon, <3>1, <3>2, NewTaskTyped
  <2>3. Keeps(root, c)
    BY <2>2, TransitionKeeps DEF TaskEvent
  <2> HIDE DEF c, root
  <2>4. pc'[th] = "create" /\ op'[th] = "epic" /\ copy'[th] = c /\ creates'[th] = <<root>>
    BY Zenon, <1>0, <2>1, BeginThread
  <2>5. Head(<<root>>) = root
    OBVIOUS
  <2> QED BY Zenon, <2>3, <2>4, <2>5 DEF CurrentCopy, LoneInv, LoneHandler
<1> QED BY <1>1, <1>2

LEMMA LoneCreate ==
  ASSUME Inv, LoneHandler, LoneInv, NEW th \in Thread, create_hmas_task(th) PROVE LoneInv'
<1> DEFINE t == Head(creates[th])
<1>0. TypeOK /\ FreshInv /\ ThreadInv(th) /\ pc[th] = "create" /\ creates[th] # << >> /\ CurrentCopy(th)
  BY Zenon DEF Inv, ThreadInv, create_hmas_task, LoneInv
<1>1. tasks' = [tasks EXCEPT ![t.id] = t]
  BY Zenon DEF create_hmas_task
<1>2. t \in Task /\ ~ Stored(t.id)
  <2>1. creates[th] \in Seq(Task)
    BY <1>0 DEF TypeOK
  <2>2. t = creates[th][1] /\ 1 \in DOMAIN creates[th]
    BY <1>0, <2>1
  <2> QED BY Zenon, <1>0, <2>2, FreshEntry, IdsInId
<1>3. t.id \in Id /\ tasks \in [Id -> Task \cup {NoTask}]
  BY Zenon, <1>0, <1>2 DEF Task, HmasTask, TypeOK
<1>4. \/ pc'[th] \in {"idle", "root"}
      \/ /\ pc'[th] \in {"create", "write"} /\ op'[th] = op[th] /\ copy'[th] = copy[th]
         /\ op[th] = "epic" => pc'[th] = "write"
         /\ pc'[th] = "write" => op[th] \in {"epic", "split"} /\ copy[th] # NoTask
  <2>1. CASE Len(creates[th]) = 1
    <3>1. CASE copy[th] = NoTask
      BY Zenon, <1>0, <2>1, <3>1, ReturnThread DEF create_hmas_task, AllCreated
    <3>2. CASE copy[th] # NoTask /\ op[th] = "submit"
      BY Zenon, <1>0, <2>1, <3>2 DEF create_hmas_task, AllCreated, Goto, TypeOK
    <3>3. CASE copy[th] # NoTask /\ op[th] # "submit"
      BY Zenon, <1>0, <2>1, <3>3 DEF create_hmas_task, AllCreated, Goto, TypeOK, ThreadInv
    <3> QED BY Zenon, <3>1, <3>2, <3>3
  <2>2. CASE Len(creates[th]) # 1
    BY Zenon, <1>0, <2>2 DEF create_hmas_task, ThreadInv
  <2> QED BY Zenon, <2>1, <2>2
<1>5. CASE op[th] = "epic"
  <2>1. t.id = copy[th].id /\ Keeps(t, copy[th])
    BY Zenon, <1>0, <1>5 DEF ThreadInv, CurrentCopy
  <2>2. tasks'[t.id] = t
    BY Zenon, <1>1, <1>3
  <2> HIDE DEF t
  <2>3. CurrentCopy(th)'
    BY Zenon, <1>4, <1>5, <2>1, <2>2 DEF CurrentCopy
  <2> QED BY <2>3 DEF LoneInv, LoneHandler
<1>6. CASE op[th] = "split" /\ copy[th] # NoTask
  <2>1. copy[th] \in Task /\ Stored(copy[th].id) /\ Keeps(tasks[copy[th].id], copy[th])
    BY Zenon, <1>0, <1>6 DEF ThreadInv, GoodCopy, CurrentCopy
  <2>2. copy[th].id \in Id /\ copy[th].id # t.id
    BY Zenon, <1>2, <2>1 DEF Task, HmasTask
  <2>3. tasks'[copy[th].id] = tasks[copy[th].id]
    BY <1>1, <1>3, <2>2
  <2> HIDE DEF t
  <2>4. CurrentCopy(th)'
    BY Zenon, <1>4, <1>6, <2>1, <2>3 DEF CurrentCopy
  <2> QED BY <2>4 DEF LoneInv, LoneHandler
<1>7. CASE op[th] = "submit" \/ (op[th] = "split" /\ copy[th] = NoTask)
  <2>1. CurrentCopy(th)'
    BY Zenon, <1>4, <1>7 DEF CurrentCopy
  <2> QED BY <2>1 DEF LoneInv, LoneHandler
<1>8. op[th] \in {"submit", "epic", "split"}
  BY Zenon, <1>0 DEF ThreadInv
<1> QED BY <1>5, <1>6, <1>7, <1>8

LEMMA LoneReading ==
  ASSUME Inv, LoneHandler, NEW th \in Thread, SubmitRoot(th) \/ delegate(th) PROVE LoneInv'
<1>0. TypeOK /\ ThreadInv(th)
  BY DEF Inv
<1>1. ASSUME NEW t \in Task, NEW c \in Task, c.id = t.id, tasks[t.id] = t, Keeps(t, c),
             pc'[th] = "write", copy'[th] = c, tasks' = tasks
      PROVE  LoneInv'
  BY Zenon, <1>1 DEF CurrentCopy, LoneInv, LoneHandler
<1>2. CASE SubmitRoot(th)
  <2> DEFINE t == tasks[copy[th].id]
             u == try_transition(t, "Submit")
             c == try_transition(u, "Delegate")
  <2>1. copy[th] \in Task /\ Stored(copy[th].id)
    BY Zenon, <1>0, <1>2 DEF SubmitRoot, ThreadInv
  <2>2. copy[th].id \in Id
    BY <2>1 DEF Task, HmasTask
  <2>3. t \in Task /\ t.id = copy[th].id
    BY Zenon, <1>0, <2>1, <2>2, StoredTask
  <2>4. Keeps(t, u) /\ u \in Task /\ u.id = t.id
    BY Zenon, <2>3, TransitionKeeps DEF TaskEvent
  <2>5. pc' = [pc EXCEPT ![th] = "write"] /\ copy' = [copy EXCEPT ![th] = c] /\ tasks' = tasks
    BY Zenon, <1>2 DEF SubmitRoot, Effects
  <2> HIDE DEF u
  <2>6. Keeps(u, c) /\ c \in Task /\ c.id = u.id
    BY Zenon, <2>4, TransitionKeeps DEF TaskEvent
  <2> HIDE DEF c
  <2>7. Keeps(t, c)
    BY Zenon, <2>3, <2>4, <2>6, KeepsTwice
  <2>8. pc'[th] = "write" /\ copy'[th] = c
    BY <1>0, <2>5 DEF TypeOK
  <2> QED BY Zenon, <1>1, <2>3, <2>4, <2>5, <2>6, <2>7, <2>8
<1>3. CASE delegate(th)
  <2> DEFINE t == tasks[child[th]]
             c == Walk(Assigned, t)
  <2>1. child[th] \in Id /\ Stored(child[th])
    BY Zenon, <1>0, <1>3 DEF delegate, ThreadInv
  <2>2. t \in Task /\ t.id = child[th]
    BY <1>0, <2>1, StoredTask
  <2>3. Keeps(t, c) /\ c \in Task /\ c.id = t.id
    BY Zenon, <2>2, WalksKeep
  <2>4. CASE Assigned[t.layer][t.state] = t.state
    <3>1. NextChild(th, todo[th])
      BY Zenon, <1>3, <2>4 DEF delegate
    <3>2. pc'[th] \in {"idle", "visit"}
      BY <1>0, <3>1, NextChildThread
    <3> QED BY Zenon, <3>2 DEF CurrentCopy, LoneInv, LoneHandler
  <2>5. CASE Assigned[t.layer][t.state] # t.state
    <3>1. pc' = [pc EXCEPT ![th] = "write"] /\ copy' = [copy EXCEPT ![th] = c] /\ tasks' = tasks
      BY Zenon, <1>3, <2>5 DEF delegate, Effects
    <3> HIDE DEF c
    <3>2. pc'[th] = "write" /\ copy'[th] = c
      BY <1>0, <3>1 DEF TypeOK
    <3> QED BY Zenon, <1>1, <2>2, <2>3, <3>1, <3>2
  <2> QED BY Zenon, <2>4, <2>5
<1> QED BY <1>2, <1>3

\* The other steps leave no copy to write.
LEMMA LoneOther ==
  ASSUME Inv, LoneHandler, NEW th \in Thread,
         \/ Update(th) \/ UpdateThrows(th) \/ CreateThrows(th) \/ dispatch_task(th)
         \/ delegate_unblocked_children(th)
         \/ \E c \in todo[th] : VisitChild(th, c)
         \/ \E b \in unseen[th] : CheckBlocker(th, b)
  PROVE  LoneInv'
<1>0. TypeOK
  BY Zenon DEF Inv
<1>1. \/ Return(th) \/ \E rest : NextChild(th, rest)
      \/ \E at \in {"dispatch", "children", "blockers"} : pc' = [pc EXCEPT ![th] = at]
      \/ pc[th] = "blockers" /\ pc' = pc
  BY Zenon DEF Update, UpdateThrows, CreateThrows, dispatch_task, delegate_unblocked_children,
         VisitChild, CheckBlocker, Goto
<1>2. pc'[th] \notin {"write", "create"}
  <2>1. CASE Return(th)
    BY Zenon, <1>0, <2>1, ReturnThread
  <2>2. CASE \E rest : NextChild(th, rest)
    BY Zenon, <1>0, <2>2, NextChildThread
  <2>3. CASE \E at \in {"dispatch", "children", "blockers"} : pc' = [pc EXCEPT ![th] = at]
    BY <1>0, <2>3 DEF TypeOK
  <2> QED BY Zenon, <1>1, <2>1, <2>2, <2>3
<1> QED BY Zenon, <1>2 DEF CurrentCopy, LoneInv, LoneHandler

LEMMA LoneNext == ASSUME LoneHandler PROVE Inv /\ LoneInv /\ [Next]_vars => LoneInv'
<1> SUFFICES ASSUME Inv, LoneInv, [Next]_vars PROVE LoneInv'
  OBVIOUS
<1>1. ASSUME NEW th \in Thread, Continue(th) PROVE LoneInv'
  BY Zenon, <1>1, LoneCreate, LoneReading, LoneOther DEF Continue
<1>2. ASSUME UNCHANGED <<tasks, locals>> PROVE LoneInv'
  BY Zenon, <1>2 DEF locals, LoneInv, CurrentCopy
<1>3. ASSUME NEW id \in Id, Claim(id) \/ \E outcome \in Outcomes : Finish(id, outcome)
      PROVE  LoneInv'
  BY <1>2, <1>3 DEF Claim, Finish
<1>4. CASE UNCHANGED vars
  BY <1>2, <1>4 DEF vars
<1>5. ASSUME NEW th \in Thread, CreateThrows(th) \/ UpdateThrows(th) PROVE LoneInv'
  BY Zenon, <1>5, LoneOther
<1>6. ASSUME NEW th \in Thread, on_epic_registered(th) \/ \E b \in Brief : Submit(th, b)
      PROVE  LoneInv'
  BY <1>6, LoneCreators
<1>7. ASSUME NEW th \in Thread, NEW id \in Id,
             \/ escalate(th, id) \/ split_task(th, id)
             \/ CompleteRequest(th, id) \/ Receive(th, id)
      PROVE  LoneInv'
  BY <1>7, LoneStarts
<1> QED BY <1>1, <1>3, <1>4, <1>5, <1>6, <1>7 DEF Next

\* A step changes the store by a write or by inserting a record that is not there.
LEMMA StoreSteps ==
  ASSUME Inv, [Next]_vars
  PROVE  \/ UNCHANGED tasks
         \/ \E th \in Thread : update_hmas_task(th) \/ create_hmas_task(th)
<1>1. ASSUME NEW th \in Thread, Continue(th) \/ CreateThrows(th) \/ UpdateThrows(th)
      PROVE  UNCHANGED tasks \/ update_hmas_task(th) \/ create_hmas_task(th)
  BY Zenon, <1>1 DEF Continue, CreateThrows, UpdateThrows, Update, SubmitRoot, dispatch_task,
              delegate_unblocked_children, VisitChild, CheckBlocker, delegate, Effects
<1>2. ASSUME NEW th \in Thread, on_epic_registered(th) \/ \E b \in Brief : Submit(th, b)
      PROVE  UNCHANGED tasks
  BY Zenon, <1>2 DEF on_epic_registered, Submit, Begin, Effects
<1>3. ASSUME NEW th \in Thread, NEW id \in Id,
             \/ escalate(th, id) \/ split_task(th, id)
             \/ CompleteRequest(th, id) \/ Receive(th, id)
      PROVE  UNCHANGED tasks
  BY <1>3 DEF Receive, escalate, split_task, CompleteRequest, on_myrmidon_started,
              on_myrmidon_completion, on_myrmidon_failed, Begin, Effects
<1>4. ASSUME NEW id \in Id, Claim(id) \/ \E outcome \in Outcomes : Finish(id, outcome)
      PROVE  UNCHANGED tasks
  BY <1>4 DEF Claim, Finish
<1>5. CASE UNCHANGED vars
  BY <1>5 DEF vars
<1> QED BY <1>1, <1>2, <1>3, <1>4, <1>5 DEF Next

LEMMA RecordsKept ==
  ASSUME Inv, LoneInv, [Next]_vars, NEW id \in Id, Stored(id)
  PROVE  Keeps(tasks[id], tasks'[id])
<1>0. TypeOK
  BY DEF Inv
<1>1. Keeps(tasks[id], tasks[id])
  <2>1. tasks[id].escalations \in Nat
    BY Zenon, <1>0, StoredTask DEF Task, HmasTask
  <2> QED BY <2>1 DEF Keeps
<1>2. CASE UNCHANGED tasks
  BY <1>1, <1>2
<1>3. ASSUME NEW th \in Thread, update_hmas_task(th) PROVE Keeps(tasks[id], tasks'[id])
  <2>1. /\ copy[th].id \in Id /\ tasks' = [tasks EXCEPT ![copy[th].id] = copy[th]]
    BY Zenon, <1>3, WriteEffect
  <2>2. Keeps(tasks[copy[th].id], copy[th])
    BY Zenon, <1>3 DEF LoneInv, CurrentCopy, update_hmas_task
  <2> QED BY Zenon, <1>0, <1>1, <2>1, <2>2 DEF TypeOK
<1>4. ASSUME NEW th \in Thread, create_hmas_task(th) PROVE Keeps(tasks[id], tasks'[id])
  <2> DEFINE t == Head(creates[th])
  <2>1. creates[th] # << >> /\ creates[th] \in Seq(Task) /\ FreshInv /\ tasks' = [tasks EXCEPT ![t.id] = t]
    BY Zenon, <1>0, <1>4 DEF Inv, ThreadInv, create_hmas_task, TypeOK
  <2>2. t = creates[th][1] /\ 1 \in DOMAIN creates[th]
    BY <2>1
  <2>3. ~ Stored(t.id)
    BY Zenon, <2>1, <2>2, FreshEntry
  <2> HIDE DEF t
  <2>4. tasks'[id] = tasks[id]
    BY <1>0, <2>1, <2>3 DEF TypeOK
  <2> QED BY <1>1, <2>4
<1> QED BY <1>2, <1>3, <1>4, StoreSteps

LEMMA LoneInvariance == LoneHandler => (Spec => []LoneInv)
<1> SUFFICES ASSUME LoneHandler PROVE Spec => []LoneInv
  OBVIOUS
<1>1. Init => LoneInv
  BY DEF Init, LoneInv, CurrentCopy
<1>2. Inv /\ LoneInv /\ [Next]_vars => LoneInv'
  BY LoneNext
<1> QED BY <1>1, <1>2, Invariance, PTL DEF Spec

\* state_machine.cpp:27-77, store.cpp:851-880: when no two handlers overlap, a task
\* that is Completed or Failed stays so, whatever events, requests and faults follow.
THEOREM TerminalIsFinalAlone == LoneHandler => (Spec => TerminalIsFinal)
<1> SUFFICES ASSUME LoneHandler PROVE Spec => TerminalIsFinal
  OBVIOUS
<1>1. Spec => []LoneInv
  BY LoneInvariance
<1>2. Inv /\ LoneInv /\ [Next]_vars =>
        [\A id \in Id : Stored(id) /\ tasks[id].state \in Terminal =>
           tasks[id]'.state = tasks[id].state]_tasks
  BY RecordsKept DEF Keeps
<1> QED BY <1>1, <1>2, Invariance, PTL DEF Spec, TerminalIsFinal

\* orchestrator.cpp:70-101, 200-237, 332-388: when no two handlers overlap, no handler erases the
\* escalations, the children or the assignment that another one recorded.
THEOREM NothingErasedAlone == LoneHandler => (Spec => NothingErased)
<1> SUFFICES ASSUME LoneHandler PROVE Spec => NothingErased
  OBVIOUS
<1>1. Spec => []LoneInv
  BY LoneInvariance
<1>2. Inv /\ LoneInv /\ [Next]_vars =>
        [\A id \in Id : Stored(id) =>
           /\ tasks[id].escalations <= tasks[id]'.escalations
           /\ tasks[id].children \subseteq tasks[id]'.children
           /\ tasks[id].claimed => tasks[id]'.claimed]_tasks
  BY RecordsKept DEF Keeps
<1> QED BY <1>1, <1>2, Invariance, PTL DEF Spec, NothingErased

=============================================================================
