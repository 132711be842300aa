--------------------------- MODULE DagWalkerProofs ---------------------------
(***************************************************************************)
(* What advance_dag of the walker guarantees for any dependencies,         *)
(* agents, callers and faults: DependenciesFirst whatever                  *)
(* overlaps, NoDoubleAssignment for calls that do not overlap.             *)
(***************************************************************************)
EXTENDS DagWalker, FiniteSetTheorems, TLAPS

TypeOK ==
  /\ done \subseteq Task /\ busy \subseteq Agent
  /\ assigned \in [Task -> Agent \cup {NoAgent}]
  /\ call \in [Caller -> CallRecord \cup {Idle}]
  /\ held \in [Agent -> SUBSET Task]
  /\ given \in [Task -> Nat]
  /\ overlapped \in BOOLEAN

At(c, pc) == call[c] # Idle /\ call[c].pc = pc

\* What a call has selected or will select, and what an agent has, is ready for good.
Ready(t) == Dependencies[t] \subseteq done

ListsReady ==
  \A c \in Caller : At(c, "assign") => Ready(call[c].task) /\ \A t \in call[c].todo : Ready(t)

\* The tasks in a terminal status are closed under dependencies: no task is finished before
\* one it depends on, whatever calls overlap.
DoneInOrder == \A t \in done : Ready(t)

Order == ListsReady /\ DependenciesFirst /\ DoneInOrder

\* The assignment a lone call is about to make is the first of its task, to a free agent, and
\* the agents and tasks left in its lists are free.
Safe(c) ==
  /\ call[c].current
  /\ given[call[c].task] = 0 /\ assigned[call[c].task] # NoAgent
  /\ call[c].task \notin call[c].todo
  /\ \A t \in call[c].todo : assigned[t] = NoAgent
  /\ call[c].agent \in busy \ Occupied /\ call[c].avail \cap busy = {}

Alone ==
  /\ \A c, d \in Caller : call[c] # Idle /\ call[d] # Idle => c = d
  /\ \A c \in Caller : At(c, "assign") => Safe(c)
  /\ \A c \in Caller : At(c, "answered") => Occupied \subseteq call[c].occupied
  /\ Occupied \subseteq busy
  /\ \A t \in Task : given[t] > 0 => given[t] = 1 /\ assigned[t] # NoAgent
  /\ \A a \in Agent : \A s, t \in held[a] : s = t

Inv == TypeOK /\ Order /\ (~ overlapped => Alone)

-----------------------------------------------------------------------------
USE ConstantsAssumption

\* The record of a call at assign_task, and the locations.
LEMMA Shapes ==
  /\ \A k \in CallRecord : k.pc \in {"ask", "answered", "assign"}
  /\ \A k \in CallRecord : k.pc = "assign" => k \in Assigning
  /\ \A k \in CallRecord : k.pc = "answered" => k.occupied \subseteq Agent
  /\ Assigning \subseteq CallRecord
  /\ \A k \in Assigning : /\ k.task \in Task /\ k.agent \in Agent /\ k.avail \subseteq Agent
                           /\ k.todo \subseteq Task /\ k.current \in BOOLEAN
BY DEF CallRecord, Assigning

LEMMA InitInv == Init => Inv
<1> SUFFICES ASSUME Init PROVE Inv
  OBVIOUS
<1>1. TypeOK
  BY Zenon DEF Init, TypeOK
<1>2. Order
  BY DEF Init, Order, ListsReady, DependenciesFirst, DoneInOrder, At
<1>3. Alone
  <2>1. Occupied = {}
    BY DEF Init, Occupied
  <2> QED BY <2>1 DEF Init, Alone, At
<1> QED BY <1>1, <1>2, <1>3 DEF Inv

\* A call selects an agent and a task.
Selects(c, avail, todo, list, current) ==
  \E a \in avail, t \in todo :
    /\ call'[c] \in Assigning
    /\ call'[c].task = t /\ call'[c].agent = a
    /\ call'[c].avail = avail \ {a} /\ call'[c].todo = todo \ {t} /\ call'[c].current = current
    /\ busy' = IF current THEN list \cup {a} ELSE list
    /\ assigned' = [assigned EXCEPT ![t] = a]

\* The body of the loop up to its await.
LEMMA Iteration ==
  ASSUME NEW c \in Caller, NEW calls \in [Caller -> CallRecord \cup {Idle}], NEW avail \in SUBSET Agent,
         NEW todo \in SUBSET Task, NEW list \in SUBSET Agent, NEW current \in BOOLEAN,
         assigned \in [Task -> Agent \cup {NoAgent}], Iterate(c, calls, avail, todo, list, current)
  PROVE  /\ call' \in [Caller -> CallRecord \cup {Idle}] /\ busy' \subseteq Agent
         /\ assigned' \in [Task -> Agent \cup {NoAgent}]
         /\ \A d \in Caller \ {c} : call'[d] = calls[d]
         /\ \/ call'[c] = Idle /\ busy' = list /\ assigned' = assigned
            \/ Selects(c, avail, todo, list, current)
<1>1. CASE avail = {} \/ todo = {}
  BY <1>1 DEF Iterate
<1>2. CASE ~ (avail = {} \/ todo = {})
  <2>1. PICK a \in avail, t \in todo :
          /\ call' = [calls EXCEPT ![c] = [pc |-> "assign", task |-> t, agent |-> a, avail |-> avail \ {a},
                                           todo |-> todo \ {t}, current |-> current]]
          /\ busy' = IF current THEN list \cup {a} ELSE list
          /\ assigned' = [assigned EXCEPT ![t] = a]
    BY <1>2 DEF Iterate
  <2> DEFINE r == [pc |-> "assign", task |-> t, agent |-> a, avail |-> avail \ {a},
                   todo |-> todo \ {t}, current |-> current]
  <2>2. r \in Assigning /\ r.task = t /\ r.agent = a /\ r.avail = avail \ {a}
        /\ r.todo = todo \ {t} /\ r.current = current
    BY DEF Assigning
  <2>3. call' = [calls EXCEPT ![c] = r]
    BY <2>1
  <2> HIDE DEF r
  <2>4. call'[c] = r /\ \A d \in Caller \ {c} : call'[d] = calls[d]
    BY <2>3
  <2>5. call' \in [Caller -> CallRecord \cup {Idle}]
    BY <2>2, <2>3, Shapes
  <2>6. busy' \subseteq Agent /\ assigned' \in [Task -> Agent \cup {NoAgent}]
    BY <2>1
  <2>7. Selects(c, avail, todo, list, current)
    BY Zenon, <2>1, <2>2, <2>4 DEF Selects
  <2> QED BY <2>4, <2>5, <2>6, <2>7
<1> QED BY <1>1, <1>2

\* The lists with which a lone call enters the loop: the agents in avail are free, those in
\* list include every occupied one, and the tasks in todo are unassigned.
FreeLists(avail, todo, list) ==
  /\ Occupied' \subseteq list /\ avail \cap list = {}
  /\ \A t \in todo : assigned[t] = NoAgent
  /\ \A t \in Task : given'[t] > 0 => given'[t] = 1 /\ assigned[t] # NoAgent
  /\ \A a \in Agent : \A s, t \in held'[a] : s = t

\* A step that ends with the body of the loop keeps the invariant.
LEMMA LoopStep ==
  ASSUME Inv, NEW c \in Caller, call[c] # Idle, NEW calls \in [Caller -> CallRecord \cup {Idle}],
         NEW avail \in SUBSET Agent, NEW todo \in SUBSET Task, NEW list \in SUBSET Agent,
         NEW current \in BOOLEAN, Iterate(c, calls, avail, todo, list, current),
         \A d \in Caller : calls[d] \in {call[d], Outdated(call[d])},
         done' = done, overlapped' = overlapped, held' \in [Agent -> SUBSET Task],
         given' \in [Task -> Nat], \A t \in todo : Ready(t), DependenciesFirst',
         ~ overlapped => current /\ FreeLists(avail, todo, list)
  PROVE  Inv'
<1>1. TypeOK
  BY DEF Inv
<1>2. /\ call' \in [Caller -> CallRecord \cup {Idle}] /\ busy' \subseteq Agent
      /\ assigned' \in [Task -> Agent \cup {NoAgent}]
      /\ \A d \in Caller \ {c} : call'[d] = calls[d]
      /\ \/ call'[c] = Idle /\ busy' = list /\ assigned' = assigned
         \/ Selects(c, avail, todo, list, current)
  BY Zenon, <1>1, Iteration DEF TypeOK
<1>3. TypeOK'
  BY <1>1, <1>2 DEF TypeOK
<1>4. ASSUME NEW d \in Caller \ {c}, At(d, "assign")'
      PROVE  At(d, "assign") /\ call'[d].task = call[d].task /\ call'[d].todo = call[d].todo
  <2>1. call[d] \in CallRecord \cup {Idle} /\ call'[d] \in {call[d], Outdated(call[d])}
    BY <1>1, <1>2 DEF TypeOK
  <2>2. CASE call'[d] = call[d]
    BY <1>4, <2>2 DEF At
  <2>3. CASE call'[d] # call[d]
    <3>1. call'[d] = [call[d] EXCEPT !.current = FALSE] /\ At(d, "assign")
      BY Zenon, <2>1, <2>3 DEF Outdated, At
    <3>2. call[d] \in Assigning
      BY <2>1, <3>1, Shapes DEF At
    <3> QED BY <3>1, <3>2 DEF Assigning
  <2> QED BY <2>2, <2>3
<1>5. Order'
  <2>1. \A t : Ready(t) => Ready(t)'
    BY DEF Ready
  <2>2. ASSUME NEW d \in Caller, At(d, "assign")'
        PROVE  Ready(call[d].task)' /\ \A t \in call'[d].todo : Ready(t)'
    <3>1. CASE d = c
      <4>1. Selects(c, avail, todo, list, current)
        BY <1>2, <2>2, <3>1 DEF At
      <4>2. call'[c].task \in todo /\ call'[c].todo \subseteq todo
        BY <4>1 DEF Selects
      <4> QED BY <2>1, <3>1, <4>2 DEF Ready
    <3>2. CASE d # c
      <4>1. At(d, "assign") /\ call'[d].task = call[d].task /\ call'[d].todo = call[d].todo
        BY <1>4, <2>2, <3>2
      <4>2. Ready(call[d].task) /\ \A t \in call[d].todo : Ready(t)
        BY <4>1 DEF Inv, Order, ListsReady
      <4> QED BY <2>1, <4>1, <4>2 DEF Ready
    <3> QED BY <3>1, <3>2
  <2>3. DoneInOrder'
    BY DEF Inv, Order, DoneInOrder, Ready
  <2> QED BY <2>2, <2>3 DEF Order, ListsReady, Ready
<1>6. ASSUME ~ overlapped' PROVE Alone'
  <2>1. Alone /\ current /\ FreeLists(avail, todo, list)
    BY <1>6 DEF Inv
  <2>2. \A d \in Caller \ {c} : call'[d] = Idle
    BY <1>2, <2>1 DEF Alone, Outdated
  <2>3. ~ At(c, "answered")'
    BY <1>2, Shapes DEF At, Selects, Assigning
  <2>4. /\ \A d, e \in Caller : call'[d] # Idle /\ call'[e] # Idle => d = e
        /\ \A d \in Caller : At(d, "answered")' => (Occupied \subseteq call[d].occupied)'
    BY <2>2, <2>3 DEF At
  <2>5. \A a \in Agent : \A s, t \in held'[a] : s = t
    BY <2>1 DEF FreeLists
  <2>6. CASE call'[c] = Idle /\ busy' = list /\ assigned' = assigned
    <3>1. \A d \in Caller : ~ At(d, "assign")'
      BY <2>2, <2>6 DEF At
    <3> QED BY <2>1, <2>4, <2>5, <2>6, <3>1 DEF Alone, FreeLists
  <2>7. CASE Selects(c, avail, todo, list, current)
    <3>1. PICK a \in avail, t \in todo :
            /\ call'[c].task = t /\ call'[c].agent = a
            /\ call'[c].avail = avail \ {a} /\ call'[c].todo = todo \ {t} /\ call'[c].current = current
            /\ busy' = list \cup {a} /\ assigned' = [assigned EXCEPT ![t] = a]
      BY Zenon, <2>1, <2>7 DEF Selects
    <3>2. assigned'[t] # NoAgent /\ \A u \in Task \ {t} : assigned'[u] = assigned[u]
      BY <1>1, <3>1 DEF TypeOK
    <3>3. given'[t] = 0
      <4>1. ~ given'[t] > 0 /\ given'[t] \in Nat
        BY <2>1 DEF FreeLists
      <4> QED BY <4>1
    <3>4. Safe(c)'
      <4>1. a \in busy' /\ a \notin Occupied' /\ (avail \ {a}) \cap busy' = {}
        BY <2>1, <3>1 DEF FreeLists
      <4>2. \A u \in todo \ {t} : assigned'[u] = NoAgent
        BY <2>1, <3>2 DEF FreeLists
      <4> QED BY <2>1, <3>1, <3>2, <3>3, <4>1, <4>2 DEF Safe
    <3>5. \A d \in Caller : At(d, "assign")' => Safe(d)'
      BY <2>2, <3>4 DEF At
    <3>6. Occupied' \subseteq busy'
      BY <2>1, <3>1 DEF FreeLists
    <3>7. \A u \in Task : given'[u] > 0 => given'[u] = 1 /\ assigned'[u] # NoAgent
      BY <2>1, <3>2 DEF FreeLists
    <3> QED BY <2>4, <2>5, <3>5, <3>6, <3>7 DEF Alone
  <2> QED BY <1>2, <2>6, <2>7
<1> QED BY <1>3, <1>5, <1>6 DEF Inv

\* Every ready task has its dependencies in a terminal status and no agent.
LEMMA ReadyTasks ==
  /\ get_ready_tasks \subseteq Task
  /\ \A t \in get_ready_tasks : Ready(t) /\ assigned[t] = NoAgent
BY DEF get_ready_tasks, Ready

LEMMA RefreshInv == ASSUME Inv, NEW c \in Caller, Refresh(c) PROVE Inv'
<1> DEFINE calls == [k \in Caller |-> Outdated(call[k])]
           occupied == call[c].occupied
<1>0. TypeOK /\ At(c, "answered") /\ call[c] \in CallRecord
  BY DEF Inv, TypeOK, Refresh, At
<1>1. occupied \subseteq Agent
  BY <1>0, Shapes DEF At
<1>2. ASSUME NEW k \in CallRecord \cup {Idle} PROVE Outdated(k) \in CallRecord \cup {Idle}
  <2>1. CASE k # Idle /\ k.pc = "assign"
    <3>1. k \in Assigning
      BY <2>1, Shapes
    <3>2. [k EXCEPT !.current = FALSE] \in Assigning
      BY Zenon, <3>1 DEF Assigning
    <3> QED BY <2>1, <3>2, Shapes DEF Outdated
  <2> QED BY <2>1 DEF Outdated
<1>3. calls \in [Caller -> CallRecord \cup {Idle}]
  BY <1>0, <1>2 DEF TypeOK
<1>4. \A d \in Caller : calls[d] \in {call[d], Outdated(call[d])}
  OBVIOUS
<1>5. /\ Iterate(c, calls, Agent \ occupied, get_ready_tasks, occupied, TRUE)
      /\ UNCHANGED <<done, held, given, overlapped>> /\ call[c] # Idle
  BY Zenon DEF Refresh
<1> HIDE DEF calls, occupied
<1>6. ASSUME ~ overlapped PROVE FreeLists(Agent \ occupied, get_ready_tasks, occupied)
  <2>1. Occupied \subseteq occupied
    BY <1>0, <1>6 DEF Inv, Alone, occupied
  <2>2. Occupied' = Occupied
    BY <1>5 DEF Occupied
  <2> QED BY <1>5, <1>6, <2>1, <2>2, ReadyTasks DEF FreeLists, Inv, Alone
<1>7. DependenciesFirst' /\ held' \in [Agent -> SUBSET Task] /\ given' \in [Task -> Nat]
  BY <1>0, <1>5 DEF Inv, Order, DependenciesFirst, TypeOK
<1> QED BY Zenon, <1>1, <1>3, <1>4, <1>5, <1>6, <1>7, ReadyTasks, LoopStep

LEMMA FallBackInv == ASSUME Inv, NEW c \in Caller, FallBack(c) PROVE Inv'
<1>0. TypeOK /\ call \in [Caller -> CallRecord \cup {Idle}] /\ busy \subseteq Agent
  BY DEF Inv, TypeOK
<1>1. /\ Iterate(c, call, Agent \ busy, get_ready_tasks, busy, TRUE)
      /\ UNCHANGED <<done, held, given, overlapped>> /\ call[c] # Idle
  BY Zenon DEF FallBack
<1>2. ASSUME ~ overlapped PROVE FreeLists(Agent \ busy, get_ready_tasks, busy)
  <2>1. Occupied' = Occupied
    BY <1>1 DEF Occupied
  <2> QED BY <1>1, <1>2, <2>1, ReadyTasks DEF FreeLists, Inv, Alone
<1>3. DependenciesFirst' /\ held' \in [Agent -> SUBSET Task] /\ given' \in [Task -> Nat]
  BY <1>0, <1>1 DEF Inv, Order, DependenciesFirst, TypeOK
<1>4. \A d \in Caller : call[d] \in {call[d], Outdated(call[d])}
  OBVIOUS
<1> QED BY Zenon, <1>0, <1>1, <1>2, <1>3, <1>4, ReadyTasks, LoopStep

LEMMA AssignInv == ASSUME Inv, NEW c \in Caller, assign_task(c) PROVE Inv'
<1> DEFINE k == call[c]
<1>0. /\ TypeOK /\ At(c, "assign") /\ k \in Assigning /\ k # Idle
      /\ call \in [Caller -> CallRecord \cup {Idle}] /\ busy \subseteq Agent
  BY Shapes DEF Inv, TypeOK, assign_task, At
<1>1. /\ k.task \in Task /\ k.agent \in Agent /\ k.avail \subseteq Agent
      /\ k.todo \subseteq Task /\ k.current \in BOOLEAN
  BY <1>0, Shapes
<1>2. /\ held' = [held EXCEPT ![k.agent] = @ \cup ({k.task} \ done)]
      /\ given' = [given EXCEPT ![k.task] = @ + 1]
      /\ Iterate(c, call, k.avail, k.todo, busy, k.current)
      /\ UNCHANGED <<done, overlapped>>
  BY DEF assign_task
<1>3. Ready(k.task) /\ \A t \in k.todo : Ready(t)
  BY <1>0 DEF Inv, Order, ListsReady
<1>9. ~ overlapped => Safe(c) /\ Alone
  BY <1>0 DEF Inv, Alone
<1>10. Safe(c) => /\ k.current /\ given[k.task] = 0 /\ assigned[k.task] # NoAgent
                  /\ k.task \notin k.todo /\ \A t \in k.todo : assigned[t] = NoAgent
                  /\ k.agent \in busy \ Occupied /\ k.avail \cap busy = {}
  BY DEF Safe
<1> HIDE DEF k
<1>4. /\ held' \in [Agent -> SUBSET Task]
      /\ held'[k.agent] = held[k.agent] \cup ({k.task} \ done)
      /\ \A a \in Agent \ {k.agent} : held'[a] = held[a]
  BY <1>0, <1>1, <1>2 DEF TypeOK
<1>5. /\ given' \in [Task -> Nat] /\ given'[k.task] = given[k.task] + 1
      /\ \A t \in Task \ {k.task} : given'[t] = given[t]
  BY <1>0, <1>1, <1>2 DEF TypeOK
<1>6. DependenciesFirst'
  <2>1. \A a \in Agent : \A t \in held'[a] : t = k.task \/ t \in held[a]
    BY <1>1, <1>4
  <2> QED BY <1>2, <1>3, <2>1 DEF Inv, Order, DependenciesFirst, Ready
<1>7. ASSUME ~ overlapped PROVE k.current /\ FreeLists(k.avail, k.todo, busy)
  <2>1. Alone /\ k.current /\ given[k.task] = 0 /\ assigned[k.task] # NoAgent
        /\ k.agent \in busy /\ k.agent \notin Occupied /\ k.avail \cap busy = {}
        /\ \A t \in k.todo : assigned[t] = NoAgent
    BY <1>7, <1>9, <1>10
  <2>2. held[k.agent] = {}
    BY <1>1, <2>1 DEF Occupied
  <2>3. Occupied' \subseteq busy
    BY <1>4, <2>1 DEF Alone, Occupied
  <2>4. \A a \in Agent : \A s, t \in held'[a] : s = t
    BY <1>4, <2>1, <2>2 DEF Alone
  <2>5. \A t \in Task : given'[t] > 0 => given'[t] = 1 /\ assigned[t] # NoAgent
    <3>1. given'[k.task] = 1
      BY <1>5, <2>1
    <3>2. \A t \in Task \ {k.task} : given'[t] > 0 => given'[t] = 1 /\ assigned[t] # NoAgent
      BY <1>5, <2>1 DEF Alone
    <3> QED BY <2>1, <3>1, <3>2
  <2> QED BY <2>1, <2>3, <2>4, <2>5 DEF FreeLists
<1>8. \A d \in Caller : call[d] \in {call[d], Outdated(call[d])}
  OBVIOUS
<1>11. call[c] # Idle
  BY <1>0 DEF At
<1> QED BY <1>0, <1>1, <1>2, <1>3, <1>4, <1>5, <1>6, <1>7, <1>8, <1>11, LoopStep

\* The steps that change one call and nothing else of the walker.
LEMMA CallStep ==
  ASSUME Inv, NEW c \in Caller, NEW k \in CallRecord \cup {Idle}, call' = [call EXCEPT ![c] = k],
         k # Idle => k.pc \in {"ask", "answered"},
         UNCHANGED <<done, assigned, busy, held, given>>, overlapped' \in BOOLEAN,
         ~ overlapped' => /\ ~ overlapped
                          /\ k # Idle => \A d \in Caller \ {c} : call[d] = Idle
                          /\ k # Idle /\ k.pc = "answered" => Occupied \subseteq k.occupied
  PROVE  Inv'
<1>1. TypeOK
  BY DEF Inv
<1>2. call'[c] = k /\ \A d \in Caller \ {c} : call'[d] = call[d]
  BY <1>1 DEF TypeOK
<1>3. TypeOK'
  BY <1>1 DEF TypeOK
<1>4. ~ At(c, "assign")' /\ \A d \in Caller \ {c} : At(d, "assign")' <=> At(d, "assign")
  BY <1>2 DEF At
<1>5. Order'
  <2>1. ListsReady'
    <3>1. \A d \in Caller : At(d, "assign")' => At(d, "assign") /\ call'[d] = call[d]
      BY <1>2, <1>4
    <3> QED BY <3>1 DEF Inv, Order, ListsReady, Ready
  <2>2. DependenciesFirst' /\ DoneInOrder'
    BY DEF Inv, Order, DependenciesFirst, DoneInOrder, Ready
  <2> QED BY <2>1, <2>2 DEF Order
<1>6. ASSUME ~ overlapped' PROVE Alone'
  <2>1. Alone
    BY <1>6 DEF Inv
  <2>2. Occupied' = Occupied
    BY DEF Occupied
  <2>3. \A d, e \in Caller : call'[d] # Idle /\ call'[e] # Idle => d = e
    BY <1>2, <1>6, <2>1 DEF Alone
  <2>4. \A d \in Caller : At(d, "assign")' => Safe(d)'
    <3>1. ASSUME NEW d \in Caller, At(d, "assign")' PROVE Safe(d)'
      <4>1. At(d, "assign") /\ call'[d] = call[d]
        BY <1>2, <1>4, <3>1
      <4>2. Safe(d)
        BY <2>1, <4>1 DEF Alone
      <4> QED BY <2>2, <4>1, <4>2 DEF Safe
    <3> QED BY <3>1
  <2>5. \A d \in Caller : At(d, "answered")' => Occupied' \subseteq call'[d].occupied
    BY <1>2, <1>6, <2>1, <2>2 DEF Alone, At
  <2> QED BY <2>1, <2>2, <2>3, <2>4, <2>5 DEF Alone
<1> QED BY <1>3, <1>5, <1>6 DEF Inv

LEMMA BeginInv == ASSUME Inv, NEW c \in Caller, advance_dag(c) \/ get_agents(c) \/ AssignThrows(c) PROVE Inv'
<1>0. overlapped \in BOOLEAN
  BY DEF Inv, TypeOK
<1>1. CASE advance_dag(c)
  <2>1. [pc |-> "ask"] \in CallRecord /\ [pc |-> "ask"].pc = "ask"
    BY DEF CallRecord
  <2>2. overlapped' \in BOOLEAN /\ (~ overlapped' => ~ overlapped /\ \A d \in Caller : call[d] = Idle)
    BY Zenon, <1>0, <1>1 DEF advance_dag
  <2>3. call' = [call EXCEPT ![c] = [pc |-> "ask"]] /\ UNCHANGED <<done, assigned, busy, held, given>>
    BY <1>1 DEF advance_dag
  <2> DEFINE k == [pc |-> "ask"]
  <2> HIDE DEF k
  <2>4. /\ k \in CallRecord /\ k.pc = "ask" /\ call' = [call EXCEPT ![c] = k]
    BY <2>1, <2>3 DEF k
  <2> QED BY Zenon, <2>2, <2>3, <2>4, CallStep
<1>2. CASE get_agents(c)
  <2> DEFINE k == [pc |-> "answered", occupied |-> Occupied]
  <2>1. k \in CallRecord /\ k.pc = "answered" /\ k.occupied = Occupied
    BY DEF CallRecord, Occupied
  <2>2. /\ call' = [call EXCEPT ![c] = k] /\ UNCHANGED <<done, assigned, busy, held, given, overlapped>>
        /\ call[c] # Idle
    BY <1>2 DEF get_agents
  <2> HIDE DEF k
  <2>3. ~ overlapped => \A d \in Caller \ {c} : call[d] = Idle
    BY <2>2 DEF Inv, Alone
  <2> QED BY Zenon, <1>0, <2>1, <2>2, <2>3, CallStep
<1>3. CASE AssignThrows(c)
  <2>1. call' = [call EXCEPT ![c] = Idle] /\ UNCHANGED <<done, assigned, busy, held, given, overlapped>>
    BY <1>3 DEF AssignThrows
  <2> QED BY Zenon, <1>0, <2>1, CallStep
<1> QED BY <1>1, <1>2, <1>3

LEMMA FinishInv == ASSUME Inv, NEW a \in Agent, FinishTask(a) PROVE Inv'
<1>1. PICK t \in held[a] : done' = done \cup {t} /\ held' = [held EXCEPT ![a] = @ \ {t}]
  BY Zenon DEF FinishTask
<1>2. UNCHANGED <<assigned, busy, call, given, overlapped>> /\ TypeOK
  BY DEF FinishTask, Inv
<1>3. t \in Task /\ held' \in [Agent -> SUBSET Task] /\ \A b \in Agent : held'[b] \subseteq held[b]
  BY <1>1, <1>2 DEF TypeOK
<1>4. TypeOK'
  BY <1>1, <1>2, <1>3 DEF TypeOK
<1>5. Order'
  <2>1. \A u : Ready(u) => Ready(u)'
    BY <1>1 DEF Ready
  <2>2. ListsReady'
    BY <1>2, <2>1 DEF Inv, Order, ListsReady, At
  <2>3. DependenciesFirst'
    BY <1>1, <1>3 DEF Inv, Order, DependenciesFirst
  <2>4. DoneInOrder'
    <3>1. Ready(t)
      BY DEF Inv, Order, DependenciesFirst, Ready
    <3> QED BY <1>1, <2>1, <3>1 DEF Inv, Order, DoneInOrder
  <2> QED BY <2>2, <2>3, <2>4 DEF Order
<1>6. ASSUME ~ overlapped' PROVE Alone'
  <2>1. Alone
    BY <1>2, <1>6 DEF Inv
  <2>2. Occupied' \subseteq Occupied
    BY <1>3 DEF Occupied
  <2>3. \A c \in Caller : At(c, "assign")' => Safe(c)'
    BY Zenon, <1>2, <2>1, <2>2 DEF Alone, At, Safe
  <2>4. \A c \in Caller : At(c, "answered")' => Occupied' \subseteq call'[c].occupied
    BY <1>2, <2>1, <2>2 DEF Alone, At
  <2>5. \A b \in Agent : \A s, u \in held'[b] : s = u
    BY <1>3, <2>1 DEF Alone
  <2> QED BY Zenon, <1>2, <2>1, <2>2, <2>3, <2>4, <2>5 DEF Alone
<1> QED BY <1>4, <1>5, <1>6 DEF Inv

-----------------------------------------------------------------------------
\* Every step of the walker, of the server and of the agents keeps the invariant.
LEMMA NextInv == Inv /\ [Next]_vars => Inv'
<1> SUFFICES ASSUME Inv, [Next]_vars PROVE Inv'
  OBVIOUS
<1>1. CASE UNCHANGED vars
  <2>1. TypeOK' /\ Order'
    BY <1>1 DEF vars, Inv, TypeOK, Order, ListsReady, DependenciesFirst, DoneInOrder, At, Ready
  <2>2. Occupied' = Occupied
    BY <1>1 DEF vars, Occupied
  <2>3. Alone => Alone'
    BY <1>1, <2>2 DEF vars, Alone, At, Safe
  <2> QED BY <1>1, <2>1, <2>3 DEF Inv, vars
<1>2. ASSUME NEW c \in Caller, advance_dag(c) \/ Step(c) PROVE Inv'
  BY <1>2, BeginInv, RefreshInv, FallBackInv, AssignInv DEF Step
<1>3. ASSUME NEW a \in Agent, FinishTask(a) PROVE Inv'
  BY <1>3, FinishInv
<1> QED BY <1>1, <1>2, <1>3 DEF Next

\* The inductive invariant: the lists a call works on stay ready, and, of calls that do not
\* overlap, the cached agents include every occupied one.
THEOREM WalkerInvariance == Spec => []Inv
BY InitInv, NextInv, PTL DEF Spec

\* DAGWalker.advance_dag: for any dependencies, agents and callers, overlapping calls and stale
\* lists included, an agent is given a task only when all its dependencies are done.
THEOREM DependenciesComeFirst == Spec => []DependenciesFirst
<1>1. Inv => DependenciesFirst
  BY DEF Inv, Order
<1> QED BY <1>1, WalkerInvariance, PTL

\* DAGWalker.advance_dag: the tasks are finished in an order of the DAG.
THEOREM FinishedInOrder == Spec => []DoneInOrder
<1>1. Inv => DoneInOrder
  BY DEF Inv, Order
<1> QED BY <1>1, WalkerInvariance, PTL

\* DAGWalker.advance_dag: calls that do not overlap never assign a task twice and never give an
\* agent a second task, whatever get_agents and assign_task raise.
THEOREM LoneCallsAssignOnce == Spec => []NoDoubleAssignment
<1>1. Inv => NoDoubleAssignment
  <2> SUFFICES ASSUME Inv, ~ overlapped
               PROVE  OneTaskPerAgent /\ \A t \in Task : given[t] <= 1
    BY DEF NoDoubleAssignment
  <2>1. Alone
    BY DEF Inv
  <2>2. \A t \in Task : given[t] <= 1
    <3>1. \A t \in Task : given[t] \in Nat /\ (given[t] > 0 => given[t] = 1)
      BY <2>1 DEF Alone, Inv, TypeOK
    <3> QED BY <3>1
  <2>3. ASSUME NEW a \in Agent PROVE Cardinality(held[a]) <= 1
    <3>1. CASE held[a] = {}
      BY <3>1, FS_EmptySet
    <3>2. CASE held[a] # {}
      <4>1. PICK t : held[a] = {t}
        BY <2>1, <3>2 DEF Alone
      <4>2. Cardinality({t}) = 1
        BY Zenon, FS_Singleton
      <4> QED BY <4>1, <4>2
    <3> QED BY <3>1, <3>2
  <2> QED BY <2>2, <2>3 DEF OneTaskPerAgent
<1> QED BY <1>1, WalkerInvariance, PTL
=============================================================================
