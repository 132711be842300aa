----------------------------- MODULE TaskClaimer -----------------------------
(***************************************************************************)
(* The orchestration daemon: TaskClaimer (task_claimer.py), the NATS       *)
(* listener that starts its calls (nats_listener.py) and the shutdown of   *)
(* the daemon around them (daemon.py).                                     *)
(*                                                                         *)
(* Everything runs on one asyncio loop: what a coroutine does between two  *)
(* awaits is one step.  get_tasks and claim_task are callables the daemon  *)
(* is given; here they are the server's list of ready tasks and its answer *)
(* to a claim, either of which may raise, or never come.                   *)
(***************************************************************************)
EXTENDS Naturals, FiniteSets

CONSTANTS
  Team, Task,
  TeamOf,           \* the team of a task
  Call,             \* asyncio tasks of advance_dag_tracked
  NoCall, NoLock,
  MaxFaults         \* how often get_tasks or claim_task may raise or refuse

\* A call: where it is, the tasks it has still to claim, the lock it holds.
CallRecord == [team : Team, pc : {"created", "fetch", "claim", "done"}, todo : SUBSET Task,
               lock : (Team \X Call) \cup {NoLock}]

ASSUME ConstantsAssumption ==
  /\ TeamOf \in [Task -> Team]
  /\ MaxFaults \in Nat
  /\ NoCall \notin CallRecord
  /\ NoLock \notin Team \X Call

VARIABLES
  status,           \* server: "blocked", "ready" or "claimed", per task
  events,           \* hi.tasks.* events not delivered yet, one per task that became ready
  faults,
  call,             \* _in_flight and the coroutine of each
  cancelled,        \* calls whose cancellation was requested
  advancing,        \* _advancing
  locks,            \* _team_locks; a lock object is named by its team and the call that made it
  shutting_down,    \* listener
  shutdown_event,   \* daemon
  scanned,          \* startup_scan was called
  daemon, waiting   \* where run() is; the calls that drain gathers

server == <<status, events, faults>>
claimer == <<call, cancelled, advancing, locks>>
process == <<shutting_down, shutdown_event, scanned, daemon, waiting>>
vars == <<server, claimer, process>>

Init ==
  /\ status = [t \in Task |-> "blocked"] /\ events = {} /\ faults = 0
  /\ call = [c \in Call |-> NoCall] /\ cancelled = {}
  /\ advancing = {} /\ locks = [m \in Team |-> NoLock]
  /\ shutting_down = FALSE /\ shutdown_event = FALSE /\ scanned = FALSE
  /\ daemon = "serve" /\ waiting = {}

(***************************************************************************)
(* The server: a task becomes ready, and its event is on its way.          *)
(***************************************************************************)
BecomeReady(t) ==
  /\ status[t] = "blocked"
  /\ status' = [status EXCEPT ![t] = "ready"]
  /\ events' = events \cup {t}
  /\ UNCHANGED <<faults, claimer, process>>

Fault == faults < MaxFaults /\ faults' = faults + 1

(***************************************************************************)
(* Listener and startup: advance_dag_tracked creates an asyncio task.      *)
(***************************************************************************)
in_flight == {c \in Call : call[c] # NoCall}

Created(m) == [team |-> m, pc |-> "created", todo |-> {}, lock |-> NoLock]

\* An event is dropped during shutdown or when its ids or payload do not validate.
on_task_event(t) ==
  /\ t \in events
  /\ events' = events \ {t}
  /\ \/ shutting_down /\ UNCHANGED <<call, faults>>
     \/ ~ shutting_down /\ Fault /\ UNCHANGED call
     \/ /\ ~ shutting_down
        /\ \E c \in Call \ in_flight : call' = [call EXCEPT ![c] = Created(TeamOf[t])]
        /\ UNCHANGED faults
  /\ UNCHANGED <<status, cancelled, advancing, locks, process>>

startup_scan ==
  /\ daemon = "serve" /\ ~ shutting_down /\ ~ scanned
  /\ scanned' = TRUE
  /\ \E f \in [Team -> Call \ in_flight] :
       /\ \A m, n \in Team : f[m] = f[n] => m = n
       /\ call' = [c \in Call |-> IF \E m \in Team : f[m] = c
                                    THEN Created(CHOOSE m \in Team : f[m] = c) ELSE call[c]]
  /\ UNCHANGED <<server, cancelled, advancing, locks, shutting_down, shutdown_event, daemon, waiting>>

(***************************************************************************)
(* advance_dag                                                             *)
(***************************************************************************)
At(c, pc) == call[c] # NoCall /\ call[c].pc = pc /\ c \notin cancelled

Held(lock) == \E c \in in_flight : call[c].lock = lock

\* The try block is left, normally, by an exception or by cancellation: the lock is
\* released and the team's mark removed.
Finish(c) ==
  /\ call' = [call EXCEPT ![c].pc = "done", ![c].todo = {}, ![c].lock = NoLock]
  /\ advancing' = advancing \ {call[c].team}

\* Mutant of advance_dag: the team is not marked.
advance_dag_unmarked(c) ==
  /\ At(c, "created")
  /\ LET m == call[c].team
         lock == IF locks[m] = NoLock THEN <<m, c>> ELSE locks[m]
     IN /\ ~ Held(lock)
        /\ locks' = [locks EXCEPT ![m] = lock]
        /\ call' = [call EXCEPT ![c].pc = "fetch", ![c].lock = lock]
        /\ UNCHANGED advancing
  /\ UNCHANGED <<server, cancelled, process>>

\* A call for a team that is being advanced is coalesced; otherwise the team is marked, its
\* lock made if need be and taken (a call that finds it held waits), and get_tasks called.
advance_dag(c) ==
  /\ At(c, "created")
  /\ LET m == call[c].team
         lock == IF locks[m] = NoLock THEN <<m, c>> ELSE locks[m]
     IN IF m \in advancing
          THEN call' = [call EXCEPT ![c].pc = "done"] /\ UNCHANGED <<advancing, locks>>
          ELSE /\ ~ Held(lock)
               /\ advancing' = advancing \cup {m}
               /\ locks' = [locks EXCEPT ![m] = lock]
               /\ call' = [call EXCEPT ![c].pc = "fetch", ![c].lock = lock]
  /\ UNCHANGED <<server, cancelled, process>>

\* get_tasks answers, or raises.
get_tasks(c) ==
  /\ At(c, "fetch")
  /\ \/ /\ call' = [call EXCEPT ![c].pc = "claim",
                                ![c].todo = {t \in Task : TeamOf[t] = call[c].team /\ status[t] = "ready"}]
        /\ UNCHANGED <<advancing, faults>>
     \/ Fault /\ Finish(c)
  /\ UNCHANGED <<status, events, cancelled, locks, process>>

\* Mutant of claim_task: the loop ends with the first task.
claim_task_once(c) ==
  /\ At(c, "claim")
  /\ \E t \in call[c].todo :
       /\ status' = [status EXCEPT ![t] = "claimed"]
       /\ call' = [call EXCEPT ![c].todo = {}]
       /\ UNCHANGED <<advancing, faults>>
  /\ UNCHANGED <<events, cancelled, locks, process>>

\* The next task of the list is claimed, refused, or the claim raises and ends the call.
claim_task(c) ==
  /\ At(c, "claim")
  /\ \E t \in call[c].todo :
       \/ /\ status' = [status EXCEPT ![t] = "claimed"]
          /\ call' = [call EXCEPT ![c].todo = @ \ {t}]
          /\ UNCHANGED <<advancing, faults>>
       \/ /\ Fault
          /\ call' = [call EXCEPT ![c].todo = @ \ {t}]
          /\ UNCHANGED <<status, advancing>>
       \/ Fault /\ Finish(c) /\ UNCHANGED status
  /\ UNCHANGED <<events, cancelled, locks, process>>

EndOfLoop(c) ==
  /\ At(c, "claim") /\ call[c].todo = {}
  /\ Finish(c)
  /\ UNCHANGED <<server, cancelled, locks, process>>

\* Cancellation reaches the call: before its first step it just ends; at an await it leaves
\* the try block.
Cancel(c) ==
  /\ c \in cancelled /\ call[c] # NoCall /\ call[c].pc # "done"
  /\ IF call[c].pc = "created"
       THEN call' = [call EXCEPT ![c].pc = "done"] /\ UNCHANGED advancing
       ELSE Finish(c)
  /\ UNCHANGED <<server, cancelled, locks, process>>

\* The done callback takes the task out of _in_flight.
Discard(c) ==
  /\ call[c] # NoCall /\ call[c].pc = "done"
  /\ call' = [call EXCEPT ![c] = NoCall]
  /\ cancelled' = cancelled \ {c}
  /\ UNCHANGED <<server, advancing, locks, process>>

cleanup_idle_teams ==
  /\ \E m \in Team : locks[m] # NoLock /\ m \notin advancing
  /\ locks' = [m \in Team |-> IF m \in advancing THEN locks[m] ELSE NoLock]
  /\ UNCHANGED <<server, call, cancelled, advancing, process>>

(***************************************************************************)
(* daemon.run: a signal stops the listener and sets the event; run() then  *)
(* gathers the calls in flight, for a limited time, and stops.             *)
(***************************************************************************)

handle_signal ==
  /\ ~ shutdown_event
  /\ shutting_down' = TRUE /\ shutdown_event' = TRUE
  /\ UNCHANGED <<server, claimer, scanned, daemon, waiting>>

drain ==
  /\ daemon = "serve" /\ shutdown_event
  /\ waiting' = in_flight
  /\ daemon' = IF in_flight = {} THEN "stop" ELSE "drain"
  /\ UNCHANGED <<server, claimer, shutting_down, shutdown_event, scanned>>

Finished(c) == call[c] # NoCall => call[c].pc = "done"

\* Mutant of DrainTimeout: drain waits for as long as it takes.
DrainForever == FALSE

\* wait_for cancels the gather, which cancels the calls, and returns when they have ended.
DrainTimeout ==
  /\ daemon = "drain" /\ waiting \cap cancelled = {}
  /\ cancelled' = {c \in waiting : ~ Finished(c)}
  /\ cancelled' # {}
  /\ UNCHANGED <<server, call, advancing, locks, process>>

stop ==
  /\ daemon = "drain"
  /\ \A c \in waiting : Finished(c)
  /\ daemon' = "stop" /\ waiting' = {}
  /\ UNCHANGED <<server, claimer, shutting_down, shutdown_event, scanned>>

Step(c) == advance_dag(c) \/ EndOfLoop(c) \/ Cancel(c) \/ Discard(c)

Answer(c) == get_tasks(c) \/ claim_task(c)

Next ==
  \/ \E t \in Task : BecomeReady(t) \/ on_task_event(t)
  \/ startup_scan
  \/ \E c \in Call : Step(c) \/ Answer(c)
  \/ cleanup_idle_teams
  \/ handle_signal \/ drain \/ DrainTimeout \/ stop

Spec == Init /\ [][Next]_vars

\* The loop runs what can run, and its timer fires.
LoopFairness ==
  /\ \A c \in Call : WF_vars(Step(c))
  /\ WF_vars(drain) /\ WF_vars(DrainTimeout) /\ WF_vars(stop)

\* The server answers and events arrive.
ServerFairness ==
  /\ \A c \in Call : WF_vars(Answer(c))
  /\ \A t \in Task : WF_vars(on_task_event(t))

LoopSpec == Spec /\ LoopFairness

FairSpec == Spec /\ LoopFairness /\ ServerFairness

-----------------------------------------------------------------------------
Running(m) == {c \in in_flight : call[c].team = m /\ call[c].pc \in {"fetch", "claim"}}

\* At most one advance_dag executes per team at any time (its docstring), although
\* cleanup_idle_teams may remove a lock between any two steps, and the team is marked in
\* _advancing exactly while it does, also when get_tasks or claim_task raised or the call
\* was cancelled: a mark left behind would coalesce every later call of the team.
OneAtATime ==
  \A m \in Team : Cardinality(Running(m)) <= 1 /\ (m \in advancing <=> Running(m) # {})

\* A signal stops the daemon even when get_tasks or claim_task never answers (daemon.py,
\* drain), and when run() is past its drain no call is in flight and none starts.
Stops == shutdown_event ~> [](daemon = "stop" /\ \A c \in Call : Finished(c))

\* If the server keeps answering and refuses nothing, a task that is ready when a call of its
\* team asks for the ready tasks is claimed, unless the daemon is told to stop.
FetchedIsClaimed ==
  WF_vars(\E c \in Call : Answer(c)) =>
    \A t \in Task :
      (status[t] = "ready" /\ \E c \in Call : At(c, "fetch") /\ call[c].team = TeamOf[t])
        ~> (status[t] = "claimed" \/ shutting_down \/ faults > 0)

\* Coalescing loses nothing, because the call in flight observes the latest state
\* (docstring of TaskClaimer): a task that became ready is claimed, unless the daemon is
\* told to stop.
ReadyIsClaimed ==
  \A t \in Task : status[t] = "ready" ~> (status[t] = "claimed" \/ shutting_down)
=============================================================================
