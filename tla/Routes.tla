------------------------------- MODULE Routes -------------------------------
(***************************************************************************)
(* The HTTP handlers that change a collection (src/src/routes.cpp): each    *)
(* calls one store operation and answers.  (What they publish to NATS is    *)
(* NatsClient's subject.)  The webhook handler passes GitHub's events to    *)
(* the store; the reconciler thread and others' edits at GitHub run beside  *)
(* them.                                                                    *)
(***************************************************************************)
EXTENDS Store

VARIABLE outside   \* history: one of the steps of Strays was taken

allVars == <<vars, outside>>

InitAll == Init /\ outside = FALSE

PostAgent(id) == create_agent(id)
StartAgent(id) == start_agent(id)
StopAgent(id) == stop_agent(id)
PatchAgent(id) == update_agent(id)
DeleteAgent(id) == delete_agent(id)
PostTeam(id) == create_team(id)
PutTeam(id) == update_team(id)
DeleteTeam(id) == delete_team(id)
PostTask(id) == create_task(id)
UpdateTask(id) == update_task(id)
PostChaos(id) == create_fault(id)
DeleteChaos(id) == remove_fault(id)

Handle(id) ==
    \/ PostAgent(id) \/ StartAgent(id) \/ StopAgent(id) \/ PatchAgent(id)
    \/ DeleteAgent(id)
    \/ PostTeam(id) \/ PutTeam(id) \/ DeleteTeam(id)
    \/ PostTask(id) \/ UpdateTask(id)
    \/ PostChaos(id) \/ DeleteChaos(id)

(* Calls the orchestrator makes on its own. *)
Orchestrate(id) ==
    \/ mark_task_completed(id)
    \/ create_hmas_task(id) \/ update_hmas_task(id) \/ update_hmas_task_state(id)
    \/ update_hmas_task_state_and_record_escalation(id)
    \/ create_task_brief(id)

Hydrate ==
    \/ ensure_agents_loaded_ \/ ensure_teams_loaded_ \/ ensure_tasks_loaded_
    \/ ensure_faults_loaded_ \/ ensure_hmas_tasks_loaded_
    \/ ensure_briefs_loaded_ \/ Merge

(* A webhook delivery reaches the server. *)
PostGithubWebhook(h) ==
    /\ h \in hooks /\ hooks' = hooks \ {h}
    /\ apply_github_event(h.action, h)
    /\ UNCHANGED rest

LoseHook(h) ==
    /\ h \in hooks /\ hooks' = hooks \ {h}
    /\ Fault
    /\ UNCHANGED <<issues, clock, storeVars>>

(* Someone edits, closes or reopens an issue at GitHub. *)
Elsewhere(n) ==
    /\ Trouble /\ RoomForHooks
    /\ \/ /\ ver < MaxWrites /\ ver' = ver + 1
          /\ \E parses \in BOOLEAN :
                Changed(n, "edited", [issues[n].body EXCEPT
                            !.ver = ver + 1, !.parses = parses], issues[n].open)
       \/ /\ Changed(n, IF issues[n].open THEN "closed" ELSE "reopened",
                     issues[n].body, ~issues[n].open)
          /\ UNCHANGED ver
    /\ UNCHANGED <<clock, faults, kind, mem, loaded, listing, fetching,
                   mutex, rest, used>>

Crash ==
    /\ Trouble
    /\ mem' = [id \in Id |-> NoRec]
    /\ loaded' = FALSE /\ listing' = {} /\ fetching' = FALSE
    /\ mutex' = Free /\ rest' = {}
    /\ UNCHANGED <<issues, hooks, clock, faults, kind, used, ver>>

Tick ==
    /\ clock < MaxClock /\ clock' = clock + 1
    /\ NoFault /\ UNCHANGED <<issues, hooks, storeVars>>
-----------------------------------------------------------------------------
(* Whether something listed or delivered about a record has yet to reach the*)
(* store.                                                                   *)
Pending(id) == \E e \in hooks \cup rest : e.id = id

(* The operations that leave no newer updatedAt behind. *)
Unstampable == {"delete", "status", "complete"}

(* The steps after which the store is no longer bound to act as a           *)
(* write-through cache.                                                     *)

(* A request given up, a creation that took effect and is tried again, a    *)
(* listing cut short under a hydration.                                     *)
Failed ==
    /\ faults' # faults
    /\ \/ mutex # Free /\ mutex' = Free
       \/ mutex.op = "create" /\ issues' # issues
       \/ fetching' /\ ~fetching

(* A removal or a change of status that overtakes what is still pending     *)
(* about the record, or meets a listing of the reconciler half way.         *)
Overtaken ==
    \/ /\ mutex' # Free /\ mutex = Free
       /\ mutex'.op \in Unstampable /\ Pending(mutex'.id)
    \/ \E e \in rest' \ rest : mutex.op \in Unstampable /\ mutex.id = e.id

(* Someone else's change that meets a request or a listing of the server    *)
(* half way, falls in the same second as the change before it, edits a      *)
(* closed issue, closes one the store has not taken up, or breaks the body. *)
Crossed ==
    /\ trouble' # trouble /\ faults' = faults
    /\ \E n \in Numbers :
        /\ issues'[n] # issues[n]
        /\ \/ fetching \/ \E e \in rest : e.n = n
           \/ mutex # Free /\ mutex.id = issues[n].id
           \/ issues[n].updated_at = clock
           \/ ~issues'[n].open /\ (~issues[n].open \/ ~Present(issues[n].id))
           \/ ~issues'[n].body.parses

(* A hydration with deliveries still under way; a closed or reopened event  *)
(* that takes updatedAt back, or advances it past an edit the store has yet *)
(* to take up.                                                              *)
Late ==
    \/ \E h \in hooks \ hooks' :
        /\ h.action \in {"closed", "reopened"}
        /\ Present(h.id) /\ mem' # mem /\ mem[h.id].ver < h.body.ver
    \/ ~loaded /\ loaded' /\ hooks # {}
    \/ \E id \in Id : Present(id) /\ Present(id)' /\ mem'[id].at < mem[id].at

Strays == Failed \/ Overtaken \/ Crossed \/ Late

Act ==
    \/ \E id \in Id : Handle(id) \/ Orchestrate(id)
    \/ Hydrate
    \/ \E answer \in Answer : Attempt(answer)
    \/ \E h \in hooks : PostGithubWebhook(h) \/ LoseHook(h)
    \/ reconcile_from_github
    \/ \E e \in rest : ReconcileOne(e)
    \/ \E n \in Numbers : Elsewhere(n)
    \/ Crash
    \/ Tick

Noted(A) == A /\ outside' = (outside \/ Strays)

Next == Noted(Act)

(* Every operation a thread has begun goes on, and the reconciler thread    *)
(* keeps making its rounds.                                                 *)
Fairness ==
    /\ WF_allVars(Noted(\E answer \in Answer : Attempt(answer)))
    /\ WF_allVars(Noted(Hydrate))
    /\ WF_allVars(Noted(reconcile_from_github))
    /\ WF_allVars(Noted(\E e \in rest : ReconcileOne(e)))
    /\ WF_allVars(Noted(\E h \in hooks : PostGithubWebhook(h) \/ LoseHook(h)))

FairSpec == InitAll /\ [][Next]_allVars /\ Fairness

-----------------------------------------------------------------------------
(* What a reader of the collection sees: a mutator's change shows when it   *)
(* releases the mutex.                                                      *)
Visible(id) == IF mutex # Free /\ mutex.id = id THEN mutex.old.ver
               ELSE mem[id].ver

Newest(id) == CHOOSE n \in IssuesOf(id) : \A m \in IssuesOf(id) : m <= n

Cache == INSTANCE WriteThroughCache WITH
    disk <- [id \in Id |-> IF IssuesOf(id) = {} THEN 0
                           ELSE issues[Newest(id)].body.ver],
    open <- [id \in Id |-> IssuesOf(id) # {} /\ issues[Newest(id)].open],
    cache <- IF loaded THEN [id \in Id |-> Visible(id)] ELSE [id \in Id |-> -1]

(* store.hpp:32: until one of the steps Strays names, the store is a        *)
(* write-through cache of the issues: a write is at GitHub when it shows,   *)
(* an inbound event never takes a record back to an older version nor       *)
(* brings back a removed one, and a restart loses nothing.                  *)
WriteThrough == Cache!Spec

Idle == loaded /\ mutex = Free /\ hooks = {} /\ rest = {}

(* store.cpp:340-386, 411-530: with every delivery in and no operation      *)
(* running, the map holds every record whose issue is open, and every       *)
(* record it holds is at the version GitHub has.                            *)
Converged ==
    Idle /\ ~outside /\ faults = 0 /\ pick_collection_ =>
        \A id \in Id :
            /\ IssuesOf(id) = {} => ~Present(id)
            /\ IssuesOf(id) # {} =>
                LET issue == issues[Newest(id)]
                IN  /\ issue.open => Present(id)
                    /\ Present(id) => mem[id].ver = issue.body.ver

Behind(id) ==
    /\ pick_collection_ /\ loaded /\ IssuesOf(id) # {}
    /\ issues[Newest(id)].open /\ Visible(id) < issues[Newest(id)].body.ver

(* store.cpp:388-407, server_main.cpp:79-92: a record whose newest version  *)
(* the store has missed, because its delivery was lost, is brought up to    *)
(* date by the reconciler.                                                  *)
CatchesUp == []~outside => \A id \in Id : Behind(id) ~> ~Behind(id)
=============================================================================
