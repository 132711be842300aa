------------------------------- MODULE Store --------------------------------
(***************************************************************************)
(* The in-memory store with GitHub persistence (src/src/store.cpp).  Each  *)
(* collection has its own map, mutex, loaded flag and label, and no        *)
(* function touches two of them, so a behaviour exercises one collection:  *)
(* `kind`.  A mutator holds the collection's mutex through its GitHub      *)
(* request, attempt by attempt; what may happen meanwhile is what happens  *)
(* at GitHub, and a crash.                                                 *)
(***************************************************************************)
EXTENDS GithubClient

CONSTANTS
    Kind,        \* the collections
    MaxWrites    \* bound: versions written, local and remote

AllKinds == {"agent", "team", "task", "fault", "hmas", "brief"}

ASSUME StoreAssumption ==
    /\ Kind \subseteq AllKinds
    /\ MaxWrites \in Nat

VARIABLES
    kind,      \* the collection
    mem,       \* its map: id -> record, NoRec when absent
    loaded,    \* its loaded flag
    listing,   \* the issues a hydration has listed and not merged yet
    fetching,  \* a thread is inside call_once
    mutex,     \* the operation that holds the mutex, Free when none does
    rest,      \* the reconciler's listed issues still to apply
    used,      \* ids ever created
    ver        \* versions written so far

storeVars == <<kind, mem, loaded, listing, fetching, mutex, rest, used, ver>>
vars == <<ghVars, storeVars>>

NoRec == [ver |-> 0, closed |-> FALSE, at |-> 0, issue |-> 0]
Free == [op |-> "none", id |-> CHOOSE i \in Id : TRUE, try |-> 0,
         rec |-> NoRec, old |-> NoRec]

Present(id) == mem[id] # NoRec

(* The labels apply_github_event knows. *)
pick_collection_ == kind \in {"agent", "team", "task", "fault"}

(* A record read back from an issue. *)
parse_issue_entity_(e) ==
    [ver |-> e.body.ver, closed |-> e.body.closed, at |-> e.body.at,
     issue |-> e.n]

Init ==
    /\ issues = <<>> /\ hooks = {} /\ clock = 1 /\ faults = 0 /\ trouble = 0
    /\ kind \in Kind
    /\ mem = [id \in Id |-> NoRec]
    /\ loaded = FALSE /\ listing = {} /\ fetching = FALSE
    /\ mutex = Free /\ rest = {}
    /\ used = {} /\ ver = 0

-----------------------------------------------------------------------------
(* Hydration: the first operation on the collection lists its issues        *)
(* without the mutex, every other one waits, and the list is merged.        *)

Fetch(k) ==
    /\ kind = k /\ ~loaded /\ ~fetching
    /\ \E p \in 0 .. Len(issues) : list_issues(p) /\ listing' = Listing(p)
    /\ fetching' = TRUE
    /\ UNCHANGED <<issues, hooks, clock, kind, mem, loaded, mutex, rest, used, ver>>

ensure_agents_loaded_ == Fetch("agent")
ensure_teams_loaded_ == Fetch("team")
ensure_tasks_loaded_ == Fetch("task")
ensure_faults_loaded_ == Fetch("fault")
ensure_hmas_tasks_loaded_ == Fetch("hmas")
ensure_briefs_loaded_ == Fetch("brief")

(* Issues whose body does not parse are skipped; of two issues with one id  *)
(* either may be the one merged last.                                       *)
Merge ==
    /\ fetching
    /\ \E new \in [Id -> listing \cup {NoRec}] :
        /\ \A id \in Id :
            LET good == {e \in listing : e.id = id /\ e.body.parses}
            IN  IF good = {} THEN new[id] = NoRec ELSE new[id] \in good
        /\ mem' = [id \in Id |-> IF new[id] = NoRec THEN mem[id]
                                 ELSE parse_issue_entity_(new[id])]
    /\ loaded' = TRUE /\ fetching' = FALSE /\ listing' = {}
    /\ UNCHANGED <<ghVars, kind, mutex, rest, used, ver>>

-----------------------------------------------------------------------------
(* The mutators.  Begin takes the mutex and does what precedes the GitHub   *)
(* request, Attempt is one attempt of the request, and the last of them     *)
(* ends the operation.                                                      *)

Finish(m, issue) ==
    /\ mutex' = Free
    /\ mem' = CASE m.op = "create" ->
                     [mem EXCEPT ![m.id] = [m.rec EXCEPT !.issue = issue]]
                [] m.op = "delete" -> [mem EXCEPT ![m.id] = NoRec]
                [] OTHER -> [mem EXCEPT ![m.id] = m.rec]

Begin(k, op, id, rec) ==
    LET m == [op |-> op, id |-> id, try |-> 1, rec |-> rec, old |-> mem[id]]
    IN  /\ kind = k /\ loaded /\ mutex = Free
        /\ rec.ver <= MaxWrites /\ RoomForHooks
        /\ IF op = "create" \/ rec.issue # 0
           THEN /\ mutex' = m
                /\ mem' = IF op \in {"create", "delete"} THEN mem
                          ELSE [mem EXCEPT ![id] = rec]
           ELSE Finish(m, 0)
        /\ ver' = IF rec.ver > ver THEN rec.ver ELSE ver
        /\ UNCHANGED <<ghVars, kind, loaded, listing, fetching, rest>>

Create(k, id) ==
    /\ id \notin used /\ used' = used \cup {id}
    /\ Begin(k, "create", id, [ver |-> ver + 1, closed |-> FALSE,
                               at |-> clock, issue |-> 0])

create_agent(id) == Create("agent", id)
create_team(id) == Create("team", id)
create_task(id) == Create("task", id)
create_fault(id) == Create("fault", id)
create_hmas_task(id) == Create("hmas", id)
create_task_brief(id) == Create("brief", id)

(* A change to a record that is in the map; the route's 404 otherwise. *)
Change(k, op, id, rec) ==
    Present(id) /\ Begin(k, op, id, rec) /\ UNCHANGED used

(* Every write makes a new version.  An update stamps the record; starting  *)
(* and stopping an agent, completing a task and the typed tasks' writes     *)
(* leave updatedAt alone, and the first three replace the status.           *)
Stamped(id) == [mem[id] EXCEPT !.ver = ver + 1, !.at = clock]
Unstamped(id) == [mem[id] EXCEPT !.ver = ver + 1]
Status(id) == [mem[id] EXCEPT !.ver = ver + 1, !.closed = FALSE]

update_agent(id) == Change("agent", "update", id, Stamped(id))
update_team(id) == Change("team", "update", id, Stamped(id))
update_task(id) == Change("task", "update", id, Stamped(id))
start_agent(id) == Change("agent", "status", id, Status(id))
stop_agent(id) == Change("agent", "status", id, Status(id))
mark_task_completed(id) == Change("task", "complete", id, Status(id))
update_hmas_task(id) == Change("hmas", "hmas", id, Unstamped(id))
update_hmas_task_state(id) == Change("hmas", "hmas", id, Unstamped(id))
update_hmas_task_state_and_record_escalation(id) ==
    Change("hmas", "hmas", id, Unstamped(id))

delete_agent(id) == Change("agent", "delete", id, mem[id])
delete_team(id) == Change("team", "delete", id, mem[id])
remove_fault(id) == Change("fault", "delete", id, mem[id])

make_issue_body_ == Body(mutex.rec, TRUE)

Attempt(answer) ==
    LET outcome == with_retry(mutex.try, answer)
    IN  /\ mutex # Free
        /\ CASE mutex.op = "create" ->
                  create_issue(answer, mutex.id, make_issue_body_)
             [] mutex.op = "delete" -> close_issue(answer, mutex.rec.issue)
             [] OTHER -> update_issue_body(answer, mutex.rec.issue, make_issue_body_)
        /\ CASE outcome = "again" ->
                  mutex' = [mutex EXCEPT !.try = @ + 1] /\ UNCHANGED mem
             [] outcome = "throw" ->
                  mutex' = Free /\ UNCHANGED mem
             [] outcome = "ok" -> Finish(mutex, Len(issues) + 1)
             [] outcome = "rejected" -> Finish(mutex, 0)
        /\ UNCHANGED <<clock, kind, loaded, listing, fetching, rest, used,
                       ver>>

-----------------------------------------------------------------------------
(* What comes from GitHub. *)

\* Mutant of Applied: the last writer wins, whatever the time.
AppliedAlways(action, e) ==
    IF ~pick_collection_ \/ ~e.body.parses \/ action \in {"closed", "reopened"}
    THEN mem ELSE [mem EXCEPT ![e.id] = parse_issue_entity_(e)]

\* Mutant of Applied: a reopened issue the map does not hold is left out.
AppliedIfPresent(action, e) ==
    IF pick_collection_ /\ e.body.parses /\ action # "closed" /\ Present(e.id)
       /\ mem[e.id].at < e.at
    THEN [mem EXCEPT ![e.id] = [parse_issue_entity_(e) EXCEPT !.at = e.at]]
    ELSE mem

Applied(action, e) ==
    LET new == parse_issue_entity_(e)
        id == e.id
    IN  CASE ~pick_collection_ \/ ~e.body.parses -> mem
          [] action = "closed" ->
                IF Present(id)
                THEN [mem EXCEPT ![id].closed = TRUE, ![id].at = e.at]
                ELSE mem
          [] action = "reopened" ->
                IF Present(id)
                THEN [mem EXCEPT ![id].closed = FALSE, ![id].at = e.at]
                ELSE [mem EXCEPT ![id] = new]
          [] OTHER ->
                IF Present(id) /\ mem[id].at >= e.at THEN mem
                ELSE [mem EXCEPT ![id] = [new EXCEPT !.at = e.at]]

apply_github_event(action, e) ==
    /\ pick_collection_ => loaded /\ mutex = Free
    /\ mem' = Applied(action, e)
    /\ NoFault /\ UNCHANGED <<issues, clock, kind, loaded, listing, fetching,
                   mutex, used, ver>>

(* One round of the reconciler thread: list without the mutex, then apply   *)
(* the listed issues one by one.                                            *)
reconcile_from_github ==
    /\ pick_collection_ /\ rest = {}
    /\ \E p \in 0 .. Len(issues) : list_issues(p) /\ rest' = Listing(p)
    /\ UNCHANGED <<issues, hooks, clock, kind, mem, loaded, listing,
                   fetching, mutex, used, ver>>

ReconcileOne(e) ==
    /\ e \in rest /\ rest' = rest \ {e}
    /\ apply_github_event("edited", e)
    /\ UNCHANGED hooks
=============================================================================
