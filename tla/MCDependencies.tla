--------------------------- MODULE MCDependencies ---------------------------
(***************************************************************************)
(* Work that waits for other work, for TLC: the walker of the daemon on    *)
(* two tasks and a third that waits for both, the cycle search with which  *)
(* a call of the walker begins on every small graph, and the orchestrator  *)
(* on the plan of every small brief.  The three share no state: `part`     *)
(* says which one runs, and the others have nothing left to do.            *)
(*                                                                         *)
(* Briefs: a repository with one module of at most two implementation      *)
(* strings or two modules of at most one, and two repositories.  Strings   *)
(* carry the issue references 0 (none), 1 and 2.                           *)
(***************************************************************************)
EXTENDS DagWalker, CycleSearch, PlanExecution

CONSTANTS t1, t2, t3

VARIABLE part

MCDependsOn == [t \in Task |-> IF t = t3 THEN {t1, t2} ELSE {}]

\* A string without annotation has no dependencies.
Strings == {s \in ImplRef({1, 2}) : s.explicit \/ s.deps = {}}

UpTo(n) == UNION {[1 .. k -> Strings] : k \in 0 .. n}

SmallBriefs ==
  {<< <<impls>> >> : impls \in UpTo(2)}
    \cup {<< <<m, n>> >> : m \in UpTo(1), n \in UpTo(1)}
    \cup {<< << >>, <<n>> >> : n \in UpTo(1)}

\* The walker when every task is done, before a call.
WalkerIdle ==
  /\ done = Task /\ assigned = [t \in Task |-> NoAgent] /\ busy = {}
  /\ call = [c \in Caller |-> Idle] /\ held = [a \in Agent |-> {}]
  /\ given = [t \in Task |-> 0] /\ overlapped = FALSE /\ faults = 0

\* The search after its verdict on a graph without edges.
SearchIdle ==
  /\ adj = [t \in Node |-> << >>] /\ color = [t \in Node |-> "BLACK"]
  /\ parent = [t \in Node |-> None] /\ stack = << >>
  /\ phase = "returned" /\ result = << >>

\* The orchestrator when the smallest brief is completed.
PlanIdle ==
  /\ brief = << << << >> >> >> /\ plan = ById(decompose(1, brief))
  /\ delegated = DOMAIN plan /\ completed = DOMAIN plan

DependenciesInit ==
  /\ part \in {"walker", "search", "plan"}
  /\ IF part = "walker" THEN Init ELSE WalkerIdle
  /\ IF part = "search" THEN SearchInit ELSE SearchIdle
  /\ IF part = "plan" THEN PlanInit ELSE PlanIdle

DependenciesNext ==
  /\ UNCHANGED part
  /\ \/ part = "walker" /\ Next /\ UNCHANGED <<searchVars, planVars>>
     \/ part = "search" /\ SearchNext /\ UNCHANGED <<vars, planVars>>
     \/ part = "plan" /\ (PlanNext \/ PlanDone) /\ UNCHANGED <<vars, searchVars>>

DependenciesFairness ==
  /\ \A c \in Caller :
       WF_vars(part = "walker" /\ advance_dag(c)) /\ WF_vars(part = "walker" /\ Step(c))
  /\ \A a \in Agent : WF_vars(part = "walker" /\ FinishTask(a))
  /\ WF_searchVars(part = "search" /\ SearchNext)
  /\ WF_planVars(part = "plan" /\ PlanNext)

DependenciesSpec ==
  DependenciesInit /\ [][DependenciesNext]_<<vars, searchVars, planVars, part>>
    /\ DependenciesFairness
=============================================================================
