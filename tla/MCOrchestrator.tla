--------------------------- MODULE MCOrchestrator ---------------------------
(***************************************************************************)
(* Instances of Orchestrator for TLC: small briefs decomposed by           *)
(* PlanningBreakdown, and the handler threads of a server.                 *)
(***************************************************************************)
EXTENDS Orchestrator

PB == INSTANCE PlanningBreakdown

Impl(issue, explicit, deps) == [issue |-> issue, explicit |-> explicit, deps |-> deps]

\* One repository without modules: the chain root - lead - module - leaf.
LineBrief == << << >> >>

\* One module with two independent leaves and one that depends on both.
DiamondBrief ==
  << << <<Impl(1, TRUE, {}), Impl(2, TRUE, {}), Impl(3, TRUE, {1, 2})>> >> >>

\* One repository with two modules of one leaf each.
TwoModulesBrief == << << << >>, << >> >> >>

(***************************************************************************)
(* The plans of these briefs, written out; MCPlans below says that they    *)
(* are what decompose returns.                                             *)
(***************************************************************************)
LinePlan == <<
  <<NewTask(<<1>>, 0, {<<1, 1>>}, {}),
    NewTask(<<1, 1>>, 1, {<<1, 1, 1>>}, {<<1>>}),
    NewTask(<<1, 1, 1>>, 2, {<<1, 1, 1, 1>>}, {<<1, 1>>}),
    NewTask(<<1, 1, 1, 1>>, 3, {}, {<<1, 1, 1>>})>> >>

DiamondPlan == <<
  <<NewTask(<<1>>, 0, {<<1, 1>>}, {}),
    NewTask(<<1, 1>>, 1, {<<1, 1, 1>>}, {<<1>>}),
    NewTask(<<1, 1, 1>>, 2, {<<1, 1, 1, 1>>, <<1, 1, 1, 2>>, <<1, 1, 1, 3>>}, {<<1, 1>>}),
    NewTask(<<1, 1, 1, 1>>, 3, {<<1, 1, 1, 3>>}, {<<1, 1, 1>>}),
    NewTask(<<1, 1, 1, 2>>, 3, {<<1, 1, 1, 3>>}, {<<1, 1, 1>>}),
    NewTask(<<1, 1, 1, 3>>, 3, {}, {<<1, 1, 1>>, <<1, 1, 1, 1>>, <<1, 1, 1, 2>>})>> >>

TwoModulesPlan == <<
  <<NewTask(<<1>>, 0, {<<1, 1>>}, {}),
    NewTask(<<1, 1>>, 1, {<<1, 1, 1>>, <<1, 1, 2>>}, {<<1>>}),
    NewTask(<<1, 1, 1>>, 2, {<<1, 1, 1, 1>>}, {<<1, 1>>}),
    NewTask(<<1, 1, 1, 1>>, 3, {}, {<<1, 1, 1>>}),
    NewTask(<<1, 1, 2>>, 2, {<<1, 1, 2, 1>>}, {<<1, 1>>, <<1, 1, 1>>}),
    NewTask(<<1, 1, 2, 1>>, 3, {}, {<<1, 1, 2>>})>> >>

ASSUME MCPlans ==
  /\ LinePlan[1] = PB!decompose(1, LineBrief)
  /\ DiamondPlan[1] = PB!decompose(1, DiamondBrief)
  /\ TwoModulesPlan[1] = PB!decompose(1, TwoModulesBrief)

OneUuid == << <<0, 1>> >>
TwoUuids == << <<0, 1>>, <<0, 2>> >>
NoUuid == << >>

LineIds == {<<1>>, <<1, 1>>, <<1, 1, 1>>, <<1, 1, 1, 1>>, <<0, 1>>}
SplitIds == LineIds \cup {<<0, 2>>}
DiamondIds == {<<1>>, <<1, 1>>, <<1, 1, 1>>, <<1, 1, 1, 1>>, <<1, 1, 1, 2>>, <<1, 1, 1, 3>>}
TwoModulesIds == {<<1>>, <<1, 1>>, <<1, 1, 1>>, <<1, 1, 1, 1>>, <<1, 1, 2>>, <<1, 1, 2, 1>>}

\* Threads of the server: one of the HTTP pool, and those of the NATS subscriptions.
ServerThreads == [
  http      |-> {"submit", "escalate", "split", "httpComplete"},
  started   |-> {"started"},
  completed |-> {"complete", "fail"}]
ServerThread == DOMAIN ServerThreads

\* All handlers on one thread: handlers that never overlap.
SerialThreads == [only |-> Handler]
SerialThread == DOMAIN SerialThreads

\* Workers report completions over NATS and over the HTTP pool (POST /v1/tasks/:id/complete).
CompletionThreads == [
  nats  |-> {"complete"},
  http1 |-> {"submit", "complete"},
  http2 |-> {"complete"}]
CompletionThread == DOMAIN CompletionThreads

NoExtra == {{}}

\* Every subtask of a split also waits for the leaf of the line.
LeafExtra == {{<<1, 1, 1, 1>>}}

=============================================================================
