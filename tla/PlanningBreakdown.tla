------------------------- MODULE PlanningBreakdown --------------------------
(***************************************************************************)
(* PlanningBreakdown::decompose (src/planning_breakdown.cpp): the L0-L3    *)
(* task tree of a brief, its blocked_by edges and the child lists that     *)
(* delegate_unblocked_children walks.                                      *)
(*                                                                         *)
(* A brief is a sequence of repositories, a repository a sequence of       *)
(* modules, a module a sequence of implementation strings; a string is     *)
(* what parse_impl_ref makes of it, an ImplRef.  The generated id of a     *)
(* task is its path in the tree of brief b: <<b>> is the root, <<b, r>>    *)
(* repository r, <<b, r, m>> its module m, <<b, r, m, i>> the leaf i.      *)
(***************************************************************************)
EXTENDS HmasTypes, Sequences

LOCAL INSTANCE SequencesExt

\* issue 0: the string starts with no issue reference.
ImplRef(Issue) == [issue : Issue \cup {0}, explicit : BOOLEAN, deps : SUBSET Issue]

\* What "Implement <module>", the default string, parses to.
DefaultImpl == [issue |-> 0, explicit |-> FALSE, deps |-> {}]

\* A repository without modules gets one ("core"), a module without strings the default.
Modules(brief, r) == IF brief[r] = << >> THEN << << >> >> ELSE brief[r]
Impls(brief, r, m) ==
  IF Modules(brief, r)[m] = << >> THEN <<DefaultImpl>> ELSE Modules(brief, r)[m]

ImplOf(brief, leaf) == Impls(brief, leaf[2], leaf[3])[leaf[4]]

\* The ids in the order in which decompose appends the tasks.
Paths(b, brief) ==
  <<<<b>>>> \o FlattenSeq([r \in DOMAIN brief |->
    <<<<b, r>>>> \o FlattenSeq([m \in DOMAIN Modules(brief, r) |->
      <<<<b, r, m>>>> \o [i \in DOMAIN Impls(brief, r, m) |-> <<b, r, m, i>>]])])

LayerOf(p) == Len(p) - 1
Leaves(b, brief) == SelectSeq(Paths(b, brief), LAMBDA p : LayerOf(p) = 3)

\* issue_to_idx: the first leaf with that issue reference (none: the empty set).
IssueOwner(b, brief, issue) ==
  LET ls == Leaves(b, brief)
      at == {k \in DOMAIN ls : ImplOf(brief, ls[k]).issue = issue}
  IN  {ls[k] : k \in {k \in at : \A j \in at : k <= j}}

\* The post-pass: the leaves that leaf p names in its "(depends on: ...)" annotation.
IssueBlockers(b, brief, p) ==
  IF ImplOf(brief, p).issue = 0 THEN {}
  ELSE UNION {IssueOwner(b, brief, n) : n \in ImplOf(brief, p).deps} \ {p}

\* The task before p in its parent's list; the first has none.
Previous(p) == IF Last(p) = 1 THEN {} ELSE {[p EXCEPT ![Len(p)] = @ - 1]}

BlockedBy(b, brief, p) ==
  CASE LayerOf(p) = 0 -> {}
    [] LayerOf(p) = 1 -> {Front(p)}
    [] LayerOf(p) = 2 -> {Front(p)} \cup Previous(p)
    [] LayerOf(p) = 3 -> {Front(p)} \cup IssueBlockers(b, brief, p)
                           \cup (IF ImplOf(brief, p).explicit THEN {} ELSE Previous(p))

\* The direct children of p, and the leaves that name p's issue as a dependency.
ChildTaskIds(b, brief, p) ==
  {q \in Range(Paths(b, brief)) : Len(q) > 1 /\ Front(q) = p}
    \cup {q \in Range(Leaves(b, brief)) : p \in IssueBlockers(b, brief, q)}

decompose(b, brief) ==
  LET ps == Paths(b, brief)
  IN  [k \in DOMAIN ps |-> NewTask(ps[k], LayerOf(ps[k]), ChildTaskIds(b, brief, ps[k]),
                                    BlockedBy(b, brief, ps[k]))]

=============================================================================
