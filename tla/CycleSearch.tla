----------------------------- MODULE CycleSearch -----------------------------
(***************************************************************************)
(* DAGWalker._find_cycle_path (dag_walker.py): an iterative three-colour   *)
(* depth-first search with an explicit stack and parent links.  The graph  *)
(* is chosen initially; the start nodes come in any order, as they do from *)
(* a Python set.                                                           *)
(*                                                                         *)
(* The branch for a gray node popped from the stack has no action: such a  *)
(* state would be a deadlock, and NoGrayPop says it is never reached.      *)
(***************************************************************************)
EXTENDS Naturals, Sequences, FiniteSets

LOCAL INSTANCE SequencesExt

CONSTANTS
  Node,             \* the task ids in self.tasks
  Ghost,            \* an id that is not in self.tasks
  None,
  MaxDependencies   \* per task

VARIABLES adj, color, parent, stack, phase, result

searchVars == <<adj, color, parent, stack, phase, result>>

SearchInit ==
  /\ adj \in [Node -> BoundedSeq(Node \cup {Ghost}, MaxDependencies)]
  /\ color = [t \in Node |-> "WHITE"]
  /\ parent = [t \in Node |-> None]
  /\ stack = << >>
  /\ phase = "search" /\ result = << >>

\* Dependencies are checked before the search.
UnknownDependency ==
  /\ phase = "search"
  /\ \E t \in Node : Ghost \in ToSet(adj[t])
  /\ phase' = "ValueError"
  /\ UNCHANGED <<adj, color, parent, stack, result>>

Searching == phase = "search" /\ \A t \in Node : Ghost \notin ToSet(adj[t])

\* The next start node that is still white.
StartAt(t) ==
  /\ Searching /\ stack = << >>
  /\ color[t] = "WHITE"
  /\ stack' = <<[node |-> t, processed |-> FALSE]>>
  /\ UNCHANGED <<adj, color, parent, phase, result>>

\* No white node is left: the graph is acyclic.
Exhausted ==
  /\ Searching /\ stack = << >>
  /\ \A t \in Node : color[t] # "WHITE"
  /\ phase' = "returned"
  /\ UNCHANGED <<adj, color, parent, stack, result>>

\* The nodes from cur up the parent links, as far as stop.
RECURSIVE Climb(_, _, _)
Climb(links, cur, stop) ==
  IF cur \in {None, stop} THEN << >> ELSE <<cur>> \o Climb(links, links[cur], stop)

CyclePath(links, node, neighbor) ==
  Reverse(<<neighbor>> \o Climb(links, node, neighbor) \o <<neighbor>>)

\* All neighbours are done.
Finish(node) == color' = [color EXCEPT ![node] = "BLACK"]

\* Mutant of Gray: finished neighbours count as a cycle, too.
GrayOrBlack(node, n) == n = node \/ color[n] # "WHITE"

\* A neighbour that is gray when node, just coloured gray, looks at it.
Gray(node, n) == n = node \/ color[n] = "GRAY"

\* Neighbours that go onto the stack.
Pushable(node, n) == color[n] = "WHITE" /\ n # node

\* A white node: it becomes gray; a gray neighbour ends the search with a cycle, otherwise
\* the white neighbours are pushed above the node's own second entry.
Visit(node) ==
  LET neighbors == adj[node]
      grays == {i \in DOMAIN neighbors : Gray(node, neighbors[i])}
      first == CHOOSE i \in grays : \A j \in grays : i <= j
      seen == IF grays = {} THEN neighbors ELSE SubSeq(neighbors, 1, first - 1)
      whites == SelectSeq(seen, LAMBDA n : Pushable(node, n))
      links == [t \in Node |-> IF t \in ToSet(whites) THEN node ELSE parent[t]]
      entry(n) == [node |-> n, processed |-> FALSE]
  IN /\ color' = [color EXCEPT ![node] = "GRAY"]
     /\ parent' = links
     /\ stack' = Append(Front(stack), [node |-> node, processed |-> TRUE])
                   \o [i \in DOMAIN whites |-> entry(whites[i])]
     /\ IF grays = {}
          THEN UNCHANGED <<phase, result>>
          ELSE phase' = "returned" /\ result' = CyclePath(links, node, neighbors[first])
     /\ UNCHANGED adj

\* One turn of the while loop.
Pop ==
  /\ Searching /\ stack # << >>
  /\ LET top == Last(stack)
     IN \/ /\ top.processed
           /\ Finish(top.node) /\ stack' = Front(stack)
           /\ UNCHANGED <<adj, parent, phase, result>>
        \/ /\ ~ top.processed /\ color[top.node] = "BLACK"
           /\ stack' = Front(stack)
           /\ UNCHANGED <<adj, color, parent, phase, result>>
        \/ /\ ~ top.processed /\ color[top.node] = "WHITE"
           /\ Visit(top.node)

Returned == phase # "search" /\ UNCHANGED searchVars

SearchNext == UnknownDependency \/ (\E t \in Node : StartAt(t)) \/ Exhausted \/ Pop \/ Returned

-----------------------------------------------------------------------------
Depends(t) == ToSet(adj[t])

\* The dependencies are acyclic: every non-empty set of tasks has one that depends on none
\* of the set.
Acyclic == \A S \in SUBSET Node \ {{}} : \E t \in S : Depends(t) \cap S = {}

\* A path that ends where it began, in which each task depends on the next one and none is
\* passed twice.
Cycle(path) ==
  /\ Len(path) >= 2 /\ path[1] = path[Len(path)]
  /\ \A i \in 1 .. Len(path) - 1 : path[i + 1] \in Depends(path[i])
  /\ Cardinality(ToSet(path)) = Len(path) - 1

\* _find_cycle_path (dag_walker.py:86-131) returns, whatever the order of the start nodes and
\* of the dependencies, and although a node may be on the stack twice and its parent link be
\* overwritten: the empty list for an acyclic graph, and otherwise a path that is a cycle.
Verdict ==
  <>[](/\ phase # "search"
       /\ phase = "returned" => IF Acyclic THEN result = << >> ELSE Cycle(result))

=============================================================================
