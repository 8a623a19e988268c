---------------------------- MODULE Dependencies ----------------------------
(***************************************************************************)
(* The dependency graph of one plan: how steps and edges are added         *)
(* (v5/work.py), how a human repairs it (v5/repair.py), the colouring      *)
(* search that refuses cycles, and what the live loop's walk (PlanOrder)   *)
(* makes of the graphs that result.                                        *)
(*                                                                         *)
(* Ids are minted in order, so the steps of the plan are 1 .. n; 0 stands  *)
(* for the id of a step that is not one of them.                           *)
(***************************************************************************)
EXTENDS PlanOrder, Naturals, FiniteSets

CONSTANTS MaxSteps,      \* bound: steps of the plan
          MaxRevision,   \* bound: changes of the plan row
          Callers        \* who edits the plan

ASSUME DependencyConstants == {MaxSteps, MaxRevision} \subseteq Nat

VARIABLES graph,         \* plans.dependency_graph: step -> what it waits for
          revision,      \* plans.revision
          status,        \* ABSENT, LIVE, or CLOSED: a terminal plan status
          depends_on,    \* steps.depends_on, the copy kept in the step's row
          seen           \* caller -> the revision of the plan row it read last

vars == <<graph, revision, status, depends_on, seen>>

Rows    == DOMAIN depends_on
Foreign == 0

-----------------------------------------------------------------------------
(* The search.                                                             *)

\* What is in the graph, or hangs from it.
Nodes(g) == DOMAIN g \cup UNION {g[s] : s \in DOMAIN g}

Edges(g) == {edge \in Nodes(g) \X Nodes(g) : edge[2] \in Deps(g, edge[1])}

\* The recursion is followed along its stack, path: the nodes whose visit is under way,
\* which are the grey ones.  ahead are the edges no loop has looked at yet.
White(g) == [color |-> [s \in Nodes(g) |-> "WHITE"], path |-> <<>>,
             ahead |-> Edges(g), cycle |-> FALSE]

\* visit is called.
Enter(search, node) == [search EXCEPT !.color[node] = "GRAY", !.path = Append(@, node)]

\* Mutant: a node that was searched stays grey.
Leave_Gray(search, node) == [search EXCEPT !.path = Front(@)]

\* visit returns.
Leave(search, node) == [search EXCEPT !.color[node] = "BLACK", !.path = Front(@)]

\* The loop over the dependencies, in whatever order: a grey one is an edge back into
\* the path.
Look(search, edge) ==
  LET looked == [search EXCEPT !.ahead = @ \ {edge}]
  IN  CASE search.color[edge[2]] = "GRAY"  -> [looked EXCEPT !.cycle = TRUE]
        [] search.color[edge[2]] = "WHITE" -> Enter(looked, edge[2])
        [] OTHER -> looked

visit(search) ==
  LET node == Last(search.path)
      next == {edge \in search.ahead : edge[1] = node}
  IN  IF next = {} THEN Leave(search, node) ELSE Look(search, CHOOSE edge \in next : TRUE)

\* The innermost visit goes on, or the next white node of the graph is visited.
Search(g, search) ==
  LET white == {s \in DOMAIN g : search.color[s] = "WHITE"}
  IN  IF search.cycle \/ (search.path = <<>> /\ white = {}) THEN search
      ELSE IF search.path = <<>> THEN Enter(search, CHOOSE s \in white : TRUE)
      ELSE visit(search)

\* _has_cycle: each step enters a node, leaves one or looks along an edge.
has_cycle(g) ==
  LET steps == 2 * Cardinality(Nodes(g)) + Cardinality(Edges(g))
  IN  FoldLeft(LAMBDA search, k : Search(g, search), White(g), [k \in 1 .. steps |-> k]).cycle

-----------------------------------------------------------------------------
(* The operations; a rejected call writes nothing.                         *)

Commit(g) ==
  /\ ~has_cycle(g)
  /\ graph' = g
  /\ revision' = revision + 1

\* create_plan: no steps yet.
create_plan ==
  /\ status = "ABSENT"
  /\ status' = "LIVE"
  /\ UNCHANGED <<graph, revision, depends_on, seen>>

\* create_plan_with_steps: the edges are positions in the submitted list.
create_plan_with_steps(g) ==
  /\ status = "ABSENT"
  /\ ~has_cycle(g)
  /\ status' = "LIVE"
  /\ graph' = g
  /\ depends_on' = g
  /\ UNCHANGED <<revision, seen>>

\* create_step: the id is new; whether the dependencies exist is not asked.
create_step(deps) ==
  LET s == Cardinality(Rows) + 1
      With(f) == [n \in DOMAIN f \cup {s} |-> IF n = s THEN deps ELSE f[n]] IN
  /\ s <= MaxSteps /\ revision < MaxRevision
  /\ status = "LIVE"
  /\ Commit(With(graph))
  /\ depends_on' = With(depends_on)
  /\ UNCHANGED <<status, seen>>

WithEdge(s, dep) == [n \in DOMAIN graph \cup {s} |->
                       IF n = s THEN Deps(graph, s) \cup {dep} ELSE graph[n]]

\* Mutant: the graph is searched as it was before the edge.
add_dependency_Before(c, s, dep) ==
  /\ revision < MaxRevision
  /\ seen[c] = revision
  /\ s # dep /\ {s, dep} \subseteq Rows
  /\ ~has_cycle(graph)
  /\ graph' = WithEdge(s, dep)
  /\ revision' = revision + 1
  /\ depends_on' = [depends_on EXCEPT ![s] = @ \cup {dep}]
  /\ UNCHANGED <<status, seen>>

\* add_dependency; the plan's status is not asked.
add_dependency(c, s, dep) ==
  /\ revision < MaxRevision
  /\ seen[c] = revision
  /\ s # dep /\ {s, dep} \subseteq Rows
  /\ Commit(WithEdge(s, dep))
  /\ depends_on' = [depends_on EXCEPT ![s] = @ \cup {dep}]
  /\ UNCHANGED <<status, seen>>

\* repair_object on the plan's dependency_graph; the copies in the steps' rows
\* stay as they are.
repair_graph(c, g) ==
  /\ revision < MaxRevision
  /\ seen[c] = revision
  /\ Commit(g)
  /\ UNCHANGED <<status, depends_on, seen>>

NotRead == MaxRevision + 1

\* load_plan by somebody who wants to change it.
read_plan(c) ==
  /\ status # "ABSENT"
  /\ seen' = [seen EXCEPT ![c] = revision]
  /\ UNCHANGED <<graph, revision, status, depends_on>>

\* The plan is superseded, cancelled or has failed.
close_plan ==
  /\ status = "LIVE" /\ revision < MaxRevision
  /\ status' = "CLOSED"
  /\ revision' = revision + 1
  /\ UNCHANGED <<graph, depends_on, seen>>

-----------------------------------------------------------------------------
\* What may be submitted: edges among n steps, self-edges included.
Shapes(n) == [1 .. n -> SUBSET (1 .. n)]

Init ==
  /\ graph = <<>>
  /\ revision = 0
  /\ status = "ABSENT"
  /\ depends_on = <<>>
  /\ seen = [c \in Callers |-> NotRead]

Next ==
  \/ \E n \in 1 .. MaxSteps : \E g \in Shapes(n) : create_plan_with_steps(g)
  \/ \E deps \in SUBSET (Rows \cup {Foreign}) : create_step(deps)
  \/ create_plan
  \/ close_plan
  \/ \E c \in Callers :
       \/ read_plan(c)
       \/ \E s, dep \in Rows : add_dependency(c, s, dep)
       \/ \E g \in Shapes(Cardinality(Rows)) : repair_graph(c, g)

Spec == Init /\ [][Next]_vars

-----------------------------------------------------------------------------
(* Safety, against definitions that know nothing of colours and passes.    *)

\* A set of steps each of which waits for one of the set.
Cyclic(g) ==
  \E C \in (SUBSET Nodes(g)) \ {{}} : \A s \in C : Deps(g, s) \cap C # {}

\* Law 13 (create_step, add_dependency, repair_object): no sequence of edits and
\* repairs, by callers with whatever snapshots, commits a cycle.
GraphIsAcyclic == ~Cyclic(graph)

\* Law 13 (_has_cycle): of the edges that could be added now, the search refuses
\* exactly those that close a cycle; two ways to one step are no cycle.
SearchIsExact ==
  \A s, dep \in Rows : has_cycle(WithEdge(s, dep)) = Cyclic(WithEdge(s, dep))

\* Law 13 (_dependency_order): whatever order the steps are listed in, a step comes
\* after everything it waits for and comes once, and the walk stops short only of
\* steps that wait for one outside the plan.
OrderIsTopological ==
  \A listed \in {SetToSeq(Rows), Reverse(SetToSeq(Rows))} :
    LET order == dependency_order(graph, listed) IN
    /\ \A i \in 1 .. Len(order) :
         Deps(graph, order[i]) \subseteq {order[j] : j \in 1 .. i - 1}
    /\ Cardinality(ToSet(order)) = Len(order)
    /\ Nodes(graph) \subseteq Rows => Len(order) = Cardinality(Rows)
=============================================================================
