----------------------------- MODULE WorkflowGraph -----------------------------
(* The pure algorithms on a workflow's graph (services/engine.py): in-degree  *)
(* bookkeeping, Kahn's sort, Kahn's levels, validation and reachability.      *)
(* Nodes and edges are lists, as they are stored; a node has an id and may be *)
(* a trigger; an edge's ends may be ids of no node, or Missing.  Ids are      *)
(* numbers in the order of the strings they stand for.  Python's exceptions   *)
(* are outcomes: "cycle" is the ValueError, "key_error" the KeyError.         *)
EXTENDS Integers, Sequences, FiniteSets

CONSTANT Missing    \* an edge end that is absent or empty

G == INSTANCE Graphs
SX == INSTANCE SequencesExt
FX == INSTANCE FiniteSetsExt

\* What a loop makes of `start` in n rounds.  Its body is a function on the states
\* the loop goes through; one that has come to its end, it leaves alone.
Rounds(start, body) ==
    LET after[n \in Nat] == IF n = 0 THEN start ELSE body[after[n - 1]] IN after

\* A set of positions in a list, from the first to the last.
InOrder(K) ==
    [n \in 1 .. Cardinality(K) |->
       CHOOSE k \in K : Cardinality({j \in K : j < k}) = n - 1]

Ids(nodes) == {nodes[i].id : i \in DOMAIN nodes}

\* The targets of the edges at these positions, in the edges' order.
Targets(edges, K) == LET at == InOrder(K) IN [n \in DOMAIN at |-> edges[at[n]].target]

TriggerAt(nodes) == {i \in DOMAIN nodes : nodes[i].trigger}

\* The edges both algorithms count: those with both ends given.
Linked(edges) ==
    {k \in DOMAIN edges : edges[k].source # Missing /\ edges[k].target # Missing}

\* Counting an edge into a target that is no node raises a KeyError.
TargetsKnown(nodes, edges) ==
    \A k \in Linked(edges) : edges[k].target \in Ids(nodes)

InDegree(nodes, edges) ==
    [i \in Ids(nodes) |-> Cardinality({k \in Linked(edges) : edges[k].target = i})]

\* Mutated form of Decrement: parallel edges count once.
DecrementOnce(degree, edges, id) ==
    [i \in DOMAIN degree |->
       IF \E k \in Linked(edges) : edges[k].source = id /\ edges[k].target = i
         THEN degree[i] - 1 ELSE degree[i]]

\* Taking a node out of the graph takes its edges out of the in-degrees.
Decrement(degree, edges, id) ==
    [i \in DOMAIN degree |->
       degree[i] - Cardinality({k \in Linked(edges) :
                                  edges[k].source = id /\ edges[k].target = i})]

\* The nodes whose in-degree drops to zero when `id` goes, by the last edge of
\* each that goes with it.
Freed(degree, edges, id) ==
    LET out == {k \in Linked(edges) : edges[k].source = id}
    IN  Targets(edges,
          {k \in out : /\ degree[edges[k].target] > 0
                       /\ Decrement(degree, edges, id)[edges[k].target] = 0
                       /\ \A j \in out : j > k => edges[j].target # edges[k].target})

Zero(degree) == {i \in DOMAIN degree : degree[i] = 0}

\* Ids without incoming edges, in the order of the (distinct) dictionary keys.
Entries(nodes, degree) ==
    LET at == InOrder({n \in DOMAIN nodes :
                         /\ degree[nodes[n].id] = 0
                         /\ \A m \in 1 .. n - 1 : nodes[m].id # nodes[n].id})
    IN  [n \in DOMAIN at |-> nodes[at[n]].id]

-----------------------------------------------------------------------------
(* topological_sort: one node leaves the queue at a time, so that a round for *)
(* each id is enough.                                                         *)

SortState(nodes) ==
    [queue : Seq(Ids(nodes)), degree : [Ids(nodes) -> Int], result : Seq(Ids(nodes))]

SortStart(nodes, edges) ==
    LET degrees == InDegree(nodes, edges)
    IN  [queue |-> Entries(nodes, degrees), degree |-> degrees, result |-> << >>]

SortBody(nodes, edges) ==
    [s \in SortState(nodes) |->
       IF s.queue = << >> THEN s
       ELSE LET id == Head(s.queue) IN
            [queue  |-> Tail(s.queue) \o Freed(s.degree, edges, id),
             degree |-> Decrement(s.degree, edges, id),
             result |-> Append(s.result, id)]]

SortSteps(nodes, edges) ==
    Rounds(SortStart(nodes, edges), SortBody(nodes, edges))
      [Cardinality(Ids(nodes))].result

TopologicalSort(nodes, edges) ==
    IF ~TargetsKnown(nodes, edges) THEN [outcome |-> "key_error", order |-> << >>]
    ELSE LET order == SortSteps(nodes, edges) IN
         IF Len(order) # Len(nodes) THEN [outcome |-> "cycle", order |-> << >>]
         ELSE [outcome |-> "ok", order |-> order]

-----------------------------------------------------------------------------
(* topological_levels: a whole level leaves at a time.  A level is sorted,  *)
(* so it is the set of its ids.                                             *)

\* Mutated form of DecrementAll: any edge out of the level frees its target.
FreeAll(degree, edges, level) ==
    [i \in DOMAIN degree |->
       IF \E k \in Linked(edges) : edges[k].source \in level /\ edges[k].target = i
         THEN 0 ELSE degree[i]]

\* A whole level leaves.
DecrementAll(degree, edges, level) ==
    [i \in DOMAIN degree |->
       degree[i] - Cardinality({k \in Linked(edges) :
                                  edges[k].source \in level /\ edges[k].target = i})]

LevelState(nodes) ==
    [current : SUBSET Ids(nodes), degree : [Ids(nodes) -> Int],
     levels : Seq(SUBSET Ids(nodes))]

LevelStart(nodes, edges) ==
    LET degrees == InDegree(nodes, edges)
    IN  [current |-> Zero(degrees), degree |-> degrees, levels |-> << >>]

LevelBody(nodes, edges) ==
    [s \in LevelState(nodes) |->
       IF s.current = {} THEN s
       ELSE LET left == DecrementAll(s.degree, edges, s.current) IN
            [current |-> Zero(left) \ Zero(s.degree),
             degree  |-> left,
             levels  |-> Append(s.levels, s.current)]]

LevelSteps(nodes, edges) ==
    Rounds(LevelStart(nodes, edges), LevelBody(nodes, edges))
      [Cardinality(Ids(nodes))].levels

TopologicalLevels(nodes, edges) ==
    IF ~TargetsKnown(nodes, edges)
      THEN [outcome |-> "key_error", levels |-> << >>]
    ELSE LET levels == LevelSteps(nodes, edges)
             seen == Cardinality(UNION SX!ToSet(levels))
         IN  IF seen # Len(nodes) THEN [outcome |-> "cycle", levels |-> << >>]
             ELSE [outcome |-> "ok", levels |-> levels]

-----------------------------------------------------------------------------
(* validate_workflow and find_unreachable_nodes.                            *)

EdgeErrors(nodes, edges) ==
    {"unknown_source" : k \in {k \in DOMAIN edges :
                                 edges[k].source \notin Ids(nodes)}}
    \cup {"unknown_target" : k \in {k \in DOMAIN edges :
                                      edges[k].target \notin Ids(nodes)}}

TriggerErrors(nodes) ==
    CASE TriggerAt(nodes) = {}               -> {"no_trigger"}
      [] Cardinality(TriggerAt(nodes)) > 1   -> {"many_triggers"}
      [] OTHER                               -> {}

\* Mutated form of ValidateWorkflow: the sort's verdict is dropped.
ValidateUnsorted(nodes, edges) ==
    [raises |-> FALSE, errors |-> EdgeErrors(nodes, edges) \cup TriggerErrors(nodes)]

\* validate_workflow catches the sort's ValueError, and not its KeyError.
ValidateWorkflow(nodes, edges) ==
    LET sort == TopologicalSort(nodes, edges).outcome
    IN  [raises |-> sort = "key_error",
         errors |-> EdgeErrors(nodes, edges) \cup TriggerErrors(nodes)
                    \cup (IF sort = "cycle" THEN {"cycle"} ELSE {})]

\* The targets a visit pushes, in the order of the edges.
PushedFrom(nodes, edges, id) ==
    Targets(edges, {k \in DOMAIN edges :
                      /\ edges[k].source = id
                      /\ {edges[k].source, edges[k].target} \subseteq Ids(nodes)})

\* Mutated form of SearchSteps: the walk stops at the trigger's own targets.
SearchNear(nodes, edges, from) ==
    {from} \cup SX!ToSet(PushedFrom(nodes, edges, from))

\* The depth-first walk pops the last node pushed; a node seen is not expanded
\* again, so that no edge is pushed twice.
SearchBody(nodes, edges) ==
    [s \in [stack : Seq(Ids(nodes)), seen : SUBSET Ids(nodes)] |->
       IF s.stack = << >> THEN s
       ELSE LET id == SX!Last(s.stack) IN
            IF id \in s.seen THEN [s EXCEPT !.stack = SX!Front(@)]
            ELSE [stack |-> SX!Front(s.stack) \o PushedFrom(nodes, edges, id),
                  seen  |-> s.seen \cup {id}]]

SearchSteps(nodes, edges, from) ==
    Rounds([stack |-> <<from>>, seen |-> {}], SearchBody(nodes, edges))
      [1 + Len(edges)].seen

FindUnreachableNodes(nodes, edges) ==
    IF Cardinality(TriggerAt(nodes)) # 1 THEN {}
    ELSE LET trigger == nodes[CHOOSE i \in TriggerAt(nodes) : TRUE].id
         IN  Ids(nodes) \ SearchSteps(nodes, edges, trigger)

-----------------------------------------------------------------------------
(* The client's own checks before it saves (frontend/lib/validation.ts).    *)

\* Mutated form of ValidateGraph: an edge is looked at from its source only.
ValidateGraphBySource(nodes, edges) ==
    LET triggers == {n \in SX!ToSet(nodes) : n.trigger}
    IN  [unknown |-> {k \in DOMAIN edges : edges[k].source \notin Ids(nodes)},
         trigger |-> Cardinality(TriggerAt(nodes)) # 1,
         invalid |-> IF Cardinality(TriggerAt(nodes)) > 1
                       THEN {n.id : n \in triggers} ELSE {}]

\* The edges with an unknown end, whether the triggers are wrong, and the nodes
\* to mark: all triggers, if there are too many.
ValidateGraph(nodes, edges) ==
    LET triggers == {n \in SX!ToSet(nodes) : n.trigger}
    IN  [unknown |-> {k \in DOMAIN edges :
                        ~({edges[k].source, edges[k].target} \subseteq Ids(nodes))},
         trigger |-> Cardinality(TriggerAt(nodes)) # 1,
         invalid |-> IF Cardinality(TriggerAt(nodes)) > 1
                       THEN {n.id : n \in triggers} ELSE {}]

\* A search over adjacency lists, in which a node is marked when it is popped.
ClientBody(nodes, edges) ==
    LET graph == [id \in Ids(nodes) |->
                    Targets(edges, {k \in DOMAIN edges :
                                      /\ edges[k].source = id
                                      /\ edges[k].target \in Ids(nodes)})]
    IN  [s \in [queue : Seq(Ids(nodes)), seen : SUBSET Ids(nodes)] |->
           IF s.queue = << >> THEN s
           ELSE LET id == SX!Last(s.queue) IN
                [queue |-> SX!Front(s.queue) \o
                             (IF id \in s.seen THEN << >> ELSE graph[id]),
                 seen  |-> s.seen \cup {id}]]

ClientUnreachable(nodes, edges) ==
    LET start == nodes[CHOOSE i \in TriggerAt(nodes) : TRUE].id
        walk == Rounds([queue |-> <<start>>, seen |-> {}], ClientBody(nodes, edges))
    IN  IF Cardinality(TriggerAt(nodes)) # 1 THEN {}
        ELSE Ids(nodes) \ walk[1 + Len(edges)].seen

-----------------------------------------------------------------------------
(* What the algorithms are for, said without them.                          *)

GraphOf(nodes, edges) ==
    [node |-> Ids(nodes),
     edge |-> {<<edges[k].source, edges[k].target>> : k \in DOMAIN edges}
                \cap (Ids(nodes) \X Ids(nodes))]

\* Every end of every edge is a node, and no two nodes share an id.
WellFormed(nodes, edges) ==
    /\ Cardinality(Ids(nodes)) = Len(nodes)
    /\ \A k \in DOMAIN edges : {edges[k].source, edges[k].target} \subseteq Ids(nodes)

\* Where the walks of n edges that start in the set `from` end.
Walk(nodes, edges) ==
    [ends \in SUBSET Ids(nodes) |-> G!AllSuccessors(GraphOf(nodes, edges), ends)]

WalkEnds(nodes, edges, from) ==
    LET ends == Rounds(from, Walk(nodes, edges))
    IN  [n \in 0 .. Cardinality(Ids(nodes)) |-> ends[n]]

\* A walk of as many edges as there are nodes meets a node twice.
Acyclic(nodes, edges) ==
    WalkEnds(nodes, edges, Ids(nodes))[Cardinality(Ids(nodes))] = {}

\* The nodes by the length of the longest path that ends in them.
OfRank(nodes, edges, n) ==
    LET ends == WalkEnds(nodes, edges, Ids(nodes)) IN ends[n] \ ends[n + 1]

ReachableFrom(nodes, edges, id) ==
    LET ends == WalkEnds(nodes, edges, {id}) IN UNION {ends[n] : n \in DOMAIN ends}
=============================================================================
