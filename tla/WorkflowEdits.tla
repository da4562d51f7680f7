----------------------------- MODULE WorkflowEdits -----------------------------
(* A workflow under edit: every PATCH stores the nodes and edges it is given, *)
(* unchecked, so every graph over the ids at hand can be stored; whatever is  *)
(* stored is validated, searched and run.                                     *)
EXTENDS WorkflowGraph

CONSTANTS
    NodeLists,    \* the node lists a workflow may be created with
    Ends(_),      \* what a client may write as an edge's source or target
    MaxEdges(_)   \* how many edges it writes, by the node list

ASSUME NodeListsAreLists == NodeLists \subseteq Seq([id : Nat, trigger : BOOLEAN])

VARIABLES nodes, edges

graphVars == <<nodes, edges>>

Edge == [source : Ends(nodes), target : Ends(nodes)]

Init ==
    /\ nodes \in NodeLists
    /\ edges = << >>

\* PATCH /workflows/{id}: the edges are replaced, here by one more or one less.
AddEdge ==
    /\ Len(edges) < MaxEdges(nodes)
    /\ \E e \in Edge : edges' = Append(edges, e)
    /\ UNCHANGED nodes

DropEdge ==
    /\ edges # << >>
    /\ edges' = Tail(edges)
    /\ UNCHANGED nodes

Next == AddEdge \/ DropEdge

Spec == Init /\ [][Next]_graphVars

-----------------------------------------------------------------------------

\* Of a well-formed workflow the levels exist exactly when it has no cycle, and
\* a node is in the level of its rank: "every node's dependencies sit in
\* strictly earlier levels", and none sits later than it must.
LevelsAreRanks ==
    LET got == TopologicalLevels(nodes, edges) IN
    WellFormed(nodes, edges) =>
        IF Acyclic(nodes, edges)
          THEN /\ got.outcome = "ok"
               /\ \A l \in DOMAIN got.levels :
                    got.levels[l] = OfRank(nodes, edges, l - 1)
          ELSE got.outcome = "cycle"

\* On any stored graph the validator's sort and the executor's levels agree on
\* whether it can be run, and the order of the sort respects every edge.
SortAgreesWithLevels ==
    LET sort == TopologicalSort(nodes, edges)
        at(i) == CHOOSE n \in DOMAIN sort.order : sort.order[n] = i
    IN  /\ sort.outcome = TopologicalLevels(nodes, edges).outcome
        /\ sort.outcome = "ok" =>
             /\ {sort.order[n] : n \in DOMAIN sort.order} = Ids(nodes)
             /\ \A k \in Linked(edges) : at(edges[k].source) < at(edges[k].target)

\* Validation accepts a workflow exactly when it is well formed, has no cycle
\* and exactly one trigger; what it accepts the executor can run.
ValidIsRunnable ==
    LET answer == ValidateWorkflow(nodes, edges) IN
    (answer.errors = {} /\ ~answer.raises) <=>
        /\ WellFormed(nodes, edges)
        /\ Acyclic(nodes, edges)
        /\ Cardinality(TriggerAt(nodes)) = 1

\* The cleanup hint names exactly the nodes with no path from the trigger.
UnreachableIsExact ==
    \A t \in TriggerAt(nodes) :
        Cardinality(TriggerAt(nodes)) = 1 =>
            FindUnreachableNodes(nodes, edges) =
                Ids(nodes) \ ReachableFrom(nodes, edges, nodes[t].id)

\* The client's checks "mirror the backend engine's non-topological rules": what
\* the server accepts the client accepts; what only the client accepts has a
\* cycle; and both hint at the same unreachable nodes.
ClientMirrorsServer ==
    LET client == ValidateGraph(nodes, edges)
        server == ValidateWorkflow(nodes, edges)
        accepts == client.unknown = {} /\ ~client.trigger
    IN  /\ server.errors = {} /\ ~server.raises => accepts
        /\ accepts /\ (server.errors # {} \/ server.raises) =>
             /\ ~server.raises /\ server.errors = {"cycle"}
        /\ client.invalid # {} => "many_triggers" \in server.errors
        /\ ClientUnreachable(nodes, edges) = FindUnreachableNodes(nodes, edges)

\* Validation answers with the errors it found, whatever is stored: an edge into
\* a node that is not there is reported as "Edge references unknown target".
ValidationAnswers == ~ValidateWorkflow(nodes, edges).raises
=============================================================================
