----------------------------- MODULE MCWorkflowRun -----------------------------
(* Every small workflow of three nodes, every pair of edges that join two    *)
(* branches again, and five workflows of their own.                         *)
EXTENDS WorkflowRun

Node(i, attempts) == [id |-> i, trigger |-> i = 1, maxAttempts |-> attempts]
Edge(s, t, k, c)  == [source |-> s, target |-> t, kind |-> k, condition |-> c]
On(n, k)          == [ref |-> n, key |-> k]

\* A trigger, a node tried twice and a node tried once.
ThreeNodes == <<Node(1, 1), Node(2, 2), Node(3, 1)>>

SomeEdges ==
    {Edge(p[1], p[2], k, c) :
        p \in {<<1, 2>>, <<1, 3>>, <<2, 3>>, <<3, 2>>}, k \in {"normal", "error"},
        c \in {Always, On(2, "else"), On(2, "failed"), On(3, "result")}}

Triples == {<<a, b, c>> : a, b, c \in SomeEdges}

\* The edges from two concurrent branches into a join, and their conditions,
\* which may read the other branch.
JoinEdges ==
    {Edge(s, 4, k, c) : s \in {2, 3}, k \in {"normal", "error"},
        c \in {Always, On(2, "else"), On(2, "failed"), On(3, "result"), On(3, "failed")}}

\* An edge list's order changes nothing here, so each set of edges comes once.
SmallWorkflows ==
    {[nodes |-> ThreeNodes, edges |-> SX!SetToSeq(s)] :
        s \in {{t[1], t[2], t[3]} : t \in Triples}}

N(s, t)  == Edge(s, t, "normal", Always)
X(s, t)  == Edge(s, t, "error", Always)
FourNodes == <<Node(1, 1), Node(2, 2), Node(3, 2), Node(4, 1)>>
FiveNodes == FourNodes \o <<Node(5, 1)>>

JoiningWorkflows ==
    {[nodes |-> <<Node(1, 1), Node(2, 1), Node(3, 2), Node(4, 1)>>,
      edges |-> <<N(1, 2), N(1, 3), p[1], p[2]>>] : p \in JoinEdges \X JoinEdges}

LargeWorkflows ==
    { \* fan-out, wider than the semaphore, and a merge
      [nodes |-> FiveNodes,
       edges |-> <<N(1, 2), N(1, 3), N(1, 4), N(2, 5), N(3, 5), N(4, 5), X(4, 5)>>],
      \* a conditional's two legs, joined again
      [nodes |-> FiveNodes,
       edges |-> <<N(1, 2), Edge(2, 3, "normal", On(2, "result")),
                   Edge(2, 4, "normal", On(2, "else")), N(3, 5), N(4, 5)>>],
      \* a long and a short path with parallel edges, and a fallback of a fallback
      [nodes |-> FourNodes,
       edges |-> <<N(1, 2), N(2, 3), N(1, 4), X(1, 4), N(3, 4), X(2, 3), X(3, 4)>>],
      \* a policy of as many attempts as are allowed
      [nodes |-> <<Node(1, 1), Node(2, 10)>>, edges |-> <<N(1, 2)>>],
      \* an edge into a node that is not there
      [nodes |-> FourNodes, edges |-> <<N(1, 2), N(2, 9)>>] }

AllWorkflows == SmallWorkflows \cup JoiningWorkflows \cup LargeWorkflows
=============================================================================
