---------------------------- MODULE MCWorkflowEdits ----------------------------
(* All graphs of a few edges over small node lists.                         *)
EXTENDS WorkflowEdits

Trigger(i) == [id |-> i, trigger |-> TRUE]
Step(i)    == [id |-> i, trigger |-> FALSE]

\* A workflow of four nodes, the trigger last, none, two, and a doubled id.
SmallNodeLists ==
    {<<Trigger(1), Step(2), Step(3), Step(4)>>, <<Step(2), Step(1), Trigger(3)>>,
     <<Step(1)>>, <<Trigger(1), Trigger(2)>>, <<Trigger(1), Step(2), Step(2)>>}

\* Four nodes take four edges among themselves (a diamond); the others three,
\* also to an id of no node and to no id at all.
SmallEnds(nodeList)    == IF Len(nodeList) = 4 THEN 1 .. 4 ELSE {1, 2, 3, 5, 0}
SmallMaxEdges(nodeList) == IF Len(nodeList) = 4 THEN 4 ELSE 3
=============================================================================
