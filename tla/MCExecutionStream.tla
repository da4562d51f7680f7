--------------------------- MODULE MCExecutionStream ---------------------------
(* A pool of three connections, a copilot request at a time, and one of three  *)
(* workloads: an execution with two connector nodes, one of them retried, and  *)
(* watched by a client; two awaited executions without nodes; or one of those  *)
(* that nobody awaits.                                                         *)
EXTENDS ExecutionStream

MCExecutions == 1 .. 4
MCWorkloads  == {{1}, {2, 3}, {4}}
MCAwaited    == 1 .. 3
MCNodesOf    == <<{"a", "b"}, {}, {}, {}>>
MCConnectors == {"a", "b"}
MCAttempts   == [n \in {"a", "b"} |-> IF n = "a" THEN 2 ELSE 1]
MCClients    == {1}
MCWatched    == <<1>>
=============================================================================
