--------------------------- MODULE MCExecutionQueue ---------------------------
(* Small instances of ExecutionQueue for TLC.                               *)
EXTENDS ExecutionQueue, TLC

AnyFault   == {"crash", "stop", "raise"}
OutageOnly == {"crash", "stop"}

\* Rows, and likewise processes, are told apart by nothing but their names.
Symmetry == Permutations(Executions) \cup Permutations(Processes)
=============================================================================
