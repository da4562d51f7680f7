-------------------------- MODULE ExecutionLifecycle --------------------------
(* What the queue promises of an execution, without rows, tasks or leases: it *)
(* is queued once, taken off the queue at most once, and only what was taken  *)
(* is run, at most once; it may be withdrawn at any time.                     *)
EXTENDS Naturals

CONSTANT Executions

VARIABLES stage, runs

lifecycleVars == <<stage, runs>>

Init ==
    /\ stage = [e \in Executions |-> "none"]
    /\ runs = [e \in Executions |-> 0]

Queue(e) ==
    /\ stage[e] = "none"
    /\ stage' = [stage EXCEPT ![e] = "queued"]
    /\ UNCHANGED runs

Take(e) ==
    /\ stage[e] = "queued"
    /\ stage' = [stage EXCEPT ![e] = "taken"]
    /\ UNCHANGED runs

Run(e) ==
    /\ stage[e] = "taken"
    /\ runs[e] = 0
    /\ runs' = [runs EXCEPT ![e] = 1]
    /\ UNCHANGED stage

Withdraw(e) ==
    /\ stage[e] \in {"queued", "taken"}
    /\ stage' = [stage EXCEPT ![e] = "gone"]
    /\ UNCHANGED runs

Next == \E e \in Executions : Queue(e) \/ Take(e) \/ Run(e) \/ Withdraw(e)

Spec == Init /\ [][Next]_lifecycleVars
=============================================================================
