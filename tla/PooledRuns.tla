------------------------------ MODULE PooledRuns ------------------------------
(* One process and its pool of database connections (database.py): requests to *)
(* execute a workflow, the runs they start and the nodes of those runs, all of *)
(* which need connections of the one pool.  A transaction that is over before  *)
(* anything else is awaited is an action, possible when a connection is free.  *)
(* What is held across an await is derived from where its holder stands.  Who  *)
(* finds the pool empty waits, and in the end times out with an exception.     *)
(*                                                                             *)
(* The claims, leases and restarts of a run are ExecutionQueue's; the levels   *)
(* and edges are WorkflowRun's: here all nodes of a run are one level.         *)
EXTENDS Naturals, Sequences, FiniteSets

CONSTANTS
    Executions,      \* the executions ever asked for
    Workloads,       \* the sets of them of which one is still to be asked for
    Awaited,         \* those asked for with wait_for_completion
    NodesOf,         \* the nodes of each execution's workflow
    Connectors,      \* the nodes that call out through a stored connection
    Attempts,        \* the attempts each node's retry policy allows
    PoolSize,        \* pool_size + max_overflow of the engine
    MaxConcurrency   \* _MAX_CONCURRENCY

Nodes == UNION {NodesOf[e] : e \in Executions}

ASSUME PoolAssumption ==
    /\ Awaited \subseteq Executions /\ Workloads \subseteq SUBSET Executions
    /\ \A e \in Executions : IsFiniteSet(NodesOf[e])
    /\ Attempts \in [Nodes -> Nat \ {0}]
    /\ MaxConcurrency \in Nat \ {0}
    /\ PoolSize \in Nat /\ MaxConcurrency + 1 < PoolSize

VARIABLES
    status,    \* of each execution's row
    request,   \* where the request that asked for it stands
    told,      \* the status that request was answered
    task,      \* where the task stands that the request awaits or has fired
    run,       \* where the run of a claimed execution stands
    node,      \* where each node's coroutine stands
    rows,      \* the node_executions of each execution, by created_at
    lent       \* connections held by requests of other kinds

runVars == <<status, request, told, task, run, node, rows, lent>>

Live     == {"pending", "running"}
Terminal == {"completed", "failed", "cancelled"}
Status   == {"absent", "deleted"} \cup Live \cup Terminal
Exists(e) == status[e] \in Live \cup Terminal

-----------------------------------------------------------------------------
(* The pool.                                                                *)

\* The session of a node holds none while the node works, unless the node has
\* looked up its connection: then until the commit after the call.
HasConnection(e, n) == n \in Connectors /\ node[e][n] = "calling"

\* The connections of one execution: its request's, while it is awaited, since
\* the refresh took one; and its nodes'.
OwnConnections(e) ==
    Cardinality({n \in NodesOf[e] : HasConnection(e, n)})
    + (IF request[e] = "waiting" THEN 1 ELSE 0)

Holders == {h \in Executions \X Nodes :
              h[2] \in NodesOf[h[1]] /\ HasConnection(h[1], h[2])}

Held == Cardinality({e \in Executions : request[e] = "waiting"})
        + Cardinality(Holders) + lent

Free      == Held < PoolSize
Exhausted == ~Free

-----------------------------------------------------------------------------
(* The request.                                                             *)

\* The other executions were asked for and deleted before.
Init ==
    /\ \E W \in Workloads :
         status = [e \in Executions |-> IF e \in W THEN "absent" ELSE "deleted"]
    /\ request = [e \in Executions |-> "none"]
    /\ told = [e \in Executions |-> "none"]
    /\ task = [e \in Executions |-> "none"]
    /\ run = [e \in Executions |-> "none"]
    /\ node = [e \in Executions |-> [n \in NodesOf[e] |-> "none"]]
    /\ rows = [e \in Executions |-> << >>]
    /\ lent = 0

\* The row is inserted; the commit gives the connection back.
Submit(e) ==
    /\ status[e] = "absent" /\ Free
    /\ status' = [status EXCEPT ![e] = "pending"]
    /\ request' = [request EXCEPT ![e] = "refreshing"]
    /\ UNCHANGED <<told, task, run, node, rows, lent>>

\* db.refresh takes a connection again, and the task starts.  Awaited, it runs
\* while the request keeps that connection; if not, the request is answered.
Refresh(e) ==
    /\ request[e] = "refreshing" /\ Exists(e) /\ Free
    /\ task' = [task EXCEPT ![e] = "claiming"]
    /\ IF e \in Awaited
         THEN /\ request' = [request EXCEPT ![e] = "waiting"]
              /\ UNCHANGED told
         ELSE /\ request' = [request EXCEPT ![e] = "answered"]
              /\ told' = [told EXCEPT ![e] = status[e]]
    /\ UNCHANGED <<status, run, node, rows, lent>>

\* No connection in time, or no row any more: the request fails without a task,
\* and a pending row is the worker's.
RefreshFails(e) ==
    /\ request[e] = "refreshing"
    /\ Exhausted \/ ~Exists(e)
    /\ request' = [request EXCEPT ![e] = "failed"]
    /\ UNCHANGED <<status, told, task, run, node, rows, lent>>

\* The task a request awaits is over: the claim lost or raised, or the run ended.
TaskEnded(e) ==
    \/ task[e] \in {"lost", "raised"}
    \/ task[e] = "won" /\ run[e] \in {"over", "raised"}

TaskRaised(e) == task[e] = "raised" \/ (task[e] = "won" /\ run[e] = "raised")

\* Mutated form of Respond: the claim is awaited, the run is not.
RespondEarly(e) ==
    /\ request[e] = "waiting"
    /\ TaskEnded(e) \/ task[e] = "won"
    /\ IF TaskRaised(e) \/ ~Exists(e)
         THEN /\ request' = [request EXCEPT ![e] = "failed"]
              /\ UNCHANGED told
         ELSE /\ request' = [request EXCEPT ![e] = "answered"]
              /\ told' = [told EXCEPT ![e] = status[e]]
    /\ UNCHANGED <<status, task, run, node, rows, lent>>

\* The row is read once more, on the connection the request has kept.
Respond(e) ==
    /\ request[e] = "waiting" /\ TaskEnded(e)
    /\ IF TaskRaised(e) \/ ~Exists(e)
         THEN /\ request' = [request EXCEPT ![e] = "failed"]
              /\ UNCHANGED told
         ELSE /\ request' = [request EXCEPT ![e] = "answered"]
              /\ told' = [told EXCEPT ![e] = status[e]]
    /\ UNCHANGED <<status, task, run, node, rows, lent>>

Cancel(e) ==
    /\ status[e] \in Live /\ Free
    /\ status' = [status EXCEPT ![e] = "cancelled"]
    /\ UNCHANGED <<request, told, task, run, node, rows, lent>>

\* Its node_executions go with it.
Delete(e) ==
    /\ Exists(e) /\ Free
    /\ status' = [status EXCEPT ![e] = "deleted"]
    /\ rows' = [rows EXCEPT ![e] = << >>]
    /\ UNCHANGED <<request, told, task, run, node, lent>>

-----------------------------------------------------------------------------
(* The run.                                                                 *)

Claim(e) ==
    /\ task[e] = "claiming" /\ Free
    /\ IF status[e] = "pending"
         THEN /\ status' = [status EXCEPT ![e] = "running"]
              /\ run' = [run EXCEPT ![e] = "claimed"]
              /\ task' = [task EXCEPT ![e] = "won"]
         ELSE /\ task' = [task EXCEPT ![e] = "lost"]
              /\ UNCHANGED <<status, run>>
    /\ UNCHANGED <<request, told, node, rows, lent>>

\* Mutated form of ClaimTimesOut: a pool that makes its callers wait for ever.
ClaimNeverTimesOut(e) == FALSE /\ UNCHANGED runVars

ClaimTimesOut(e) ==
    /\ task[e] = "claiming" /\ Exhausted
    /\ task' = [task EXCEPT ![e] = "raised"]
    /\ UNCHANGED <<status, request, told, run, node, rows, lent>>

\* The queue worker runs one execution at a time, also one a request awaits; a
\* timeout of its own it logs, and polls again.
WorkerIdle ==
    \A e \in Executions : run[e] \notin {"none", "over", "raised"} => task[e] = "won"

Drain(e) ==
    /\ status[e] = "pending" /\ WorkerIdle /\ Free
    /\ status' = [status EXCEPT ![e] = "running"]
    /\ run' = [run EXCEPT ![e] = "claimed"]
    /\ UNCHANGED <<request, told, task, node, rows, lent>>

\* _run_claimed loads the row and the executor's first commit says it runs, what-
\* ever became of it since; then every node has its coroutine.
Start(e) ==
    /\ run[e] = "claimed" /\ Free
    /\ IF Exists(e)
         THEN /\ status' = [status EXCEPT ![e] = "running"]
              /\ node' = [node EXCEPT ![e] = [n \in NodesOf[e] |-> "ready"]]
              /\ run' = [run EXCEPT ![e] = "running"]
         ELSE /\ run' = [run EXCEPT ![e] = "over"]
              /\ UNCHANGED <<status, node>>
    /\ UNCHANGED <<request, told, task, rows, lent>>

\* The outcome is written when every node has settled.
Finish(e) ==
    /\ run[e] = "running" /\ Exists(e) /\ Free
    /\ \A n \in NodesOf[e] : node[e][n] \in {"completed", "failed"}
    /\ status' = [status EXCEPT ![e] =
                    IF \E n \in NodesOf[e] : node[e][n] = "failed"
                      THEN "failed" ELSE "completed"]
    /\ run' = [run EXCEPT ![e] = "settled"]
    /\ UNCHANGED <<request, told, task, node, rows, lent>>

\* The release of the lease ends the run.
Release(e) ==
    /\ run[e] = "settled" /\ Free
    /\ run' = [run EXCEPT ![e] = "over"]
    /\ UNCHANGED <<status, request, told, task, node, rows, lent>>

\* No connection in time for a transaction of the run itself, or no row any more
\* at the last one: the exception ends the run, whose row stays as it is.
RunRaises(e) ==
    /\ \/ run[e] \in {"claimed", "settled"} /\ Exhausted
       \/ /\ run[e] = "running" /\ (Exhausted \/ ~Exists(e))
          /\ \A n \in NodesOf[e] : node[e][n] \in {"completed", "failed"}
    /\ run' = [run EXCEPT ![e] = "raised"]
    /\ UNCHANGED <<status, request, told, task, node, rows, lent>>

-----------------------------------------------------------------------------
(* The nodes.  They go on when their run has ended with an exception.       *)

MoveNode(e, n, stage) == node' = [node EXCEPT ![e][n] = stage]

InFlight(e) ==
    {n \in NodesOf[e] : node[e][n] \in {"resolving", "calling", "failing", "backoff"}}

Tried(e, n) == Cardinality({k \in DOMAIN rows[e] : rows[e][k].node = n})

\* The row of the attempt under way.
Latest(e, n) ==
    CHOOSE k \in DOMAIN rows[e] :
        /\ rows[e][k].node = n
        /\ \A l \in DOMAIN rows[e] : rows[e][l].node = n => l <= k

\* Mutated form of Admitted: every node of the level starts at once.
AdmittedAll(e, n) == node[e][n] \in {"backoff", "ready"}

\* The semaphore is this run's, and kept from the first attempt to the last.
Admitted(e, n) ==
    \/ node[e][n] = "backoff"
    \/ node[e][n] = "ready" /\ Cardinality(InFlight(e)) < MaxConcurrency

\* The row of an attempt is committed before anything is called.
BeginAttempt(e, n) ==
    /\ Admitted(e, n) /\ Exists(e) /\ Free
    /\ rows' = [rows EXCEPT ![e] = Append(@, [node |-> n, status |-> "running"])]
    /\ MoveNode(e, n, IF n \in Connectors THEN "resolving" ELSE "calling")
    /\ UNCHANGED <<status, request, told, task, run, lent>>

\* _resolve_connection: the SELECT takes the connection, or times out, which fails
\* the attempt.
Resolve(e, n) ==
    /\ node[e][n] = "resolving"
    /\ MoveNode(e, n, IF Free THEN "calling" ELSE "failing")
    /\ UNCHANGED <<status, request, told, task, run, rows, lent>>

\* Mutated form of Settle: the last attempt is followed by one more.
SettleOnceMore(e, n) ==
    /\ node[e][n] \in {"calling", "failing"}
    /\ Exists(e) /\ (Free \/ HasConnection(e, n))
    /\ \/ /\ node[e][n] = "calling"
          /\ MoveNode(e, n, "completed")
          /\ rows' = [rows EXCEPT ![e][Latest(e, n)].status = "completed"]
       \/ /\ MoveNode(e, n, IF Tried(e, n) <= Attempts[n] THEN "backoff" ELSE "failed")
          /\ rows' = [rows EXCEPT ![e][Latest(e, n)].status = "failed"]
    /\ UNCHANGED <<status, request, told, task, run, lent>>

\* The call ends, and its result is committed.
Settle(e, n) ==
    /\ node[e][n] \in {"calling", "failing"}
    /\ Exists(e) /\ (Free \/ HasConnection(e, n))
    /\ \/ /\ node[e][n] = "calling"
          /\ MoveNode(e, n, "completed")
          /\ rows' = [rows EXCEPT ![e][Latest(e, n)].status = "completed"]
       \/ /\ MoveNode(e, n, IF Tried(e, n) < Attempts[n] THEN "backoff" ELSE "failed")
          /\ rows' = [rows EXCEPT ![e][Latest(e, n)].status = "failed"]
    /\ UNCHANGED <<status, request, told, task, run, lent>>

\* No connection in time for a commit, or a row whose execution is gone: the
\* exception leaves the node and ends the run, but not the other nodes.
NodeRaises(e, n) ==
    /\ \/ Admitted(e, n) /\ (Exhausted \/ ~Exists(e))
       \/ /\ node[e][n] \in {"resolving", "calling", "failing"}
          /\ ~Exists(e) \/ (Exhausted /\ ~HasConnection(e, n))
    /\ MoveNode(e, n, "raised")
    /\ run' = [run EXCEPT ![e] = "raised"]
    /\ UNCHANGED <<status, request, told, task, rows, lent>>

RequestStep(e) == Refresh(e) \/ RefreshFails(e) \/ Respond(e)
TaskStep(e)    == Claim(e) \/ ClaimTimesOut(e)
RunStep(e)     == Start(e) \/ Finish(e) \/ Release(e) \/ RunRaises(e)
NodeStep(e, n) == BeginAttempt(e, n) \/ Resolve(e, n) \/ Settle(e, n) \/ NodeRaises(e, n)

RunNext ==
    \E e \in Executions :
        \/ Submit(e) \/ Cancel(e) \/ Delete(e) \/ Drain(e)
        \/ RequestStep(e) \/ TaskStep(e) \/ RunStep(e)
        \/ \E n \in NodesOf[e] : NodeStep(e, n)
=============================================================================
