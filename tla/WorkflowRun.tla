------------------------------ MODULE WorkflowRun ------------------------------
(* One run of a workflow: execute_workflow and the _run_single_node coroutines *)
(* it gathers (services/executor.py).  The executor goes level by level: it    *)
(* decides which nodes of the level are active, runs those concurrently, each  *)
(* with its retries and in a session of its own, and applies their results in  *)
(* the order of their ids.  A node's work is its outcome: what it returned,    *)
(* told apart by the two legs a condition can read, or its last failure.       *)
EXTENDS WorkflowGraph

CONSTANTS
    Workflows,       \* the workflows that may be run: [nodes, edges]
    MaxConcurrency,  \* _MAX_CONCURRENCY
    MayRaise         \* whether a commit or a session may raise outside a try

ASSUME RunAssumption == MaxConcurrency \in Nat \ {0} /\ MayRaise \in BOOLEAN

\* A condition is the key it reads of the node `ref`; 0 is no node, and "always"
\* no key of any output.
ASSUME WorkflowsAreLists ==
    \A w \in Workflows :
        /\ w.nodes \in Seq([id : Nat \ {0}, trigger : BOOLEAN, maxAttempts : Int])
        /\ w.edges \in Seq([source : Nat, target : Nat, kind : {"normal", "error"},
                            condition : [ref : Nat,
                                         key : {"result", "else", "failed", "always"}]])

VARIABLES
    workflow,   \* the workflow as the executor loaded it
    levels,     \* its topological levels
    level,      \* how many levels were entered
    phase,      \* where the executor stands
    status,     \* executions.status
    culprit,    \* the node named in executions.error, 0 if none
    pc,         \* where each node's coroutine stands
    attempt,    \* its current attempt
    outcome,    \* what it is going to return
    rows,       \* the node_executions of this run
    active, failed, outputs   \* the executor's own books

vars == <<workflow, levels, level, phase, status, culprit, pc, attempt,
          outcome, rows, active, failed, outputs>>

\* The coroutines and the books are indexed by the ids of the nodes.
Nodes   == Ids(workflow.nodes)
NodeOf(n) == workflow.nodes[CHOOSE i \in DOMAIN workflow.nodes :
                              workflow.nodes[i].id = n]
Edges   == {workflow.edges[k] : k \in DOMAIN workflow.edges}

Successes == {"result", "else"}
Outcomes  == {"none", "failed"} \cup Successes
Always    == [ref |-> 0, key |-> "always"]

TypeOK ==
    /\ level \in 0 .. Len(levels)
    /\ phase \in {"claimed", "level", "gather", "over", "raised"}
    /\ status \in {"running", "completed", "failed"}
    /\ culprit \in Nodes \cup {0}
    /\ pc \in [Nodes -> {"idle", "waiting", "running", "backoff", "done", "raised"}]
    /\ attempt \in [Nodes -> 0 .. 10]
    /\ outcome \in [Nodes -> Outcomes]
    /\ rows \subseteq [node : Nodes, attempt : 1 .. 10,
                       status : {"running", "completed", "failed", "skipped"}]
    /\ active \subseteq Nodes /\ failed \subseteq Nodes
    /\ outputs \in [Nodes -> Outcomes]

\* The queue has set the row running; the executor commits that and starts.
Init ==
    /\ workflow \in Workflows
    /\ levels = << >> /\ level = 0
    /\ phase = "claimed" /\ status = "running" /\ culprit = 0
    /\ pc = [n \in Nodes |-> "idle"]
    /\ attempt = [n \in Nodes |-> 0]
    /\ outcome = [n \in Nodes |-> "none"]
    /\ rows = {}
    /\ active = {} /\ failed = {}
    /\ outputs = [n \in Nodes |-> "none"]

-----------------------------------------------------------------------------
(* Pure parts.                                                              *)

RetryMax(n) == FX!Max({1, FX!Min({10, NodeOf(n).maxAttempts})})

\* A template reads a key of a node's output: one of a conditional's two legs,
\* or the `failed` of a node that gave up; anything else resolves to nothing.
ConditionHolds(condition, out) ==
    \/ condition = Always
    \/ condition.ref \in DOMAIN out /\ out[condition.ref] = condition.key

\* A normal edge needs its source's success, an error edge its failure.
EdgeActive(e, act, fail, out) ==
    /\ e.source \in (IF e.kind = "error" THEN fail ELSE act)
    /\ ConditionHolds(e.condition, out)

\* Mutated form of NodeActive: every incoming edge has to be active.
NodeActiveByAll(n) ==
    \/ NodeOf(n).trigger
    \/ \A e \in Edges : e.target = n => EdgeActive(e, active, failed, outputs)

NodeActive(n) ==
    \/ NodeOf(n).trigger
    \/ \E e \in Edges : e.target = n /\ EdgeActive(e, active, failed, outputs)

-----------------------------------------------------------------------------
(* The executor.                                                            *)

\* A cycle fails the run; a KeyError of the level computation leaves execute_-
\* workflow as it is, with the status untouched.
Begin ==
    /\ phase = "claimed"
    /\ LET got == TopologicalLevels(workflow.nodes, workflow.edges) IN
       /\ levels' = got.levels
       /\ phase' = CASE got.outcome = "ok"        -> "level"
                     [] got.outcome = "cycle"     -> "over"
                     [] got.outcome = "key_error" -> "raised"
       /\ status' = IF got.outcome = "cycle" THEN "failed" ELSE status
    /\ UNCHANGED <<workflow, level, culprit, pc, attempt, outcome, rows,
                   active, failed, outputs>>

\* The activation of a whole level is decided from the books before it runs.
EnterLevel ==
    /\ phase = "level"
    /\ level < Len(levels)
    /\ level' = level + 1
    /\ LET toRun   == {n \in levels[level + 1] : NodeActive(n)}
           skipped == levels[level + 1] \ toRun
       IN  /\ rows' = rows \cup {[node |-> n, attempt |-> 1, status |-> "skipped"] :
                                   n \in skipped}
           /\ pc' = [n \in Nodes |-> IF n \in toRun THEN "waiting" ELSE pc[n]]
           /\ phase' = IF toRun = {} THEN "level" ELSE "gather"
    /\ UNCHANGED <<workflow, levels, status, culprit, attempt, outcome,
                   active, failed, outputs>>

Gathered == {n \in levels[level] : pc[n] # "idle"}

\* The books once the results of `done` have been entered.
OutputsWith(done) == [n \in Nodes |-> IF n \in done THEN outcome[n] ELSE outputs[n]]
ActiveWith(done)  == active \cup {n \in done : outcome[n] \in Successes}
FailedWith(done)  == failed \cup {n \in done : outcome[n] = "failed"}

\* Mutated form of Caught: any error edge catches, whatever its condition.
CaughtByAny(n) == \E e \in Edges : e.source = n /\ e.kind = "error"

\* A failure is caught by an error edge active in the books entered so far: the
\* results of the nodes up to this one.
Caught(n) ==
    LET done == {m \in Gathered : m <= n} IN
    \E e \in Edges :
        /\ e.source = n /\ e.kind = "error"
        /\ EdgeActive(e, ActiveWith(done), FailedWith(done), OutputsWith(done))

Uncaught == {n \in Gathered : outcome[n] = "failed" /\ ~Caught(n)}

\* Mutated form of Apply: the first failure is not waited with.
ApplyEarly ==
    /\ phase = "gather"
    /\ \/ \A n \in Gathered : pc[n] = "done"
       \/ \E n \in Gathered : pc[n] = "done" /\ n \in Uncaught
    /\ IF Uncaught = {}
         THEN phase' = "level" /\ UNCHANGED <<status, culprit>>
         ELSE /\ phase' = "over"
              /\ status' = "failed"
              /\ culprit' = CHOOSE n \in Uncaught : \A m \in Uncaught : n <= m
    /\ outputs' = OutputsWith(Gathered)
    /\ active' = ActiveWith(Gathered)
    /\ failed' = FailedWith(Gathered)
    /\ UNCHANGED <<workflow, levels, level, pc, attempt, outcome, rows>>

\* Mutated form of Apply: an uncaught failure is recorded, and the run goes on.
ApplyOn ==
    /\ phase = "gather"
    /\ \A n \in Gathered : pc[n] = "done"
    /\ IF Uncaught = {} THEN UNCHANGED <<status, culprit>>
         ELSE /\ status' = "failed"
              /\ culprit' = CHOOSE n \in Uncaught : \A m \in Uncaught : n <= m
    /\ phase' = "level"
    /\ outputs' = OutputsWith(Gathered)
    /\ active' = ActiveWith(Gathered)
    /\ failed' = FailedWith(Gathered)
    /\ UNCHANGED <<workflow, levels, level, pc, attempt, outcome, rows>>

\* All results are in: they are applied in order, up to the first uncaught one.
Apply ==
    /\ phase = "gather"
    /\ \A n \in Gathered : pc[n] = "done"
    /\ LET first == CHOOSE n \in Uncaught : \A m \in Uncaught : n <= m
           done  == IF Uncaught = {} THEN Gathered
                    ELSE {n \in Gathered : n <= first}
       IN  /\ IF Uncaught = {}
                THEN phase' = "level" /\ UNCHANGED <<status, culprit>>
                ELSE phase' = "over" /\ status' = "failed" /\ culprit' = first
           /\ outputs' = OutputsWith(done)
           /\ active' = ActiveWith(done)
           /\ failed' = FailedWith(done)
    /\ UNCHANGED <<workflow, levels, level, pc, attempt, outcome, rows>>

Complete ==
    /\ phase = "level"
    /\ level = Len(levels)
    /\ phase' = "over"
    /\ status' = "completed"
    /\ UNCHANGED <<workflow, levels, level, culprit, pc, attempt, outcome, rows,
                   active, failed, outputs>>

\* A commit of its own raises: nothing is caught.
Raise ==
    /\ MayRaise
    /\ \/ phase \in {"claimed", "level"}
       \/ phase = "gather" /\ \A n \in Gathered : pc[n] = "done"
    /\ phase' = "raised"
    /\ UNCHANGED <<workflow, levels, level, status, culprit, pc, attempt, outcome,
                   rows, active, failed, outputs>>

-----------------------------------------------------------------------------
(* A node's coroutine.                                                      *)

\* A node holds the semaphore, and a session, from its first attempt to its
\* last, the waits between its attempts included.
InFlight == {n \in Nodes : pc[n] \in {"running", "backoff"}}

NewRow(n, a)     == [node |-> n, attempt |-> a, status |-> "running"]
Settle(n, a, s)  == (rows \ {NewRow(n, a)}) \cup {[NewRow(n, a) EXCEPT !.status = s]}

books == <<workflow, levels, level, status, culprit, active, failed, outputs>>

\* The semaphore is first come, first served, and the level's nodes come in order.
Admitted(n) ==
    /\ pc[n] = "waiting"
    /\ \A m \in Nodes : pc[m] = "waiting" => n <= m
    /\ Cardinality(InFlight) < MaxConcurrency

Acquire(n) ==
    /\ Admitted(n)
    /\ pc' = [pc EXCEPT ![n] = "running"]
    /\ attempt' = [attempt EXCEPT ![n] = 1]
    /\ rows' = rows \cup {NewRow(n, 1)}
    /\ UNCHANGED <<books, phase, outcome>>

Succeed(n) ==
    /\ pc[n] = "running"
    /\ \E leg \in Successes : outcome' = [outcome EXCEPT ![n] = leg]
    /\ pc' = [pc EXCEPT ![n] = "done"]
    /\ rows' = Settle(n, attempt[n], "completed")
    /\ UNCHANGED <<books, phase, attempt>>

\* Mutated form of FailAttempt: one attempt too many.
FailAttemptLong(n) ==
    /\ pc[n] = "running"
    /\ ~NodeOf(n).trigger
    /\ rows' = Settle(n, attempt[n], "failed")
    /\ IF attempt[n] <= RetryMax(n)
         THEN pc' = [pc EXCEPT ![n] = "backoff"] /\ UNCHANGED outcome
         ELSE /\ pc' = [pc EXCEPT ![n] = "done"]
              /\ outcome' = [outcome EXCEPT ![n] = "failed"]
    /\ UNCHANGED <<books, phase, attempt>>

\* Whatever run_node, the templates or the connection raise fails the attempt;
\* a trigger's work raises nothing.
FailAttempt(n) ==
    /\ pc[n] = "running"
    /\ ~NodeOf(n).trigger
    /\ rows' = Settle(n, attempt[n], "failed")
    /\ IF attempt[n] < RetryMax(n)
         THEN pc' = [pc EXCEPT ![n] = "backoff"] /\ UNCHANGED outcome
         ELSE /\ pc' = [pc EXCEPT ![n] = "done"]
              /\ outcome' = [outcome EXCEPT ![n] = "failed"]
    /\ UNCHANGED <<books, phase, attempt>>

\* Mutated form of Retry: it has to get the semaphore again.
RetryReacquires(n) ==
    /\ pc[n] = "backoff"
    /\ Cardinality(InFlight) < MaxConcurrency
    /\ pc' = [pc EXCEPT ![n] = "running"]
    /\ attempt' = [attempt EXCEPT ![n] = @ + 1]
    /\ rows' = rows \cup {NewRow(n, attempt[n] + 1)}
    /\ UNCHANGED <<books, phase, outcome>>

Retry(n) ==
    /\ pc[n] = "backoff"
    /\ pc' = [pc EXCEPT ![n] = "running"]
    /\ attempt' = [attempt EXCEPT ![n] = @ + 1]
    /\ rows' = rows \cup {NewRow(n, attempt[n] + 1)}
    /\ UNCHANGED <<books, phase, outcome>>

\* A database error outside the try, as an attempt is recorded (the pool has no
\* connection left, the execution was deleted) or its failure is: gather raises it into the executor, which is gone,
\* and leaves the other nodes of the level running.
RaiseNode(n) ==
    /\ MayRaise
    /\ pc[n] \in {"running", "backoff"} \/ Admitted(n)
    /\ pc' = [pc EXCEPT ![n] = "raised"]
    /\ phase' = "raised"
    /\ UNCHANGED <<books, attempt, outcome, rows>>

-----------------------------------------------------------------------------

Executor == Begin \/ EnterLevel \/ Apply \/ Complete

NodeStep(n) == Acquire(n) \/ Succeed(n) \/ FailAttempt(n) \/ Retry(n)

Next ==
    \/ Executor \/ Raise
    \/ \E n \in Nodes : NodeStep(n) \/ RaiseNode(n)

Spec == Init /\ [][Next]_vars

\* The event loop runs every coroutine that can go on; a node's work is bounded
\* by its timeouts and a backoff by its delay.
FairSpec ==
    /\ Spec
    /\ WF_vars(Executor)
    /\ WF_vars(\E n \in Nodes : NodeStep(n))

-----------------------------------------------------------------------------
(* What a run promises, said of outcomes rather than of the books.          *)

Ran(n)     == outcome[n] # "none"
Skipped(n) == \E r \in rows : r.node = n /\ r.status = "skipped"
LevelOf(n) == CHOOSE l \in DOMAIN levels : n \in levels[l]

\* An edge fires if its source's outcome is of its kind and its condition holds
\* of the outcomes.
Fires(e) ==
    /\ e.source \in Nodes /\ Ran(e.source)
    /\ e.kind = "error" <=> outcome[e.source] = "failed"
    /\ ConditionHolds(e.condition, outcome)

\* A node starts only after every node with an edge into it was skipped or has
\* returned: a merge "runs after all branches because topological levels place
\* it in a later level".
DependenciesFirst ==
    \A e \in Edges :
        {e.source, e.target} \subseteq Nodes /\ pc[e.target] # "idle" =>
            Skipped(e.source) \/ outputs[e.source] # "none"

\* Of the levels passed, a node was run exactly if it is the trigger or an edge
\* into it fires, and was recorded as skipped otherwise - provided that the
\* conditions on its edges read nodes of earlier levels.
ReadsEarlier(n) ==
    \A e \in Edges :
        e.target = n /\ e.condition # Always /\ e.condition.ref \in Nodes =>
            LevelOf(e.condition.ref) < LevelOf(n)

RunsWhatIsWanted ==
    phase = "level" \/ status = "completed" =>
        \A l \in 1 .. level : \A n \in levels[l] :
            /\ Ran(n) <=> ~Skipped(n)
            /\ ReadsEarlier(n) =>
                 (Ran(n) <=> \/ NodeOf(n).trigger
                             \/ \E e \in Edges : e.target = n /\ Fires(e))

\* No failure is swallowed: in a completed run every node that failed for good
\* has an error edge that fires, and the node it leads to was run - if every edge
\* leads to one (an error edge without a target catches a failure all the same).
FailureIsHandled ==
    status = "completed" /\ (\A e \in Edges : e.target # Missing) =>
        \A n \in Nodes :
            outcome[n] = "failed" =>
                \E e \in Edges : /\ e.source = n /\ e.kind = "error"
                                 /\ Fires(e) /\ Ran(e.target)

\* A run that is over has no node left running, though its siblings failed.
NoRowLeftRunning ==
    phase = "over" => \A r \in rows : r.status # "running"

\* The attempts of a node are numbered from one, all but the last failed, none
\* follows a success, and a node is given up at its last allowed attempt only.
AttemptsOf(n) == {r \in rows : r.node = n /\ r.status # "skipped"}

AttemptsAreOrdered ==
    \A n \in Nodes :
        /\ {r.attempt : r \in AttemptsOf(n)} = 1 .. Cardinality(AttemptsOf(n))
        /\ \A r \in AttemptsOf(n) :
             /\ r.attempt < Cardinality(AttemptsOf(n)) => r.status = "failed"
             /\ r.status = "completed" => outcome[n] \in Successes
        /\ outcome[n] = "failed" => Cardinality(AttemptsOf(n)) = RetryMax(n)

\* After an uncaught failure no node of a later level is ever started.
FailureStopsTheRun ==
    culprit # 0 =>
        \A n \in Nodes :
            LevelOf(n) > LevelOf(culprit) => pc[n] = "idle" /\ ~Skipped(n)

\* The executor comes to an end, and so do the nodes it may leave behind.
Terminates ==
    <>[](phase \in {"over", "raised"} /\
         \A n \in Nodes : pc[n] \in {"idle", "done", "raised"})

\* A failed run had no way on: no error edge of the node it names fires - "error
\* edges fire when it failed.  Either way the condition (if any) must be truthy."
NothingCouldCatch ==
    culprit # 0 => ~\E e \in Edges : e.source = culprit /\ e.kind = "error" /\ Fires(e)
=============================================================================
