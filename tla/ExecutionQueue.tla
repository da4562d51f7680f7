---------------------------- MODULE ExecutionQueue ----------------------------
(* The durable execution queue: the rows of the `executions` table and the    *)
(* actors that write them.  Each process of the backend has one queue worker  *)
(* (worker_loop), one fire-and-forget or inline task per execution it was     *)
(* asked to run (run_execution_durable), and request handlers that cancel and *)
(* delete.  An action is one database transaction, or one step of a coroutine *)
(* between two awaits; processes crash, are stopped, and boot again.          *)
EXTENDS Naturals

CONSTANTS
    Executions,        \* the executions ever submitted, one row each
    Processes,         \* the backend processes sharing one database
    None,              \* no execution, no process, no snapshot
    MaxQueueAttempts,  \* settings.queue_max_attempts
    WorkerEnabled,     \* settings.queue_worker_enabled
    Faults,            \* the kinds of fault a run may meet
    MaxFaults          \* how many of them

FaultKinds == {"crash", "stop", "raise"}

ASSUME QueueAssumption ==
    /\ Executions \cap Processes = {}
    /\ None \notin Executions \cup Processes \cup {"absent", "pending",
         "running", "completed", "failed", "cancelled", "deleted"}
    /\ MaxQueueAttempts \in Nat \ {0}
    /\ WorkerEnabled \in BOOLEAN
    /\ Faults \subseteq FaultKinds
    /\ MaxFaults \in Nat

VARIABLES
    row,     \* the executions table
    up,      \* what each process is doing
    home,    \* the process an execution's own task lives in
    pc,      \* where each task stands; a process stands for its worker's task
    job,     \* the execution a worker has selected or claimed
    view,    \* the status a runner's session loaded
    cancel,  \* the execution a process's cancel handler has read and not written
    starts,  \* history: how often the executor was entered for an execution
    faults   \* history: faults so far

vars == <<row, up, home, pc, job, view, cancel, starts, faults>>

Terminal == {"completed", "failed", "cancelled"}
Live     == {"pending", "running"}
Status   == {"absent", "deleted"} \cup Live \cup Terminal
Lease    == {"none", "held", "expired"}

\* `older` stands for started_at, which orders the queue: the rows before this.
Row == [status : Status, attempts : Nat, lease : Lease,
        completedAt : BOOLEAN, error : BOOLEAN, older : SUBSET Executions]

Blank(s) == [status |-> s, attempts |-> 0, lease |-> "none",
             completedAt |-> FALSE, error |-> FALSE, older |-> {}]

\* Mutated form of Outcome: the failure path forgets the status.
OutcomeUnset(r, outcome) ==
    [r EXCEPT !.status = IF outcome = "failed" THEN @ ELSE outcome,
              !.completedAt = TRUE, !.error = @ \/ outcome = "failed"]

\* The UPDATEs of a row, by the columns they write.
Claimed(r)   == [r EXCEPT !.status = "running", !.attempts = @ + 1,
                          !.lease = "held"]
Failed(r)    == [r EXCEPT !.status = "failed", !.completedAt = TRUE,
                          !.error = TRUE, !.lease = "none"]
Cancelled(r) == [r EXCEPT !.status = "cancelled", !.completedAt = TRUE]
Outcome(r, outcome) ==
    [r EXCEPT !.status = outcome, !.completedAt = TRUE,
              !.error = @ \/ outcome = "failed"]

Tasks  == Executions \cup Processes
Stages == {"off", "idle", "claim", "selected", "claimed", "loaded",
           "running", "release"}

HomeOf(t) == IF t \in Processes THEN t ELSE home[t]
JobOf(t)  == IF t \in Processes THEN job[t] ELSE t

\* Between its claim and the release of its lease a task has its job.
Holding(t) == pc[t] \in {"claimed", "loaded", "running", "release"}

Exists(e) == row[e].status \notin {"absent", "deleted"}

\* Mutated form of RowLocked: a plain SELECT.
NoRowLock(e) == FALSE

\* SELECT ... FOR UPDATE holds the row until the claim commits.
RowLocked(e) == \E p \in Processes : pc[p] = "selected" /\ job[p] = e

Fault(kind) ==
    /\ kind \in Faults
    /\ faults < MaxFaults
    /\ faults' = faults + 1

\* The columns and counters hold what they may hold, a task is only where its
\* kind of coroutine can be, and a worker past its select has a job.
TypeOK ==
    /\ row \in [Executions -> Row]
    /\ up \in [Processes -> {"down", "serving", "stopping"}]
    /\ home \in [Executions -> Processes \cup {None}]
    /\ pc \in [Tasks -> Stages]
    /\ \A e \in Executions : pc[e] \notin {"idle", "selected"}
    /\ \A p \in Processes : pc[p] # "claim"
    /\ job \in [Processes -> Executions \cup {None}]
    /\ \A p \in Processes : pc[p] \notin {"off", "idle"} => job[p] # None
    /\ view \in [Tasks -> Status \cup {None}]
    /\ cancel \in [Processes -> Executions \cup {None}]
    /\ starts \in [Executions -> Nat]
    /\ faults \in Nat

Init ==
    /\ row = [e \in Executions |-> Blank("absent")]
    /\ up = [p \in Processes |-> "down"]
    /\ home = [e \in Executions |-> None]
    /\ pc = [t \in Tasks |-> "off"]
    /\ job = [p \in Processes |-> None]
    /\ view = [t \in Tasks |-> None]
    /\ cancel = [p \in Processes |-> None]
    /\ starts = [e \in Executions |-> 0]
    /\ faults = 0

-----------------------------------------------------------------------------
(* Requests.                                                                *)

\* POST /execute and the webhook: the pending row commits, then a task of this
\* process is to claim it (awaited inline or fired and forgotten).
Submit(e, p) ==
    /\ up[p] = "serving"
    /\ row[e].status = "absent"
    /\ LET older == {f \in Executions : row[f].status # "absent"}
       IN  row' = [row EXCEPT ![e] = [Blank("pending") EXCEPT !.older = older]]
    /\ home' = [home EXCEPT ![e] = p]
    /\ pc' = [pc EXCEPT ![e] = "claim"]
    /\ UNCHANGED <<up, job, view, cancel, starts, faults>>

\* The cancel handler reads the row; a finished one is answered with a 400.
CancelRead(p, e) ==
    /\ up[p] # "down"
    /\ cancel[p] = None
    /\ row[e].status \in Live
    /\ cancel' = [cancel EXCEPT ![p] = e]
    /\ UNCHANGED <<row, up, home, pc, job, view, starts, faults>>

\* It then writes whatever the row says by now; a deleted row answers 500.
CancelWrite(p) ==
    /\ cancel[p] # None
    /\ ~RowLocked(cancel[p])
    /\ row' = IF Exists(cancel[p])
                THEN [row EXCEPT ![cancel[p]] = Cancelled(@)]
                ELSE row
    /\ cancel' = [cancel EXCEPT ![p] = None]
    /\ UNCHANGED <<up, home, pc, job, view, starts, faults>>

\* Retention cleanup, or the deletion of the workflow with its executions.
Delete(e) ==
    /\ \E p \in Processes : up[p] # "down"
    /\ Exists(e)
    /\ ~RowLocked(e)
    /\ row' = [row EXCEPT ![e] = Blank("deleted")]
    /\ UNCHANGED <<up, home, pc, job, view, cancel, starts, faults>>

-----------------------------------------------------------------------------
(* Claiming.                                                                *)

\* Mutated form of Return: the worker ends with its first job.
ReturnForGood(t) ==
    /\ pc' = [pc EXCEPT ![t] = "off"]
    /\ job' = [p \in Processes |-> IF p = t THEN None ELSE job[p]]
    /\ view' = [view EXCEPT ![t] = None]

\* A task ends; a worker's loop goes round.
Return(t) ==
    /\ pc' = [pc EXCEPT ![t] = IF t \in Processes THEN "idle" ELSE "off"]
    /\ job' = [p \in Processes |-> IF p = t THEN None ELSE job[p]]
    /\ view' = [view EXCEPT ![t] = None]

\* Mutated forms of Claimable: the lease alone decides; whatever is unfinished.
ClaimableByLease(e)    == Exists(e) /\ row[e].lease # "held"
ClaimableUnfinished(e) ==
    row[e].status \in {"pending", "cancelled"} /\ row[e].lease # "held"

Claimable(e) == row[e].status = "pending" /\ row[e].lease # "held"

\* Mutated form of DrainSelect: an empty queue is not told from a found row.
DrainSelectEmpty(p) ==
    /\ up[p] = "serving"
    /\ pc[p] = "idle"
    /\ \E e \in Executions \cup {None} : job' = [job EXCEPT ![p] = e]
    /\ pc' = [pc EXCEPT ![p] = "selected"]
    /\ UNCHANGED <<row, up, home, view, cancel, starts, faults>>

\* The worker selects the oldest claimable row nobody has locked, and locks it.
DrainSelect(p) ==
    /\ up[p] = "serving"
    /\ pc[p] = "idle"
    /\ \E e \in Executions :
         /\ Claimable(e) /\ ~RowLocked(e)
         /\ \A f \in row[e].older : ~Claimable(f) \/ RowLocked(f)
         /\ job' = [job EXCEPT ![p] = e]
    /\ pc' = [pc EXCEPT ![p] = "selected"]
    /\ UNCHANGED <<row, up, home, view, cancel, starts, faults>>

\* The UPDATE of _claim: at most one row changes, and the commit frees the lock.
ClaimWon(t) ==
    /\ Claimable(JobOf(t))
    /\ row' = [row EXCEPT ![JobOf(t)] = Claimed(@)]
    /\ pc' = [pc EXCEPT ![t] = "claimed"]
    /\ UNCHANGED <<job, view>>

ClaimLost(t) ==
    /\ ~Claimable(JobOf(t))
    /\ Return(t)
    /\ UNCHANGED row

Claim(t) ==
    /\ \/ pc[t] = "claim" /\ ~RowLocked(JobOf(t))
       \/ pc[t] = "selected"
    /\ ClaimWon(t) \/ ClaimLost(t)
    /\ UNCHANGED <<up, home, cancel, starts, faults>>

\* A database error before the claim commits: the row stays as it was.
ClaimRaise(t) ==
    /\ pc[t] \in {"claim", "selected"}
    /\ Fault("raise")
    /\ Return(t)
    /\ UNCHANGED <<row, up, home, cancel, starts>>

-----------------------------------------------------------------------------
(* Running a claimed execution.                                             *)

\* db.get(Execution): the session keeps the status it loaded.
Load(t) ==
    /\ pc[t] = "claimed"
    /\ IF Exists(JobOf(t))
         THEN /\ view' = [view EXCEPT ![t] = row[JobOf(t)].status]
              /\ pc' = [pc EXCEPT ![t] = "loaded"]
              /\ UNCHANGED job
         ELSE Return(t)
    /\ UNCHANGED <<row, up, home, cancel, starts, faults>>

\* The dead-letter test, or a workflow deleted (with its executions) meanwhile.
Refuse(t) ==
    /\ pc[t] = "loaded"
    /\ \/ row[JobOf(t)].attempts > MaxQueueAttempts
       \/ row[JobOf(t)].status = "deleted"
    /\ row' = IF Exists(JobOf(t))
                THEN [row EXCEPT ![JobOf(t)] = Failed(@)]
                ELSE row
    /\ Return(t)
    /\ UNCHANGED <<up, home, cancel, starts, faults>>

\* The executor's first commit.  The session writes the status only where it
\* differs from the one it loaded, so a run whose row was cancelled before the
\* load is set running again, and one cancelled after it stays cancelled.
Start(t) ==
    /\ pc[t] = "loaded"
    /\ Exists(JobOf(t))
    /\ row[JobOf(t)].attempts <= MaxQueueAttempts
    /\ row' = IF view[t] = "running" THEN row
              ELSE [row EXCEPT ![JobOf(t)].status = "running"]
    /\ starts' = [starts EXCEPT ![JobOf(t)] = @ + 1]
    /\ view' = [view EXCEPT ![t] = "running"]
    /\ pc' = [pc EXCEPT ![t] = "running"]
    /\ UNCHANGED <<up, home, job, cancel, faults>>

\* The executor's last commit writes the outcome whatever the row says by now.
Finish(t) ==
    /\ pc[t] = "running"
    /\ Exists(JobOf(t))
    /\ \E outcome \in {"completed", "failed"} :
         row' = [row EXCEPT ![JobOf(t)] = Outcome(@, outcome)]
    /\ pc' = [pc EXCEPT ![t] = "release"]
    /\ UNCHANGED <<up, home, job, view, cancel, starts, faults>>

\* An UPDATE of a deleted row raises in the executor.
Stale(t) ==
    /\ pc[t] \in {"loaded", "running"}
    /\ row[JobOf(t)].status = "deleted"
    /\ pc' = [pc EXCEPT ![t] = "release"]
    /\ UNCHANGED <<row, up, home, job, view, cancel, starts, faults>>

\* So may a database error, an edge to an unknown node, a malformed node.
Raise(t) ==
    /\ pc[t] \in {"loaded", "running"}
    /\ Fault("raise")
    /\ pc' = [pc EXCEPT ![t] = "release"]
    /\ UNCHANGED <<row, up, home, job, view, cancel, starts>>

\* A database error outside the try, or in the finally itself.
Abort(t) ==
    /\ pc[t] \in {"claimed", "loaded", "release"}
    /\ Fault("raise")
    /\ Return(t)
    /\ UNCHANGED <<row, up, home, cancel, starts>>

\* The finally: the lease is given up, the status is left alone.
Release(t) ==
    /\ pc[t] = "release"
    /\ row' = [row EXCEPT ![JobOf(t)].lease = "none"]
    /\ Return(t)
    /\ UNCHANGED <<up, home, cancel, starts, faults>>

\* A run may outlast queue_lease_seconds.
LeaseExpires(e) ==
    /\ row[e].lease = "held"
    /\ row' = [row EXCEPT ![e].lease = "expired"]
    /\ UNCHANGED <<up, home, pc, job, view, cancel, starts, faults>>

-----------------------------------------------------------------------------
(* Processes.                                                               *)

\* Mutated forms of Recovered: only expired leases; whoever has a lease.
RecoveredExpired ==
    [e \in Executions |->
       IF row[e].status = "running" /\ row[e].lease = "expired"
         THEN Failed(row[e]) ELSE row[e]]
RecoveredLeased ==
    [e \in Executions |->
       IF row[e].lease # "none" THEN Failed(row[e]) ELSE row[e]]

\* recover_orphans fails every running row, whoever runs it.
Recovered ==
    [e \in Executions |->
       IF row[e].status = "running" THEN Failed(row[e]) ELSE row[e]]

\* Mutated form of Boot: recovery runs again while the process serves.
BootAgain(p) ==
    /\ up[p] \in {"down", "serving"}
    /\ up' = [up EXCEPT ![p] = "serving"]
    /\ row' = Recovered
    /\ pc' = IF up[p] = "down" THEN [pc EXCEPT ![p] = "idle"] ELSE pc
    /\ UNCHANGED <<home, job, view, cancel, starts, faults>>

\* The lifespan recovers, starts the worker, and only then serves requests.
Boot(p) ==
    /\ up[p] = "down"
    /\ up' = [up EXCEPT ![p] = "serving"]
    /\ IF WorkerEnabled
         THEN row' = Recovered /\ pc' = [pc EXCEPT ![p] = "idle"]
         ELSE UNCHANGED <<row, pc>>
    /\ UNCHANGED <<home, job, view, cancel, starts, faults>>

Stop(p) ==
    /\ up[p] = "serving"
    /\ Fault("stop")
    /\ up' = [up EXCEPT ![p] = "stopping"]
    /\ UNCHANGED <<row, home, pc, job, view, cancel, starts>>

\* Every task of the process ends where it stands.
Die(p) ==
    /\ up' = [up EXCEPT ![p] = "down"]
    /\ pc' = [t \in Tasks |-> IF HomeOf(t) = p THEN "off" ELSE pc[t]]
    /\ job' = [job EXCEPT ![p] = None]
    /\ view' = [t \in Tasks |-> IF HomeOf(t) = p THEN None ELSE view[t]]
    /\ cancel' = [cancel EXCEPT ![p] = None]
    /\ UNCHANGED <<home, starts>>

\* Shutdown waits for the open requests and for the worker's current job, not
\* for the background tasks: those are cancelled, and their finally may still
\* release the lease.
Exit(p) ==
    /\ up[p] = "stopping"
    /\ pc[p] \in {"idle", "off"}
    /\ cancel[p] = None
    /\ \E freed \in SUBSET {e \in Executions :
                              home[e] = p /\ pc[e] \in {"running", "release"}} :
         row' = [e \in Executions |->
                   IF e \in freed THEN [row[e] EXCEPT !.lease = "none"]
                   ELSE row[e]]
    /\ Die(p)
    /\ UNCHANGED faults

Crash(p) ==
    /\ up[p] # "down"
    /\ Fault("crash")
    /\ Die(p)
    /\ UNCHANGED row

-----------------------------------------------------------------------------

TaskStep(t) ==
    \/ Claim(t) \/ Load(t) \/ Refuse(t) \/ Start(t)
    \/ Finish(t) \/ Stale(t) \/ Release(t)

Next ==
    \/ \E e \in Executions, p \in Processes : Submit(e, p) \/ CancelRead(p, e)
    \/ \E p \in Processes : CancelWrite(p) \/ DrainSelect(p)
    \/ \E e \in Executions : Delete(e) \/ LeaseExpires(e)
    \/ \E t \in Tasks : TaskStep(t) \/ ClaimRaise(t) \/ Raise(t) \/ Abort(t)
    \/ \E p \in Processes : Boot(p) \/ Stop(p) \/ Exit(p) \/ Crash(p)

Spec == Init /\ [][Next]_vars

\* A live coroutine goes on, the poll of an idle worker comes round, a node's
\* action is bounded by its timeout and its retries, and a process that went
\* down is started again.  Nobody need submit, cancel, delete, stop or crash.
Fairness ==
    /\ \A t \in Tasks : WF_vars(TaskStep(t))
    /\ \A p \in Processes :
         /\ WF_vars(DrainSelect(p)) /\ WF_vars(CancelWrite(p))
         /\ WF_vars(Boot(p)) /\ WF_vars(Exit(p))

FairSpec == Spec /\ Fairness

-----------------------------------------------------------------------------
(* What the queue promises.                                                 *)

\* Two tasks never have the same execution, and its executor is entered at most
\* once in its life, whatever the crashes, expired leases and number of
\* processes ("can never double-run one", "we never silently re-run them").
AtMostOnce ==
    /\ \A t, u \in Tasks : Holding(t) /\ Holding(u) /\ JobOf(t) = JobOf(u) => t = u
    /\ \A e \in Executions : starts[e] <= 1

\* No lease, no earlier claim or run, and no task has it.
Fresh(e) ==
    /\ row[e].lease = "none" /\ row[e].attempts = 0 /\ starts[e] = 0
    /\ \A t \in Tasks : Holding(t) => JobOf(t) # e

\* Why it holds: a row is fresh until the claim that takes it from pending, which
\* no status ever returns to, so that the lease of _claim and the dead letter of
\* _run_claimed never come into play; a worker's lock keeps the row it selected
\* pending and out of every other claim; and a claimed execution's executor has
\* not been entered before.
FreshUntilClaimed ==
    \A e \in Executions : row[e].status \in {"absent", "pending"} => Fresh(e)

SelectedIsPending ==
    \A p \in Processes : pc[p] = "selected" => row[job[p]].status = "pending"

LockIsExclusive ==
    \A p, q \in Processes :
        pc[p] = "selected" /\ pc[q] = "selected" /\ job[p] = job[q] => p = q

NotYetStarted ==
    \A t \in Tasks : pc[t] \in {"claimed", "loaded"} => starts[JobOf(t)] = 0

HeldWasClaimed ==
    \A t \in Tasks :
        Holding(t) => \/ row[JobOf(t)].status = "deleted"
                      \/ row[JobOf(t)].attempts > 0

ClaimInv ==
    /\ FreshUntilClaimed
    /\ SelectedIsPending
    /\ LockIsExclusive
    /\ NotYetStarted
    /\ HeldWasClaimed
    /\ AtMostOnce

\* When a lease is about to be released, the run it was for is finished: "The
\* executor set the terminal status; release the lease."
ExecutorSetTerminal ==
    \A t \in Tasks :
        pc[t] = "release" => row[JobOf(t)].status \in Terminal \cup {"deleted"}

\* With one process, while it is up a running row is being run: recovery has
\* failed every row the previous life of the process left running.
RunningIsRun ==
    \A e \in Executions :
        row[e].status = "running" /\ (\E p \in Processes : up[p] # "down") =>
            \E t \in Tasks : Holding(t) /\ JobOf(t) = e

\* A completed run carries no error, neither of recovery nor of the executor.
CompletedIsClean ==
    \A e \in Executions : row[e].status = "completed" => ~row[e].error

\* A running row becomes failed by a step of the task that runs it, or nobody
\* runs it: recovery marks only "executions left running by a dead process".
FailedByItsRunner ==
    \A e \in Executions :
        row[e].status = "running" /\ row'[e].status = "failed" =>
            \A t \in Tasks : Holding(t) /\ JobOf(t) = e => pc'[t] # pc[t]

RecoverySparesTheLiving == [][FailedByItsRunner]_vars

\* An execution cancelled before anybody claimed it is never run.
CancelledUnclaimed(e) == row[e].status = "cancelled" /\ row[e].attempts = 0

CancelBeforeClaimHolds ==
    [][\A e \in Executions :
         CancelledUnclaimed(e) =>
             CancelledUnclaimed(e)' \/ row'[e].status = "deleted"]_vars

\* An outcome is overturned only by a cancel that read the row before it: no
\* completed or failed run is set running, failed or completed afterwards.
OutcomeIsFinal ==
    [][\A e \in Executions :
         row[e].status \in {"completed", "failed"} =>
             row'[e].status \in {row[e].status, "cancelled", "deleted"}]_vars

\* The queue is an implementation of its promise: a row is taken from the queue
\* by its first claim, and gone when it was cancelled before that, or deleted.
StageOf(e) ==
    CASE row[e].status = "absent"  -> "none"
      [] row[e].status = "deleted" -> "gone"
      [] row[e].status = "pending" -> "queued"
      [] CancelledUnclaimed(e)     -> "gone"
      [] OTHER                     -> "taken"

Promise == INSTANCE ExecutionLifecycle
             WITH stage <- [e \in Executions |-> StageOf(e)], runs <- starts

\* Every step of rows and tasks is a step of one execution's life, or none.
KeepsPromise == Promise!Spec

\* Every pending execution is claimed, cancelled or deleted in the end, though
\* the process whose task was to claim it crash.
PendingIsServed ==
    \A e \in Executions :
        row[e].status = "pending" ~> row[e].status # "pending"

\* Every accepted execution is finished in the end.
EventuallyFinished ==
    \A e \in Executions :
        row[e].status \in Live ~> row[e].status \notin Live
=============================================================================
