# DClaw Flow: a TLA+ model of the backend

TLA+ specifications of the workflow engine in `backend/app`: the durable
execution queue, the executor of a single run, the graph algorithms both rest on, the
webhooks that feed the queue, the pool of database connections that requests, runs,
nodes and event streams share, and the copilot that makes workflows out of the answers
of language models. TLC checks small instances; TLAPS proves every safety property of
the passing runs - of the queue, its recovery, the webhooks, the graph algorithms, a
single run, the pooled runs and the copilot - for any number of executions, nodes,
edges, events, requests, processes and faults, and any answers.

## The system

The backend is a FastAPI process (one or more replicas) over one PostgreSQL
database. A user draws a workflow (nodes and edges, stored as JSON), and a
request or a webhook submits an *execution* of it: a row of `executions` with
status `pending`. Some task claims the row, runs the workflow node by node and
writes the outcome.

| Component | State | Operations | Talks to |
|---|---|---|---|
| execution queue (`services/queue.py`, lifespan in `main.py`) | rows of `executions`: status, attempts, lease, error | claim, run, release, drain, recover orphans | executor; the same rows as every request handler and every other process |
| execution requests (`routers/workflows.py`, `routers/executions.py`, `services/retention.py`) | none of their own | submit, cancel, delete, list, stats, stream | the rows; fire a task or await it |
| executor (`services/executor.py`) | books of one run: outputs, active, failed; rows of `node_executions` | levels, activation, gather, apply, retry | graph algorithms; one session per node |
| graph algorithms (`services/engine.py`) | none | sort, levels, validate, unreachable | executor, validate endpoint, copilot |
| webhook ingestion (`routers/webhooks.py`, `webhook_security.py`, `services/schema_inference.py`) | per-process cache of seen signatures; the schema inside `workflows.trigger` | verify, refuse replays, learn the schema, submit | queue; the workflow row |
| workflow storage (`routers/workflows.py`, `models.py`) | rows of `workflows`, `version` | create, patch, delete, validate | executor reads what it stores |
| database sessions (`database.py`) | the pool's connections | take, give back, time out | everything that reads or writes |
| event stream (`routers/executions.py`) | per client: node -> last status sent; its session's objects | poll and send | rows of both tables |
| copilot (`services/copilot.py`) | none | generate, chat, suggest, explain a failure | LLM providers, graph algorithms |
| accounts, connections (`auth.py`, `routers/auth.py`, `routers/connections.py`, `crypto.py`) | rows | signup, login, create, delete | executor looks connections up |
| anomaly detection (`services/anomaly.py`) | none | flags of one execution against its history | rows |
| frontend (`frontend/`) | the drawing under edit | validate, lay out, save, run | HTTP only |

What is hard in it:

* **Interleaving.** The request's own task, the worker of every process and the
  cancel and delete handlers all write the same row, each in a transaction of
  its own and from a status read in an earlier one.
* **Crashes.** A run is not resumed: it must be failed once, and never run twice,
  because its nodes have side effects.
* **Replicas.** Recovery at boot knows nothing of other processes.
* **Order.** Nodes of a level finish in any order; their results must not.
* **Exceptions.** Some are caught per node, some leave the executor, and some
  leave its row behind.
* **Malformed input.** Nodes and edges are stored unchecked, and a language model may
  answer anything.
* **A shared pool.** Who waits for a connection may wait for somebody who waits for
  one too.

`PROJECT.json` lists the hazards at their lines, with the properties that cover
them.

What would make each part correct:

* queue: at most once; every accepted execution finished; recovery fails the
  dead and nothing else; outcomes stay.
* executor: a node runs after its dependencies and exactly if an edge into it
  fires; a failure is handled or ends the run; attempts obey the policy; a run
  ends.
* graph algorithms: levels are ranks, the two sorts agree, what is accepted can
  be run, the cleanup hint is exact.
* webhook ingestion: a repeated delivery is refused for as long as its timestamp is
  acceptable, no event is lost but by a fault, the schema settles.
* workflow storage: no edit is lost; a run uses one version.
* pool: nobody waits for ever; a wide workflow alone does not use it up.
* event stream: it ends when the execution has an outcome, and each of its polls tells
  where the nodes stand.
* copilot: whatever a provider answers, the caller gets a workflow that can be run, and
  a good answer is not tampered with.

## Modules

| Module | Models | Checked by |
|---|---|---|
| `ExecutionQueue` | the queue, its requests and its processes | `MCExecutionQueue`, four configurations |
| `ExecutionLifecycle` | the abstract specification: what the queue promises of an execution | as a property of `ExecutionQueue` |
| `ExecutionQueueProofs` | theorems about `ExecutionQueue`, for any number of processes | TLAPS |
| `SingleProcessProofs` | theorems about `ExecutionQueue` with one process, or with nothing that raises | TLAPS |
| `WorkflowGraph` | `engine.py` and the client's `validation.ts` as pure operators, and reference definitions | through the three that extend it |
| `WorkflowGraphProofs` | what the algorithms compute of any lists of nodes and edges | TLAPS |
| `WorkflowEdits` | any graph a client can store, and what the algorithms say of it | `MCWorkflowEdits` |
| `WorkflowEditsProofs` | theorems about `WorkflowEdits` | TLAPS |
| `WebhookIngest` | deliveries, the replay memory, the schema and the workflow's row under edit | `MCWebhookIngest`, two configurations |
| `WebhookIngestProofs` | theorems about `WebhookIngest` | TLAPS |
| `WorkflowRun` | `execute_workflow` and `_run_single_node` (extends `WorkflowGraph`) | `MCWorkflowRun` |
| `WorkflowRunProofs` | theorems about `WorkflowRun` | TLAPS |
| `Copilot` | provider fallback, coercion and the heuristic generator (extends `WorkflowGraph`) | `MCCopilot` |
| `CopilotProofs` | theorems about `Copilot` | TLAPS |
| `PooledRuns` | one process's connection pool, and the requests, runs and nodes that use it | through `ExecutionStream` |
| `ExecutionStream` | the event streams, and the copilot as a user of the pool (extends `PooledRuns`) | `MCExecutionStream` |
| `ExecutionStreamProofs` | theorems about `ExecutionStream` and `PooledRuns` | TLAPS |

### ExecutionQueue

`row` is the table. A *task* is either an execution's own task (the background or
awaited `run_execution_durable`), named by the execution, or a process's queue
worker, named by the process; `pc` says where it stands:

| `pc` | code |
|---|---|
| `claim` | `run_execution_durable`, before `_claim` |
| `idle`, `selected` | `drain_one`, before and after its `SELECT ... FOR UPDATE SKIP LOCKED` |
| `claimed` | `_run_claimed`, before `db.get` |
| `loaded` | before the executor's first commit |
| `running` | inside `execute_workflow` |
| `release` | in the `finally` |

An action is one transaction, or one stretch between two awaits. `view` is the
status a session loaded: SQLAlchemy writes a column only where it differs from
that, which is why a cancel committed before the load is undone by the
executor's first commit and one committed after it is not. `cancel` is the
handler between its read and its write. `RowLocked` is the row lock; UPDATEs
wait for it, the worker's SELECT skips it. `older` is the order of `started_at`.
A lease is held, expired or absent; it may expire at any moment. The run itself
is one step with either outcome; `WorkflowRun` opens it up.

Faults are counted by `faults` and bounded by `MaxFaults`: `crash` ends a process
and every task in it, `stop` begins a graceful shutdown (it waits for the worker's
job and open requests, not for background tasks, whose `finally` may still release
a lease), `raise` is an exception at any database call or out of the executor.
`Boot` recovers orphans before it starts the worker.

`ExecutionLifecycle` leaves all of this out: an execution is queued once, taken at
most once, run at most once and only when taken, and may be withdrawn. `StageOf`
reads that stage off a row (pending is queued; cancelled with no claim, or deleted,
is gone; anything else is taken), the number of runs is `starts`, and
`KeepsPromise` says that the queue implements it. A row that recovery, a cancel or
the executor writes over stays taken: the abstract stage never goes back.

### WorkflowGraph and WorkflowEdits

Nodes and edges are lists, as stored; ids are numbers in the order of the
strings. In-degree bookkeeping is kept as in the code; a loop is its body as a function
from state to state, applied once a round (`Rounds`); Python's `ValueError` and `KeyError` are outcomes. The
reference definitions (`WalkEnds`, `Acyclic`, `OfRank`, `ReachableFrom`) speak of
walks and share nothing with the algorithms. `ValidateGraph` and `ClientUnreachable`
are the canvas's own copies, in TypeScript, of validation and of the cleanup hint:
`ClientMirrorsServer` says that they agree with the server's on every graph, but for
cycles, which the client leaves to the server.

### WorkflowRun

The executor goes level by level (`EnterLevel`, `Apply`, `Complete`); each node
of a level is a coroutine (`Acquire`, then attempts that succeed or fail, `Retry`
after a backoff, `RaiseNode` for an exception outside its `try`). What a node
returns is abstracted to what an edge can tell apart: the truthy leg of a
condition, or `failed`. Everything inside an attempt (template resolution,
connections, HTTP, transforms) is that choice. `outcome`, which a node fixes when
it returns, is kept apart from `outputs`, `active` and `failed`, the executor's
books, so that properties can compare what was done with what should have been.

`Fires` says of an edge, by the outcomes alone, whether it should have led to its
target. `FailureIsHandled` asks that of every failure a completed run went past; it is
stated of workflows whose edges lead somewhere, because the executor counts an error
edge without a target as one that catches (`executor.py:112`). `WorkflowsAreLists` says
what a stored workflow is: lists of nodes and of edges, with the fields the executor
reads; ids may repeat, edges may lead nowhere, retry policies may be zero or negative.

### WebhookIngest

A request is a record with the point `receive_webhook` has reached: `check` (the
row is read, nothing else happened), `replay` (the timestamp was found fresh and the
signature right, `is_replay` is about to read the clock again), `learn` and `insert`
(before each commit). What stands between two awaits is one action, but for the two
readings of the clock: between them time may go by, and other processes and the database
go on, while the process itself checks nobody else (`Undisturbed`), because it has one
thread and does not await there. The window and the memory are judged by the clock of
each reading, and the decision to learn by the trigger read on arrival. `Learn` writes the
whole trigger back as it was read, plus the schema; `Insert` commits the execution and
hands it to the queue; `DatabaseError` is a commit that raises, or the refresh after the
last one. `workflow` is the row: `PatchStatus` and `PatchTrigger` write the column the
client sent, a trigger of any kind with any schema in it, since `update_workflow` stores
what it is given and the canvas sends the trigger it loaded when it was opened.
`DeleteWorkflow` makes every later commit fail.

Time is relative: `lead` is a signature's timestamp minus the present, `seen` the
seconds a process still remembers it (-1: not, or swept at the next look), and
`Tick` takes one off both, so that the clock needs no bound. A sender signs an event
anew at will, with a clock that is off by any of `Skews`; deliveries are repeated,
reach any process, and may be signed by an outdated secret. An event in `Plain` is
never stamped. A payload is its event: inference and the advisory validation of a
payload change nothing but the answer.

What the memory achieves is less than the code says of it (`SignatureUsedOnce`, which
`webhook_replay` refutes). `MemoryOutlastsWindow` is what is left: a signature that was
not stamped ahead of our clock is remembered for as long as its timestamp is fresh, its
last second included. It takes both readings of the clock to be refused, so that a
request delayed between them from the window's last second can still pass; with a
timestamp from ahead, the window outlasts the memory by as much. `FewPerLife` counts what
comes of it: two passes in one life of a process, three if it was stamped ahead, however
often and late a signature is repeated.

`NoSilentLoss` has its exceptions for a reason too: the signature is recorded before the
commit, so a failed commit leaves an event whose repetition is refused. `SchemaSettles`
says of deliveries alone, between any two edits of the owner, that once nobody is under
way who found no schema, the schema is what it is; before that the last to commit wins.

### Copilot

A request (`ask`) is to generate a workflow, to chat with the intent to build one, to
chat, or to explain a failed execution. `left` are the providers it may still ask,
`asked` the history. `Call` is the outgoing request; its end is one of `CallFails` (an
exception that is caught, or nothing in the answer), `CallRaises` (one that is not:
an answer without choices, a text that is null), `CallBuilds` and `CallReplies`.
`FallBack` is what comes after the loop, `Respond` what the router does with the answer,
`StoreFails` its commit of a workflow to persist, or the refresh after it, that raises.

An answer is the JSON value a provider produced. Its lists hold objects, things that
are no object, and objects with a field of a kind that raises (a list as id, say). An
id is a stem and a number, because the code makes ids of that form (`action-2`) that
may collide with given ones; it may be missing, or given as a number: `str()` makes it
text in a node while the ends of edges are compared as they are, so that edges between
nodes with numeric ids are dropped and a chain takes their place. `CoerceNodes`,
`EnsureSingleTrigger`, `CoerceEdges` and `TriggerFor` are the functions of those names;
a stable sort with at most one trigger is a move to the front. `HeuristicSpec` works on
the set of keyword groups a description contains. `AnswersAreLists` says what JSON is:
lists, and an id that is given is not the empty one, which counts as none. Names, labels, positions, prompts and
the texts of replies are left out.

`KeepsGoodAnswer` relates the answer that comes back to the reply it was made from: if
that was a workflow validation accepts, with distinct textual ids, then what comes back
has the same ids and exactly its edges. `AnswerIsUsable` must hold of all the others.

### PooledRuns and ExecutionStream

What a connection is held by follows from where its holder stands (`Held`): an awaited
request keeps the one its `db.refresh` took (`waiting`), a connector node the one that
read its stored connection until the commit after the call (`calling`), a stream and a
copilot request (`lent`) theirs to the end. Everything else is a transaction that is
over before anything else is awaited: an action that needs a free connection (`Free`).
Who needs one while there is none (`Exhausted`) times out, with the exception SQLAlchemy
raises after `pool_timeout`; where that ends up is the code's:

| Who | Without a connection |
|---|---|
| request before `db.refresh` | fails; the pending row is the worker's (`RefreshFails`) |
| a task at its claim | the task, and the request awaiting it, fail (`ClaimTimesOut`) |
| the run before a commit | the run raises, the row stays running (`RunRaises`) |
| a node that resolves its connection | the attempt fails (`Resolve`, inside the `try`) |
| a node before a commit | the exception leaves the node and ends the run; its siblings go on (`NodeRaises`) |
| submit, cancel, delete, opening a stream | the request fails and changes nothing: no action |

`run` is the point `_run_claimed` and `execute_workflow` have reached, `node` that of
each coroutine; the nodes of a run are one level, levels and edges being `WorkflowRun`'s,
leases and crashes `ExecutionQueue`'s.

A stream alternates between `polling` (the rows are read and differences sent) and
`sent` (the status is read, and if final, the stream ends). It sends per node while a
node has a row per attempt: `Sent` is the loop over the rows by `created_at`, and what the
client is left with of a node is what was sent last of it. Its session has an identity
map: a row whose object is still referenced is not refreshed. The only reference that
outlives a poll is the loop variable `node`, the last row of that poll; `kept` holds
that row, and the status it has there. This rests on CPython freeing objects when the
last reference goes and on SQLAlchemy's weak identity map not refreshing unexpired objects.

`PollsCatchUp` says what a poll is worth: after it, the client knows the present status of
every node's latest attempt but, at most, of the one whose row was the last one at the
poll before. That it knows how the nodes ended when the stream ends is not true, and not
claimed (see below).

## Runs

| Run | Bounds | Shows |
|---|---|---|
| `queue_replicas` | 2 executions, 2 processes, 1 fault of any kind | at most once and why (`ClaimInv`), cancel before claim, under every interleaving of two replicas |
| `queue_single` | 2 executions, 1 process, 2 faults out of crash and stop, fair | what recovery guarantees for the single process the code is written for; that the queue implements `ExecutionLifecycle`; that every execution is served and finished |
| `queue_rolling_deploy` (violation) | 1 execution, 2 processes | recovery fails live runs of another replica |
| `queue_raising_executor` (violation) | 1 execution, 1 process, 1 exception | a running row is left without lease and task |
| `workflow_edits` | 3 nodes and 3 edges over 5 ends, or 4 nodes and 4 edges | the algorithms against the reference definitions, and the client's against the server's |
| `workflow_validation` (violation) | the same | validation raises on an unknown target |
| `webhook_ingest` | 2 requests, 1 process, one stamped and one plain event, tolerance 2, skews -1, 0, 1 and 3, 1 fault | how long a signature is remembered and how often it is let past, what may be lost, how the schema settles |
| `webhook_replay` (violation) | 1 request, 1 process, a clock ahead by 1, no fault | a signature is used twice |
| `workflow_run` | all sets of 1 to 3 conditional edges over 3 nodes, all pairs of edges that join two branches, 5 larger workflows; semaphore of 2, fair | the executor's promises, in every order of the coroutines |
| `workflow_run_catch` (violation) | the same | a failure judged before its siblings' results are in |
| `copilot` | at most 3 nodes; all answers of 2 nodes of 14 shapes and 1 edge of 18, of 3 nodes without edges, of 2 edges over some nodes, and longer ones; all settings; all sets of keywords | who is asked in which order, what answers become |
| `execution_stream` | a pool of 3, 1 node of a run at a time; a watched and awaited run of 2 connector nodes with a retry, or 2 awaited runs, or one in the background; 1 stream, 1 copilot request; fair | every waiting ends, streams end, polls catch up; no run alone takes the pool |

Why the bounds are enough. A claim is a race between two tasks for one row, so
two processes and two executions (one of them queued behind the other) reach
every pattern of the races the code has: task against worker, worker against
worker, recovery against both. One fault at a time is what the code means to
survive; `queue_single` takes two, to crash again during recovery's aftermath.
The proofs drop all of these bounds. For graphs, a parallel edge, a diamond, a
cycle, a doubled id, an unknown end and an empty end all fit four edges. For
runs, two concurrent branches and a join are what activation, catching and the
semaphore need; a semaphore of two under a level of three makes nodes wait, in
place of ten under eleven. The bound of ten attempts is the code's own, and one
workflow uses all ten.

For webhooks, a race needs two requests; a tolerance of two has an inside, a border
and an outside; the skews reach all three, and one that is fresh only later. The passes
`FewPerLife` allows, two and three, both occur within these bounds.

For the copilot, `MAX_NODES` of 60 is 3: answers of 4 nodes are cut, the added trigger
makes one node more than the bound, and the kinds of collision need two nodes and one
edge, a cycle or a detour three.

For the pool, 15 connections (`pool_size` and `max_overflow` by default) under 10 nodes
are 3 under 1: one node and its awaiting request leave one free, as ten and one leave
four, and a second request, a stream or the copilot use that up. Two awaited
executions and one other holder reach the state in which everybody waits for everybody.
The proofs drop these bounds.

`CHECK_DEADLOCK FALSE` everywhere but for webhooks, where the clock goes on: a queue whose executions are all finished or
whose faults are used up, a run that is over and a graph at its bound really
stop.

Fairness. In the queue: weak fairness of every task's next step (the event loop
runs what can run; nodes are bounded by timeouts and retries), of each worker's
poll, of a cancel's second half, of a stopping process's exit and of the restart
of a process that is down (the deployment restarts it). None for requests,
faults, lease expiry or deletion. In a run: weak fairness of the executor and of
the nodes together. In the pool: weak fairness of each accepted request's, task's, run's,
node's and stream's next step, because the event loop goes on with whoever can go on,
calls have timeouts, and who waits for a connection gets one or times out (the two are
one step for fairness: nothing says that a waiter is ever served). None for submitting,
cancelling, deleting, opening and leaving a stream, the worker, or the providers.

## What is proved

`ExecutionQueueProofs`, for all sets of executions and processes, any
`MaxQueueAttempts`, worker on or off, and any number of faults of any kind, under
`QueueAssumption` (names do not clash, the numbers are naturals):

* `TypeCorrect`: `Spec => []TypeOK`, one step per action.
* `ClaimsAreDisciplined`: `Spec => []ClaimInv`. `AtMostOnce` is not inductive: nothing
  in it says that a row a worker has selected is still pending when it claims, or
  that a pending row was never started. `ClaimInv` adds that a row that is absent
  or pending is *fresh* (no lease, no claim, no start, no holder), that a selected
  row stays pending because the lock keeps everybody else away, that locks are
  exclusive, that a claimed execution was not entered yet and that whoever holds a
  row has claimed it. Then the only step that takes hold of a row takes it from
  pending, that is from fresh, and no step leads back to pending.
* `AtMostOnceHolds`: a consequence.
* `CancelBeforeClaimAlwaysHolds`: the action property, from the same invariant.
* `PromiseIsKept`: `Spec => KeepsPromise`, the refinement. The steps that write one
  row move one abstract stage (`OneStage`) or none (`SameStage`); a step of a task on
  the row it holds moves none, because it was claimed before (`HeldStage`); `Boot`
  writes many rows and moves none. So every step is an abstract step of one execution
  or a stutter (`KeepsStep`).

So the promise of `queue.py`'s docstring, that a run is never doubled, holds for
any number of replicas. It rests on the status alone: `FreshUntilClaimed`, the first
part of `ClaimInv`, shows that the lease never decides a claim and that the dead letter
(`attempts` above `queue_max_attempts`) is never reached.

`WebhookIngestProofs`, for all events, requests and processes, any tolerance, any
skews and any number of faults, under `IngestAssumption`:

* `IngestTypeCorrect`: `Spec => []TypeOK`.
* `MemoryAlwaysOutlastsWindow`, `FewPerLifeHolds`: both from `Remembers`. Once a signature
  has used up all its passes but one, the memory of it lasts at least as long as its
  timestamp is in the window (`seen >= lead + Tolerance`), and after the first of a
  timestamp from ahead at least until it is no longer ahead (`seen >= lead`). A pass needs
  the opposite, or a request that was found timely before and comes late to its replay
  check; of those a process has one at a time (`Alone`), after whose pass the window is
  over (`Spent`), and what is outside never comes back.
* `NoSilentLossHolds`: inductive per process and signature (`Kept`); the witness is the
  request that passed, and only its own steps take it away (`OthersStore`).
* `SchemaAlwaysSettles`: the action property, with `LearnersUntaught`: whoever is about
  to learn read no schema. The owner's edits are arbitrary; whoever reads the trigger once
  a schema is there is no learner, whichever schema that is.

`SingleProcessProofs`, for any number of executions, faults and restarts. Each theorem
assumes of the deployment what it needs and no more: `OneProcess` (the two violations
are what happens otherwise), `NoneRaises` (no `raise` among the faults) or
`WorkerEnabled`.

* `CompletedIsAlwaysClean`, `OutcomesAreFinal`, `RecoveryAlwaysSparesTheLiving`, with one
  process: `Uninterrupted` is inductive. Every coroutine lives in a process that is up
  (`TasksAreHoused`), so that at `Boot` there is none; whoever is past its claim has a
  row that is running, was cancelled or is gone (`RunnersKeepTheirRows`), so that nothing
  but its own last commit finishes it; and errors come with failures only
  (`CleanUntilFailed`).
* `ExecutorAlwaysSetsTerminal`, with nothing that raises: inductive over `ClaimInv`,
  since only the last commit leads to the release.
* `RunningIsAlwaysRun`, with all three: inductive over the same and
  `ExecutorSetTerminal`; `Boot` fails the rows a dead process left before anything else
  runs.

`WorkflowGraphProofs` is about operators, for all lists of
nodes and edges (`Lists`), with doubled ids, empty and unknown ends. An operator of
theirs is a number of rounds of a loop, so they rest on induction over the rounds, which
the library offers only with an operator as parameter; `SetInduction` says it of sets,
from the well-foundedness of the naturals (`WFMin`). `RoundsAre` gives a loop's states one
by one. From there:

* `LevelsRespectEdges`: with each round, the in-degree that is left of a node is the
  number of edges into it from nodes that are not in a level yet. So a node in the next
  level has all its sources in earlier ones; as many nodes in levels as in the list
  means that no id is doubled.
* `SortAgrees`: the sort's queue and the levels take the same nodes in the end
  (`AllDone`), because both end at the least set closed under the edges; hence they
  raise, find a cycle or answer together, and the order respects the edges.
* `ValidityOf` and the lemmas on walks before it: what is taken is everything exactly if
  no walk is longer than there are nodes, which ties the algorithms to `Acyclic`.

`WorkflowEditsProofs`, for every node list and every edge a client may store, under
`NodeListsAreLists`: the five invariants of the run (`LevelsAreAlwaysRanks`,
`SortAlwaysAgreesWithLevels`, `ValidIsAlwaysRunnable`, `UnreachableIsAlwaysExact`,
`ClientAlwaysMirrorsServer`). A path through more nodes than there are goes through one
twice and can be cut, so the reference definitions' bounded walks lose nobody
(`ShortWalks`), and a search needs one round more than there are edges. The first and
the third assume `NodesAreNamed`: no node has the empty id. The API does not refuse one
(`NodeSchema.id` is any text), but the canvas (type and time) and the copilot always name
their nodes; the run's node lists are named, too. With an empty id an edge that is
skipped for lack of an end would be one between nodes.

`WorkflowRunProofs`, for all workflows (under `WorkflowsAreLists`), widths of the
semaphore, retries and interleavings:

* `RunTypeCorrect`, `NoRowIsLeftRunning`, `AttemptsAreAlwaysOrdered`: `Running` is
  inductive. It says how the rows, the attempt and the outcome of a node hang together at
  each point of its coroutine (`Stands`), that a node of a level not entered has nothing,
  and that a level is left only when its coroutines are done.
* `FailureAlwaysStopsTheRun`: with `Booked`. The executor's books hold exactly the
  outcomes of the levels passed and of the results applied, and a culprit is of the level
  the run ended in.
* `DependenciesAlwaysFirst`: every edge ascends in the levels (`EdgesAscend`, from
  `LevelsRespectEdges`), and the books have everything of a level that is passed.
* `AlwaysRunsWhatIsWanted`: `Wanted` is inductive: the decision to call a node, made from
  the books when its level is entered, is the one the outcomes justify, and outcomes of
  earlier levels never change any more. As the property, it is about nodes whose edges'
  conditions read nodes of earlier levels (`ReadsEarlier`).
* `FailureIsAlwaysHandled`: `Handled` is inductive: the edge that caught a failure stays
  active while the other results of the level are applied, since books only grow, so its
  target is called when its level comes.

The last three assume `NodesAreNamed` as above.

`ExecutionStreamProofs`, for all executions, workflows, retry policies, clients and
copilot requests, under `PoolAssumption` (a workflow has finitely many nodes, and the
concurrency of one run leaves two connections of the pool, as 10 of 15 does) and
`StreamAssumption`:

* `AlwaysTyped`: the part of the type invariant the others need.
* `StreamTypeCorrect`: `Spec => []TypeOK`, of which two parts are more than types. That no
  node is tried more often than its policy says needs `WithinPolicy`: a row is claimed
  once, its nodes start without rows, and who waits for another attempt has one left.
  That `Held <= PoolSize` is a count over three kinds of holders; `PoolFits` and
  `LentIsUsed` say that finitely many of each hold one at a time, that `lent` is exactly
  the open streams and copilot requests, and every step takes at most one connection,
  which was free (`FitsOneMore`), or none (`FitsFewer`). Neither executions nor clients
  have to be finite.
* `AwaitedAnswerIsAlwaysFinal`: the property says nothing about runs, so
  `EndsWithOutcome` carries it: a run that is settled or over has left its row with an
  outcome, or gone, and no step writes a running status over it any more.
* `FanOutAlwaysLeavesRoom`: `Bounded` is inductive: the nodes past the semaphore, the only
  ones that can hold a connection, are at most `MaxConcurrency`, also after the run has
  raised. With the request's own, that is less than the pool.
* `PollsAlwaysCatchUp`: the loop over the rows leaves of each node the status of its last
  row (`LoopTells`, by induction on the rows, with `SetInduction` of
  `WorkflowGraphProofs`), as the session has it; and `Sessions` is inductive: a session
  holds on to one row at most, which was the last of its poll, so any other is as it
  stands.

`CopilotProofs`, for all answers (under `AnswersAreLists`), settings and words:

* `AlwaysAsksInOrder`: `Progress` is inductive: the providers asked are a beginning of the
  order, those left are the rest of it until somebody answers, and nobody but the last
  one asked was of any help. `Verdict`, what an answer is coerced to and judged as, is
  not expanded for it, so this does not depend on what coercion does.
* `CopilotTypeCorrect`: with `Made` (a workflow comes from a provider's answer or from the
  heuristic, and only what was answered is stored) and `LeftIsEnd`.
* `AnswerIsAlwaysUsable`: what a provider's answer is coerced to was validated, and
  `SingleTrigger` puts its only trigger in front (`UsableIsFit`). What the heuristic makes
  is validated by nobody: it is a chain of differently named nodes, and a chain is always
  accepted, because the first node the sort could not take would have had its only source
  taken (`ChainIsAccepted`, `HeuristicIsFit`).
* `GoodAnswerIsAlwaysKept`: of an answer that is a valid workflow with distinct ids, no
  node is dropped, renamed or added, its one trigger moves to the front, which changes no
  cycle (`AcyclicByIds`), and no edge is dropped: none ends outside or, without a cycle, at
  its own source (`NoEdgeToItself`).

Only model-checked: all liveness (`PendingIsServed`, `EventuallyFinished`, `Terminates`,
`EveryRequestEnds`, `StreamEnds`), which rests on fairness and so on ENABLED, out of the
prover's reach; and the five violations, which are counterexamples.

## Where the code and its words part

1. `recover_orphans` fails the live runs of other replicas (`queue_rolling_deploy`);
   `queue.py:118` says "left running by a dead process", and the chart's values ask
   for two replicas.
2. After an exception the lease is released from a row that is still running
   (`queue_raising_executor`), against the comment at `queue.py:74`.
3. An edge into an unknown target makes validation raise (`workflow_validation`)
   where `engine.py:21` reports it.
4. Whether a failure is caught depends on the order of node ids
   (`workflow_run_catch`), against the docstring at `executor.py:205`.
5. A signature can be used again (`webhook_replay`), although `webhooks.py:66-67` says that
   it can't, and `webhook_security.py:5-7` that it is remembered for the length of the
   window. `is_replay` remembers it for the tolerance from its acceptance
   (`webhook_security.py:58`); the window of a timestamp ahead of our clock is longer.
   (So is it, by a moment, for a request between whose two readings of the clock the
   window's last second goes by.)

Four more are in the models as the code has them, and the properties say where they stop:

6. Of two first payloads at a time both teach the schema, and the last to commit stays,
   against `webhooks.py:103`, "First payload teaches the schema; later payloads are
   validated against it." `SchemaSettles` begins once they are through. Later, too, a
   learnt schema is not safe: the canvas saves the trigger it loaded when it was opened
   (`flow-canvas.tsx:282`), schema included, and the server stores it.
7. `copilot.py:72` says "Falls back to a heuristic on any failure". An answer of a type
   nobody expects (a JSON list, a node whose id or type is a list) raises outside of the
   `try` and fails the request; `AsksInOrder` says that nothing else a provider does can.
8. A stream may end without having told how nodes ended: one that was running at a poll
   and settled, with the run, before the next, if its row was the last one of that poll
   (its object is not refreshed, `executions.py:228`); and any that settles after the last
   reading of the rows and before that of the status (`executions.py:235`), which ends the
   stream. `PollsCatchUp` says what each poll tells, and has the first as its exception;
   the comment at `executions.py:234` knows of stale objects, and nothing promises the
   client every update.
9. An awaited execute answers with a running execution when the queue worker claims the
   row first (`workflows.py:177`), which `AwaitedAnswerIsFinal` has as its exception; and
   the streams of runs that raised, and of deleted executions, never end.

## Not modelled

The work inside a node (HTTP, connectors, templates' text), rate limits, metrics,
password hashing, tokens and encryption, seed data and templates, migrations,
charts, and the frontend's pages: input and output, library code or constant data.
Edits of one workflow by two clients at once: there is neither a lock nor a version
check, nothing reads `version`, and the last writer of a column wins; the edits that
matter to somebody else are in `WebhookIngest`. Two signups with one address: the unique
column decides, and the second one raises. Anomaly flags, statistics and the suggestions
of next nodes: read-only answers that nothing acts on.

## Plan

In this order:

1. The pool with levels: `PooledRuns` over `WorkflowRun` in place of its one level.
2. That a run of `WorkflowRun` implements the one step `ExecutionQueue` takes for it.
3. Schema inference and the advisory validation of a payload as pure operators.
