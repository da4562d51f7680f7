------------------------- MODULE ExecutionStreamProofs -------------------------
(* For any executions, workloads and clients, and any pool larger than the     *)
(* executor's concurrency and one: what one execution takes of the pool, what  *)
(* an awaited request is answered, how often a node is tried, that the pool     *)
(* never lends more than it has, and what a poll tells its client.             *)
EXTENDS ExecutionStream, FiniteSetTheorems, TLAPS

\* Induction on the naturals is proved there.
Graph == INSTANCE WorkflowGraphProofs WITH Missing <- "none"

NodeStages == {"none", "ready", "resolving", "calling", "failing", "backoff",
               "completed", "failed", "raised"}

\* The parts of the type invariant the proofs rest on.
Typed ==
    /\ status \in [Executions -> Status]
    /\ request \in [Executions ->
                      {"none", "refreshing", "waiting", "answered", "failed"}]
    /\ told \in [Executions -> {"none"} \cup Live \cup Terminal]
    /\ task \in [Executions -> {"none", "claiming", "won", "lost", "raised"}]
    /\ run \in [Executions ->
                  {"none", "claimed", "running", "settled", "over", "raised"}]
    /\ DOMAIN node = Executions
    /\ \A e \in Executions : node[e] \in [NodesOf[e] -> NodeStages]

LEMMA TypedInit == Init => Typed
  BY DEF Init, Typed, NodeStages, Status, Live, Terminal

\* Whatever a step of an execution moves, it moves to where it can be.
LEMMA TypedStep ==
  ASSUME Typed, NEW e \in Executions,
         Submit(e) \/ Cancel(e) \/ Delete(e) \/ Drain(e) \/ RequestStep(e)
         \/ TaskStep(e) \/ RunStep(e)
  PROVE  Typed'
<1>1. CASE Submit(e) \/ Cancel(e) \/ Delete(e) \/ Drain(e)
  BY <1>1 DEF Typed, Submit, Cancel, Delete, Drain, Status, Live, Terminal
<1>2. CASE RequestStep(e)
  BY <1>2 DEF Typed, RequestStep, Refresh, RefreshFails, Respond, Exists
<1>3. CASE TaskStep(e)
  BY <1>3 DEF Typed, TaskStep, Claim, ClaimTimesOut, Status, Live
<1>4. CASE Start(e)
  <2>1. [n \in NodesOf[e] |-> "ready"] \in [NodesOf[e] -> NodeStages]
    BY DEF NodeStages
  <2> QED BY <1>4, <2>1 DEF Typed, Start, Status, Live
<1>5. CASE Finish(e)
  <2>1. PICK outcome \in Status : status' = [status EXCEPT ![e] = outcome]
    BY <1>5 DEF Finish, Status, Terminal
  <2> QED BY <1>5, <2>1 DEF Finish, Typed
<1>6. CASE Release(e) \/ RunRaises(e)
  BY <1>6 DEF Typed, Release, RunRaises
<1> QED BY <1>1, <1>2, <1>3, <1>4, <1>5, <1>6 DEF RunStep

LEMMA TypedNode ==
  ASSUME Typed, NEW e \in Executions, NEW n \in NodesOf[e], NodeStep(e, n)
  PROVE  Typed'
<1>1. PICK stage \in NodeStages : MoveNode(e, n, stage)
  <2>1. CASE BeginAttempt(e, n)
    BY <2>1 DEF BeginAttempt, NodeStages
  <2>2. CASE Resolve(e, n)
    BY <2>2 DEF Resolve, NodeStages
  <2>3. CASE Settle(e, n) /\ MoveNode(e, n, "completed")
    BY <2>3 DEF NodeStages
  <2>4. CASE Settle(e, n) /\ ~MoveNode(e, n, "completed")
    BY <2>4 DEF Settle, NodeStages
  <2>5. CASE NodeRaises(e, n)
    BY <2>5 DEF NodeRaises, NodeStages
  <2> QED BY <2>1, <2>2, <2>3, <2>4, <2>5 DEF NodeStep
<1>2. DOMAIN node' = Executions
      /\ \A f \in Executions : node'[f] \in [NodesOf[f] -> NodeStages]
  BY <1>1 DEF Typed, MoveNode
<1>3. run' = run \/ run' = [run EXCEPT ![e] = "raised"]
  BY DEF NodeStep, BeginAttempt, Resolve, Settle, NodeRaises
<1>4. UNCHANGED <<status, request, told, task>>
  BY DEF NodeStep, BeginAttempt, Resolve, Settle, NodeRaises
<1> QED BY <1>2, <1>3, <1>4 DEF Typed

\* No stream, copilot request or stutter moves anything of an execution.
LEMMA OthersStep ==
  ASSUME [Next]_vars, ~RunNext
  PROVE  UNCHANGED <<status, request, told, task, run, node>>
  BY DEF Next, vars, runVars, StreamStep, Open, Poll, ReadStatus, Disconnect, Ask,
         Reply, RunsUnchanged

LEMMA TypedNext == Typed /\ [Next]_vars => Typed'
<1> SUFFICES ASSUME Typed, [Next]_vars PROVE Typed'
  OBVIOUS
<1>1. CASE RunNext
  BY <1>1, TypedStep, TypedNode DEF RunNext
<1>2. CASE ~RunNext
  BY <1>2, OthersStep DEF Typed
<1> QED BY <1>1, <1>2

\* Rows, requests, tasks, runs and nodes are always where they can be.
THEOREM AlwaysTyped == Spec => []Typed
  BY TypedInit, TypedNext, PTL DEF Spec, StreamInit

-----------------------------------------------------------------------------
(* What an awaited request is answered.                                     *)

\* A run that got to its end has left an outcome, or lost its row; and a run is
\* only of a row that was submitted.
EndsWithOutcome ==
    \A e \in Executions :
        /\ run[e] # "none" => status[e] # "absent"
        /\ run[e] = "none" => \A n \in NodesOf[e] : node[e][n] = "none"
        /\ run[e] \in {"settled", "over"} => status[e] \in Terminal \cup {"deleted"}

LEMMA OutcomeInit == Init => EndsWithOutcome
  BY DEF Init, EndsWithOutcome

LEMMA OutcomeStep ==
  ASSUME Typed, EndsWithOutcome, NEW e \in Executions,
         \/ Submit(e) \/ Cancel(e) \/ Delete(e) \/ Drain(e) \/ RequestStep(e)
         \/ TaskStep(e) \/ RunStep(e)
         \/ \E n \in NodesOf[e] : NodeStep(e, n)
  PROVE  EndsWithOutcome'
<1> USE DEF EndsWithOutcome, Typed
<1>1. CASE Submit(e) \/ Cancel(e) \/ Delete(e) \/ Drain(e)
  BY <1>1 DEF Submit, Cancel, Delete, Drain, Live, Terminal, Exists
<1>2. CASE RequestStep(e)
  BY <1>2 DEF RequestStep, Refresh, RefreshFails, Respond
<1>3. CASE TaskStep(e)
  BY <1>3 DEF TaskStep, Claim, ClaimTimesOut
<1>4. CASE Start(e)
  BY <1>4 DEF Start, Exists, Status, Live, Terminal
<1>5. CASE Finish(e) \/ Release(e) \/ RunRaises(e)
  BY <1>5 DEF Finish, Release, RunRaises, Exists, Terminal, Live
<1>6. ASSUME NEW n \in NodesOf[e], NodeStep(e, n) PROVE EndsWithOutcome'
  <2>1. status' = status /\ (run' = run \/ run' = [run EXCEPT ![e] = "raised"])
    BY <1>6 DEF NodeStep, BeginAttempt, Resolve, Settle, NodeRaises
  <2>2. node[e][n] # "none"
    BY <1>6 DEF NodeStep, BeginAttempt, Resolve, Settle, NodeRaises, Admitted
  <2>3. run[e] # "none"
    BY <2>2
  <2>4. \A f \in Executions : f # e => node'[f] = node[f]
    BY <1>6 DEF NodeStep, BeginAttempt, Resolve, Settle, NodeRaises, MoveNode
  <2> QED BY <2>1, <2>3, <2>4
<1> QED BY <1>1, <1>2, <1>3, <1>4, <1>5, <1>6 DEF RunStep

LEMMA OutcomeNext == Typed /\ EndsWithOutcome /\ [Next]_vars => EndsWithOutcome'
<1> SUFFICES ASSUME Typed, EndsWithOutcome, [Next]_vars PROVE EndsWithOutcome'
  OBVIOUS
<1>1. CASE RunNext
  BY <1>1, OutcomeStep DEF RunNext
<1>2. CASE ~RunNext
  BY <1>2, OthersStep DEF EndsWithOutcome
<1> QED BY <1>1, <1>2

LEMMA AnswerInit == Init => AwaitedAnswerIsFinal
  BY PoolAssumption DEF Init, AwaitedAnswerIsFinal

\* Only Respond answers an awaited request: it looks at a run that has ended
\* without an exception, and at a row that is there.
LEMMA AnswerNext ==
  ASSUME Typed, EndsWithOutcome, AwaitedAnswerIsFinal, [Next]_vars
  PROVE  AwaitedAnswerIsFinal'
<1> USE PoolAssumption DEF AwaitedAnswerIsFinal, Typed
<1>1. ASSUME NEW e \in Executions,
             Submit(e) \/ Cancel(e) \/ Delete(e) \/ Drain(e) \/ RunStep(e) \/ TaskStep(e)
             \/ \E n \in NodesOf[e] : NodeStep(e, n)
      PROVE  AwaitedAnswerIsFinal'
  <2>1. \A f \in Executions :
           /\ request'[f] = "answered" => request[f] = "answered"
           /\ task[f] = "lost" => task'[f] = "lost"
           /\ told'[f] = told[f]
    BY <1>1 DEF Submit, Cancel, Delete, Drain, RunStep, Start, Finish, Release, RunRaises,
                TaskStep, Claim, ClaimTimesOut, NodeStep, BeginAttempt, Resolve, Settle,
                NodeRaises
  <2> QED BY <2>1
<1>2. ASSUME NEW e \in Executions, Refresh(e) \/ RefreshFails(e)
      PROVE  AwaitedAnswerIsFinal'
  BY <1>2 DEF Refresh, RefreshFails
<1>3. ASSUME NEW e \in Executions, Respond(e) PROVE AwaitedAnswerIsFinal'
  <2>1. request'[e] = "answered" => told'[e] \in Terminal \/ task'[e] = "lost"
    BY <1>3 DEF Respond, TaskEnded, TaskRaised, EndsWithOutcome, Exists, Live, Terminal
  <2> QED BY <1>3, <2>1 DEF Respond
<1>4. CASE RunNext
  BY <1>1, <1>2, <1>3, <1>4 DEF RunNext, RequestStep
<1>5. CASE ~RunNext
  BY <1>5, OthersStep
<1> QED BY <1>4, <1>5

\* Whatever the pool, the worker and the other requests do, a request that waited
\* for its own run is answered with an outcome.
THEOREM AwaitedAnswerIsAlwaysFinal == Spec => []AwaitedAnswerIsFinal
<1>1. Init => Typed /\ EndsWithOutcome /\ AwaitedAnswerIsFinal
  BY TypedInit, OutcomeInit, AnswerInit
<1>2. Typed /\ EndsWithOutcome /\ AwaitedAnswerIsFinal /\ [Next]_vars
        => (Typed /\ EndsWithOutcome /\ AwaitedAnswerIsFinal)'
  BY TypedNext, OutcomeNext, AnswerNext
<1> QED BY <1>1, <1>2, PTL DEF Spec, StreamInit

-----------------------------------------------------------------------------
(* What one execution takes of the pool.                                    *)

\* The semaphore: no more nodes of one run are under way than it lets in.
Bounded == \A e \in Executions : Cardinality(InFlight(e)) <= MaxConcurrency

LEMMA InFlightFinite ==
  ASSUME NEW e \in Executions
  PROVE  /\ IsFiniteSet(InFlight(e))
         /\ Cardinality(InFlight(e)) \in Nat
<1>1. InFlight(e) \subseteq NodesOf[e] /\ IsFiniteSet(NodesOf[e])
  BY PoolAssumption DEF InFlight
<1>2. IsFiniteSet(InFlight(e))
  BY <1>1, FS_Subset
<1> QED BY <1>2, FS_CardinalityType

LEMMA BoundedInit == Init => Bounded
<1> SUFFICES ASSUME Init, NEW e \in Executions
             PROVE  Cardinality(InFlight(e)) <= MaxConcurrency
  BY DEF Bounded
<1>1. InFlight(e) = {}
  BY DEF Init, InFlight
<1> QED BY <1>1, FS_EmptySet, PoolAssumption

\* A step that lets no node in leaves no more of them under way.
LEMMA NoMoreInFlight ==
  ASSUME NEW e \in Executions, Cardinality(InFlight(e)) <= MaxConcurrency,
         InFlight(e)' \subseteq InFlight(e)
  PROVE  Cardinality(InFlight(e))' <= MaxConcurrency
<1>1. Cardinality(InFlight(e)') <= Cardinality(InFlight(e))
      /\ Cardinality(InFlight(e)') \in Nat
  BY InFlightFinite, FS_Subset, FS_CardinalityType
<1> QED BY <1>1, InFlightFinite, PoolAssumption

\* A node starts, and is let in unless it was before.
LEMMA BeginBounded ==
  ASSUME Typed, Bounded, NEW e \in Executions, NEW n \in NodesOf[e], BeginAttempt(e, n)
  PROVE  Cardinality(InFlight(e))' <= MaxConcurrency
<1>1. CASE node[e][n] = "backoff"
  <2>1. InFlight(e)' \subseteq InFlight(e)
    BY <1>1 DEF Typed, BeginAttempt, MoveNode, InFlight
  <2> QED BY <2>1, NoMoreInFlight DEF Bounded
<1>2. CASE node[e][n] = "ready" /\ Cardinality(InFlight(e)) < MaxConcurrency
  <2>1. InFlight(e)' = InFlight(e) \cup {n} /\ n \notin InFlight(e)
    BY <1>2 DEF Typed, BeginAttempt, MoveNode, InFlight
  <2>2. Cardinality(InFlight(e) \cup {n}) = Cardinality(InFlight(e)) + 1
    BY <2>1, InFlightFinite, FS_AddElement
  <2> QED BY <1>2, <2>1, <2>2, InFlightFinite, PoolAssumption
<1> QED BY <1>1, <1>2 DEF BeginAttempt, Admitted

LEMMA NodeBounded ==
  ASSUME Typed, Bounded, NEW e \in Executions, NEW n \in NodesOf[e], NodeStep(e, n)
  PROVE  Bounded'
<1>1. Cardinality(InFlight(e))' <= MaxConcurrency
  <2>1. CASE BeginAttempt(e, n)
    BY <2>1, BeginBounded
  <2>2. CASE Resolve(e, n) \/ Settle(e, n) \/ NodeRaises(e, n)
    <3>1. InFlight(e)' \subseteq InFlight(e)
      BY <2>2 DEF Typed, Resolve, Settle, NodeRaises, MoveNode, InFlight
    <3> QED BY <3>1, NoMoreInFlight DEF Bounded
  <2> QED BY <2>1, <2>2 DEF NodeStep
<1>2. ASSUME NEW f \in Executions, f # e PROVE InFlight(f)' = InFlight(f)
  BY <1>2 DEF NodeStep, BeginAttempt, Resolve, Settle, NodeRaises, MoveNode, InFlight, Typed
<1> QED BY <1>1, <1>2 DEF Bounded

LEMMA BoundedNext == Typed /\ Bounded /\ [Next]_vars => Bounded'
<1> SUFFICES ASSUME Typed, Bounded, [Next]_vars PROVE Bounded'
  OBVIOUS
<1>1. ASSUME NEW e \in Executions, Start(e) PROVE Bounded'
  <2>1. ASSUME NEW f \in Executions PROVE InFlight(f)' \subseteq InFlight(f)
    BY <1>1 DEF Start, InFlight, Typed
  <2> QED BY <2>1, NoMoreInFlight DEF Bounded
<1>2. CASE UNCHANGED node
  BY <1>2 DEF Bounded, InFlight
<1>3. ASSUME NEW e \in Executions, NEW n \in NodesOf[e], NodeStep(e, n) PROVE Bounded'
  BY <1>3, NodeBounded
<1>4. ASSUME NEW e \in Executions,
             Submit(e) \/ Cancel(e) \/ Delete(e) \/ Drain(e) \/ RequestStep(e)
             \/ TaskStep(e) \/ Finish(e) \/ Release(e) \/ RunRaises(e)
      PROVE  UNCHANGED node
  BY <1>4 DEF Submit, Cancel, Delete, Drain, RequestStep, Refresh, RefreshFails, Respond,
              TaskStep, Claim, ClaimTimesOut, Finish, Release, RunRaises
<1>5. CASE RunNext
  BY <1>1, <1>2, <1>3, <1>4, <1>5 DEF RunNext, RunStep
<1>6. CASE ~RunNext
  BY <1>2, <1>6, OthersStep
<1> QED BY <1>5, <1>6

LEMMA RoomIsLeft == Bounded => FanOutLeavesRoom
<1> SUFFICES ASSUME Bounded, NEW e \in Executions PROVE OwnConnections(e) < PoolSize
  BY DEF FanOutLeavesRoom
<1> DEFINE holding == {n \in NodesOf[e] : HasConnection(e, n)}
<1>1. holding \subseteq InFlight(e)
  BY DEF HasConnection, InFlight
<1>2. Cardinality(holding) <= Cardinality(InFlight(e)) /\ Cardinality(holding) \in Nat
  BY <1>1, InFlightFinite, FS_Subset, FS_CardinalityType
<1>3. Cardinality(holding) <= MaxConcurrency
  BY <1>2, InFlightFinite, PoolAssumption DEF Bounded
<1>4. OwnConnections(e) <= Cardinality(holding) + 1
  BY <1>2 DEF OwnConnections
<1>5. OwnConnections(e) \in Nat
  BY <1>2 DEF OwnConnections
<1> QED BY <1>2, <1>3, <1>4, <1>5, PoolAssumption

\* However wide a level is and whatever its nodes do, one execution alone never
\* holds all connections.
THEOREM FanOutAlwaysLeavesRoom == Spec => []FanOutLeavesRoom
<1>1. Init => Typed /\ Bounded
  BY TypedInit, BoundedInit
<1>2. Typed /\ Bounded /\ [Next]_vars => (Typed /\ Bounded)'
  BY TypedNext, BoundedNext
<1> QED BY <1>1, <1>2, RoomIsLeft, PTL DEF Spec, StreamInit

-----------------------------------------------------------------------------
(* No node is tried more often than its policy allows.                      *)

RowStatus == {"running", "completed", "failed"}

\* What one execution has tried: a run is claimed once, of a row that waits for
\* it; its nodes start together, without rows; and a node waits for another
\* attempt only when its policy has one left.
WithinPolicy(e) ==
    /\ status[e] \in {"absent", "pending"} => run[e] = "none"
    /\ run[e] \in {"none", "claimed"} => \A n \in NodesOf[e] : node[e][n] = "none"
    /\ rows[e] \in Seq([node : NodesOf[e], status : RowStatus])
    /\ \A n \in NodesOf[e] :
         /\ Tried(e, n) \in 0 .. Attempts[n]
         /\ node[e][n] \in {"none", "ready"} => Tried(e, n) = 0
         /\ node[e][n] = "backoff" => Tried(e, n) < Attempts[n]

AllWithinPolicy == DOMAIN rows = Executions /\ \A e \in Executions : WithinPolicy(e)

\* A node's policy allows an attempt at least.
LEMMA AttemptsPositive ==
  ASSUME NEW e \in Executions, NEW n \in NodesOf[e]
  PROVE  Attempts[n] \in Nat /\ Attempts[n] > 0
<1>1. n \in Nodes
  BY DEF Nodes
<1> QED BY <1>1, PoolAssumption

LEMMA NoRowsNoneTried ==
  ASSUME NEW e, rows[e] = << >>, NEW n PROVE Tried(e, n) = 0
<1>1. {k \in DOMAIN rows[e] : rows[e][k].node = n} = {}
  OBVIOUS
<1> QED BY <1>1, FS_EmptySet DEF Tried

LEMMA PolicyInit == Init => AllWithinPolicy
<1> SUFFICES ASSUME Init PROVE AllWithinPolicy
  OBVIOUS
<1>1. DOMAIN rows = Executions
  BY DEF Init
<1>2. ASSUME NEW e \in Executions PROVE WithinPolicy(e)
  <2>1. rows[e] = << >> /\ run[e] = "none" /\ \A n \in NodesOf[e] : node[e][n] = "none"
    BY DEF Init
  <2>2. \A n \in NodesOf[e] : Tried(e, n) = 0
    BY <2>1, NoRowsNoneTried
  <2>3. rows[e] \in Seq([node : NodesOf[e], status : RowStatus])
    BY <2>1
  <2> QED BY <2>1, <2>2, <2>3, AttemptsPositive DEF WithinPolicy
<1> QED BY <1>1, <1>2 DEF AllWithinPolicy

\* What a step leaves alone stays within the policy.
LEMMA PolicyKept ==
  ASSUME NEW e, WithinPolicy(e), status'[e] = status[e], run'[e] = run[e],
         node'[e] = node[e], rows'[e] = rows[e]
  PROVE  WithinPolicy(e)'
<1>1. \A n : Tried(e, n)' = Tried(e, n)
  BY DEF Tried
<1> QED BY <1>1 DEF WithinPolicy

\* A step that moves no node and writes no row.
LEMMA PolicyMoved ==
  ASSUME Typed, NEW e \in Executions, WithinPolicy(e), node'[e] = node[e], rows'[e] = rows[e],
         status'[e] \in {"absent", "pending"} => run'[e] = "none",
         run'[e] \in {"none", "claimed"} => run[e] \in {"none", "claimed"}
  PROVE  WithinPolicy(e)'
<1>1. \A n : Tried(e, n)' = Tried(e, n)
  BY DEF Tried
<1> QED BY <1>1 DEF WithinPolicy

LEMMA PolicyStep ==
  ASSUME Typed, AllWithinPolicy, NEW e \in Executions,
         Submit(e) \/ Cancel(e) \/ Delete(e) \/ Drain(e) \/ RequestStep(e)
         \/ TaskStep(e) \/ RunStep(e)
  PROVE  AllWithinPolicy'
<1>1. WithinPolicy(e)
  BY DEF AllWithinPolicy
<1>2. ASSUME NEW f \in Executions, f # e PROVE WithinPolicy(f)'
  <2>1. /\ status'[f] = status[f] /\ run'[f] = run[f]
        /\ node'[f] = node[f] /\ rows'[f] = rows[f]
    <3>1. CASE Submit(e) \/ Cancel(e) \/ Delete(e) \/ Drain(e)
      BY <1>2, <3>1 DEF Submit, Cancel, Delete, Drain, Typed, AllWithinPolicy
    <3>2. CASE RequestStep(e) \/ TaskStep(e)
      BY <1>2, <3>2 DEF RequestStep, Refresh, RefreshFails, Respond, TaskStep, Claim,
                        ClaimTimesOut, Typed
    <3>3. CASE RunStep(e)
      BY <1>2, <3>3 DEF RunStep, Start, Finish, Release, RunRaises, Typed
    <3> QED BY <3>1, <3>2, <3>3
  <2> QED BY <1>2, <2>1, PolicyKept DEF AllWithinPolicy
<1>3. DOMAIN rows' = Executions
  <2>1. rows' = rows \/ rows' = [rows EXCEPT ![e] = << >>]
    BY DEF Submit, Cancel, Delete, Drain, RequestStep, Refresh, RefreshFails, Respond,
           TaskStep, Claim, ClaimTimesOut, RunStep, Start, Finish, Release, RunRaises
  <2> QED BY <2>1 DEF AllWithinPolicy
<1>4. WithinPolicy(e)'
  <2>1. CASE Submit(e) \/ Cancel(e) \/ Drain(e)
    <3>1. /\ node' = node /\ rows' = rows
          /\ status'[e] \in {"absent", "pending"} => run'[e] = "none"
          /\ run'[e] \in {"none", "claimed"} => run[e] \in {"none", "claimed"}
      BY <1>1, <2>1 DEF Submit, Cancel, Drain, Typed, WithinPolicy
    <3> QED BY <1>1, <3>1, PolicyMoved
  <2>2. CASE Delete(e)
    <3>1. /\ rows'[e] = << >> /\ status'[e] = "deleted" /\ run' = run /\ node' = node
      BY <2>2 DEF Delete, Typed, AllWithinPolicy
    <3>2. \A n \in NodesOf[e] : Tried(e, n)' = 0
      <4>1. ASSUME NEW n \in NodesOf[e]
            PROVE  {k \in DOMAIN rows'[e] : rows'[e][k].node = n} = {}
        BY <3>1
      <4> QED BY <4>1, FS_EmptySet DEF Tried
    <3>3. rows'[e] \in Seq([node : NodesOf[e], status : RowStatus])
      BY <3>1
    <3> QED BY <1>1, <3>1, <3>2, <3>3, AttemptsPositive DEF WithinPolicy
  <2>3. CASE RequestStep(e) \/ TaskStep(e)
    <3>1. /\ node' = node /\ rows' = rows
          /\ status'[e] \in {"absent", "pending"} => run'[e] = "none"
          /\ run'[e] \in {"none", "claimed"} => run[e] \in {"none", "claimed"}
      BY <1>1, <2>3 DEF RequestStep, Refresh, RefreshFails, Respond, TaskStep, Claim,
                        ClaimTimesOut, Typed, WithinPolicy
    <3> QED BY <1>1, <3>1, PolicyMoved
  <2>4. CASE Start(e) /\ Exists(e)
    <3>1. /\ rows' = rows /\ run[e] = "claimed" /\ run'[e] = "running"
          /\ status'[e] = "running" /\ \A n \in NodesOf[e] : node'[e][n] = "ready"
      BY <2>4 DEF Start, Typed
    <3>2. \A n \in NodesOf[e] : Tried(e, n)' = Tried(e, n) /\ Tried(e, n) = 0
      BY <1>1, <3>1 DEF Tried, WithinPolicy
    <3>3. rows'[e] \in Seq([node : NodesOf[e], status : RowStatus])
      BY <1>1, <3>1 DEF WithinPolicy
    <3> QED BY <3>1, <3>2, <3>3, AttemptsPositive DEF WithinPolicy
  <2>5. CASE \/ Start(e) /\ ~Exists(e)
             \/ Finish(e) \/ Release(e) \/ RunRaises(e)
    <3>1. /\ node' = node /\ rows' = rows
          /\ status'[e] \in {"absent", "pending"} => run'[e] = "none"
          /\ run'[e] \in {"none", "claimed"} => run[e] \in {"none", "claimed"}
      BY <1>1, <2>5 DEF Start, Finish, Release, RunRaises, Typed, WithinPolicy
    <3> QED BY <1>1, <3>1, PolicyMoved
  <2> QED BY <2>1, <2>2, <2>3, <2>4, <2>5 DEF RunStep
<1> QED BY <1>2, <1>3, <1>4 DEF AllWithinPolicy

\* A new row is one more of its node's.
LEMMA TriedOnceMore ==
  ASSUME NEW e \in Executions, NEW n \in NodesOf[e], NEW S, rows[e] \in Seq(S), NEW s,
         rows'[e] = Append(rows[e], [node |-> n, status |-> s])
  PROVE  /\ \A m \in NodesOf[e] : m # n => Tried(e, m)' = Tried(e, m)
         /\ Tried(e, n) \in Nat /\ Tried(e, n)' = Tried(e, n) + 1
<1> DEFINE L      == Len(rows[e])
           Of(m)  == {k \in DOMAIN rows[e] : rows[e][k].node = m}
           New(m) == {k \in DOMAIN rows'[e] : rows'[e][k].node = m}
           last   == [node |-> n, status |-> s]
<1>1. L \in Nat /\ DOMAIN rows[e] = 1 .. L
  OBVIOUS
<1>2. DOMAIN rows'[e] = 1 .. L + 1 /\ rows'[e][L + 1] = last
      /\ \A k \in 1 .. L : rows'[e][k] = rows[e][k]
  <2>1. rows[e] \in Seq(S \cup {last}) /\ last \in S \cup {last}
    OBVIOUS
  <2>2. rows'[e] = Append(rows[e], last)
    OBVIOUS
  <2> HIDE DEF last
  <2>3. Len(rows'[e]) = L + 1 /\ rows'[e] \in Seq(S \cup {last})
    BY <2>1, <2>2
  <2>4. rows'[e][L + 1] = last
    BY <2>1, <2>2
  <2>5. \A k \in 1 .. L : rows'[e][k] = rows[e][k]
    BY <2>1, <2>2
  <2> QED BY <1>1, <2>3, <2>4, <2>5
<1>3. \A m : IsFiniteSet(Of(m)) /\ Cardinality(Of(m)) \in Nat
  <2>1. IsFiniteSet(1 .. L)
    BY <1>1, FS_Interval
  <2>2. \A m : Of(m) \subseteq 1 .. L
    BY <1>1
  <2> QED BY <2>1, <2>2, FS_Subset, FS_CardinalityType
<1>4. ASSUME NEW m, m # n PROVE New(m) = Of(m)
  BY <1>1, <1>2, <1>4
<1>5. New(n) = Of(n) \cup {L + 1} /\ L + 1 \notin Of(n)
  BY <1>1, <1>2
<1>6. Cardinality(New(n)) = Cardinality(Of(n)) + 1
  <2> HIDE DEF Of, New, L
  <2> QED BY <1>3, <1>5, FS_AddElement
<1> QED BY <1>3, <1>4, <1>6 DEF Tried

LEMMA ListsOf ==
  ASSUME NEW S, NEW L \in Nat PROVE [1 .. L -> S] \subseteq Seq(S)
  OBVIOUS

\* A row's status is written: whatever row it is, they stay rows of the same nodes.
LEMMA TriedAsBefore ==
  ASSUME NEW e \in Executions, rows[e] \in Seq([node : NodesOf[e], status : RowStatus]),
         NEW k, NEW s \in RowStatus,
         rows'[e] = [rows[e] EXCEPT ![k].status = s]
  PROVE  /\ rows'[e] \in Seq([node : NodesOf[e], status : RowStatus])
         /\ \A n \in NodesOf[e] : Tried(e, n)' = Tried(e, n)
<1> DEFINE R == [node : NodesOf[e], status : RowStatus]
           L == Len(rows[e])
<1>1. rows[e] \in Seq(R)
  BY Zenon
<1>2. L \in Nat /\ DOMAIN rows[e] = 1 .. L /\ DOMAIN rows'[e] = 1 .. L
  OBVIOUS
<1>3. ASSUME NEW i \in 1 .. L
      PROVE  rows'[e][i] \in R /\ rows'[e][i].node = rows[e][i].node
  <2>1. rows[e][i] \in R
    <3> HIDE DEF R
    <3> QED BY <1>1, <1>2
  <2>2. rows'[e][i] = rows[e][i] \/ rows'[e][i] = [rows[e][i] EXCEPT !.status = s]
    BY <1>2
  <2> QED BY <2>1, <2>2
<1>4. rows'[e] \in Seq(R)
  <2>1. rows'[e] = [i \in 1 .. L |-> rows'[e][i]]
    BY <1>2
  <2> HIDE DEF R
  <2> HIDE DEF L
  <2>2. rows'[e] \in [1 .. L -> R]
    BY <1>3, <2>1
  <2>3. [1 .. L -> R] \subseteq Seq(R)
    BY <1>2, ListsOf
  <2> QED BY <2>2, <2>3, Zenon
<1>5. ASSUME NEW n \in NodesOf[e]
      PROVE  {i \in DOMAIN rows'[e] : rows'[e][i].node = n}
               = {i \in DOMAIN rows[e] : rows[e][i].node = n}
  BY <1>2, <1>3
<1> QED BY <1>4, <1>5 DEF Tried

LEMMA PolicyNode ==
  ASSUME Typed, AllWithinPolicy, NEW e \in Executions, NEW n \in NodesOf[e], NodeStep(e, n)
  PROVE  AllWithinPolicy'
<1>1. WithinPolicy(e) /\ DOMAIN rows = Executions
  BY DEF AllWithinPolicy
<1>2. ASSUME NEW f \in Executions, f # e PROVE WithinPolicy(f)'
  <2>1. /\ status'[f] = status[f] /\ run'[f] = run[f]
        /\ node'[f] = node[f] /\ rows'[f] = rows[f]
    BY <1>1, <1>2 DEF NodeStep, BeginAttempt, Resolve, Settle, NodeRaises, MoveNode, Typed
  <2> QED BY <1>2, <2>1, PolicyKept DEF AllWithinPolicy
<1>3. DOMAIN rows' = Executions
  BY <1>1 DEF NodeStep, BeginAttempt, Resolve, Settle, NodeRaises
<1>4. \A m \in NodesOf[e] : m # n => node'[e][m] = node[e][m]
  BY DEF NodeStep, BeginAttempt, Resolve, Settle, NodeRaises, MoveNode, Typed
<1>5. /\ run[e] \notin {"none", "claimed"} /\ run'[e] \notin {"none", "claimed"}
      /\ status' = status
  BY <1>1 DEF NodeStep, BeginAttempt, Resolve, Settle, NodeRaises, Admitted, WithinPolicy,
              Typed
<1>6. status'[e] \notin {"absent", "pending"}
  BY <1>1, <1>5 DEF WithinPolicy
<1>7. Attempts[n] \in Nat /\ Attempts[n] > 0 /\ Tried(e, n) \in 0 .. Attempts[n]
  BY <1>1, AttemptsPositive DEF WithinPolicy
<1>8. WithinPolicy(e)'
  <2>1. CASE BeginAttempt(e, n)
    <3>1. Tried(e, n) < Attempts[n]
      BY <1>1, <1>7, <2>1 DEF BeginAttempt, Admitted, WithinPolicy
    <3>2. rows'[e] = Append(rows[e], [node |-> n, status |-> "running"])
      BY <1>1, <2>1 DEF BeginAttempt
    <3>3. /\ \A m \in NodesOf[e] : m # n => Tried(e, m)' = Tried(e, m)
          /\ Tried(e, n)' = Tried(e, n) + 1
      BY <1>1, <3>2, TriedOnceMore DEF WithinPolicy
    <3>4. rows'[e] \in Seq([node : NodesOf[e], status : RowStatus])
      BY <1>1, <3>2 DEF WithinPolicy, RowStatus
    <3>5. node'[e][n] \in {"resolving", "calling"}
      BY <2>1 DEF BeginAttempt, MoveNode, Typed
    <3>6. Tried(e, n)' \in 0 .. Attempts[n]
      BY <1>7, <3>1, <3>3
    <3> QED BY <1>1, <1>4, <1>5, <1>6, <3>3, <3>4, <3>5, <3>6 DEF WithinPolicy
  <2>2. CASE Resolve(e, n) \/ NodeRaises(e, n)
    <3>1. rows' = rows /\ node'[e][n] \in {"calling", "failing", "raised"}
      BY <2>2 DEF Resolve, NodeRaises, MoveNode, Typed
    <3>2. \A m \in NodesOf[e] : Tried(e, m)' = Tried(e, m)
      BY <3>1 DEF Tried
    <3> QED BY <1>1, <1>4, <1>5, <1>6, <3>1, <3>2 DEF WithinPolicy
  <2>3. CASE Settle(e, n)
    <3>1. \E k : \E s \in RowStatus : rows'[e] = [rows[e] EXCEPT ![k].status = s]
      BY <1>1, <2>3 DEF Settle, RowStatus
    <3>2. /\ rows'[e] \in Seq([node : NodesOf[e], status : RowStatus])
          /\ \A m \in NodesOf[e] : Tried(e, m)' = Tried(e, m)
      BY <1>1, <3>1, TriedAsBefore DEF WithinPolicy
    <3>3. /\ node'[e][n] \in {"completed", "failed", "backoff"}
          /\ node'[e][n] = "backoff" => Tried(e, n) < Attempts[n]
      BY <2>3 DEF Settle, MoveNode, Typed
    <3> QED BY <1>1, <1>4, <1>5, <1>6, <3>2, <3>3 DEF WithinPolicy
  <2> QED BY <2>1, <2>2, <2>3 DEF NodeStep
<1> QED BY <1>2, <1>3, <1>8 DEF AllWithinPolicy

LEMMA PolicyNext == Typed /\ AllWithinPolicy /\ [Next]_vars => AllWithinPolicy'
<1> SUFFICES ASSUME Typed, AllWithinPolicy, [Next]_vars PROVE AllWithinPolicy'
  OBVIOUS
<1>1. CASE RunNext
  BY <1>1, PolicyStep, PolicyNode DEF RunNext
<1>2. CASE ~RunNext
  <2>1. UNCHANGED rows
    BY <1>2 DEF Next, vars, runVars, StreamStep, Open, Poll, ReadStatus, Disconnect, Ask,
                Reply, RunsUnchanged
  <2> QED BY <1>2, <2>1, OthersStep, PolicyKept DEF AllWithinPolicy
<1> QED BY <1>1, <1>2

-----------------------------------------------------------------------------
(* The pool never lends more than it has.                                   *)

Waiting  == {e \in Executions : request[e] = "waiting"}
Watching == {c \in Clients : Streaming(c)}

\* What requests of other kinds hold: a copilot request one, a stream one.
LentIsUsed ==
    /\ stream \in [Clients -> {"none", "polling", "sent", "completed", "gone"}]
    /\ asking \in 0 .. MaxAsking
    /\ IsFiniteSet(Watching)
    /\ lent = asking + Cardinality(Watching)

\* Only finitely many hold a connection at a time, and each took one that was free.
PoolFits ==
    /\ IsFiniteSet(Waiting) /\ IsFiniteSet(Holders)
    /\ Held <= PoolSize

LEMMA HeldIs == Held = Cardinality(Waiting) + Cardinality(Holders) + lent
  BY DEF Held, Waiting

LEMMA Fewer ==
  ASSUME NEW A, NEW B, IsFiniteSet(A), B \subseteq A
  PROVE  /\ IsFiniteSet(B) /\ Cardinality(A) \in Nat /\ Cardinality(B) \in Nat
         /\ Cardinality(B) <= Cardinality(A)
  BY FS_Subset, FS_CardinalityType

LEMMA OneMore ==
  ASSUME NEW A, NEW B, NEW x, IsFiniteSet(A), B \subseteq A \cup {x}
  PROVE  /\ IsFiniteSet(B) /\ Cardinality(A) \in Nat /\ Cardinality(B) \in Nat
         /\ Cardinality(B) <= Cardinality(A) + 1
<1>1. /\ IsFiniteSet(A \cup {x}) /\ Cardinality(A) \in Nat
      /\ Cardinality(A \cup {x}) = Cardinality(A)
         \/ Cardinality(A \cup {x}) = Cardinality(A) + 1
  BY FS_AddElement, FS_CardinalityType
<1>2. /\ IsFiniteSet(B) /\ Cardinality(B) \in Nat
      /\ Cardinality(B) <= Cardinality(A \cup {x})
  BY <1>1, Fewer
<1> QED BY <1>1, <1>2

LEMMA LentInit == StreamInit => LentIsUsed
<1> SUFFICES ASSUME StreamInit PROVE LentIsUsed
  OBVIOUS
<1>1. Watching = {}
  BY DEF StreamInit, Watching, Streaming
<1>2. asking = 0 /\ lent = 0 /\ stream = [c \in Clients |-> "none"]
  BY DEF StreamInit, Init
<1> QED BY <1>1, <1>2, FS_EmptySet, StreamAssumption DEF LentIsUsed

LEMMA LentNat == LentIsUsed => Cardinality(Watching) \in Nat /\ lent \in Nat
<1> SUFFICES ASSUME LentIsUsed PROVE Cardinality(Watching) \in Nat /\ lent \in Nat
  OBVIOUS
<1>1. Cardinality(Watching) \in Nat /\ lent = asking + Cardinality(Watching)
  BY FS_CardinalityType DEF LentIsUsed
<1> QED BY <1>1, StreamAssumption DEF LentIsUsed

\* A stream that opens takes one connection, one that ends gives it back, and so
\* do copilot requests.
LEMMA LentNext == LentIsUsed /\ [Next]_vars => LentIsUsed'
<1> SUFFICES ASSUME LentIsUsed, [Next]_vars PROVE LentIsUsed'
  OBVIOUS
<1> USE DEF LentIsUsed
<1>1. CASE UNCHANGED <<stream, asking, lent>>
  <2>1. Watching' = Watching
    BY <1>1 DEF Watching, Streaming
  <2> QED BY <1>1, <2>1
<1>2. ASSUME NEW c \in Clients, Open(c) PROVE LentIsUsed'
  <2>1. Watching' = Watching \cup {c} /\ c \notin Watching
    BY <1>2 DEF Open, Watching, Streaming
  <2>2. IsFiniteSet(Watching') /\ Cardinality(Watching') = Cardinality(Watching) + 1
    BY <2>1, FS_AddElement
  <2>3. lent' = lent + 1 /\ asking' = asking
    BY <1>2 DEF Open
  <2>4. lent' = asking' + Cardinality(Watching')
    BY <2>2, <2>3, LentNat, StreamAssumption
  <2>5. stream' \in [Clients -> {"none", "polling", "sent", "completed", "gone"}]
    BY <1>2 DEF Open
  <2> QED BY <2>2, <2>3, <2>4, <2>5
<1>3. ASSUME NEW c \in Clients, NEW s \in {"completed", "gone"},
             Streaming(c), stream' = [stream EXCEPT ![c] = s], lent' = lent - 1,
             asking' = asking
      PROVE  LentIsUsed'
  <2>1. Watching' = Watching \ {c} /\ c \in Watching
    BY <1>3 DEF Watching, Streaming
  <2>2. IsFiniteSet(Watching') /\ Cardinality(Watching') = Cardinality(Watching) - 1
    BY <2>1, FS_RemoveElement
  <2>3. lent' = asking' + Cardinality(Watching')
    BY <1>3, <2>2, LentNat, StreamAssumption
  <2>4. stream' \in [Clients -> {"none", "polling", "sent", "completed", "gone"}]
    BY <1>3
  <2> QED BY <1>3, <2>2, <2>3, <2>4
<1>4. ASSUME NEW c \in Clients, NEW s \in {"polling", "sent"},
             Streaming(c), stream' = [stream EXCEPT ![c] = s],
             UNCHANGED <<lent, asking>>
      PROVE  LentIsUsed'
  <2>1. Watching' = Watching
    BY <1>4 DEF Watching, Streaming
  <2>2. stream' \in [Clients -> {"none", "polling", "sent", "completed", "gone"}]
    BY <1>4
  <2> QED BY <1>4, <2>1, <2>2
<1>5. CASE Ask \/ Reply
  <2>1. Watching' = Watching
    BY <1>5 DEF Ask, Reply, Watching, Streaming
  <2>2. stream' = stream /\ asking' \in 0 .. MaxAsking
    BY <1>5, StreamAssumption DEF Ask, Reply
  <2>3. lent' = asking' + Cardinality(Watching')
    BY <1>5, <2>1, LentNat, StreamAssumption DEF Ask, Reply
  <2> QED BY <2>1, <2>2, <2>3
<1>6. ASSUME NEW c \in Clients, StreamStep(c) \/ Disconnect(c) PROVE LentIsUsed'
  <2>1. Streaming(c)
    BY <1>6 DEF StreamStep, Poll, ReadStatus, Disconnect, Streaming
  <2>2. \/ \E s \in {"completed", "gone"} :
             /\ stream' = [stream EXCEPT ![c] = s]
             /\ lent' = lent - 1 /\ asking' = asking
        \/ \E s \in {"polling", "sent"} :
             /\ stream' = [stream EXCEPT ![c] = s]
             /\ UNCHANGED <<lent, asking>>
    BY <1>6 DEF StreamStep, Poll, ReadStatus, Disconnect
  <2> QED BY <1>3, <1>4, <2>1, <2>2
<1>7. RunNext /\ UNCHANGED streamVars => UNCHANGED <<stream, asking, lent>>
  <2>1. ASSUME NEW e \in Executions, NEW n \in NodesOf[e], NodeStep(e, n) PROVE lent' = lent
    BY <2>1 DEF NodeStep, BeginAttempt, Resolve, Settle, NodeRaises
  <2>2. ASSUME NEW e \in Executions,
               Submit(e) \/ Cancel(e) \/ Delete(e) \/ Drain(e) \/ RequestStep(e)
               \/ TaskStep(e) \/ RunStep(e)
        PROVE  lent' = lent
    BY <2>2 DEF Submit, Cancel, Delete, Drain, RequestStep, Refresh, RefreshFails, Respond,
                TaskStep, Claim, ClaimTimesOut, RunStep, Start, Finish, Release, RunRaises
  <2> QED BY <2>1, <2>2 DEF RunNext, streamVars
<1>8. UNCHANGED vars => UNCHANGED <<stream, asking, lent>>
  BY DEF vars, runVars, streamVars
<1> QED BY <1>1, <1>2, <1>5, <1>6, <1>7, <1>8 DEF Next

LEMMA FitsInit == Init => PoolFits
<1> SUFFICES ASSUME Init PROVE PoolFits
  OBVIOUS
<1>1. Waiting = {} /\ Holders = {} /\ lent = 0
  BY DEF Init, Waiting, Holders, HasConnection
<1> QED BY <1>1, HeldIs, FS_EmptySet, PoolAssumption DEF PoolFits

\* A step by which nobody holds a connection who did not before.
LEMMA FitsFewer ==
  ASSUME PoolFits, LentIsUsed, Waiting' \subseteq Waiting, Holders' \subseteq Holders,
         lent' \in Nat, lent' <= lent
  PROVE  PoolFits'
<1>1. /\ IsFiniteSet(Waiting') /\ IsFiniteSet(Holders')
      /\ Cardinality(Waiting) \in Nat /\ Cardinality(Waiting') \in Nat
      /\ Cardinality(Holders) \in Nat /\ Cardinality(Holders') \in Nat
      /\ Cardinality(Waiting') <= Cardinality(Waiting)
      /\ Cardinality(Holders') <= Cardinality(Holders)
  BY Fewer DEF PoolFits
<1>2. Held' = Cardinality(Waiting') + Cardinality(Holders') + lent'
  BY DEF Held, Waiting
<1>3. Held' <= Held
  BY <1>1, <1>2, HeldIs, LentNat
<1> QED BY <1>1, <1>2, <1>3, HeldIs, LentNat, PoolAssumption DEF PoolFits

\* A step by which one more holds a connection, which was free.
LEMMA FitsOneMore ==
  ASSUME PoolFits, LentIsUsed, Free, NEW x,
         \/ /\ Waiting' \subseteq Waiting \cup {x} /\ Holders' \subseteq Holders
            /\ lent' = lent
         \/ /\ Waiting' \subseteq Waiting /\ Holders' \subseteq Holders \cup {x}
            /\ lent' = lent
         \/ /\ Waiting' \subseteq Waiting /\ Holders' \subseteq Holders
            /\ lent' = lent + 1
  PROVE  PoolFits'
<1> DEFINE W == Cardinality(Waiting)
           H == Cardinality(Holders)
<1>1. Cardinality(Waiting) \in Nat /\ Cardinality(Holders) \in Nat
  BY FS_CardinalityType DEF PoolFits
<1>2. Held' = Cardinality(Waiting') + Cardinality(Holders') + lent'
  BY DEF Held, Waiting
<1>3. W + H + lent < PoolSize /\ lent \in Nat
  BY HeldIs, LentNat DEF Free
<1>4. /\ IsFiniteSet(Waiting') /\ IsFiniteSet(Holders')
      /\ Cardinality(Waiting') \in Nat /\ Cardinality(Holders') \in Nat
      /\ Cardinality(Waiting') + Cardinality(Holders') + lent' <= W + H + lent + 1
  <2>1. CASE /\ Waiting' \subseteq Waiting \cup {x} /\ Holders' \subseteq Holders
             /\ lent' = lent
    <3>1. /\ IsFiniteSet(Waiting') /\ Cardinality(Waiting') \in Nat
          /\ Cardinality(Waiting') <= W + 1
      BY <2>1, OneMore DEF PoolFits
    <3>2. /\ IsFiniteSet(Holders') /\ Cardinality(Holders') \in Nat
          /\ Cardinality(Holders') <= H
      BY <2>1, Fewer DEF PoolFits
    <3> QED BY <1>1, <1>3, <2>1, <3>1, <3>2
  <2>2. CASE /\ Waiting' \subseteq Waiting /\ Holders' \subseteq Holders \cup {x}
             /\ lent' = lent
    <3>1. /\ IsFiniteSet(Holders') /\ Cardinality(Holders') \in Nat
          /\ Cardinality(Holders') <= H + 1
      BY <2>2, OneMore DEF PoolFits
    <3>2. /\ IsFiniteSet(Waiting') /\ Cardinality(Waiting') \in Nat
          /\ Cardinality(Waiting') <= W
      BY <2>2, Fewer DEF PoolFits
    <3> QED BY <1>1, <1>3, <2>2, <3>1, <3>2
  <2>3. CASE /\ Waiting' \subseteq Waiting /\ Holders' \subseteq Holders
             /\ lent' = lent + 1
    <3>1. /\ IsFiniteSet(Waiting') /\ Cardinality(Waiting') \in Nat
          /\ Cardinality(Waiting') <= W
      BY <2>3, Fewer DEF PoolFits
    <3>2. /\ IsFiniteSet(Holders') /\ Cardinality(Holders') \in Nat
          /\ Cardinality(Holders') <= H
      BY <2>3, Fewer DEF PoolFits
    <3> QED BY <1>1, <1>3, <2>3, <3>1, <3>2
  <2> QED BY <2>1, <2>2, <2>3
<1> HIDE DEF W, H
<1>5. lent' \in Nat
  BY <1>3
<1>6. W \in Nat /\ H \in Nat
  BY <1>1 DEF W, H
<1>7. Held' <= PoolSize
  BY <1>2, <1>3, <1>4, <1>5, <1>6, PoolAssumption
<1> QED BY <1>4, <1>7 DEF PoolFits

\* The steps of requests, tasks and runs: only a request that starts to wait takes
\* a connection and keeps it.
LEMMA FitsStep ==
  ASSUME Typed, PoolFits, LentIsUsed, NEW e \in Executions,
         Submit(e) \/ Cancel(e) \/ Delete(e) \/ Drain(e) \/ RequestStep(e)
         \/ TaskStep(e) \/ RunStep(e)
  PROVE  PoolFits'
<1>1. CASE Refresh(e)
  <2>1. /\ Free /\ Waiting' \subseteq Waiting \cup {e} /\ Holders' \subseteq Holders
        /\ lent' = lent
    BY <1>1 DEF Refresh, Waiting, Holders, HasConnection, Typed
  <2> QED BY <2>1, FitsOneMore
<1>2. CASE Start(e)
  <2>1. Waiting' = Waiting /\ lent' = lent
    BY <1>2 DEF Start, Waiting
  <2>2. ASSUME NEW f \in Executions, NEW n \in NodesOf[f], HasConnection(f, n)'
        PROVE  HasConnection(f, n)
    BY <1>2, <2>2 DEF Start, HasConnection, Typed
  <2>3. Holders' \subseteq Holders
    BY <2>2 DEF Holders
  <2> QED BY <2>1, <2>3, LentNat, FitsFewer
<1>3. CASE \/ Submit(e) \/ Cancel(e) \/ Delete(e) \/ Drain(e)
           \/ RefreshFails(e) \/ Respond(e) \/ TaskStep(e)
           \/ Finish(e) \/ Release(e) \/ RunRaises(e)
  <2>1. node' = node /\ lent' = lent
    BY <1>3 DEF Submit, Cancel, Delete, Drain, RefreshFails, Respond, TaskStep, Claim,
                ClaimTimesOut, Finish, Release, RunRaises
  <2>2. Waiting' \subseteq Waiting
    BY <1>3 DEF Submit, Cancel, Delete, Drain, RefreshFails, Respond, TaskStep, Claim,
                ClaimTimesOut, Finish, Release, RunRaises, Waiting, Typed
  <2>3. Holders' = Holders
    BY <2>1 DEF Holders, HasConnection
  <2> QED BY <2>1, <2>2, <2>3, LentNat, FitsFewer
<1> QED BY <1>1, <1>2, <1>3 DEF RequestStep, RunStep

\* The steps of a node: it takes a connection when it looks its own up.
LEMMA FitsNode ==
  ASSUME Typed, PoolFits, LentIsUsed, NEW e \in Executions, NEW n \in NodesOf[e],
         NodeStep(e, n)
  PROVE  PoolFits'
<1>1. Waiting' = Waiting /\ lent' = lent
  BY DEF NodeStep, BeginAttempt, Resolve, Settle, NodeRaises, Waiting
<1>2. ASSUME NEW f \in Executions, NEW m \in NodesOf[f], <<f, m>> # <<e, n>>
      PROVE  HasConnection(f, m)' <=> HasConnection(f, m)
  BY <1>2 DEF NodeStep, BeginAttempt, Resolve, Settle, NodeRaises, MoveNode, HasConnection,
              Typed
<1>3. CASE Resolve(e, n) /\ Free
  <2>1. Holders' \subseteq Holders \cup {<<e, n>>}
    BY <1>2 DEF Holders
  <2> QED BY <1>1, <1>3, <2>1, FitsOneMore
<1>4. CASE ~(Resolve(e, n) /\ Free)
  <2>1. ~HasConnection(e, n)'
    BY <1>4 DEF NodeStep, BeginAttempt, Resolve, Settle, NodeRaises, MoveNode,
                HasConnection, Typed
  <2>2. Holders' \subseteq Holders
    BY <1>2, <2>1 DEF Holders
  <2> QED BY <1>1, <2>2, LentNat, FitsFewer
<1> QED BY <1>3, <1>4

LEMMA FitsNext ==
  ASSUME Typed, PoolFits, LentIsUsed, [Next]_vars
  PROVE  PoolFits'
<1>1. CASE RunNext
  BY <1>1, FitsStep, FitsNode DEF RunNext
<1>2. CASE ~RunNext
  <2>1. Waiting' = Waiting /\ Holders' = Holders
    BY <1>2, OthersStep DEF Waiting, Holders, HasConnection
  <2>2. lent' = lent \/ lent' = lent - 1 \/ (Free /\ lent' = lent + 1)
    BY <1>2 DEF Next, vars, runVars, StreamStep, Open, Poll, ReadStatus, Disconnect, Ask,
                Reply
  <2>3. LentIsUsed' /\ lent \in Nat /\ lent' \in Nat
    <3>1. LentIsUsed'
      BY LentNext
    <3>2. Cardinality(Watching') \in Nat /\ lent' = asking' + Cardinality(Watching')
      BY <3>1, FS_CardinalityType DEF LentIsUsed
    <3>3. lent' \in Nat
      BY <3>1, <3>2, StreamAssumption DEF LentIsUsed
    <3> QED BY <3>1, <3>3, LentNat
  <2>4. CASE lent' <= lent
    BY <2>1, <2>3, <2>4, FitsFewer
  <2>5. CASE Free /\ lent' = lent + 1
    BY <2>1, <2>5, FitsOneMore
  <2> QED BY <2>2, <2>3, <2>4, <2>5
<1> QED BY <1>1, <1>2

\* Every part of a run, a request and a stream is always where it can be, a node is
\* tried no more often than its policy says, a connection lent to a stream or to a
\* copilot request is one of theirs, and the pool never lends more than it has.
THEOREM StreamTypeCorrect == Spec => []TypeOK
<1> DEFINE Inv == Typed /\ AllWithinPolicy /\ LentIsUsed /\ PoolFits
<1>1. StreamInit => Inv
  BY TypedInit, PolicyInit, LentInit, FitsInit DEF StreamInit
<1>2. Inv /\ [Next]_vars => Inv'
  BY TypedNext, PolicyNext, LentNext, FitsNext
<1>3. Inv => TypeOK
  <2> SUFFICES ASSUME Inv PROVE TypeOK
    OBVIOUS
  <2>1. ASSUME NEW e \in Executions
        PROVE  /\ \A k \in DOMAIN rows[e] :
                    rows[e][k] \in [node : NodesOf[e],
                                    status : {"running", "completed", "failed"}]
               /\ \A n \in NodesOf[e] : Tried(e, n) <= Attempts[n]
    <3> DEFINE R == [node : NodesOf[e], status : RowStatus]
    <3>1. rows[e] \in Seq(R)
      BY DEF AllWithinPolicy, WithinPolicy
    <3>2. \A k \in DOMAIN rows[e] : rows[e][k] \in R
      <4> HIDE DEF R
      <4> QED BY <3>1
    <3>3. ASSUME NEW n \in NodesOf[e] PROVE Tried(e, n) <= Attempts[n]
      <4>1. Tried(e, n) \in 0 .. Attempts[n] /\ Attempts[n] \in Nat
        BY AttemptsPositive DEF AllWithinPolicy, WithinPolicy
      <4> QED BY <4>1
    <3> QED BY <3>2, <3>3 DEF RowStatus
  <2>2. \A e \in Executions :
          node[e] \in [NodesOf[e] -> {"none", "ready", "resolving", "calling",
                         "failing", "backoff", "completed", "failed", "raised"}]
    BY DEF Typed, NodeStages
  <2>3. /\ stream \in [Clients -> {"none", "polling", "sent", "completed", "gone"}]
        /\ asking \in 0 .. MaxAsking
        /\ lent = asking + Cardinality({c \in Clients : Streaming(c)})
        /\ Held <= PoolSize
    BY DEF LentIsUsed, PoolFits, Watching
  <2> QED BY <2>1, <2>2, <2>3 DEF TypeOK, Typed
<1> HIDE DEF Inv
<1> QED BY <1>1, <1>2, <1>3, PTL DEF Spec

-----------------------------------------------------------------------------
(* What a poll tells.                                                       *)

\* The loop has a state after each of the rows.
LEMMA LoopHasStates ==
  ASSUME NEW c, NEW S, rows[Watched[c]] \in Seq(S)
  PROVE  LET N == Len(rows[Watched[c]]) IN
         \E f : f = [k \in 0 .. N |-> IF k = 0 THEN seen[c] ELSE Update(c, k, f[k - 1])]
<1> DEFINE N == Len(rows[Watched[c]])
           Until(n, f) ==
             f = [k \in 0 .. n |-> IF k = 0 THEN seen[c] ELSE Update(c, k, f[k - 1])]
           T == {n \in Nat : \E f : Until(n, f)}
<1>1. 0 \in T
  <2>1. Until(0, [k \in 0 .. 0 |-> seen[c]])
    OBVIOUS
  <2> QED BY <2>1
<1>2. ASSUME NEW n \in T PROVE n + 1 \in T
  <2>1. PICK f : Until(n, f)
    OBVIOUS
  <2> DEFINE g == [k \in 0 .. n + 1 |-> IF k = n + 1 THEN Update(c, n + 1, f[n]) ELSE f[k]]
  <2>2. ASSUME NEW k \in 0 .. n + 1
        PROVE  g[k] = IF k = 0 THEN seen[c] ELSE Update(c, k, g[k - 1])
    <3>1. CASE k = n + 1
      BY <3>1
    <3>2. CASE k # n + 1
      <4>1. k \in 0 .. n /\ (k # 0 => k - 1 \in 0 .. n + 1 /\ k - 1 # n + 1)
        BY <3>2
      <4>2. f[k] = IF k = 0 THEN seen[c] ELSE Update(c, k, f[k - 1])
        BY <2>1, <4>1
      <4> QED BY <4>1, <4>2
    <3> QED BY <3>1, <3>2
  <2>3. Until(n + 1, g)
    BY <2>2
  <2>4. n + 1 \in Nat /\ \E f_1 : Until(n + 1, f_1)
    <3> HIDE DEF Until, g
    <3> QED BY <2>3
  <2> QED BY <2>4
<1>3. T \in SUBSET Nat
  OBVIOUS
<1>4. T = Nat
  <2> HIDE DEF T
  <2> QED BY <1>1, <1>2, <1>3, Graph!SetInduction
<1> QED BY <1>4

\* What the loop leaves of a node is the status of its last row, as the session has it.
LEMMA LoopTells ==
  ASSUME NEW c, NEW M, NEW V, NEW S, rows[Watched[c]] \in Seq(S), seen[c] \in [M -> V],
         \A k \in DOMAIN rows[Watched[c]] : StatusSeen(c, k) \in V
  PROVE  LET R == rows[Watched[c]] IN
         /\ Sent(c) \in [M -> V]
         /\ \A l \in DOMAIN R :
              R[l].node \in M /\ (\A k \in DOMAIN R : R[k].node = R[l].node => k <= l)
                => Sent(c)[R[l].node] = StatusSeen(c, l)
<1> DEFINE R == rows[Watched[c]]
           N == Len(R)
           F == CHOOSE f :
                  f = [k \in 0 .. N |-> IF k = 0 THEN seen[c] ELSE Update(c, k, f[k - 1])]
<1>1. F = [k \in 0 .. N |-> IF k = 0 THEN seen[c] ELSE Update(c, k, F[k - 1])]
  <2> DEFINE Is(f) ==
               f = [k \in 0 .. N |-> IF k = 0 THEN seen[c] ELSE Update(c, k, f[k - 1])]
  <2>1. \E f : Is(f)
    BY LoopHasStates
  <2>2. F = CHOOSE f : Is(f)
    OBVIOUS
  <2>3. Is(CHOOSE f : Is(f))
    <3> HIDE DEF Is
    <3> QED BY <2>1, Zenon
  <2> HIDE DEF F
  <2> QED BY <2>2, <2>3
<1>2. Sent(c) = F[N]
  BY Zenon DEF Sent
<1>3. N \in Nat /\ DOMAIN R = 1 .. N
  OBVIOUS
<1> HIDE DEF F, N, R
<1>4. F[0] = seen[c]
  BY <1>1, <1>3
<1>5. ASSUME NEW k \in Nat, k < N PROVE F[k + 1] = Update(c, k + 1, F[k])
  <2>1. k + 1 \in 0 .. N /\ k + 1 # 0 /\ (k + 1) - 1 = k
    BY <1>3, <1>5
  <2> QED BY <1>1, <2>1
<1>6. ASSUME NEW k \in Nat, k < N, F[k] \in [M -> V]
      PROVE  /\ F[k + 1] \in [M -> V]
             /\ R[k + 1].node \in M => F[k + 1][R[k + 1].node] = StatusSeen(c, k + 1)
             /\ \A n \in M : n # R[k + 1].node => F[k + 1][n] = F[k][n]
  <2>1. k + 1 \in DOMAIN R /\ StatusSeen(c, k + 1) \in V
    BY <1>3, <1>6 DEF R
  <2>2. F[k + 1] = [F[k] EXCEPT ![R[k + 1].node] = StatusSeen(c, k + 1)]
    BY <1>5, <1>6 DEF Update, R
  <2> QED BY <1>6, <2>1, <2>2
<1>7. \A k \in Nat : k <= N => F[k] \in [M -> V]
  <2> DEFINE T == {k \in Nat : k <= N => F[k] \in [M -> V]}
  <2>1. 0 \in T /\ T \in SUBSET Nat
    BY <1>4
  <2>2. ASSUME NEW k \in T PROVE k + 1 \in T
    BY <1>3, <1>6
  <2>3. T = Nat
    <3> HIDE DEF T
    <3> QED BY <2>1, <2>2, Graph!SetInduction
  <2> QED BY <2>3
<1>8. ASSUME NEW l \in DOMAIN R, R[l].node \in M,
             \A k \in DOMAIN R : R[k].node = R[l].node => k <= l
      PROVE  F[N][R[l].node] = StatusSeen(c, l)
  <2> DEFINE U == {k \in Nat : l <= k /\ k <= N => F[k][R[l].node] = StatusSeen(c, l)}
  <2>1. l \in Nat /\ 1 <= l /\ l <= N
    BY <1>3
  <2>2. 0 \in U /\ U \in SUBSET Nat
    BY <2>1
  <2>3. ASSUME NEW k \in U PROVE k + 1 \in U
    <3> SUFFICES ASSUME l <= k + 1, k + 1 <= N
                 PROVE  F[k + 1][R[l].node] = StatusSeen(c, l)
      OBVIOUS
    <3>1. k \in Nat /\ k < N /\ F[k] \in [M -> V]
      BY <1>3, <1>7
    <3>2. CASE l = k + 1
      BY <1>6, <1>8, <3>1, <3>2
    <3>3. CASE l # k + 1
      <4>1. l <= k /\ F[k][R[l].node] = StatusSeen(c, l)
        <5>1. l <= k /\ k <= N
          BY <1>3, <2>1, <3>1, <3>3
        <5>2. k \in U
          BY <2>3
        <5> QED BY <5>1, <5>2
      <4>2. R[k + 1].node # R[l].node
        <5>1. k + 1 \in DOMAIN R /\ ~(k + 1 <= l)
          BY <1>3, <2>1, <3>1, <4>1
        <5> QED BY <1>8, <5>1
      <4> QED BY <1>6, <1>8, <3>1, <4>1, <4>2
    <3> QED BY <3>2, <3>3
  <2>4. U = Nat
    <3> HIDE DEF U
    <3> QED BY <2>2, <2>3, Graph!SetInduction
  <2> QED BY <1>3, <2>1, <2>4
<1> QED BY <1>2, <1>3, <1>7, <1>8 DEF R

\* A node that was tried has a latest row.
LEMMA LatestIsLast ==
  ASSUME NEW e, NEW n, NEW S, rows[e] \in Seq(S), Tried(e, n) # 0
  PROVE  /\ Latest(e, n) \in DOMAIN rows[e] /\ rows[e][Latest(e, n)].node = n
         /\ \A k \in DOMAIN rows[e] : rows[e][k].node = n => k <= Latest(e, n)
<1> DEFINE N    == Len(rows[e])
           Of   == {k \in DOMAIN rows[e] : rows[e][k].node = n}
           Left == {N - k : k \in Of}
<1>1. N \in Nat /\ DOMAIN rows[e] = 1 .. N
  OBVIOUS
<1>2. Of # {}
  BY FS_EmptySet DEF Tried
<1>3. Left \in SUBSET Nat /\ Left # {}
  <2>1. \A k \in Of : N - k \in Nat
    BY <1>1
  <2>2. PICK l \in Of : TRUE
    BY <1>2
  <2>3. N - l \in Left
    BY <2>2
  <2> QED BY <2>1, <2>3
<1>4. PICK m \in Left : \A k \in Left : m <= k
  <2> HIDE DEF Left
  <2> QED BY <1>3, Graph!LeastNatural
<1>5. PICK l \in Of : m = N - l
  BY <1>4
<1>6. ASSUME NEW k \in Of PROVE k <= l
  <2>1. N - l <= N - k
    BY <1>4, <1>5
  <2> QED BY <1>1, <2>1
<1>7. \E k \in DOMAIN rows[e] :
        rows[e][k].node = n /\ \A j \in DOMAIN rows[e] : rows[e][j].node = n => j <= k
  BY <1>5, <1>6
<1> QED BY <1>7, Zenon DEF Latest

-----------------------------------------------------------------------------
(* What a session holds on to is one row at most, of a status a row can have. *)
Session(c) ==
    /\ seen[c] \in [NodesOf[Watched[c]] -> {"none"} \cup RowStatus]
    /\ \A k \in DOMAIN kept[c] :
         kept[c][k] \in RowStatus /\ \A l \in DOMAIN kept[c] : k = l

Sessions ==
    /\ DOMAIN stream = Clients /\ DOMAIN seen = Clients /\ DOMAIN kept = Clients
    /\ \A c \in Clients : Session(c)

LEMMA SessionsInit == StreamInit => Sessions
  BY DEF StreamInit, Sessions, Session

\* A poll leaves of every tried node what its latest row says to the session.
LEMMA PollTells ==
  ASSUME AllWithinPolicy, Sessions, NEW c \in Clients
  PROVE  /\ \A k \in DOMAIN rows[Watched[c]] : StatusSeen(c, k) \in RowStatus
         /\ Sent(c) \in [NodesOf[Watched[c]] -> {"none"} \cup RowStatus]
         /\ \A n \in NodesOf[Watched[c]] :
              Tried(Watched[c], n) > 0 =>
                Sent(c)[n] = StatusSeen(c, Latest(Watched[c], n))
<1> DEFINE e == Watched[c]
           Row == [node : NodesOf[e], status : RowStatus]
<1>1. e \in Executions /\ rows[e] \in Seq(Row) /\ Session(c)
  BY StreamAssumption DEF AllWithinPolicy, WithinPolicy, Sessions
<1>2. \A k \in DOMAIN rows[e] : rows[e][k] \in Row
  <2> HIDE DEF Row
  <2> QED BY <1>1
<1>3. \A k \in DOMAIN rows[e] : StatusSeen(c, k) \in RowStatus
  BY <1>1, <1>2 DEF StatusSeen, Session
<1> HIDE DEF Row
<1>4. /\ Sent(c) \in [NodesOf[e] -> {"none"} \cup RowStatus]
      /\ \A l \in DOMAIN rows[e] :
           /\ rows[e][l].node \in NodesOf[e]
           /\ \A k \in DOMAIN rows[e] : rows[e][k].node = rows[e][l].node => k <= l
           => Sent(c)[rows[e][l].node] = StatusSeen(c, l)
  <2>1. seen[c] \in [NodesOf[e] -> {"none"} \cup RowStatus]
    BY <1>1 DEF Session
  <2>2. \A k \in DOMAIN rows[e] : StatusSeen(c, k) \in {"none"} \cup RowStatus
    BY <1>3
  <2> QED BY <1>1, <2>1, <2>2, LoopTells
<1>5. ASSUME NEW n \in NodesOf[e], Tried(e, n) > 0
      PROVE  Sent(c)[n] = StatusSeen(c, Latest(e, n))
  <2> DEFINE l == Latest(e, n)
  <2>1. Tried(e, n) # 0
    BY <1>5
  <2>2. /\ l \in DOMAIN rows[e] /\ rows[e][l].node = n
        /\ \A k \in DOMAIN rows[e] : rows[e][k].node = n => k <= l
    BY <1>1, <2>1, LatestIsLast
  <2> HIDE DEF l
  <2>3. Sent(c)[n] = StatusSeen(c, l)
    BY <1>4, <1>5, <2>2
  <2> QED BY <2>3 DEF l
<1> QED BY <1>3, <1>4, <1>5

LEMMA SessionsNext == AllWithinPolicy /\ Sessions /\ [Next]_vars => Sessions'
<1> SUFFICES ASSUME AllWithinPolicy, Sessions, [Next]_vars PROVE Sessions'
  OBVIOUS
<1>1. ASSUME NEW c \in Clients, Poll(c) PROVE Sessions'
  <2>1. /\ seen' = [seen EXCEPT ![c] = Sent(c)]
        /\ kept' = [kept EXCEPT ![c] = Keep(c)]
        /\ stream' = [stream EXCEPT ![c] = "sent"]
    BY <1>1 DEF Poll
  <2>2. Sent(c) \in [NodesOf[Watched[c]] -> {"none"} \cup RowStatus]
    BY PollTells
  <2>3. \A k \in DOMAIN Keep(c) :
          Keep(c)[k] \in RowStatus /\ \A l \in DOMAIN Keep(c) : k = l
    <3>1. CASE rows[Watched[c]] = << >>
      BY <3>1 DEF Keep, Sessions, Session
    <3>2. CASE rows[Watched[c]] # << >>
      <4> DEFINE N == Len(rows[Watched[c]])
      <4>1. N \in DOMAIN rows[Watched[c]]
        <5>1. Watched[c] \in Executions
          BY StreamAssumption
        <5>2. PICK S : rows[Watched[c]] \in Seq(S)
          BY <5>1 DEF AllWithinPolicy, WithinPolicy
        <5> QED BY <3>2, <5>2
      <4>2. Keep(c) = [k \in {N} |-> StatusSeen(c, k)]
        BY <3>2 DEF Keep
      <4>3. StatusSeen(c, N) \in RowStatus
        BY <4>1, PollTells
      <4> QED BY <4>2, <4>3
    <3> QED BY <3>1, <3>2
  <2> QED BY <2>1, <2>2, <2>3 DEF Sessions, Session
<1>2. CASE UNCHANGED <<seen, kept>> /\ DOMAIN stream' = Clients
  BY <1>2 DEF Sessions, Session
<1>3. CASE ~\E c \in Clients : Poll(c)
  <2>1. UNCHANGED <<seen, kept>>
    BY <1>3 DEF Next, vars, streamVars, StreamStep, Open, ReadStatus, Disconnect, Ask, Reply
  <2>2. DOMAIN stream' = Clients
    BY <1>3 DEF Next, vars, streamVars, StreamStep, Open, ReadStatus, Disconnect, Ask, Reply,
                Sessions
  <2> QED BY <1>2, <2>1, <2>2
<1> QED BY <1>1, <1>3

\* A poll of a stream leaves the client with the present status of the latest attempt
\* of every node, for any retries, schedules and polls before, except that of the row
\* the session held on to since the poll before.
THEOREM PollsAlwaysCatchUp == Spec => PollsCatchUp
<1> DEFINE Inv == Typed /\ AllWithinPolicy /\ Sessions
<1>1. StreamInit => Inv
  BY TypedInit, PolicyInit, SessionsInit DEF StreamInit
<1>2. Inv /\ [Next]_vars => Inv'
  BY TypedNext, PolicyNext, SessionsNext
<1>3. Inv /\ [Next]_vars => [\A c \in Clients : CatchesUp(c)]_vars
  <2> SUFFICES ASSUME Inv, [Next]_vars, NEW c \in Clients,
                      stream[c] = "polling", stream'[c] = "sent",
                      NEW n \in NodesOf[Watched[c]], Tried(Watched[c], n) > 0
               PROVE  \/ seen'[c][n] = rows[Watched[c]][Latest(Watched[c], n)].status
                      \/ LastBefore(c, Latest(Watched[c], n))
    BY DEF CatchesUp
  <2>1. Poll(c)
    BY DEF Next, vars, streamVars, StreamStep, Open, Poll, ReadStatus, Disconnect, Ask,
           Reply, Sessions
  <2>2. seen'[c] = Sent(c)
    BY <2>1 DEF Poll, Sessions
  <2>3. Sent(c)[n] = StatusSeen(c, Latest(Watched[c], n))
    BY PollTells
  <2>4. CASE Latest(Watched[c], n) \notin DOMAIN kept[c]
    BY <2>2, <2>3, <2>4 DEF StatusSeen
  <2>5. CASE Latest(Watched[c], n) \in DOMAIN kept[c]
    <3>1. \A l \in DOMAIN kept[c] : l = Latest(Watched[c], n)
      BY <2>5 DEF Sessions, Session
    <3>2. Latest(Watched[c], n) \in Nat
      <4>1. Watched[c] \in Executions
        BY StreamAssumption
      <4>2. PICK S : rows[Watched[c]] \in Seq(S)
        BY <4>1 DEF AllWithinPolicy, WithinPolicy
      <4>3. Latest(Watched[c], n) \in DOMAIN rows[Watched[c]]
        BY <4>2, LatestIsLast
      <4> QED BY <4>2, <4>3
    <3> QED BY <2>5, <3>1, <3>2 DEF LastBefore
  <2> QED BY <2>4, <2>5
<1> HIDE DEF Inv
<1> QED BY <1>1, <1>2, <1>3, PTL DEF Spec, PollsCatchUp
=============================================================================
