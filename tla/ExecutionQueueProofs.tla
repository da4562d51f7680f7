------------------------- MODULE ExecutionQueueProofs -------------------------
(* Type correctness of the execution queue and its at-most-once guarantee,    *)
(* for any executions, processes, fault kinds and fault budget.               *)
EXTENDS ExecutionQueue, TLAPS

LEMMA InitTypeOK == Init => TypeOK
  BY QueueAssumption
  DEF Init, TypeOK, Row, Blank, Status, Live, Terminal, Lease, Tasks, Stages

\* The UPDATEs keep a row a row and write the columns they name.
LEMMA UpdatedRow ==
  ASSUME NEW r \in Row, NEW outcome \in {"completed", "failed"}
  PROVE  /\ Claimed(r) \in Row /\ Failed(r) \in Row
         /\ Cancelled(r) \in Row /\ Outcome(r, outcome) \in Row
         /\ [r EXCEPT !.status = "running"] \in Row
<1>1. Claimed(r) \in Row
  <2>1. r.attempts + 1 \in Nat
    BY DEF Row
  <2> QED BY <2>1, Zenon DEF Claimed, Row, Status, Live, Lease
<1>2. Failed(r) \in Row
  BY DEF Row, Failed, Status, Terminal, Lease
<1>3. Cancelled(r) \in Row
  BY DEF Row, Cancelled, Status, Terminal
<1>4. Outcome(r, outcome) \in Row
  BY DEF Row, Outcome, Status, Terminal
<1>5. [r EXCEPT !.status = "running"] \in Row
  BY DEF Row, Status, Live
<1> QED BY <1>1, <1>2, <1>3, <1>4, <1>5

\* Past its claim or its select a task's job is an execution.
LEMMA JobType ==
  ASSUME TypeOK, NEW t \in Tasks, pc[t] \notin {"off", "idle"}
  PROVE  JobOf(t) \in Executions
  BY DEF TypeOK, JobOf, Tasks

\* The part of the type invariant about tasks.
TasksOK ==
  /\ pc \in [Tasks -> Stages]
  /\ \A e \in Executions : pc[e] \notin {"idle", "selected"}
  /\ \A p \in Processes : pc[p] # "claim"
  /\ job \in [Processes -> Executions \cup {None}]
  /\ \A p \in Processes : pc[p] \notin {"off", "idle"} => job[p] # None
  /\ view \in [Tasks -> Status \cup {None}]

\* A task that returns leaves every task where its kind can be.
LEMMA ReturnType == ASSUME TypeOK, NEW t \in Tasks, Return(t) PROVE TasksOK'
  BY QueueAssumption DEF TypeOK, TasksOK, Return, Stages, Tasks

\* A task that moves within its run keeps its job.
LEMMA AdvanceType ==
  ASSUME TypeOK, NEW t \in Tasks, pc[t] \notin {"off", "idle"},
         NEW stage \in {"claimed", "loaded", "running", "release"},
         pc' = [pc EXCEPT ![t] = stage], UNCHANGED job,
         view' \in [Tasks -> Status \cup {None}]
  PROVE  TasksOK'
  BY DEF TypeOK, TasksOK, Stages, Tasks

\* A fault is counted.
LEMMA FaultType == ASSUME TypeOK, NEW k, Fault(k) PROVE faults' \in Nat
  BY DEF TypeOK, Fault

\* A process that dies leaves every task where its kind can be.
LEMMA DieType ==
  ASSUME TypeOK, NEW p \in Processes, Die(p)
  PROVE  /\ up' \in [Processes -> {"down", "serving", "stopping"}]
         /\ home' \in [Executions -> Processes \cup {None}]
         /\ TasksOK'
         /\ cancel' \in [Processes -> Executions \cup {None}]
         /\ starts' \in [Executions -> Nat]
  BY DEF TypeOK, TasksOK, Die, HomeOf, Stages, Tasks

\* Every step of the queue preserves the types of its columns and counters.
LEMMA NextTypeOK == TypeOK /\ [Next]_vars => TypeOK'
<1> SUFFICES ASSUME TypeOK, [Next]_vars PROVE TypeOK'
  OBVIOUS
<1>1. ASSUME NEW e \in Executions, NEW p \in Processes, Submit(e, p)
      PROVE  TypeOK'
  <2>1. row' \in [Executions -> Row]
    BY <1>1 DEF TypeOK, Submit, Row, Blank, Status, Live, Lease
  <2>2. TasksOK'
    BY <1>1, QueueAssumption DEF TypeOK, TasksOK, Submit, Tasks, Stages
  <2> QED BY <1>1, <2>1, <2>2 DEF TypeOK, TasksOK, Submit
<1>2. ASSUME NEW e \in Executions, NEW p \in Processes, CancelRead(p, e)
      PROVE  TypeOK'
  BY <1>2 DEF TypeOK, CancelRead
<1>3. ASSUME NEW p \in Processes, CancelWrite(p) PROVE TypeOK'
  <2>1. cancel[p] \in Executions
    BY <1>3 DEF TypeOK, CancelWrite
  <2>2. row' \in [Executions -> Row]
    BY <1>3, <2>1, UpdatedRow DEF TypeOK, CancelWrite
  <2> QED BY <1>3, <2>2 DEF TypeOK, CancelWrite
<1>4. ASSUME NEW p \in Processes, DrainSelect(p) PROVE TypeOK'
  BY <1>4, QueueAssumption DEF TypeOK, DrainSelect, Tasks, Stages
<1>5. ASSUME NEW e \in Executions, Delete(e) PROVE TypeOK'
  BY <1>5 DEF TypeOK, Delete, Row, Blank, Status, Lease
<1>6. ASSUME NEW e \in Executions, LeaseExpires(e) PROVE TypeOK'
  BY <1>6 DEF TypeOK, LeaseExpires, Row, Lease
<1>7. ASSUME NEW t \in Tasks, TaskStep(t) PROVE TypeOK'
  <2>1. CASE Claim(t)
    <3>1. CASE ClaimWon(t)
      <4>1. row' \in [Executions -> Row]
        BY <2>1, <3>1, JobType, UpdatedRow DEF TypeOK, Claim, ClaimWon
      <4>2. TasksOK'
        BY <2>1, <3>1, AdvanceType DEF TypeOK, Claim, ClaimWon
      <4> QED BY <2>1, <4>1, <4>2 DEF TypeOK, TasksOK, Claim
    <3>2. CASE ClaimLost(t)
      BY <2>1, <3>2, ReturnType DEF TypeOK, TasksOK, Claim, ClaimLost
    <3> QED BY <2>1, <3>1, <3>2 DEF Claim
  <2>2. CASE Load(t)
    <3>1. CASE Exists(JobOf(t))
      <4>1. view' \in [Tasks -> Status \cup {None}]
        BY <2>2, <3>1, JobType DEF TypeOK, Load, Row
      <4>2. TasksOK'
        BY <2>2, <3>1, <4>1, AdvanceType DEF Load
      <4> QED BY <2>2, <4>2 DEF TypeOK, TasksOK, Load
    <3>2. CASE ~Exists(JobOf(t))
      BY <2>2, <3>2, ReturnType DEF TypeOK, TasksOK, Load
    <3> QED BY <3>1, <3>2
  <2>3. CASE Refuse(t)
    <3>1. row' \in [Executions -> Row]
      BY <2>3, JobType, UpdatedRow DEF TypeOK, Refuse
    <3> QED BY <2>3, <3>1, ReturnType DEF TypeOK, TasksOK, Refuse
  <2>4. CASE Start(t)
    <3>1. TasksOK'
      BY <2>4, AdvanceType DEF TypeOK, Start, Status, Live
    <3>2. row' \in [Executions -> Row]
      <4>1. JobOf(t) \in Executions
        BY <2>4, JobType DEF Start
      <4>2. [row EXCEPT ![JobOf(t)].status = "running"] \in [Executions -> Row]
        BY <4>1, UpdatedRow DEF TypeOK
      <4> QED BY <2>4, <4>2 DEF TypeOK, Start
    <3>3. starts' \in [Executions -> Nat]
      BY <2>4, JobType DEF TypeOK, Start
    <3> QED BY <2>4, <3>1, <3>2, <3>3 DEF TypeOK, TasksOK, Start
  <2>5. CASE Finish(t)
    <3>1. TasksOK'
      BY <2>5, AdvanceType DEF TypeOK, Finish
    <3>2. row' \in [Executions -> Row]
      <4>1. JobOf(t) \in Executions
        BY <2>5, JobType DEF Finish
      <4>2. PICK outcome \in {"completed", "failed"} :
              row' = [row EXCEPT ![JobOf(t)] = Outcome(@, outcome)]
        BY <2>5 DEF Finish
      <4>3. Outcome(row[JobOf(t)], outcome) \in Row
        BY <4>1, UpdatedRow DEF TypeOK
      <4> QED BY <4>1, <4>2, <4>3 DEF TypeOK
    <3> QED BY <2>5, <3>1, <3>2 DEF TypeOK, TasksOK, Finish
  <2>6. CASE Stale(t)
    BY <2>6, AdvanceType DEF TypeOK, TasksOK, Stale
  <2>7. CASE Release(t)
    BY <2>7, ReturnType, JobType DEF TypeOK, TasksOK, Release, Row, Lease
  <2> QED BY <1>7, <2>1, <2>2, <2>3, <2>4, <2>5, <2>6, <2>7 DEF TaskStep
<1>8. ASSUME NEW t \in Tasks, ClaimRaise(t) \/ Abort(t) PROVE TypeOK'
  BY <1>8, ReturnType, FaultType DEF TypeOK, TasksOK, ClaimRaise, Abort
<1>9. ASSUME NEW t \in Tasks, Raise(t) PROVE TypeOK'
  BY <1>9, FaultType, AdvanceType DEF TypeOK, TasksOK, Raise
<1>10. ASSUME NEW p \in Processes, Boot(p) PROVE TypeOK'
  <2>1. Recovered \in [Executions -> Row]
    BY UpdatedRow DEF TypeOK, Recovered
  <2>2. TasksOK'
    BY <1>10, QueueAssumption DEF TypeOK, TasksOK, Boot, Tasks, Stages
  <2> QED BY <1>10, <2>1, <2>2 DEF TypeOK, TasksOK, Boot
<1>11. ASSUME NEW p \in Processes, Stop(p) PROVE TypeOK'
  BY <1>11, FaultType DEF TypeOK, Stop
<1>12. ASSUME NEW p \in Processes, Exit(p) PROVE TypeOK'
  <2>1. row' \in [Executions -> Row]
    BY <1>12 DEF TypeOK, Exit, Row, Lease
  <2> QED BY <1>12, <2>1, DieType DEF TypeOK, TasksOK, Exit
<1>13. ASSUME NEW p \in Processes, Crash(p) PROVE TypeOK'
  BY <1>13, DieType, FaultType DEF TypeOK, TasksOK, Crash
<1>14. CASE UNCHANGED vars
  BY <1>14 DEF vars, TypeOK
<1> QED
  BY <1>1, <1>2, <1>3, <1>4, <1>5, <1>6, <1>7, <1>8, <1>9, <1>10, <1>11,
     <1>12, <1>13, <1>14 DEF Next

\* Every reachable state is well typed.
THEOREM TypeCorrect == Spec => []TypeOK
<1>1. Init => TypeOK
  BY InitTypeOK
<1>2. TypeOK /\ [Next]_vars => TypeOK'
  BY NextTypeOK
<1> QED
  BY <1>1, <1>2, PTL DEF Spec

-----------------------------------------------------------------------------
(* At most once.  ClaimInv is inductive together with TypeOK; its proof has  *)
(* one lemma per kind of step.                                              *)

LEMMA InitClaimInv == Init => ClaimInv
  BY QueueAssumption
  DEF Init, ClaimInv, FreshUntilClaimed, Fresh, SelectedIsPending,
      LockIsExclusive, NotYetStarted, HeldWasClaimed, AtMostOnce, Holding,
      Blank, Tasks

\* What each conjunct of ClaimInv reads of a row that a step has rewritten:
\* a row that is not fresh stays so, and keeps its claim until it is deleted.
Onward(r, s) ==
  /\ s.status \notin {"absent", "pending"}
  /\ s.status = "deleted" \/ (r.status # "deleted" /\ s.attempts = r.attempts)

\* Tasks that end, or go on within their runs, keep the invariant if the rows
\* only move onward, and none of them that a worker has selected.
LEMMA TaskMove ==
  ASSUME TypeOK, ClaimInv, TypeOK', UNCHANGED starts,
         \A e \in Executions :
            \/ row'[e] = row[e]
            \/ Onward(row[e], row'[e]) /\ ~RowLocked(e),
         \A t \in Tasks :
            \/ pc'[t] = pc[t] /\ JobOf(t)' = JobOf(t)
            \/ pc'[t] \in {"off", "idle"}
            \/ /\ Holding(t) /\ JobOf(t)' = JobOf(t)
               /\ \/ pc'[t] \in {"running", "release"}
                  \/ pc[t] \in {"claimed", "loaded"} /\ pc'[t] = "loaded"
  PROVE  ClaimInv'
<1>1. \A t \in Tasks : Holding(t)' => Holding(t) /\ JobOf(t)' = JobOf(t)
  BY DEF Holding
<1>2. FreshUntilClaimed'
  BY <1>1 DEF ClaimInv, FreshUntilClaimed, Fresh, Onward
<1>3. \A p \in Processes :
        pc'[p] = "selected" => pc[p] = "selected" /\ job'[p] = job[p]
  BY DEF JobOf, Tasks, TypeOK
<1>4. SelectedIsPending'
  BY <1>3 DEF ClaimInv, SelectedIsPending, RowLocked, TypeOK
<1>5. LockIsExclusive'
  BY <1>3 DEF ClaimInv, LockIsExclusive
<1>6. HeldWasClaimed'
  BY <1>1, JobType DEF ClaimInv, HeldWasClaimed, Onward, Holding
<1>7. NotYetStarted'
  BY DEF ClaimInv, NotYetStarted, Holding
<1>8. AtMostOnce'
  BY <1>1 DEF ClaimInv, AtMostOnce
<1> QED
  BY <1>2, <1>4, <1>5, <1>6, <1>7, <1>8 DEF ClaimInv

\* A held row is past its claim, and no worker has it selected.
LEMMA HeldRow ==
  ASSUME TypeOK, ClaimInv, NEW t \in Tasks, Holding(t)
  PROVE  /\ JobOf(t) \in Executions
         /\ row[JobOf(t)].status \notin {"absent", "pending"}
         /\ ~RowLocked(JobOf(t))
<1>1. JobOf(t) \in Executions
  BY JobType DEF Holding
<1>2. row[JobOf(t)].status \notin {"absent", "pending"}
  BY <1>1 DEF ClaimInv, FreshUntilClaimed, Fresh
<1> QED
  BY <1>1, <1>2 DEF RowLocked, ClaimInv, SelectedIsPending

\* The columns that matter here after each kind of UPDATE.
LEMMA UpdatedColumns ==
  ASSUME NEW r \in Row, NEW outcome
  PROVE  /\ Claimed(r).status = "running" /\ Claimed(r).attempts = r.attempts + 1
         /\ Failed(r).status = "failed" /\ Failed(r).attempts = r.attempts
         /\ Cancelled(r).status = "cancelled"
         /\ Cancelled(r).attempts = r.attempts
         /\ Outcome(r, outcome).status = outcome
         /\ Outcome(r, outcome).attempts = r.attempts
  BY DEF Row, Claimed, Failed, Cancelled, Outcome

\* An UPDATE of one unlocked row that exists, to a status past "pending" and
\* with the attempts as they were, takes every row onward.
LEMMA OneRowOnward ==
  ASSUME TypeOK, NEW e \in Executions, ~RowLocked(e), NEW r,
         r.status \notin {"absent", "pending"}, r.attempts = row[e].attempts,
         row' = IF Exists(e) THEN [row EXCEPT ![e] = r] ELSE row
  PROVE  \A f \in Executions : \/ row'[f] = row[f]
                               \/ Onward(row[f], row'[f]) /\ ~RowLocked(f)
<1>1. CASE ~Exists(e)
  BY <1>1
<1>2. CASE Exists(e)
  <2>1. row' = [row EXCEPT ![e] = r] /\ row \in [Executions -> Row]
    BY <1>2 DEF TypeOK
  <2>2. row'[e] = r /\ \A f \in Executions : f # e => row'[f] = row[f]
    BY <2>1
  <2>3. Onward(row[e], r)
    BY <1>2 DEF Exists, Onward
  <2> QED BY <2>2, <2>3
<1> QED BY <1>1, <1>2

\* A task that returns is off or idle, and every other is where it was.
LEMMA ReturnMove ==
  ASSUME TypeOK, NEW t \in Tasks, Return(t)
  PROVE  \A u \in Tasks : \/ pc'[u] = pc[u] /\ JobOf(u)' = JobOf(u)
                          \/ pc'[u] \in {"off", "idle"}
  BY DEF TypeOK, Return, JobOf, Tasks

\* The tasks of a process that dies are off, the others where they were.
LEMMA DieMove ==
  ASSUME TypeOK, NEW p \in Processes, Die(p)
  PROVE  \A u \in Tasks : \/ pc'[u] = pc[u] /\ JobOf(u)' = JobOf(u)
                          \/ pc'[u] \in {"off", "idle"}
  BY DEF TypeOK, Die, HomeOf, JobOf, Tasks

\* Submission: a fresh row, and a task that has claimed nothing yet.
LEMMA SubmitClaimInv ==
  ASSUME TypeOK, ClaimInv, NEW e \in Executions, NEW p \in Processes,
         Submit(e, p)
  PROVE  ClaimInv'
<1>1. \A t \in Tasks : (Holding(t)' => Holding(t)) /\ JobOf(t)' = JobOf(t)
  BY DEF Holding, JobOf, Submit, TypeOK
<1>2. Fresh(e)
  BY DEF ClaimInv, FreshUntilClaimed, Submit
<1>3. /\ row'[e].status = "pending" /\ row'[e].lease = "none"
      /\ row'[e].attempts = 0
      /\ \A f \in Executions : f # e => row'[f] = row[f]
  BY DEF Submit, Blank, TypeOK
<1>4. FreshUntilClaimed'
  BY <1>1, <1>2, <1>3 DEF ClaimInv, FreshUntilClaimed, Fresh, Submit
<1>5. \A q \in Processes : pc'[q] = pc[q] /\ job'[q] = job[q]
  BY QueueAssumption DEF Submit, TypeOK, Tasks
<1>6. SelectedIsPending' /\ LockIsExclusive'
  BY <1>3, <1>5 DEF ClaimInv, SelectedIsPending, LockIsExclusive, TypeOK
<1>7. \A t \in Tasks : Holding(t) => JobOf(t) # e
  BY <1>2 DEF Fresh
<1>8. HeldWasClaimed'
  BY <1>1, <1>3, <1>7, JobType DEF ClaimInv, HeldWasClaimed, Holding
<1>9. NotYetStarted' /\ AtMostOnce'
  BY <1>1 DEF ClaimInv, NotYetStarted, AtMostOnce, Submit, Holding, TypeOK
<1> QED
  BY <1>4, <1>6, <1>8, <1>9 DEF ClaimInv

\* The worker's select takes a pending row that no worker has locked.
LEMMA DrainSelectClaimInv ==
  ASSUME TypeOK, ClaimInv, NEW p \in Processes, DrainSelect(p)
  PROVE  ClaimInv'
<1>1. PICK e \in Executions : /\ Claimable(e) /\ ~RowLocked(e)
                              /\ job' = [job EXCEPT ![p] = e]
  BY DEF DrainSelect
<1>2. \A t \in Tasks : /\ Holding(t)' <=> Holding(t)
                       /\ Holding(t) => JobOf(t)' = JobOf(t) /\ pc'[t] = pc[t]
  BY <1>1 DEF Holding, JobOf, DrainSelect, TypeOK, Tasks
<1>3. FreshUntilClaimed' /\ HeldWasClaimed' /\ NotYetStarted' /\ AtMostOnce'
  BY <1>2 DEF ClaimInv, FreshUntilClaimed, Fresh, HeldWasClaimed,
              NotYetStarted, AtMostOnce, DrainSelect, Holding
<1>4. \A q \in Processes : /\ q # p => pc'[q] = pc[q] /\ job'[q] = job[q]
                           /\ q = p => job'[q] = e
  BY <1>1 DEF DrainSelect, TypeOK, Tasks
<1>5. SelectedIsPending'
  BY <1>1, <1>4 DEF ClaimInv, SelectedIsPending, DrainSelect, Claimable
<1>6. LockIsExclusive'
  BY <1>1, <1>4 DEF ClaimInv, LockIsExclusive, RowLocked
<1> QED
  BY <1>3, <1>5, <1>6 DEF ClaimInv

\* A won claim takes a fresh row, which thereby stops being fresh.
LEMMA ClaimWonClaimInv ==
  ASSUME TypeOK, ClaimInv, NEW t \in Tasks, Claim(t), ClaimWon(t)
  PROVE  ClaimInv'
<1> DEFINE e == JobOf(t)
<1>1. e \in Executions
  BY JobType DEF Claim
<1>2. Fresh(e)
  BY <1>1 DEF ClaimInv, FreshUntilClaimed, ClaimWon, Claimable
<1>3. /\ row'[e].status = "running" /\ row'[e].attempts = row[e].attempts + 1
      /\ \A f \in Executions : f # e => row'[f] = row[f]
  BY <1>1, UpdatedColumns DEF ClaimWon, TypeOK
<1>4. /\ pc'[t] = "claimed" /\ \A u \in Tasks : JobOf(u)' = JobOf(u)
      /\ \A u \in Tasks : u # t => pc'[u] = pc[u]
  BY DEF ClaimWon, TypeOK, JobOf
<1>5. \A u \in Tasks : Holding(u) => JobOf(u) # e
  BY <1>2 DEF Fresh
<1>6. starts' = starts
  BY DEF Claim
<1>7. FreshUntilClaimed'
  BY <1>1, <1>3, <1>4, <1>6 DEF ClaimInv, FreshUntilClaimed, Fresh, Holding
<1>8. \A q \in Processes :
        pc'[q] = "selected" =>
          pc[q] = "selected" /\ job'[q] = job[q] /\ job[q] # e
  BY <1>4 DEF Claim, ClaimWon, RowLocked, JobOf, ClaimInv, LockIsExclusive,
              Tasks, TypeOK
<1>9. SelectedIsPending' /\ LockIsExclusive'
  BY <1>3, <1>8 DEF ClaimInv, SelectedIsPending, LockIsExclusive, TypeOK
<1>10. row[e].attempts = 0
  BY <1>2 DEF Fresh
<1>11. HeldWasClaimed'
  BY <1>1, <1>3, <1>4, <1>10, JobType DEF ClaimInv, HeldWasClaimed, Holding
<1>12. NotYetStarted'
  BY <1>2, <1>4, <1>6 DEF ClaimInv, NotYetStarted, Fresh
<1>13. AtMostOnce'
  BY <1>4, <1>5, <1>6 DEF ClaimInv, AtMostOnce, Holding
<1> QED
  BY <1>7, <1>9, <1>11, <1>12, <1>13 DEF ClaimInv

\* The executor is entered by the one task that has the execution, for the
\* first time.
LEMMA StartClaimInv ==
  ASSUME TypeOK, ClaimInv, NEW t \in Tasks, Start(t)
  PROVE  ClaimInv'
<1> DEFINE e == JobOf(t)
<1>1. Holding(t) /\ pc[t] = "loaded"
  BY DEF Start, Holding
<1>2. /\ e \in Executions /\ ~RowLocked(e)
      /\ row[e].status \notin {"absent", "pending"}
  BY <1>1, HeldRow
<1>3. /\ row'[e].status \notin {"absent", "pending"}
      /\ row'[e].attempts = row[e].attempts
      /\ \A f \in Executions : f # e => row'[f] = row[f]
  BY <1>2 DEF Start, TypeOK, Row
<1>4. /\ pc'[t] = "running" /\ \A u \in Tasks : JobOf(u)' = JobOf(u)
      /\ \A u \in Tasks : u # t => pc'[u] = pc[u]
  BY DEF Start, TypeOK, JobOf
<1>5. /\ starts[e] = 0 /\ starts'[e] = 1
      /\ \A f \in Executions : f # e => starts'[f] = starts[f]
  BY <1>1, <1>2 DEF Start, TypeOK, ClaimInv, NotYetStarted
<1>6. \A u \in Tasks : Holding(u) /\ JobOf(u) = e => u = t
  BY <1>1 DEF ClaimInv, AtMostOnce
<1>7. \A u \in Tasks : Holding(u)' <=> Holding(u)
  BY <1>1, <1>4 DEF Holding
<1>8. FreshUntilClaimed'
  BY <1>3, <1>4, <1>5, <1>7 DEF ClaimInv, FreshUntilClaimed, Fresh
<1>9. \A q \in Processes :
        pc'[q] = "selected" =>
          pc[q] = "selected" /\ job'[q] = job[q] /\ job[q] # e
  BY <1>2, <1>4 DEF Start, RowLocked, Tasks
<1>10. SelectedIsPending' /\ LockIsExclusive'
  BY <1>3, <1>9 DEF ClaimInv, SelectedIsPending, LockIsExclusive, TypeOK
<1>11. HeldWasClaimed'
  BY <1>1, <1>2, <1>3, <1>4, <1>7, JobType
  DEF ClaimInv, HeldWasClaimed, Holding, Start, Exists
<1>12. NotYetStarted'
  BY <1>4, <1>5, <1>6, JobType DEF ClaimInv, NotYetStarted, Holding
<1>13. AtMostOnce'
  BY <1>4, <1>5, <1>7 DEF ClaimInv, AtMostOnce
<1> QED
  BY <1>8, <1>10, <1>11, <1>12, <1>13 DEF ClaimInv

\* Every step of the queue preserves the invariant.
LEMMA NextClaimInv == TypeOK /\ ClaimInv /\ [Next]_vars => ClaimInv'
<1> SUFFICES ASSUME TypeOK, ClaimInv, [Next]_vars PROVE ClaimInv'
  OBVIOUS
<1> TypeOK'
  BY NextTypeOK
<1>1. ASSUME NEW e \in Executions, NEW p \in Processes, Submit(e, p)
      PROVE  ClaimInv'
  BY <1>1, SubmitClaimInv
<1>2. ASSUME NEW e \in Executions, NEW p \in Processes, CancelRead(p, e)
      PROVE  ClaimInv'
  BY <1>2, TaskMove DEF CancelRead, JobOf
<1>3. ASSUME NEW p \in Processes, CancelWrite(p) PROVE ClaimInv'
  <2>1. cancel[p] \in Executions
    BY <1>3 DEF TypeOK, CancelWrite
  <2>2. /\ Cancelled(row[cancel[p]]).status = "cancelled"
        /\ Cancelled(row[cancel[p]]).attempts = row[cancel[p]].attempts
    BY <2>1, UpdatedColumns DEF TypeOK
  <2>3. \A e \in Executions : \/ row'[e] = row[e]
                              \/ Onward(row[e], row'[e]) /\ ~RowLocked(e)
    BY <1>3, <2>1, <2>2, OneRowOnward DEF CancelWrite
  <2> QED BY <1>3, <2>3, TaskMove DEF CancelWrite, JobOf
<1>4. ASSUME NEW p \in Processes, DrainSelect(p) PROVE ClaimInv'
  BY <1>4, DrainSelectClaimInv
<1>5. ASSUME NEW e \in Executions, Delete(e) PROVE ClaimInv'
  <2>1. \A f \in Executions : \/ row'[f] = row[f]
                              \/ Onward(row[f], row'[f]) /\ ~RowLocked(f)
    BY <1>5 DEF Delete, Blank, Onward, TypeOK
  <2> QED BY <1>5, <2>1, TaskMove DEF Delete, JobOf
<1>6. ASSUME NEW e \in Executions, LeaseExpires(e) PROVE ClaimInv'
  <2>1. row[e].status \notin {"absent", "pending"}
    BY <1>6 DEF LeaseExpires, ClaimInv, FreshUntilClaimed, Fresh
  <2>2. ~RowLocked(e)
    BY <2>1 DEF RowLocked, ClaimInv, SelectedIsPending
  <2>3. \A f \in Executions : \/ row'[f] = row[f]
                              \/ Onward(row[f], row'[f]) /\ ~RowLocked(f)
    BY <1>6, <2>1, <2>2 DEF LeaseExpires, Onward, TypeOK, Row
  <2> QED BY <1>6, <2>3, TaskMove DEF LeaseExpires, JobOf
<1>7. ASSUME NEW t \in Tasks, TaskStep(t) PROVE ClaimInv'
  <2>1. CASE Claim(t)
    <3>1. CASE ClaimWon(t)
      BY <2>1, <3>1, ClaimWonClaimInv
    <3>2. CASE ClaimLost(t)
      BY <2>1, <3>2, ReturnMove, TaskMove DEF Claim, ClaimLost
    <3> QED BY <2>1, <3>1, <3>2 DEF Claim
  <2>2. CASE Load(t)
    <3>1. CASE Exists(JobOf(t))
      BY <2>2, <3>1, TaskMove DEF Load, Holding, JobOf, TypeOK
    <3>2. CASE ~Exists(JobOf(t))
      BY <2>2, <3>2, ReturnMove, TaskMove DEF Load
    <3> QED BY <3>1, <3>2
  <2>3. CASE Refuse(t)
    <3>1. JobOf(t) \in Executions /\ ~RowLocked(JobOf(t))
      BY <2>3, HeldRow DEF Refuse, Holding
    <3>2. /\ Failed(row[JobOf(t)]).status = "failed"
          /\ Failed(row[JobOf(t)]).attempts = row[JobOf(t)].attempts
      BY <3>1, UpdatedColumns DEF TypeOK
    <3>3. \A e \in Executions : \/ row'[e] = row[e]
                                \/ Onward(row[e], row'[e]) /\ ~RowLocked(e)
      BY <2>3, <3>1, <3>2, OneRowOnward DEF Refuse
    <3> QED BY <2>3, <3>3, ReturnMove, TaskMove DEF Refuse
  <2>4. CASE Start(t)
    BY <2>4, StartClaimInv
  <2>5. CASE Finish(t)
    <3>1. JobOf(t) \in Executions /\ ~RowLocked(JobOf(t))
      BY <2>5, HeldRow DEF Finish, Holding
    <3>2. \A e \in Executions : \/ row'[e] = row[e]
                                \/ Onward(row[e], row'[e]) /\ ~RowLocked(e)
      BY <2>5, <3>1, UpdatedColumns DEF Finish, Exists, Onward, TypeOK
    <3> QED BY <2>5, <3>2, TaskMove DEF Finish, Holding, JobOf, TypeOK
  <2>6. CASE Stale(t)
    BY <2>6, TaskMove DEF Stale, Holding, JobOf, TypeOK
  <2>7. CASE Release(t)
    <3>1. /\ JobOf(t) \in Executions /\ ~RowLocked(JobOf(t))
          /\ row[JobOf(t)].status \notin {"absent", "pending"}
      BY <2>7, HeldRow DEF Release, Holding
    <3>2. \A e \in Executions : \/ row'[e] = row[e]
                                \/ Onward(row[e], row'[e]) /\ ~RowLocked(e)
      BY <2>7, <3>1 DEF Release, Onward, TypeOK, Row
    <3> QED BY <2>7, <3>2, ReturnMove, TaskMove DEF Release
  <2> QED BY <1>7, <2>1, <2>2, <2>3, <2>4, <2>5, <2>6, <2>7 DEF TaskStep
<1>8. ASSUME NEW t \in Tasks, ClaimRaise(t) \/ Abort(t) PROVE ClaimInv'
  BY <1>8, ReturnMove, TaskMove DEF ClaimRaise, Abort
<1>9. ASSUME NEW t \in Tasks, Raise(t) PROVE ClaimInv'
  BY <1>9, TaskMove DEF Raise, Holding, JobOf, TypeOK
<1>10. ASSUME NEW p \in Processes, Boot(p) PROVE ClaimInv'
  <2>1. \A e \in Executions : \/ row'[e] = row[e]
                              \/ Onward(row[e], row'[e]) /\ ~RowLocked(e)
    <3> SUFFICES ASSUME NEW e \in Executions, row'[e] # row[e]
                 PROVE  Onward(row[e], row'[e]) /\ ~RowLocked(e)
      OBVIOUS
    <3>1. row[e].status = "running" /\ row'[e] = Failed(row[e])
      BY <1>10 DEF Boot, Recovered
    <3>2. ~RowLocked(e)
      BY <3>1 DEF RowLocked, ClaimInv, SelectedIsPending
    <3>3. row[e] \in Row
      BY DEF TypeOK
    <3> QED BY <3>1, <3>2, <3>3, UpdatedColumns DEF Onward
  <2> QED BY <1>10, <2>1, TaskMove DEF Boot, JobOf, TypeOK
<1>11. ASSUME NEW p \in Processes, Stop(p) PROVE ClaimInv'
  BY <1>11, TaskMove DEF Stop, JobOf
<1>12. ASSUME NEW p \in Processes, Exit(p) PROVE ClaimInv'
  <2>1. PICK freed \in SUBSET {e \in Executions :
                             home[e] = p /\ pc[e] \in {"running", "release"}} :
          row' = [e \in Executions |->
                    IF e \in freed THEN [row[e] EXCEPT !.lease = "none"]
                    ELSE row[e]]
    BY <1>12 DEF Exit
  <2>2. \A e \in freed : /\ e \in Executions /\ ~RowLocked(e)
                         /\ row[e].status \notin {"absent", "pending"}
    BY HeldRow, QueueAssumption DEF Holding, JobOf, Tasks
  <2>3. \A e \in Executions : \/ row'[e] = row[e]
                              \/ Onward(row[e], row'[e]) /\ ~RowLocked(e)
    BY <2>1, <2>2 DEF Onward, TypeOK, Row
  <2> QED BY <1>12, <2>3, DieMove, TaskMove DEF Exit, Die
<1>13. ASSUME NEW p \in Processes, Crash(p) PROVE ClaimInv'
  BY <1>13, DieMove, TaskMove DEF Crash, Die
<1>14. CASE UNCHANGED vars
  BY <1>14, TaskMove DEF vars, JobOf
<1> QED
  BY <1>1, <1>2, <1>3, <1>4, <1>5, <1>6, <1>7, <1>8, <1>9, <1>10, <1>11,
     <1>12, <1>13, <1>14 DEF Next

\* In every reachable state the discipline of the claims holds.
THEOREM ClaimsAreDisciplined == Spec => []ClaimInv
<1>1. Init => ClaimInv
  BY InitClaimInv
<1>2. TypeOK /\ ClaimInv /\ [Next]_vars => ClaimInv'
  BY NextClaimInv
<1> QED
  BY <1>1, <1>2, TypeCorrect, PTL DEF Spec

\* No execution is ever run by two tasks, nor run twice: whatever crashes,
\* expired leases, cancels and deletions, and with any number of processes.
THEOREM AtMostOnceHolds == Spec => []AtMostOnce
<1>1. ClaimInv => AtMostOnce
  BY DEF ClaimInv
<1> QED
  BY <1>1, ClaimsAreDisciplined, PTL

-----------------------------------------------------------------------------
(* Cancelling before the claim.                                             *)

\* Nobody has an execution that was cancelled before it was claimed, and no
\* step of anybody takes it up.
LEMMA CancelledUnclaimedStep ==
  ASSUME TypeOK, ClaimInv, [Next]_vars,
         NEW e \in Executions, CancelledUnclaimed(e)
  PROVE  CancelledUnclaimed(e)' \/ row'[e].status = "deleted"
<1>1. \A t \in Tasks : Holding(t) => JobOf(t) # e
  BY DEF ClaimInv, HeldWasClaimed, CancelledUnclaimed
<1>2. row'[e] = row[e] => CancelledUnclaimed(e)'
  BY DEF CancelledUnclaimed
<1>3. row[e] \in Row
  BY DEF TypeOK
<1>4. ASSUME NEW f \in Executions, NEW p \in Processes,
             Submit(f, p) \/ CancelRead(p, f)
      PROVE  row'[e] = row[e]
  BY <1>4 DEF Submit, CancelRead, CancelledUnclaimed, TypeOK
<1>5. ASSUME NEW p \in Processes, CancelWrite(p) PROVE CancelledUnclaimed(e)'
  BY <1>3, <1>5, UpdatedColumns DEF CancelWrite, CancelledUnclaimed, TypeOK
<1>6. ASSUME NEW f \in Executions, Delete(f)
      PROVE  row'[e] = row[e] \/ row'[e].status = "deleted"
  BY <1>6 DEF Delete, Blank, TypeOK
<1>7. ASSUME NEW f \in Executions, LeaseExpires(f)
      PROVE  CancelledUnclaimed(e)'
  BY <1>3, <1>7 DEF LeaseExpires, CancelledUnclaimed, TypeOK, Row
<1>8. ASSUME NEW t \in Tasks, TaskStep(t) PROVE row'[e] = row[e]
  <2>1. CASE Claim(t)
    BY <2>1
    DEF Claim, ClaimWon, ClaimLost, Claimable, CancelledUnclaimed, TypeOK
  <2>2. CASE Load(t) \/ Stale(t)
    BY <2>2 DEF Load, Stale
  <2>3. CASE Refuse(t) \/ Start(t) \/ Finish(t) \/ Release(t)
    BY <1>1, <2>3 DEF Refuse, Start, Finish, Release, Holding, TypeOK
  <2> QED BY <1>8, <2>1, <2>2, <2>3 DEF TaskStep
<1>9. ASSUME NEW t \in Tasks, ClaimRaise(t) \/ Raise(t) \/ Abort(t)
      PROVE  row'[e] = row[e]
  BY <1>9 DEF ClaimRaise, Raise, Abort
<1>10. ASSUME NEW p \in Processes, Boot(p) PROVE row'[e] = row[e]
  BY <1>10 DEF Boot, Recovered, CancelledUnclaimed
<1>11. ASSUME NEW p \in Processes, Exit(p) PROVE CancelledUnclaimed(e)'
  BY <1>3, <1>11 DEF Exit, CancelledUnclaimed, Row
<1>12. ASSUME NEW p \in Processes, Stop(p) \/ Crash(p) PROVE row'[e] = row[e]
  BY <1>12 DEF Stop, Crash
<1>13. CASE UNCHANGED vars
  BY <1>2, <1>13 DEF vars
<1> QED
  BY <1>2, <1>4, <1>5, <1>6, <1>7, <1>8, <1>9, <1>10, <1>11, <1>12, <1>13
  DEF Next, DrainSelect

\* An execution cancelled before anybody claimed it is never run.
THEOREM CancelBeforeClaimAlwaysHolds == Spec => CancelBeforeClaimHolds
<1>1. TypeOK /\ ClaimInv /\ [Next]_vars =>
        [\A e \in Executions :
           CancelledUnclaimed(e) =>
             CancelledUnclaimed(e)' \/ row'[e].status = "deleted"]_vars
  BY CancelledUnclaimedStep
<1> QED
  BY <1>1, TypeCorrect, ClaimsAreDisciplined, PTL
  DEF Spec, CancelBeforeClaimHolds

-----------------------------------------------------------------------------
(* The queue implements its promise.                                        *)

TakenUp  == {"running"} \cup Terminal
StageMap == [e \in Executions |-> StageOf(e)]

\* The stage, now and after a step, by the row's status and attempts.
LEMMA StageIs ==
  ASSUME NEW e \in Executions
  PROVE  /\ row[e].status = "absent" => StageOf(e) = "none"
         /\ row[e].status = "deleted" => StageOf(e) = "gone"
         /\ row[e].status = "pending" => StageOf(e) = "queued"
         /\ CancelledUnclaimed(e) => StageOf(e) = "gone"
         /\ row[e].status \in TakenUp /\ ~CancelledUnclaimed(e) =>
              StageOf(e) = "taken"
         /\ row'[e].status = "deleted" => StageOf(e)' = "gone"
         /\ row'[e].status = "pending" => StageOf(e)' = "queued"
         /\ CancelledUnclaimed(e)' => StageOf(e)' = "gone"
         /\ row'[e].status \in TakenUp /\ ~CancelledUnclaimed(e)' =>
              StageOf(e)' = "taken"
  BY DEF StageOf, CancelledUnclaimed, TakenUp, Terminal

\* The stage is a matter of the row's status and attempts.
LEMMA SameStage ==
  ASSUME NEW e \in Executions,
         \/ row'[e] = row[e]
         \/ /\ row[e].status \in TakenUp
            /\ row'[e].status \in TakenUp
            /\ ~CancelledUnclaimed(e) /\ ~CancelledUnclaimed(e)'
         \/ CancelledUnclaimed(e) /\ CancelledUnclaimed(e)'
         \/ CancelledUnclaimed(e) /\ row'[e].status = "deleted"
  PROVE  StageOf(e)' = StageOf(e)
  BY DEF StageOf, CancelledUnclaimed, TakenUp, Terminal

\* A step that leaves every stage alone is a stutter of the promise.
LEMMA Stutter ==
  ASSUME UNCHANGED starts, \A e \in Executions : StageOf(e)' = StageOf(e)
  PROVE  UNCHANGED Promise!lifecycleVars
<1>1. [e \in Executions |-> StageOf(e)]' = [e \in Executions |-> StageOf(e)]
  OBVIOUS
<1> QED
  BY <1>1 DEF Promise!lifecycleVars

\* A step that moves the stage of one execution only.
LEMMA OneStage ==
  ASSUME NEW e \in Executions,
         \A f \in Executions \ {e} : StageOf(f)' = StageOf(f)
  PROVE  StageMap' = [StageMap EXCEPT ![e] = StageOf(e)']
  BY DEF StageMap

\* What a task does to the row it holds moves no stage.
LEMMA HeldStage ==
  ASSUME TypeOK, ClaimInv, NEW t \in Tasks, Holding(t),
         row[JobOf(t)].status # "deleted",
         NEW r \in Row, r.attempts = row[JobOf(t)].attempts,
         r.status \in {"running", "completed", "failed", "cancelled"},
         row' = [row EXCEPT ![JobOf(t)] = r], NEW e \in Executions
  PROVE  StageOf(e)' = StageOf(e)
<1>1. JobOf(t) \in Executions /\ row[JobOf(t)].status \notin {"absent", "pending"}
  BY HeldRow
<1>2. row[JobOf(t)].attempts > 0 /\ row[JobOf(t)] \in Row
  BY <1>1 DEF ClaimInv, HeldWasClaimed, TypeOK
<1>3. CASE e = JobOf(t)
  BY <1>1, <1>2, <1>3, SameStage
  DEF CancelledUnclaimed, TypeOK, Row, Status, Live, Terminal, TakenUp
<1>4. CASE e # JobOf(t)
  BY <1>1, <1>4, SameStage DEF TypeOK
<1> QED BY <1>3, <1>4

\* Every step of the queue is a step of the promise, or none.
LEMMA KeepsStep ==
  TypeOK /\ ClaimInv /\ [Next]_vars => [Promise!Next]_(Promise!lifecycleVars)
<1> SUFFICES ASSUME TypeOK, ClaimInv, [Next]_vars
             PROVE  Promise!Next \/ UNCHANGED Promise!lifecycleVars
  OBVIOUS
<1> DEFINE Still == \A e \in Executions : StageOf(e)' = StageOf(e)
<1>1. ASSUME row' = row PROVE Still
  BY <1>1 DEF StageOf, CancelledUnclaimed
<1>2. ASSUME NEW e \in Executions, NEW p \in Processes, Submit(e, p)
      PROVE  Promise!Queue(e)
  <2>1. \A f \in Executions \ {e} : StageOf(f)' = StageOf(f)
    BY <1>2, SameStage DEF Submit, TypeOK
  <2>2. row[e].status = "absent" /\ row'[e].status = "pending"
    BY <1>2 DEF Submit, Blank, TypeOK
  <2>3. StageOf(e) = "none" /\ StageOf(e)' = "queued"
    BY <2>2, StageIs
  <2> QED
    BY <1>2, <2>1, <2>3, OneStage DEF Promise!Queue, StageMap, Submit
<1>3. ASSUME NEW p \in Processes, CancelWrite(p)
      PROVE  Still \/ \E e \in Executions : Promise!Withdraw(e)
  <2> PICK e \in Executions : e = cancel[p]
    BY <1>3 DEF CancelWrite, TypeOK
  <2>1. e \in Executions /\ row[e] \in Row
    BY DEF TypeOK
  <2>2. \A f \in Executions \ {e} : StageOf(f)' = StageOf(f)
    BY <1>3, SameStage DEF CancelWrite, TypeOK
  <2>3. CASE ~Exists(e)
    BY <1>1, <1>3, <2>3 DEF CancelWrite
  <2>4. ASSUME Exists(e) PROVE row'[e] = Cancelled(row[e])
    BY <1>3, <2>1, <2>4 DEF CancelWrite, TypeOK
  <2>5. CASE StageOf(e)' = StageOf(e)
    BY <2>2, <2>5
  <2>6. CASE Exists(e) /\ StageOf(e)' # StageOf(e)
    <3>1. row[e].status = "pending" => row[e].attempts = 0
      BY DEF ClaimInv, FreshUntilClaimed, Fresh
    <3>2. row'[e].status = "cancelled" /\ row'[e].attempts = row[e].attempts
      BY <2>1, <2>4, <2>6, UpdatedColumns
    <3>3. CancelledUnclaimed(e)' /\ ~CancelledUnclaimed(e)
      BY <2>6, <3>1, <3>2, <2>1, StageIs
      DEF CancelledUnclaimed, Exists, Row, Status, Live, TakenUp, Terminal
    <3>4. StageOf(e) \in {"queued", "taken"} /\ StageOf(e)' = "gone"
      BY <2>1, <2>6, <3>3, StageIs
      DEF Exists, Row, Status, Live, TakenUp, Terminal
    <3> QED
      BY <1>3, <2>1, <2>2, <3>4, OneStage
      DEF Promise!Withdraw, StageMap, CancelWrite
  <2> QED BY <2>3, <2>5, <2>6
<1>4. ASSUME NEW e \in Executions, Delete(e)
      PROVE  Still \/ Promise!Withdraw(e)
  <2>1. \A f \in Executions \ {e} : StageOf(f)' = StageOf(f)
    BY <1>4, SameStage DEF Delete, TypeOK
  <2>2. StageOf(e) \in {"queued", "taken", "gone"} /\ StageOf(e)' = "gone"
    BY <1>4 DEF Delete, Exists, StageOf, Blank, TypeOK
  <2> QED
    BY <1>4, <2>1, <2>2, OneStage DEF Promise!Withdraw, StageMap, Delete
<1>5. ASSUME NEW e \in Executions, LeaseExpires(e) PROVE Still
  BY <1>5 DEF LeaseExpires, StageOf, CancelledUnclaimed, TypeOK, Row
<1>6. ASSUME NEW t \in Tasks, Claim(t)
      PROVE  Still \/ Promise!Take(JobOf(t))
  <2>1. CASE ClaimLost(t)
    BY <1>1, <2>1 DEF ClaimLost
  <2>2. CASE ClaimWon(t)
    <3> PICK e \in Executions : e = JobOf(t)
      BY <1>6, JobType DEF Claim
    <3>1. e = JobOf(t)
      OBVIOUS
    <3>2. \A f \in Executions \ {e} : StageOf(f)' = StageOf(f)
      BY <2>2, <3>1, SameStage DEF ClaimWon, TypeOK
    <3>3. row[e] \in Row /\ row'[e] = Claimed(row[e])
      BY <2>2, <3>1 DEF ClaimWon, TypeOK
    <3>4. StageOf(e) = "queued" /\ StageOf(e)' = "taken"
      BY <2>2, <3>1, <3>3, UpdatedColumns, StageIs
      DEF ClaimWon, Claimable, CancelledUnclaimed, TakenUp
    <3> QED
      BY <1>6, <3>1, <3>2, <3>4, OneStage DEF Promise!Take, StageMap, Claim
  <2> QED BY <1>6, <2>1, <2>2 DEF Claim
<1>7. ASSUME NEW t \in Tasks, Load(t) \/ Stale(t) PROVE Still
  BY <1>1, <1>7 DEF Load, Stale
<1>8. ASSUME NEW t \in Tasks, Refuse(t) \/ Finish(t) PROVE Still
  <2>1. Holding(t) /\ row[JobOf(t)] \in Row
    BY <1>8, HeldRow DEF Refuse, Finish, Holding, TypeOK
  <2>2. CASE row' = row
    BY <1>1, <2>2
  <2>3. ASSUME NEW r \in Row, r.attempts = row[JobOf(t)].attempts,
               r.status \in {"completed", "failed"},
               Exists(JobOf(t)), row' = [row EXCEPT ![JobOf(t)] = r]
        PROVE  Still
    BY <2>1, <2>3, HeldStage DEF Exists
  <2>4. CASE Refuse(t)
    BY <2>1, <2>2, <2>3, <2>4, UpdatedColumns, UpdatedRow DEF Refuse
  <2>5. CASE Finish(t)
    BY <2>1, <2>3, <2>5, UpdatedColumns, UpdatedRow DEF Finish
  <2> QED BY <1>8, <2>4, <2>5
<1>9. ASSUME NEW t \in Tasks, Start(t) PROVE Promise!Run(JobOf(t))
  <2> DEFINE e == JobOf(t)
             r == [row[e] EXCEPT !.status = "running"]
  <2>1. Holding(t) /\ e \in Executions /\ row[e] \in Row
    BY <1>9, HeldRow DEF Start, Holding, TypeOK
  <2>2. /\ row[e].attempts > 0 /\ row[e].status \notin {"absent", "pending", "deleted"}
        /\ starts[e] = 0
    BY <1>9, <2>1, HeldRow
    DEF ClaimInv, HeldWasClaimed, NotYetStarted, Start, Exists
  <2>3. StageOf(e) = "taken"
    BY <2>1, <2>2 DEF StageOf, CancelledUnclaimed
  <2>4. Still
    <3>1. CASE row' = row
      BY <1>1, <3>1
    <3>2. CASE row' = [row EXCEPT ![e] = r]
      BY <2>1, <2>2, <3>2, HeldStage DEF Row, Status, Live
    <3>3. row' = [row EXCEPT ![e] = r] \/ row' = row
      BY <1>9 DEF Start
    <3> QED BY <3>1, <3>2, <3>3
  <2>5. [f \in Executions |-> StageOf(f)]' = [f \in Executions |-> StageOf(f)]
    BY <2>4
  <2> QED
    BY <1>9, <2>1, <2>2, <2>3, <2>5 DEF Promise!Run, Start, TypeOK
<1>10. ASSUME NEW t \in Tasks, Release(t) PROVE Still
  <2>1. JobOf(t) \in Executions
    BY <1>10, JobType DEF Release
  <2> QED
    BY <1>10, <2>1 DEF Release, StageOf, CancelledUnclaimed, TypeOK, Row
<1>11. ASSUME NEW t \in Tasks, ClaimRaise(t) \/ Raise(t) \/ Abort(t)
       PROVE  Still
  BY <1>1, <1>11 DEF ClaimRaise, Raise, Abort
<1>12. ASSUME NEW p \in Processes, Boot(p) PROVE Still
  <2>1. CASE row' = row
    BY <1>1, <2>1
  <2>2. CASE row' = Recovered
    <3> SUFFICES ASSUME NEW e \in Executions PROVE StageOf(e)' = StageOf(e)
      OBVIOUS
    <3>1. row[e].status # "running" => row'[e] = row[e]
      BY <2>2 DEF Recovered
    <3>2. row[e].status = "running" => row'[e].status = "failed"
      BY <2>2, UpdatedColumns DEF Recovered, TypeOK
    <3> QED
      BY <3>1, <3>2 DEF StageOf, CancelledUnclaimed
  <2> QED BY <1>12, <2>1, <2>2 DEF Boot
<1>13. ASSUME NEW p \in Processes, Exit(p) PROVE Still
  <2> SUFFICES ASSUME NEW e \in Executions PROVE StageOf(e)' = StageOf(e)
    OBVIOUS
  <2>1. /\ row'[e].status = row[e].status
        /\ row'[e].attempts = row[e].attempts
    BY <1>13 DEF Exit, TypeOK, Row
  <2> QED BY <2>1 DEF StageOf, CancelledUnclaimed
<1>14. ASSUME NEW p \in Processes,
              (\E e \in Executions : CancelRead(p, e)) \/ DrainSelect(p)
              \/ Stop(p) \/ Crash(p)
       PROVE  Still
  BY <1>1, <1>14 DEF CancelRead, DrainSelect, Stop, Crash
<1>15. CASE UNCHANGED vars
  BY <1>1, <1>15, Stutter DEF vars
<1>16. CASE Next
  <2>1. CASE \E e \in Executions : Promise!Queue(e) \/ Promise!Withdraw(e)
    BY <2>1 DEF Promise!Next
  <2>2. ASSUME NEW t \in Tasks, TaskStep(t)
        PROVE  Promise!Next \/ UNCHANGED Promise!lifecycleVars
    <3>1. CASE Start(t)
      BY <1>9, <3>1, HeldRow DEF Promise!Next, Start, Holding
    <3>2. CASE Claim(t)
      BY <1>6, <3>2, JobType, Stutter DEF Promise!Next, Claim
    <3>3. CASE Load(t) \/ Stale(t) \/ Refuse(t) \/ Finish(t) \/ Release(t)
      BY <1>7, <1>8, <1>10, <3>3, Stutter
      DEF Load, Stale, Refuse, Finish, Release
    <3> QED BY <2>2, <3>1, <3>2, <3>3 DEF TaskStep
  <2>3. ASSUME Still, UNCHANGED starts
        PROVE  UNCHANGED Promise!lifecycleVars
    BY <2>3, Stutter
  <2>4. ASSUME NEW p \in Processes, CancelWrite(p)
        PROVE  Promise!Next \/ UNCHANGED Promise!lifecycleVars
    BY <1>3, <2>1, <2>3, <2>4 DEF CancelWrite
  <2>5. ASSUME NEW e \in Executions, Delete(e) \/ LeaseExpires(e)
        PROVE  Promise!Next \/ UNCHANGED Promise!lifecycleVars
    BY <1>4, <1>5, <2>1, <2>3, <2>5 DEF Delete, LeaseExpires
  <2>6. ASSUME NEW t \in Tasks, ClaimRaise(t) \/ Raise(t) \/ Abort(t)
        PROVE  UNCHANGED Promise!lifecycleVars
    BY <1>11, <2>3, <2>6 DEF ClaimRaise, Raise, Abort
  <2>7. ASSUME NEW p \in Processes,
               (\E e \in Executions : CancelRead(p, e)) \/ DrainSelect(p)
               \/ Boot(p) \/ Stop(p) \/ Exit(p) \/ Crash(p)
        PROVE  UNCHANGED Promise!lifecycleVars
    BY <1>12, <1>13, <1>14, <2>3, <2>7
    DEF CancelRead, DrainSelect, Boot, Stop, Exit, Crash, Die
  <2> QED
    BY <1>2, <1>16, <2>1, <2>2, <2>4, <2>5, <2>6, <2>7 DEF Next
<1> QED BY <1>15, <1>16

\* The queue implements the life of an execution it promises.
THEOREM PromiseIsKept == Spec => KeepsPromise
<1>1. Init => Promise!Init
  <2> SUFFICES ASSUME Init PROVE Promise!Init
    OBVIOUS
  <2>1. \A e \in Executions : StageOf(e) = "none"
    BY StageIs DEF Init, Blank
  <2> QED
    BY <2>1 DEF Init, Promise!Init
<1>2. TypeOK /\ ClaimInv /\ [Next]_vars => [Promise!Next]_(Promise!lifecycleVars)
  BY KeepsStep
<1> QED
  BY <1>1, <1>2, TypeCorrect, ClaimsAreDisciplined, PTL
  DEF Spec, KeepsPromise, Promise!Spec
=============================================================================
