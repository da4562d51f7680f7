-------------------------- MODULE SingleProcessProofs --------------------------
(* What recovery guarantees where it is sound: with one process, whatever it   *)
(* meets.  Each theorem assumes of the deployment just what it needs; any      *)
(* number of executions, faults and restarts.                                  *)
EXTENDS ExecutionQueueProofs

OneProcess == \E p : Processes = {p}
NoneRaises == "raise" \notin Faults

-----------------------------------------------------------------------------
(* A coroutine lives in a process that is up, whatever their number.        *)

TasksAreHoused ==
    \A t \in Tasks :
        pc[t] # "off" => HomeOf(t) \in Processes /\ up[HomeOf(t)] # "down"

LEMMA InitHoused == Init => TasksAreHoused
  BY DEF Init, TasksAreHoused

\* A step that starts no coroutine, moves none and ends no process.
LEMMA StayHoused ==
  ASSUME TypeOK, TasksAreHoused, UNCHANGED home,
         \A p \in Processes : up'[p] = "down" => up[p] = "down",
         \A t \in Tasks : pc'[t] # "off" => pc[t] # "off"
  PROVE  TasksAreHoused'
  BY DEF TasksAreHoused, HomeOf

\* A worker that returns was at work before.
LEMMA ReturnHoused ==
  ASSUME TypeOK, NEW t \in Tasks, Return(t), pc[t] # "off"
  PROVE  \A u \in Tasks : pc'[u] # "off" => pc[u] # "off"
  BY DEF TypeOK, Return

LEMMA NextHoused == TypeOK /\ TasksAreHoused /\ [Next]_vars => TasksAreHoused'
<1> SUFFICES ASSUME TypeOK, TasksAreHoused, [Next]_vars PROVE TasksAreHoused'
  OBVIOUS
<1>1. ASSUME NEW e \in Executions, NEW p \in Processes, Submit(e, p)
      PROVE  TasksAreHoused'
  BY <1>1, QueueAssumption DEF TasksAreHoused, HomeOf, Submit, TypeOK, Tasks
<1>2. CASE \/ \E e \in Executions, p \in Processes : CancelRead(p, e)
           \/ \E e \in Executions : Delete(e) \/ LeaseExpires(e)
           \/ \E p \in Processes : CancelWrite(p) \/ Stop(p)
  BY <1>2, StayHoused DEF CancelRead, CancelWrite, Delete, LeaseExpires, Stop, TypeOK
<1>3. ASSUME NEW p \in Processes, DrainSelect(p) PROVE TasksAreHoused'
  BY <1>3, StayHoused DEF DrainSelect, TypeOK, Tasks
<1>4. ASSUME NEW t \in Tasks,
             TaskStep(t) \/ ClaimRaise(t) \/ Raise(t) \/ Abort(t)
      PROVE  TasksAreHoused'
  <2>1. pc[t] # "off" /\ UNCHANGED <<home, up>>
    BY <1>4 DEF TaskStep, Claim, Load, Refuse, Start, Finish, Stale, Release,
                ClaimRaise, Raise, Abort
  <2>2. CASE Return(t)
    BY <2>1, <2>2, ReturnHoused, StayHoused
  <2>3. CASE \E s : pc' = [pc EXCEPT ![t] = s]
    BY <2>1, <2>3, StayHoused DEF TypeOK
  <2>4. Return(t) \/ \E s : pc' = [pc EXCEPT ![t] = s]
    BY <1>4 DEF TaskStep, Claim, ClaimWon, ClaimLost, Load, Refuse, Start, Finish,
                Stale, Release, ClaimRaise, Raise, Abort
  <2> QED BY <2>2, <2>3, <2>4
<1>5. ASSUME NEW p \in Processes, Boot(p) PROVE TasksAreHoused'
  BY <1>5 DEF TasksAreHoused, HomeOf, Boot, TypeOK, Tasks
<1>6. ASSUME NEW p \in Processes, Exit(p) \/ Crash(p) PROVE TasksAreHoused'
  BY <1>6 DEF TasksAreHoused, HomeOf, Exit, Crash, Die, TypeOK, Tasks
<1>7. CASE UNCHANGED vars
  BY <1>7, StayHoused DEF vars
<1> QED
  BY <1>1, <1>2, <1>3, <1>4, <1>5, <1>6, <1>7 DEF Next

\* With one process, nothing is running while it is down.
LEMMA DownIsIdle ==
  ASSUME OneProcess, TasksAreHoused, NEW p \in Processes, up[p] = "down"
  PROVE  \A t \in Tasks : pc[t] = "off"
  BY DEF OneProcess, TasksAreHoused

-----------------------------------------------------------------------------
(* A run that nobody is to interrupt.                                       *)

\* Before its last commit a run finds its row as it left it, cancelled or deleted.
Runner(t) == pc[t] \in {"claimed", "loaded", "running"}
Ongoing(r) == r.status \in {"running", "cancelled", "deleted"} /\ ~r.error

RunnersKeepTheirRows == \A t \in Tasks : Runner(t) => Ongoing(row[JobOf(t)])

\* Only what failed carries an error, and what was cancelled afterwards.
CleanUntilFailed ==
    \A e \in Executions : row[e].status \notin {"failed", "cancelled"} => ~row[e].error

Uninterrupted == TasksAreHoused /\ RunnersKeepTheirRows /\ CleanUntilFailed

LEMMA InitUninterrupted == Init => Uninterrupted
  BY InitHoused
  DEF Init, Uninterrupted, RunnersKeepTheirRows, Runner, CleanUntilFailed, Blank

\* The columns that matter here after each kind of UPDATE.
LEMMA UpdatedErrors ==
  ASSUME NEW r \in Row, NEW outcome \in {"completed", "failed"}
  PROVE  /\ Claimed(r).error = r.error
         /\ Cancelled(r).error = r.error
         /\ Outcome(r, outcome).error = (r.error \/ outcome = "failed")
         /\ Failed(r).status = "failed"
         /\ Claimed(r).status = "running"
         /\ Cancelled(r).status = "cancelled"
         /\ Outcome(r, outcome).status = outcome
  BY DEF Row, Claimed, Failed, Cancelled, Outcome

\* A row a step may turn into another without anybody's run noticing.
Harmless(r, s) ==
    \/ s.status = "deleted" /\ ~s.error
    \/ (s.status = "cancelled" \/ s.status = r.status) /\ (s.error => r.error)

\* Nobody starts a run, and the rows of those who have one change harmlessly.
LEMMA RunnersUndisturbed ==
  ASSUME TypeOK, RunnersKeepTheirRows,
         \A t \in Tasks : Runner(t)' => Runner(t) /\ JobOf(t)' = JobOf(t)
                                        /\ Harmless(row[JobOf(t)], row'[JobOf(t)])
  PROVE  RunnersKeepTheirRows'
  BY DEF RunnersKeepTheirRows, Ongoing, Harmless

\* The one who has an execution is the only one to write its row.
LEMMA OnlyRunner ==
  ASSUME TypeOK, ClaimInv, NEW t \in Tasks, Holding(t),
         NEW u \in Tasks, Runner(u), JobOf(u) = JobOf(t)
  PROVE  u = t
  BY DEF ClaimInv, AtMostOnce, Runner, Holding

LEMMA NextUninterrupted ==
  OneProcess /\ TypeOK /\ ClaimInv /\ Uninterrupted /\ [Next]_vars => Uninterrupted'
<1> SUFFICES ASSUME OneProcess, TypeOK, ClaimInv, TasksAreHoused,
                    RunnersKeepTheirRows, CleanUntilFailed, [Next]_vars
             PROVE  RunnersKeepTheirRows' /\ CleanUntilFailed'
  BY NextHoused DEF Uninterrupted
<1>1. ASSUME NEW e \in Executions, NEW p \in Processes, Submit(e, p)
      PROVE  RunnersKeepTheirRows' /\ CleanUntilFailed'
  <2>1. \A t \in Tasks : Holding(t) => JobOf(t) # e
    BY <1>1 DEF Submit, ClaimInv, FreshUntilClaimed, Fresh
  <2>2. \A t \in Tasks : Runner(t)' => Runner(t) /\ JobOf(t)' = JobOf(t)
    BY <1>1 DEF Submit, Runner, JobOf, TypeOK
  <2>3. \A f \in Executions : f # e => row'[f] = row[f]
    BY <1>1 DEF Submit, TypeOK
  <2>4. RunnersKeepTheirRows'
    BY <2>1, <2>2, <2>3, JobType, RunnersUndisturbed DEF Runner, Holding, Harmless
  <2>5. CleanUntilFailed'
    BY <1>1, <2>3 DEF Submit, CleanUntilFailed, Blank, TypeOK
  <2> QED BY <2>4, <2>5
<1>2. ASSUME UNCHANGED row,
             \A t \in Tasks : Runner(t)' => Runner(t) /\ JobOf(t)' = JobOf(t)
      PROVE  RunnersKeepTheirRows' /\ CleanUntilFailed'
  BY <1>2, RunnersUndisturbed DEF Harmless, CleanUntilFailed
<1>3. CASE \E p \in Processes : \/ DrainSelect(p) \/ Stop(p)
                                \/ \E e \in Executions : CancelRead(p, e)
  <2>1. UNCHANGED row
    BY <1>3 DEF CancelRead, DrainSelect, Stop
  <2>2. \A t \in Tasks : Runner(t)' => Runner(t) /\ JobOf(t)' = JobOf(t)
    BY <1>3 DEF CancelRead, DrainSelect, Stop, Runner, JobOf, TypeOK, Tasks
  <2> QED BY <1>2, <2>1, <2>2
<1>4. ASSUME \A e \in Executions : Harmless(row[e], row'[e]),
             \A t \in Tasks : Runner(t)' => Runner(t) /\ JobOf(t)' = JobOf(t)
      PROVE  RunnersKeepTheirRows' /\ CleanUntilFailed'
  <2>1. RunnersKeepTheirRows'
    BY <1>4, JobType, RunnersUndisturbed DEF Runner
  <2> QED BY <1>4, <2>1 DEF Harmless, CleanUntilFailed
<1>5. ASSUME NEW p \in Processes, CancelWrite(p)
      PROVE  RunnersKeepTheirRows' /\ CleanUntilFailed'
  <2>1. cancel[p] \in Executions
    BY <1>5 DEF TypeOK, CancelWrite
  <2>2. \A e \in Executions : Harmless(row[e], row'[e])
    BY <1>5, <2>1, UpdatedErrors DEF CancelWrite, Harmless, TypeOK
  <2> QED BY <1>4, <1>5, <2>2 DEF CancelWrite, Runner, JobOf
<1>6. ASSUME NEW e \in Executions, Delete(e) \/ LeaseExpires(e)
      PROVE  RunnersKeepTheirRows' /\ CleanUntilFailed'
  <2>1. \A f \in Executions : Harmless(row[f], row'[f])
    <3>1. CASE Delete(e)
      <4>1. row'[e].status = "deleted" /\ ~row'[e].error
        BY <3>1 DEF Delete, Blank, TypeOK
      <4>2. \A f \in Executions : f # e => row'[f] = row[f]
        BY <3>1 DEF Delete, TypeOK
      <4> QED BY <4>1, <4>2 DEF Harmless
    <3>2. CASE LeaseExpires(e)
      <4>1. \A f \in Executions :
              row'[f].status = row[f].status /\ row'[f].error = row[f].error
        BY <3>2 DEF LeaseExpires, TypeOK, Row
      <4> QED BY <4>1 DEF Harmless
    <3> QED BY <1>6, <3>1, <3>2
  <2> QED BY <1>4, <1>6, <2>1 DEF Delete, LeaseExpires, Runner, JobOf
<1>7. ASSUME NEW t \in Tasks, Return(t)
      PROVE  \A u \in Tasks : Runner(u)' => Runner(u) /\ u # t /\ JobOf(u)' = JobOf(u)
  BY <1>7 DEF Return, Runner, JobOf, TypeOK
<1>8. ASSUME NEW t \in Tasks, Claim(t)
      PROVE  RunnersKeepTheirRows' /\ CleanUntilFailed'
  <2>1. CASE ClaimLost(t)
    BY <1>2, <1>7, <2>1 DEF ClaimLost
  <2>2. CASE ClaimWon(t)
    <3> DEFINE e == JobOf(t)
    <3>1. e \in Executions /\ row[e] \in Row /\ row[e].status = "pending"
      BY <1>8, <2>2, JobType DEF Claim, ClaimWon, Claimable, TypeOK
    <3>2. row'[e] = Claimed(row[e]) /\ \A f \in Executions : f # e => row'[f] = row[f]
      BY <2>2, <3>1 DEF ClaimWon, TypeOK
    <3>3. row'[e].status = "running" /\ ~row'[e].error
      BY <3>1, <3>2, UpdatedErrors DEF CleanUntilFailed
    <3>4. \A u \in Tasks : u # t /\ Runner(u)' => Runner(u) /\ JobOf(u) # e
      BY <2>2, <3>1
      DEF ClaimWon, TypeOK, Runner, Holding, ClaimInv, FreshUntilClaimed, Fresh
    <3>5. \A u \in Tasks : JobOf(u)' = JobOf(u)
      BY <2>2 DEF ClaimWon, JobOf
    <3>6. RunnersKeepTheirRows'
      BY <3>2, <3>3, <3>4, <3>5, JobType DEF RunnersKeepTheirRows, Ongoing, Runner
    <3> QED BY <3>2, <3>3, <3>6 DEF CleanUntilFailed
  <2> QED BY <1>8, <2>1, <2>2 DEF Claim
<1>9. ASSUME NEW t \in Tasks, Load(t)
      PROVE  RunnersKeepTheirRows' /\ CleanUntilFailed'
  <2>1. CASE Exists(JobOf(t))
    BY <1>2, <1>9, <2>1 DEF Load, Runner, JobOf, TypeOK
  <2>2. CASE ~Exists(JobOf(t))
    BY <1>2, <1>7, <1>9, <2>2 DEF Load
  <2> QED BY <2>1, <2>2
\* What a task does to the row it has disturbs no other run.
<1>10. ASSUME NEW t \in Tasks, Holding(t), NEW r,
              row' = [row EXCEPT ![JobOf(t)] = r],
              Runner(t)' => JobOf(t)' = JobOf(t) /\ Ongoing(r),
              \A u \in Tasks : Runner(u)' /\ u # t => Runner(u) /\ JobOf(u)' = JobOf(u),
              r.status \notin {"failed", "cancelled"} => ~r.error
       PROVE  RunnersKeepTheirRows' /\ CleanUntilFailed'
  <2>1. JobOf(t) \in Executions
    BY <1>10, JobType DEF Holding
  <2>2. row'[JobOf(t)] = r /\ \A f \in Executions : f # JobOf(t) => row'[f] = row[f]
    BY <1>10, <2>1 DEF TypeOK
  <2>3. \A u \in Tasks : Runner(u)' /\ u # t => JobOf(u) # JobOf(t)
    BY <1>10, OnlyRunner
  <2>4. RunnersKeepTheirRows'
    BY <1>10, <2>2, <2>3, JobType DEF RunnersKeepTheirRows, Runner
  <2> QED BY <1>10, <2>2, <2>4 DEF CleanUntilFailed
<1>11. ASSUME NEW t \in Tasks, Refuse(t)
       PROVE  RunnersKeepTheirRows' /\ CleanUntilFailed'
  <2>1. Holding(t) /\ JobOf(t) \in Executions /\ row[JobOf(t)] \in Row
    BY <1>11, JobType DEF Refuse, Holding, TypeOK
  <2>2. CASE UNCHANGED row
    BY <1>2, <1>7, <1>11, <2>2 DEF Refuse
  <2>3. CASE row' = [row EXCEPT ![JobOf(t)] = Failed(row[JobOf(t)])]
    <3>1. PICK r : r = Failed(row[JobOf(t)])
      OBVIOUS
    <3>2. r.status = "failed" /\ row' = [row EXCEPT ![JobOf(t)] = r]
      BY <2>1, <2>3, <3>1, UpdatedErrors
    <3>3. ~Runner(t)' /\ \A u \in Tasks : Runner(u)' => Runner(u) /\ JobOf(u)' = JobOf(u)
      BY <1>7, <1>11 DEF Refuse
    <3> QED BY <1>10, <2>1, <3>2, <3>3
  <2> QED BY <1>11, <2>2, <2>3 DEF Refuse
<1>12. ASSUME NEW t \in Tasks, Start(t)
       PROVE  RunnersKeepTheirRows' /\ CleanUntilFailed'
  <2> DEFINE r == [row[JobOf(t)] EXCEPT !.status = "running"]
  <2>1. /\ Holding(t) /\ JobOf(t) \in Executions /\ row[JobOf(t)] \in Row
        /\ Ongoing(row[JobOf(t)])
    BY <1>12, JobType DEF Start, Holding, TypeOK, Runner, RunnersKeepTheirRows
  <2>2. \A u \in Tasks : Runner(u)' => Runner(u) /\ JobOf(u)' = JobOf(u)
    BY <1>12 DEF Start, Runner, JobOf, TypeOK
  <2>3. r.status = "running" /\ ~r.error
    BY <2>1 DEF Ongoing, Row
  <2>4. CASE UNCHANGED row
    BY <1>2, <2>2, <2>4
  <2>5. CASE row' = [row EXCEPT ![JobOf(t)] = r]
    <3> HIDE DEF r
    <3> QED BY <1>10, <2>1, <2>2, <2>3, <2>5 DEF Ongoing
  <2> QED BY <1>12, <2>4, <2>5 DEF Start
<1>13. ASSUME NEW t \in Tasks, Finish(t)
       PROVE  RunnersKeepTheirRows' /\ CleanUntilFailed'
  <2>1. /\ Holding(t) /\ JobOf(t) \in Executions /\ row[JobOf(t)] \in Row
        /\ Ongoing(row[JobOf(t)])
    BY <1>13, JobType DEF Finish, Holding, TypeOK, Runner, RunnersKeepTheirRows
  <2>2. PICK outcome \in {"completed", "failed"} :
          row' = [row EXCEPT ![JobOf(t)] = Outcome(row[JobOf(t)], outcome)]
    BY <1>13 DEF Finish
  <2>3. ~Runner(t)' /\ \A u \in Tasks : Runner(u)' => Runner(u) /\ JobOf(u)' = JobOf(u)
    BY <1>13 DEF Finish, Runner, JobOf, TypeOK
  <2>4. PICK r : r = Outcome(row[JobOf(t)], outcome)
    OBVIOUS
  <2>5. r.status \notin {"failed", "cancelled"} => ~r.error
    <3>1. r.status = outcome /\ r.error = (row[JobOf(t)].error \/ outcome = "failed")
      BY <2>1, <2>4, UpdatedErrors
    <3> QED BY <2>1, <3>1 DEF Ongoing
  <2> QED BY <1>10, <2>1, <2>2, <2>3, <2>4, <2>5
<1>14. ASSUME NEW t \in Tasks, Stale(t) \/ Raise(t)
       PROVE  RunnersKeepTheirRows' /\ CleanUntilFailed'
  BY <1>2, <1>14 DEF Stale, Raise, Runner, JobOf, TypeOK
<1>15. ASSUME NEW t \in Tasks, ClaimRaise(t) \/ Abort(t)
       PROVE  RunnersKeepTheirRows' /\ CleanUntilFailed'
  BY <1>2, <1>7, <1>15 DEF ClaimRaise, Abort
<1>16. ASSUME NEW t \in Tasks, Release(t)
       PROVE  RunnersKeepTheirRows' /\ CleanUntilFailed'
  <2>1. JobOf(t) \in Executions
    BY <1>16, JobType DEF Release
  <2>2. \A e \in Executions : Harmless(row[e], row'[e])
    BY <1>16, <2>1 DEF Release, Harmless, TypeOK, Row
  <2> QED BY <1>4, <1>7, <1>16, <2>2 DEF Release
<1>17. ASSUME NEW p \in Processes, Boot(p)
       PROVE  RunnersKeepTheirRows' /\ CleanUntilFailed'
  <2>1. \A t \in Tasks : ~Runner(t)'
    BY <1>17, DownIsIdle DEF Boot, Runner, TypeOK, Tasks
  <2>2. CleanUntilFailed'
    BY <1>17, UpdatedErrors DEF Boot, Recovered, CleanUntilFailed, TypeOK
  <2> QED BY <2>1, <2>2 DEF RunnersKeepTheirRows
<1>18. ASSUME NEW p \in Processes, Exit(p) \/ Crash(p)
       PROVE  RunnersKeepTheirRows' /\ CleanUntilFailed'
  <2>1. \A t \in Tasks : Runner(t)' => Runner(t) /\ JobOf(t)' = JobOf(t)
    BY <1>18, DieMove DEF Exit, Crash, Runner
  <2>2. \A e \in Executions : Harmless(row[e], row'[e])
    BY <1>18 DEF Exit, Crash, Harmless, TypeOK, Row
  <2> QED BY <1>4, <2>1, <2>2
<1>19. CASE UNCHANGED vars
  BY <1>2, <1>19 DEF vars, Runner, JobOf
<1> QED
  BY <1>1, <1>3, <1>5, <1>6, <1>8, <1>9, <1>11, <1>12, <1>13, <1>14, <1>15,
     <1>16, <1>17, <1>18, <1>19 DEF Next, TaskStep

LEMMA AlwaysUninterrupted == ASSUME OneProcess PROVE Spec => []Uninterrupted
<1>1. Init => Uninterrupted
  BY InitUninterrupted
<1>2. TypeOK /\ ClaimInv /\ Uninterrupted /\ [Next]_vars => Uninterrupted'
  BY NextUninterrupted
<1> QED
  BY <1>1, <1>2, TypeCorrect, ClaimsAreDisciplined, PTL DEF Spec

\* With one process, a completed run carries no error, neither of recovery nor of
\* the executor.
THEOREM CompletedIsAlwaysClean == ASSUME OneProcess PROVE Spec => []CompletedIsClean
<1>1. Uninterrupted => CompletedIsClean
  BY DEF Uninterrupted, CleanUntilFailed, CompletedIsClean
<1> QED
  BY <1>1, AlwaysUninterrupted, PTL

-----------------------------------------------------------------------------
(* Outcomes.                                                                *)

Final == Terminal \cup {"deleted"}

\* A row nobody runs keeps its outcome, but for a cancel or a deletion.
LEMMA OutcomeStays ==
  ASSUME TypeOK, [Next]_vars, NEW e \in Executions, row[e].status \in Final,
         \A t \in Tasks : Runner(t) => JobOf(t) # e
  PROVE  row'[e].status \in {row[e].status, "cancelled", "deleted"}
<1>1. row[e] \in Row
  BY DEF TypeOK
<1>2. ASSUME NEW f \in Executions, NEW p \in Processes, Submit(f, p)
      PROVE  row'[e] = row[e]
  BY <1>2 DEF Submit, TypeOK, Final, Terminal
<1>3. ASSUME NEW p \in Processes, CancelWrite(p)
      PROVE  row'[e].status \in {row[e].status, "cancelled"}
  BY <1>1, <1>3, UpdatedColumns DEF CancelWrite, TypeOK
<1>4. ASSUME NEW f \in Executions, Delete(f) \/ LeaseExpires(f)
      PROVE  row'[e].status \in {row[e].status, "deleted"}
  <2>1. CASE Delete(f)
    BY <1>1, <2>1 DEF Delete, Blank, TypeOK
  <2>2. CASE LeaseExpires(f)
    BY <1>1, <2>2 DEF LeaseExpires, TypeOK, Row
  <2> QED BY <1>4, <2>1, <2>2
<1>5. ASSUME NEW t \in Tasks, TaskStep(t) PROVE row'[e].status = row[e].status
  <2>1. CASE Claim(t)
    BY <2>1 DEF Claim, ClaimWon, ClaimLost, Claimable, TypeOK, Final, Terminal
  <2>2. CASE Load(t) \/ Stale(t)
    BY <2>2 DEF Load, Stale
  <2>3. CASE Refuse(t)
    BY <2>3 DEF Refuse, Runner, TypeOK
  <2>4. CASE Start(t)
    BY <2>4 DEF Start, Runner, TypeOK
  <2>5. CASE Finish(t)
    BY <2>5 DEF Finish, Runner, TypeOK
  <2>6. CASE Release(t)
    BY <1>1, <2>6 DEF Release, TypeOK, Row
  <2> QED BY <1>5, <2>1, <2>2, <2>3, <2>4, <2>5, <2>6 DEF TaskStep
<1>6. ASSUME NEW t \in Tasks, ClaimRaise(t) \/ Raise(t) \/ Abort(t)
      PROVE  row'[e] = row[e]
  BY <1>6 DEF ClaimRaise, Raise, Abort
<1>7. ASSUME NEW p \in Processes, Boot(p) PROVE row'[e] = row[e]
  BY <1>7 DEF Boot, Recovered, Final, Terminal
<1>8. ASSUME NEW p \in Processes, Exit(p) PROVE row'[e].status = row[e].status
  BY <1>1, <1>8 DEF Exit, Row
<1>9. ASSUME NEW p \in Processes,
             DrainSelect(p) \/ Stop(p) \/ Crash(p) \/ \E f \in Executions : CancelRead(p, f)
      PROVE  row'[e] = row[e]
  BY <1>9 DEF DrainSelect, Stop, Crash, CancelRead
<1>10. CASE UNCHANGED vars
  BY <1>10 DEF vars
<1> QED
  BY <1>2, <1>3, <1>4, <1>5, <1>6, <1>7, <1>8, <1>9, <1>10 DEF Next

\* With one process, no completed or failed run is set running, failed or completed
\* afterwards: only a cancel that read the row before can overturn it.
THEOREM OutcomesAreFinal == ASSUME OneProcess PROVE Spec => OutcomeIsFinal
<1>1. ASSUME TypeOK, Uninterrupted, [Next]_vars, NEW e \in Executions,
             row[e].status \in {"completed", "failed"}
      PROVE  row'[e].status \in {row[e].status, "cancelled", "deleted"}
  BY <1>1, OutcomeStays
  DEF Uninterrupted, RunnersKeepTheirRows, Ongoing, Final, Terminal
<1>2. TypeOK /\ Uninterrupted /\ [Next]_vars =>
        [\A e \in Executions :
           row[e].status \in {"completed", "failed"} =>
             row'[e].status \in {row[e].status, "cancelled", "deleted"}]_vars
  BY <1>1
<1> QED
  BY <1>2, TypeCorrect, AlwaysUninterrupted, PTL DEF Spec, OutcomeIsFinal

-----------------------------------------------------------------------------
(* The executor sets the terminal status, if nothing raises.                *)

\* Whoever comes to release its lease has just finished, or found its row deleted.
LEMMA Releasing ==
  ASSUME NoneRaises, TypeOK, [Next]_vars, NEW t \in Tasks,
         pc'[t] = "release", pc[t] # "release"
  PROVE  /\ JobOf(t)' = JobOf(t) /\ JobOf(t) \in Executions
         /\ row'[JobOf(t)].status \in Final
<1>1. CASE Finish(t)
  <2>1. JobOf(t) \in Executions /\ JobOf(t)' = JobOf(t) /\ row[JobOf(t)] \in Row
    BY <1>1, JobType DEF Finish, JobOf, TypeOK
  <2>2. PICK outcome \in {"completed", "failed"} :
          row' = [row EXCEPT ![JobOf(t)] = Outcome(row[JobOf(t)], outcome)]
    BY <1>1 DEF Finish
  <2>3. row'[JobOf(t)].status = outcome
    BY <2>1, <2>2, UpdatedColumns DEF TypeOK
  <2> QED BY <2>1, <2>3 DEF Final, Terminal
<1>2. CASE Stale(t)
  BY <1>2, JobType DEF Stale, JobOf, Final
<1>3. ASSUME NEW u \in Tasks, TaskStep(u) PROVE Finish(t) \/ Stale(t)
  BY <1>3 DEF TaskStep, Claim, ClaimWon, ClaimLost, Load, Refuse, Start, Finish, Stale,
              Release, Return, TypeOK
<1>4. ASSUME NEW u \in Tasks, ClaimRaise(u) \/ Raise(u) \/ Abort(u) PROVE FALSE
  BY <1>4 DEF ClaimRaise, Raise, Abort, Fault, NoneRaises
<1>5. CASE \/ \E e \in Executions, p \in Processes : Submit(e, p) \/ CancelRead(p, e)
           \/ \E p \in Processes : CancelWrite(p) \/ DrainSelect(p)
           \/ \E e \in Executions : Delete(e) \/ LeaseExpires(e)
           \/ \E p \in Processes : Boot(p) \/ Stop(p) \/ Exit(p) \/ Crash(p)
           \/ UNCHANGED vars
  BY <1>5 DEF Submit, CancelRead, CancelWrite, DrainSelect, Delete, LeaseExpires, Boot,
              Stop, Exit, Crash, Die, vars, TypeOK
<1> QED BY <1>1, <1>2, <1>3, <1>4, <1>5 DEF Next

\* As long as a task is about to release its lease, its job is what it was.
LEMMA StillReleasing ==
  ASSUME TypeOK, [Next]_vars, NEW t \in Tasks, pc[t] = "release", pc'[t] = "release"
  PROVE  JobOf(t)' = JobOf(t)
<1>1. ASSUME NEW u \in Tasks,
             TaskStep(u) \/ ClaimRaise(u) \/ Raise(u) \/ Abort(u)
      PROVE  JobOf(t)' = JobOf(t)
  BY <1>1 DEF TaskStep, Claim, ClaimWon, ClaimLost, Load, Refuse, Start, Finish, Stale,
              Release, ClaimRaise, Raise, Abort, Return, JobOf, TypeOK
<1>2. CASE \/ \E e \in Executions, p \in Processes : Submit(e, p) \/ CancelRead(p, e)
           \/ \E p \in Processes : CancelWrite(p) \/ DrainSelect(p)
           \/ \E e \in Executions : Delete(e) \/ LeaseExpires(e)
           \/ \E p \in Processes : Boot(p) \/ Stop(p)
           \/ UNCHANGED vars
  BY <1>2 DEF Submit, CancelRead, CancelWrite, DrainSelect, Delete, LeaseExpires, Boot,
              Stop, vars, JobOf, TypeOK
<1>3. ASSUME NEW p \in Processes, Exit(p) \/ Crash(p) PROVE JobOf(t)' = JobOf(t)
  BY <1>3, DieMove DEF Exit, Crash
<1> QED BY <1>1, <1>2, <1>3 DEF Next

\* When a lease is about to be released, the run it was for is finished: with any
\* number of processes, as long as no database call and no executor raises.
THEOREM ExecutorAlwaysSetsTerminal ==
  ASSUME NoneRaises PROVE Spec => []ExecutorSetTerminal
<1>1. Init => ExecutorSetTerminal
  BY DEF Init, ExecutorSetTerminal
<1>2. TypeOK /\ ClaimInv /\ ExecutorSetTerminal /\ [Next]_vars => ExecutorSetTerminal'
  <2> SUFFICES ASSUME TypeOK, ClaimInv, ExecutorSetTerminal, [Next]_vars,
                      NEW t \in Tasks, pc'[t] = "release"
               PROVE  row'[JobOf(t)'].status \in Final
    BY DEF ExecutorSetTerminal, Final
  <2>1. CASE pc[t] = "release"
    <3>1. JobOf(t) \in Executions /\ row[JobOf(t)].status \in Final
      BY <2>1, JobType DEF ExecutorSetTerminal, Final
    <3>2. \A u \in Tasks : Runner(u) => JobOf(u) # JobOf(t)
      BY <2>1, OnlyRunner DEF Runner, Holding
    <3>3. row'[JobOf(t)].status \in Final
      BY <3>1, <3>2, OutcomeStays DEF Final, Terminal
    <3> QED BY <2>1, <3>3, StillReleasing
  <2>2. CASE pc[t] # "release"
    BY <2>2, Releasing
  <2> QED BY <2>1, <2>2
<1> QED
  BY <1>1, <1>2, TypeCorrect, ClaimsAreDisciplined, PTL DEF Spec

-----------------------------------------------------------------------------
(* Recovery.                                                                *)

Has(t, e) == Holding(t) /\ JobOf(t) = e

\* With one process that recovers when it boots, somebody still runs a running row
\* after every step, because tasks that return leave a row that is not running.
LEMMA NextRunning ==
  ASSUME OneProcess, NoneRaises, WorkerEnabled, TypeOK, ClaimInv,
         ExecutorSetTerminal, RunningIsRun, [Next]_vars
  PROVE  RunningIsRun'
<1> SUFFICES ASSUME NEW e \in Executions, row'[e].status = "running",
                    NEW p \in Processes, up'[p] # "down"
             PROVE  \E t \in Tasks : Has(t, e)'
  BY DEF RunningIsRun, Has
<1>1. Processes = {p}
  BY DEF OneProcess
<1>2. ASSUME UNCHANGED up, row[e].status = "running" PROVE \E t \in Tasks : Has(t, e)
  BY <1>2 DEF RunningIsRun, Has
\* Nobody who has an execution lets go of it.
<1>3. ASSUME UNCHANGED up, row[e].status = "running",
             \A t \in Tasks : Has(t, e) => Has(t, e)'
      PROVE  \E t \in Tasks : Has(t, e)'
  BY <1>2, <1>3
<1>4. row[e] \in Row
  BY DEF TypeOK
<1>10. ASSUME NEW f \in Executions, NEW q \in Processes, Submit(f, q)
       PROVE  \E t \in Tasks : Has(t, e)'
  <2>1. UNCHANGED up /\ row[e].status = "running" /\ row[f].status # "running"
    BY <1>4, <1>10 DEF Submit, Blank, TypeOK
  <2>2. \A t \in Tasks : Has(t, e) => t # f
    BY <1>10, <2>1, QueueAssumption DEF Has, Holding, JobOf
  <2>3. \A t \in Tasks : t # f => pc'[t] = pc[t] /\ JobOf(t)' = JobOf(t)
    BY <1>10 DEF Submit, JobOf, TypeOK
  <2> QED BY <1>3, <2>1, <2>2, <2>3 DEF Has, Holding
<1>11. ASSUME UNCHANGED <<up, pc, job>>, row[e].status = "running"
       PROVE  \E t \in Tasks : Has(t, e)'
  BY <1>3, <1>11 DEF Has, Holding, JobOf
<1>12. ASSUME NEW q \in Processes,
              CancelWrite(q) \/ \E f \in Executions : CancelRead(q, f)
       PROVE  \E t \in Tasks : Has(t, e)'
  <2>1. row[e].status = "running"
    <3>1. CASE CancelWrite(q)
      BY <1>4, <3>1, UpdatedColumns DEF CancelWrite, TypeOK
    <3>2. CASE \E f \in Executions : CancelRead(q, f)
      BY <3>2 DEF CancelRead
    <3> QED BY <1>12, <3>1, <3>2
  <2> QED BY <1>11, <1>12, <2>1 DEF CancelWrite, CancelRead
<1>13. ASSUME NEW q \in Processes, DrainSelect(q)
       PROVE  \E t \in Tasks : Has(t, e)'
  <2>1. UNCHANGED up /\ row[e].status = "running" /\ ~Holding(q)
    BY <1>13 DEF DrainSelect, Holding
  <2>2. \A t \in Tasks : t # q => pc'[t] = pc[t] /\ JobOf(t)' = JobOf(t)
    BY <1>13 DEF DrainSelect, JobOf, TypeOK
  <2> QED BY <1>3, <2>1, <2>2 DEF Has, Holding
<1>14. ASSUME NEW f \in Executions, Delete(f) \/ LeaseExpires(f)
       PROVE  \E t \in Tasks : Has(t, e)'
  <2>1. row[e].status = "running"
    <3>1. CASE Delete(f)
      BY <1>4, <3>1 DEF Delete, Blank, TypeOK
    <3>2. CASE LeaseExpires(f)
      BY <1>4, <3>2 DEF LeaseExpires, TypeOK, Row
    <3> QED BY <1>14, <3>1, <3>2
  <2> QED BY <1>11, <1>14, <2>1 DEF Delete, LeaseExpires
<1>15. CASE UNCHANGED vars
  BY <1>11, <1>15 DEF vars
<1>5. ASSUME NEW u \in Tasks, TaskStep(u) PROVE \E t \in Tasks : Has(t, e)'
  <2>1. UNCHANGED up
    BY <1>5 DEF TaskStep, Claim, Load, Refuse, Start, Finish, Stale, Release
  <2>2. CASE Has(u, e)'
    BY <2>2
  <2>3. CASE ~Has(u, e)' /\ row[e].status = "running" /\ ~Has(u, e)
    <3>1. \A t \in Tasks : t # u => pc'[t] = pc[t] /\ JobOf(t)' = JobOf(t)
      BY <1>5 DEF TaskStep, Claim, ClaimWon, ClaimLost, Load, Refuse, Start, Finish, Stale,
                  Release, Return, JobOf, TypeOK
    <3> QED BY <1>3, <2>1, <2>3, <3>1 DEF Has, Holding
  <2>4. CASE ~Has(u, e)' /\ row[e].status # "running"
    <3>1. CASE Claim(u)
      <4>1. ClaimWon(u) /\ JobOf(u) = e
        BY <2>4, <3>1 DEF Claim, ClaimWon, ClaimLost, TypeOK
      <4>2. pc'[u] = "claimed" /\ JobOf(u)' = JobOf(u)
        BY <4>1 DEF ClaimWon, JobOf, TypeOK
      <4> QED BY <2>4, <4>1, <4>2 DEF Has, Holding
    <3>2. CASE Start(u)
      <4>1. JobOf(u) = e
        BY <2>4, <3>2 DEF Start, TypeOK
      <4>2. pc'[u] = "running" /\ JobOf(u)' = JobOf(u)
        BY <3>2 DEF Start, JobOf, TypeOK
      <4> QED BY <2>4, <4>1, <4>2 DEF Has, Holding
    <3>3. CASE Refuse(u) \/ Finish(u)
      BY <1>4, <2>4, <3>3, UpdatedColumns DEF Refuse, Finish, TypeOK
    <3>4. CASE Load(u) \/ Stale(u)
      BY <2>4, <3>4 DEF Load, Stale
    <3>5. CASE Release(u)
      BY <1>4, <2>4, <3>5 DEF Release, TypeOK, Row
    <3> QED BY <1>5, <3>1, <3>2, <3>3, <3>4, <3>5 DEF TaskStep
  <2>5. CASE ~Has(u, e)' /\ row[e].status = "running" /\ Has(u, e)
    <3>1. JobOf(u) = e /\ Holding(u)
      BY <2>5 DEF Has
    <3>2. CASE Claim(u)
      BY <3>1, <3>2 DEF Claim, Holding
    <3>3. CASE Load(u) \/ Start(u) \/ Finish(u) \/ Stale(u)
      BY <2>5, <3>1, <3>3
      DEF Load, Start, Finish, Stale, Exists, Has, Holding, JobOf, TypeOK
    <3>4. CASE Refuse(u)
      BY <2>5, <3>1, <3>4, UpdatedColumns DEF Refuse, Exists, TypeOK
    <3>5. CASE Release(u)
      BY <2>5, <3>1, <3>5 DEF Release, ExecutorSetTerminal, Terminal
    <3> QED BY <1>5, <3>2, <3>3, <3>4, <3>5 DEF TaskStep
  <2> QED BY <2>2, <2>3, <2>4, <2>5
<1>6. ASSUME NEW u \in Tasks, ClaimRaise(u) \/ Raise(u) \/ Abort(u) PROVE FALSE
  BY <1>6 DEF ClaimRaise, Raise, Abort, Fault, NoneRaises
<1>7. ASSUME NEW q \in Processes, Boot(q) PROVE FALSE
  <2>1. row'[e] = IF row[e].status = "running" THEN Failed(row[e]) ELSE row[e]
    BY <1>7 DEF Boot, Recovered
  <2> QED BY <1>4, <2>1, UpdatedColumns
<1>8. ASSUME NEW q \in Processes, Stop(q) PROVE \E t \in Tasks : Has(t, e)'
  BY <1>1, <1>8 DEF Stop, RunningIsRun, Has, Holding, JobOf
<1>9. ASSUME NEW q \in Processes, Exit(q) \/ Crash(q) PROVE FALSE
  BY <1>1, <1>9 DEF Exit, Crash, Die, TypeOK
<1> QED
  BY <1>5, <1>6, <1>7, <1>8, <1>9, <1>10, <1>12, <1>13, <1>14, <1>15 DEF Next

\* With one process whose worker is enabled, and nothing that raises, a row is
\* running while the process is up only if a task of it runs the execution.
THEOREM RunningIsAlwaysRun ==
  ASSUME OneProcess, NoneRaises, WorkerEnabled PROVE Spec => []RunningIsRun
<1>1. Init => RunningIsRun
  BY DEF Init, RunningIsRun
<1>2. TypeOK /\ ClaimInv /\ ExecutorSetTerminal /\ RunningIsRun /\ [Next]_vars =>
        RunningIsRun'
  BY NextRunning
<1> QED
  BY <1>1, <1>2, TypeCorrect, ClaimsAreDisciplined, ExecutorAlwaysSetsTerminal, PTL
  DEF Spec

\* A row becomes failed by the one who has it, or at a boot, when nobody has any.
LEMMA FailedStep ==
  ASSUME OneProcess, TypeOK, ClaimInv, TasksAreHoused, [Next]_vars,
         NEW e \in Executions, row[e].status = "running", row'[e].status = "failed",
         NEW t \in Tasks, Has(t, e)
  PROVE  pc'[t] # pc[t]
<1>1. row[e] \in Row
  BY DEF TypeOK
<1>2. ASSUME NEW u \in Tasks, Refuse(u) \/ Finish(u) PROVE pc'[t] # pc[t]
  <2>1. Holding(u) /\ JobOf(u) = e
    BY <1>2 DEF Refuse, Finish, Holding, TypeOK
  <2>2. u = t
    BY <2>1 DEF Has, ClaimInv, AtMostOnce
  <2> QED BY <1>2, <2>2 DEF Refuse, Finish, Return, TypeOK
<1>3. ASSUME NEW u \in Tasks, TaskStep(u) PROVE Refuse(u) \/ Finish(u)
  <2>1. CASE Claim(u)
    BY <2>1 DEF Claim, ClaimWon, ClaimLost, Claimable, TypeOK
  <2>2. CASE Load(u) \/ Stale(u)
    BY <2>2 DEF Load, Stale
  <2>3. CASE Start(u)
    BY <1>1, <2>3 DEF Start, TypeOK, Row
  <2>4. CASE Release(u)
    BY <1>1, <2>4 DEF Release, TypeOK, Row
  <2> QED BY <1>3, <2>1, <2>2, <2>3, <2>4 DEF TaskStep
<1>4. ASSUME NEW u \in Tasks, ClaimRaise(u) \/ Raise(u) \/ Abort(u) PROVE FALSE
  BY <1>4 DEF ClaimRaise, Raise, Abort
<1>5. ASSUME NEW q \in Processes, Boot(q) PROVE FALSE
  BY <1>5, DownIsIdle DEF Boot, Has, Holding
<1>6. ASSUME NEW q \in Processes,
             \/ CancelWrite(q) \/ DrainSelect(q) \/ Stop(q) \/ Exit(q) \/ Crash(q)
             \/ \E f \in Executions : Submit(f, q) \/ CancelRead(q, f)
      PROVE  FALSE
  <2>1. CASE CancelWrite(q)
    BY <1>1, <2>1, UpdatedColumns DEF CancelWrite, TypeOK
  <2>2. CASE Exit(q)
    BY <1>1, <2>2 DEF Exit, Row
  <2>3. CASE DrainSelect(q) \/ Stop(q) \/ Crash(q) \/ \E f \in Executions : CancelRead(q, f)
    BY <2>3 DEF DrainSelect, Stop, Crash, CancelRead
  <2>4. ASSUME NEW f \in Executions, Submit(f, q) PROVE FALSE
    BY <1>1, <2>4 DEF Submit, Blank, TypeOK
  <2> QED BY <1>6, <2>1, <2>2, <2>3, <2>4
<1>7. ASSUME NEW f \in Executions, Delete(f) \/ LeaseExpires(f) PROVE FALSE
  <2>1. CASE Delete(f)
    BY <1>1, <2>1 DEF Delete, Blank, TypeOK
  <2>2. CASE LeaseExpires(f)
    BY <1>1, <2>2 DEF LeaseExpires, TypeOK, Row
  <2> QED BY <1>7, <2>1, <2>2
<1>8. CASE UNCHANGED vars
  BY <1>8 DEF vars
<1> QED BY <1>2, <1>3, <1>4, <1>5, <1>6, <1>7, <1>8 DEF Next

\* With one process, a running row becomes failed by a step of the task that runs
\* it, or nobody runs it: recovery fails the executions of the dead only.
THEOREM RecoveryAlwaysSparesTheLiving ==
  ASSUME OneProcess PROVE Spec => RecoverySparesTheLiving
<1>1. TypeOK /\ ClaimInv /\ Uninterrupted /\ [Next]_vars => [FailedByItsRunner]_vars
  BY FailedStep DEF Uninterrupted, FailedByItsRunner, Has
<1> QED
  BY <1>1, TypeCorrect, ClaimsAreDisciplined, AlwaysUninterrupted, PTL
  DEF Spec, RecoverySparesTheLiving

=============================================================================
