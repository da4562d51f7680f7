--------------------------- MODULE WorkflowRunProofs ---------------------------
(* What one run of a workflow guarantees, for every set of workflows, every    *)
(* number of nodes and edges, retries and width of the semaphore.  The         *)
(* invariant says how far each coroutine, the level it is in and the books     *)
(* stand; that every dependency is in an earlier level comes from              *)
(* LevelsRespectEdges.                                                         *)
EXTENDS WorkflowRun, WorkflowGraphProofs

Row(n, a, s) == [node |-> n, attempt |-> a, status |-> s]

\* The rows of a node's attempts: all but the last failed.
History(n, last) ==
    AttemptsOf(n) = {Row(n, a, IF a < attempt[n] THEN "failed" ELSE last) :
                       a \in 1 .. attempt[n]}

\* What has become of a node, by where its coroutine stands.
Stands(n, last) ==
    /\ History(n, last)
    /\ attempt[n] <= RetryMax(n)
    /\ pc[n] \in {"idle", "waiting"} => attempt[n] = 0
    /\ pc[n] = "running" => attempt[n] > 0 /\ last = "running"
    /\ pc[n] = "backoff" =>
         attempt[n] > 0 /\ attempt[n] < RetryMax(n) /\ last = "failed"
    /\ pc[n] = "done" => attempt[n] > 0
    /\ outcome[n] = "failed" => attempt[n] = RetryMax(n) /\ last = "failed"
    /\ outcome[n] \in Successes <=> last = "completed"
    /\ outcome[n] # "none" <=> pc[n] = "done"

Lasts == {"running", "completed", "failed"}
Standing(n) == \E last \in Lasts : Stands(n, last)

InLevels == /\ Levelled(workflow.nodes, workflow.edges, levels)
            /\ TargetsKnown(workflow.nodes, workflow.edges)

Entered(n) == \E l \in 1 .. level : n \in levels[l]

\* The executor's levels, by its phase.
Phased ==
    /\ workflow \in Workflows
    /\ InLevels \/ (levels = << >> /\ level = 0)
    /\ phase \in {"level", "gather"} \/ status = "completed" => InLevels
    /\ phase = "claimed" => levels = << >> /\ level = 0
    /\ phase = "gather" => level > 0
    /\ status = "completed" => phase = "over" /\ level = Len(levels)

\* Only the level entered last has coroutines at work, and none once it is passed.
Progress ==
    /\ \A n \in Nodes : Standing(n)
    /\ \A n \in Nodes : pc[n] # "idle" \/ Skipped(n) => Entered(n)
    /\ \A n \in Nodes : Entered(n) => (Skipped(n) <=> pc[n] = "idle")
    /\ \A l \in 1 .. level : l < level \/ phase \in {"level", "over"} =>
         \A n \in levels[l] : pc[n] \in {"idle", "done"}

Running == TypeOK /\ Phased /\ Progress

-----------------------------------------------------------------------------
(* The workflow.                                                            *)

LEMMA NodesAre ==
  ASSUME workflow \in Workflows
  PROVE  /\ Lists(workflow.nodes, workflow.edges)
         /\ Nodes \subseteq Nat \ {0}
         /\ IsFiniteSet(Nodes)
         /\ \A n \in Nodes : NodeOf(n) \in [id : Nat \ {0}, trigger : BOOLEAN,
                                            maxAttempts : Int]
<1> DEFINE V == [id : Nat \ {0}, trigger : BOOLEAN, maxAttempts : Int]
           W == [source : Nat, target : Nat, kind : {"normal", "error"},
                 condition : [ref : Nat, key : {"result", "else", "failed", "always"}]]
<1>1. workflow.nodes \in Seq(V) /\ Lists(workflow.nodes, workflow.edges)
  <2>1. workflow.nodes \in Seq(V) /\ workflow.edges \in Seq(W)
    BY WorkflowsAreLists, Zenon
  <2> HIDE DEF V, W
  <2> QED BY <2>1 DEF Lists
<1>2. IsFiniteSet(Nodes)
  BY <1>1, IdsFinite DEF Nodes
<1>3. \A n \in Nodes : \E i \in DOMAIN workflow.nodes : workflow.nodes[i].id = n
  BY DEF Nodes, Ids
<1>4. \A i \in DOMAIN workflow.nodes : workflow.nodes[i] \in V
  <2> HIDE DEF V
  <2> QED BY <1>1
<1>5. Nodes \subseteq Nat \ {0}
  BY <1>3, <1>4
<1>6. ASSUME NEW n \in Nodes
      PROVE  NodeOf(n) \in [id : Nat \ {0}, trigger : BOOLEAN, maxAttempts : Int]
  BY <1>3, <1>4 DEF NodeOf
<1> QED BY <1>1, <1>2, <1>5, <1>6

\* The policy's number of attempts, cut to 1 .. 10.
LEMMA RetryMaxIs ==
  ASSUME workflow \in Workflows, NEW n \in Nodes
  PROVE  RetryMax(n) \in 1 .. 10
<1> DEFINE x == NodeOf(n).maxAttempts
           y == FX!Min({10, x})
<1>1. x \in Int
  BY NodesAre
<1> HIDE DEF x
<1>2. y \in Int /\ y <= 10
  <2>1. \E m \in {10, x} : \A k \in {10, x} : m =< k
    BY <1>1
  <2>2. y \in {10, x} /\ \A k \in {10, x} : y =< k
    BY <2>1 DEF FX!Min
  <2> QED BY <1>1, <2>2
<1> HIDE DEF y
<1>3. FX!Max({1, y}) \in 1 .. 10
  <2>1. \E m \in {1, y} : \A k \in {1, y} : m >= k
    BY <1>2
  <2>2. FX!Max({1, y}) \in {1, y} /\ \A k \in {1, y} : FX!Max({1, y}) >= k
    BY <2>1 DEF FX!Max
  <2> QED BY <1>2, <2>2
<1> QED BY <1>3 DEF RetryMax, x, y

\* A node is in one level, and LevelOf names it.
LEMMA LevelIs ==
  ASSUME InLevels
  PROVE  /\ levels \in Seq(SUBSET Nodes)
         /\ \A n \in Nodes : LevelOf(n) \in 1 .. Len(levels) /\ n \in levels[LevelOf(n)]
         /\ \A l \in 1 .. Len(levels) : \A n \in levels[l] :
              n \in Nodes /\ LevelOf(n) = l
<1>1. /\ levels \in Seq(SUBSET Nodes)
      /\ \A n \in Nodes : \E l \in 1 .. Len(levels) : n \in levels[l]
      /\ \A l, m \in 1 .. Len(levels) : l # m => levels[l] \cap levels[m] = {}
  BY DEF InLevels, Levelled, Nodes
<1>2. DOMAIN levels = 1 .. Len(levels)
  BY <1>1
<1>3. \A n \in Nodes : LevelOf(n) \in 1 .. Len(levels) /\ n \in levels[LevelOf(n)]
  BY <1>1, <1>2 DEF LevelOf
<1>4. ASSUME NEW l \in 1 .. Len(levels), NEW n \in levels[l]
      PROVE  n \in Nodes /\ LevelOf(n) = l
  <2>1. n \in Nodes
    BY <1>1
  <2> QED BY <1>1, <1>3, <2>1
<1> QED BY <1>1, <1>3, <1>4

-----------------------------------------------------------------------------
(* The coroutines.                                                          *)

\* Rows of a node's attempts come and go: no other node's do, and none is skipped.
LEMMA RowsOf ==
  ASSUME NEW n, NEW Old, NEW new, rows' = (rows \ Old) \cup {new},
         \A r \in Old \cup {new} : r.node = n /\ r.status # "skipped"
  PROVE  /\ AttemptsOf(n)' = (AttemptsOf(n) \ Old) \cup {new}
         /\ \A m : m # n => AttemptsOf(m)' = AttemptsOf(m)
         /\ \A m : Skipped(m)' <=> Skipped(m)
<1>1. AttemptsOf(n)' = (AttemptsOf(n) \ Old) \cup {new}
  BY DEF AttemptsOf
<1>2. ASSUME NEW m, m # n PROVE AttemptsOf(m)' = AttemptsOf(m)
  BY <1>2 DEF AttemptsOf
<1>3. ASSUME NEW m PROVE Skipped(m)' <=> Skipped(m)
  <2>1. Skipped(m) => Skipped(m)'
    BY DEF Skipped
  <2>2. Skipped(m)' => Skipped(m)
    BY DEF Skipped
  <2> QED BY <2>1, <2>2
<1> QED BY <1>1, <1>2, <1>3

\* An attempt is recorded, or is settled.
LEMMA RecordedIs ==
  ASSUME NEW n \in Nodes, NEW a \in 1 .. 10, TypeOK, rows' = rows \cup {NewRow(n, a)}
  PROVE  /\ rows' \subseteq [node : Nodes, attempt : 1 .. 10,
                             status : {"running", "completed", "failed", "skipped"}]
         /\ AttemptsOf(n)' = AttemptsOf(n) \cup {Row(n, a, "running")}
         /\ \A m : m # n => AttemptsOf(m)' = AttemptsOf(m)
         /\ \A m : Skipped(m)' <=> Skipped(m)
<1>1. NewRow(n, a) = Row(n, a, "running") /\ rows' = (rows \ {}) \cup {NewRow(n, a)}
  BY DEF NewRow, Row
<1>2. \A r \in {} \cup {NewRow(n, a)} : r.node = n /\ r.status # "skipped"
  BY DEF NewRow
<1>3. rows' \subseteq [node : Nodes, attempt : 1 .. 10,
                       status : {"running", "completed", "failed", "skipped"}]
  BY DEF TypeOK, NewRow
<1>4. /\ AttemptsOf(n)' = (AttemptsOf(n) \ {}) \cup {NewRow(n, a)}
      /\ \A m : m # n => AttemptsOf(m)' = AttemptsOf(m)
      /\ \A m : Skipped(m)' <=> Skipped(m)
  BY <1>1, <1>2, RowsOf, Zenon
<1> QED BY <1>1, <1>3, <1>4

LEMMA SettledIs ==
  ASSUME NEW n \in Nodes, NEW a \in 1 .. 10, NEW s \in {"completed", "failed"},
         TypeOK, rows' = Settle(n, a, s)
  PROVE  /\ rows' \subseteq [node : Nodes, attempt : 1 .. 10,
                             status : {"running", "completed", "failed", "skipped"}]
         /\ AttemptsOf(n)' = (AttemptsOf(n) \ {Row(n, a, "running")}) \cup {Row(n, a, s)}
         /\ \A m : m # n => AttemptsOf(m)' = AttemptsOf(m)
         /\ \A m : Skipped(m)' <=> Skipped(m)
<1>1. /\ rows' = (rows \ {Row(n, a, "running")}) \cup {Row(n, a, s)}
      /\ Row(n, a, s) \in [node : Nodes, attempt : 1 .. 10,
                           status : {"running", "completed", "failed", "skipped"}]
  BY DEF Settle, NewRow, Row
<1>2. \A r \in {Row(n, a, "running")} \cup {Row(n, a, s)} :
        r.node = n /\ r.status # "skipped"
  BY DEF Row
<1>3. rows' \subseteq [node : Nodes, attempt : 1 .. 10,
                       status : {"running", "completed", "failed", "skipped"}]
  BY <1>1 DEF TypeOK
<1>4. rows' = (rows \ {Row(n, a, "running")}) \cup {Row(n, a, s)}
  BY <1>1
<1>5. /\ AttemptsOf(n)' = (AttemptsOf(n) \ {Row(n, a, "running")}) \cup {Row(n, a, s)}
      /\ \A m : m # n => AttemptsOf(m)' = AttemptsOf(m)
      /\ \A m : Skipped(m)' <=> Skipped(m)
  BY <1>2, <1>4, RowsOf, Zenon
<1> QED BY <1>3, <1>5

\* A step of a node's coroutine leaves the other nodes alone.
Moves(n) ==
    /\ n \in Nodes /\ pc[n] \in {"waiting", "running", "backoff"}
    /\ UNCHANGED books
    /\ phase' \in {phase, "raised"}
    /\ pc' \in [Nodes -> {"idle", "waiting", "running", "backoff", "done", "raised"}]
    /\ pc'[n] # "idle"
    /\ attempt' \in [Nodes -> 0 .. 10]
    /\ outcome' \in [Nodes -> Outcomes]
    /\ rows' \subseteq [node : Nodes, attempt : 1 .. 10,
                        status : {"running", "completed", "failed", "skipped"}]
    /\ \A m \in Nodes \ {n} :
         /\ pc'[m] = pc[m] /\ attempt'[m] = attempt[m] /\ outcome'[m] = outcome[m]
         /\ AttemptsOf(m)' = AttemptsOf(m)
    /\ \A m \in Nodes : Skipped(m)' <=> Skipped(m)
    /\ Standing(n)'

LEMMA SameWorkflow ==
  ASSUME workflow' = workflow
  PROVE  /\ Nodes' = Nodes /\ Edges' = Edges
         /\ \A n : NodeOf(n)' = NodeOf(n) /\ RetryMax(n)' = RetryMax(n)
  BY DEF Nodes, Edges, NodeOf, RetryMax

LEMMA AcquireMoves ==
  ASSUME Running, NEW n \in Nodes, Acquire(n)
  PROVE  Moves(n)
<1>1. workflow \in Workflows /\ RetryMax(n) \in 1 .. 10 /\ RetryMax(n)' = RetryMax(n)
  BY RetryMaxIs, SameWorkflow DEF Running, Phased, Acquire, books
<1>2. pc[n] = "waiting" /\ attempt[n] = 0 /\ AttemptsOf(n) = {} /\ outcome[n] = "none"
  BY DEF Running, Progress, Standing, Stands, History, Acquire, Admitted
<1>3. TypeOK /\ rows' = rows \cup {NewRow(n, 1)} /\ 1 \in 1 .. 10
  BY DEF Running, Acquire
<1>4. /\ rows' \subseteq [node : Nodes, attempt : 1 .. 10,
                          status : {"running", "completed", "failed", "skipped"}]
      /\ AttemptsOf(n)' = AttemptsOf(n) \cup {Row(n, 1, "running")}
      /\ \A m : m # n => AttemptsOf(m)' = AttemptsOf(m)
      /\ \A m : Skipped(m)' <=> Skipped(m)
  BY <1>3, RecordedIs
<1>5. pc'[n] = "running" /\ attempt'[n] = 1 /\ outcome'[n] = "none"
  BY <1>2, <1>3 DEF Acquire, TypeOK
<1>6. History(n, "running")'
  BY <1>2, <1>4, <1>5 DEF History
<1>7. Standing(n)'
  BY <1>1, <1>5, <1>6 DEF Standing, Stands, Lasts, Successes
<1> QED BY <1>2, <1>3, <1>4, <1>5, <1>7 DEF Moves, Acquire, TypeOK

LEMMA RetryMoves ==
  ASSUME Running, NEW n \in Nodes, Retry(n)
  PROVE  Moves(n)
<1> DEFINE a == attempt[n]
<1>1. workflow \in Workflows /\ RetryMax(n) \in 1 .. 10 /\ RetryMax(n)' = RetryMax(n)
  BY RetryMaxIs, SameWorkflow DEF Running, Phased, Retry, books
<1>2. /\ pc[n] = "backoff" /\ a \in 1 .. 10 /\ a < RetryMax(n)
      /\ outcome[n] = "none" /\ History(n, "failed")
  BY DEF Running, Progress, Standing, Stands, Retry, TypeOK
<1>3. TypeOK /\ rows' = rows \cup {NewRow(n, a + 1)} /\ a + 1 \in 1 .. 10
  BY <1>1, <1>2 DEF Running, Retry
<1>4. /\ rows' \subseteq [node : Nodes, attempt : 1 .. 10,
                          status : {"running", "completed", "failed", "skipped"}]
      /\ AttemptsOf(n)' = AttemptsOf(n) \cup {Row(n, a + 1, "running")}
      /\ \A m : m # n => AttemptsOf(m)' = AttemptsOf(m)
      /\ \A m : Skipped(m)' <=> Skipped(m)
  BY <1>3, RecordedIs
<1>5. pc'[n] = "running" /\ attempt'[n] = a + 1 /\ outcome'[n] = "none"
  BY <1>2, <1>3 DEF Retry, TypeOK
<1>6. History(n, "running")'
  <2>1. AttemptsOf(n) = {Row(n, k, "failed") : k \in 1 .. a}
    BY <1>2 DEF History
  <2>2. AttemptsOf(n)' = {Row(n, k, IF k < a + 1 THEN "failed" ELSE "running") :
                            k \in 1 .. a + 1}
    <3>1. AttemptsOf(n)' = {Row(n, k, "failed") : k \in 1 .. a} \cup {Row(n, a + 1, "running")}
      BY <1>4, <2>1
    <3>2. a \in 1 .. 10
      BY <1>2
    <3> HIDE DEF a
    <3>3. \A k \in 1 .. a : k \in 1 .. a + 1 /\ k < a + 1
      BY <3>2
    <3>4. \A k \in 1 .. a + 1 : (k < a + 1 /\ k \in 1 .. a) \/ (k = a + 1 /\ ~(k < a + 1))
      BY <3>2
    <3>5. a + 1 \in 1 .. a + 1 /\ ~(a + 1 < a + 1)
      BY <3>2
    <3> QED BY <3>1, <3>3, <3>4, <3>5
  <2> QED BY <1>5, <2>2 DEF History
<1>7. Standing(n)'
  <2> HIDE DEF a
  <2> QED BY <1>1, <1>2, <1>5, <1>6 DEF Standing, Stands, Lasts, Successes
<1> QED BY <1>2, <1>3, <1>4, <1>5, <1>7 DEF Moves, Retry, TypeOK

\* A settled attempt is the last of its node so far.
LEMMA SettledHistory ==
  ASSUME NEW n, NEW s, attempt[n] \in 1 .. 10, attempt'[n] = attempt[n],
         History(n, "running"),
         AttemptsOf(n)' = (AttemptsOf(n) \ {Row(n, attempt[n], "running")})
                            \cup {Row(n, attempt[n], s)}
  PROVE  History(n, s)'
<1> DEFINE a == attempt[n]
<1>1. a \in 1 .. 10 /\ attempt'[n] = a
      /\ AttemptsOf(n) = {Row(n, k, IF k < a THEN "failed" ELSE "running") : k \in 1 .. a}
      /\ AttemptsOf(n)' = (AttemptsOf(n) \ {Row(n, a, "running")}) \cup {Row(n, a, s)}
  BY DEF History
<1> HIDE DEF a
<1>2. AttemptsOf(n)' = {Row(n, k, IF k < a THEN "failed" ELSE s) : k \in 1 .. a}
  BY <1>1 DEF Row
<1> QED BY <1>1, <1>2 DEF History

LEMMA SucceedMoves ==
  ASSUME Running, NEW n \in Nodes, Succeed(n)
  PROVE  Moves(n)
<1> DEFINE a == attempt[n]
<1>1. workflow \in Workflows /\ RetryMax(n) \in 1 .. 10 /\ RetryMax(n)' = RetryMax(n)
  BY RetryMaxIs, SameWorkflow DEF Running, Phased, Succeed, books
<1>2. /\ pc[n] = "running" /\ a \in 1 .. 10 /\ a <= RetryMax(n)
      /\ History(n, "running")
  BY DEF Running, Progress, Standing, Stands, Succeed, TypeOK
<1>3. TypeOK /\ rows' = Settle(n, a, "completed")
  BY DEF Running, Succeed
<1>4. /\ rows' \subseteq [node : Nodes, attempt : 1 .. 10,
                          status : {"running", "completed", "failed", "skipped"}]
      /\ AttemptsOf(n)' = (AttemptsOf(n) \ {Row(n, a, "running")})
                            \cup {Row(n, a, "completed")}
      /\ \A m : m # n => AttemptsOf(m)' = AttemptsOf(m)
      /\ \A m : Skipped(m)' <=> Skipped(m)
  BY <1>2, <1>3, SettledIs
<1>5. /\ pc'[n] = "done" /\ attempt'[n] = a /\ outcome'[n] \in Successes
      /\ outcome' \in [Nodes -> Outcomes]
  BY <1>2, <1>3 DEF Succeed, TypeOK, Outcomes, Successes
<1>6. History(n, "completed")'
  BY <1>2, <1>4, <1>5, SettledHistory
<1>7. Standing(n)'
  <2> HIDE DEF a
  <2> QED BY <1>1, <1>2, <1>5, <1>6 DEF Standing, Stands, Lasts, Successes
<1>8. \A m \in Nodes \ {n} : pc'[m] = pc[m] /\ attempt'[m] = attempt[m]
                             /\ outcome'[m] = outcome[m]
  BY <1>3 DEF Succeed, TypeOK
<1>9. /\ pc' \in [Nodes -> {"idle", "waiting", "running", "backoff", "done", "raised"}]
      /\ attempt' \in [Nodes -> 0 .. 10] /\ UNCHANGED <<books, phase>>
  BY <1>3 DEF Succeed, TypeOK
<1> QED BY <1>2, <1>4, <1>5, <1>7, <1>8, <1>9 DEF Moves

LEMMA FailAttemptMoves ==
  ASSUME Running, NEW n \in Nodes, FailAttempt(n)
  PROVE  Moves(n)
<1> DEFINE a == attempt[n]
<1>1. workflow \in Workflows /\ RetryMax(n) \in 1 .. 10 /\ RetryMax(n)' = RetryMax(n)
  BY RetryMaxIs, SameWorkflow DEF Running, Phased, FailAttempt, books
<1>2. /\ pc[n] = "running" /\ a \in 1 .. 10 /\ a <= RetryMax(n)
      /\ outcome[n] = "none" /\ History(n, "running")
  BY DEF Running, Progress, Standing, Stands, FailAttempt, TypeOK
<1>3. TypeOK /\ rows' = Settle(n, a, "failed")
  BY DEF Running, FailAttempt
<1>4. /\ rows' \subseteq [node : Nodes, attempt : 1 .. 10,
                          status : {"running", "completed", "failed", "skipped"}]
      /\ AttemptsOf(n)' = (AttemptsOf(n) \ {Row(n, a, "running")})
                            \cup {Row(n, a, "failed")}
      /\ \A m : m # n => AttemptsOf(m)' = AttemptsOf(m)
      /\ \A m : Skipped(m)' <=> Skipped(m)
  BY <1>2, <1>3, SettledIs
<1>5. /\ attempt'[n] = a
      /\ IF a < RetryMax(n) THEN pc'[n] = "backoff" /\ outcome'[n] = "none"
                            ELSE pc'[n] = "done" /\ outcome'[n] = "failed"
      /\ outcome' \in [Nodes -> Outcomes]
      /\ pc' \in [Nodes -> {"idle", "waiting", "running", "backoff", "done", "raised"}]
      /\ attempt' \in [Nodes -> 0 .. 10] /\ UNCHANGED <<books, phase>>
  BY <1>2, <1>3 DEF FailAttempt, TypeOK, Outcomes
<1>6. History(n, "failed")'
  BY <1>2, <1>4, <1>5, SettledHistory
<1>7. Standing(n)'
  <2> HIDE DEF a
  <2> QED BY <1>1, <1>2, <1>5, <1>6 DEF Standing, Stands, Lasts, Successes
<1>8. \A m \in Nodes \ {n} : pc'[m] = pc[m] /\ attempt'[m] = attempt[m]
                             /\ outcome'[m] = outcome[m]
  BY <1>3 DEF FailAttempt, TypeOK
<1> QED BY <1>2, <1>4, <1>5, <1>7, <1>8 DEF Moves

LEMMA RaiseMoves ==
  ASSUME Running, NEW n \in Nodes, RaiseNode(n)
  PROVE  Moves(n)
<1>1. workflow \in Workflows /\ RetryMax(n)' = RetryMax(n)
  BY SameWorkflow DEF Running, Phased, RaiseNode, books
<1>2. TypeOK /\ pc[n] \in {"waiting", "running", "backoff"} /\ pc'[n] = "raised"
  BY DEF Running, RaiseNode, Admitted, TypeOK
<1>3. /\ \A m : AttemptsOf(m)' = AttemptsOf(m) /\ (Skipped(m)' <=> Skipped(m))
      /\ attempt' = attempt /\ outcome' = outcome
  BY DEF RaiseNode, AttemptsOf, Skipped
<1>4. Standing(n)'
  <2>1. PICK last \in Lasts : Stands(n, last)
    BY DEF Running, Progress, Standing
  <2>2. Stands(n, last)'
    BY <1>1, <1>2, <1>3, <2>1 DEF Stands, History
  <2> QED BY <2>1, <2>2 DEF Standing, Lasts
<1> QED BY <1>2, <1>3, <1>4 DEF Moves, RaiseNode, TypeOK

LEMMA NodesMove ==
  ASSUME Running, NEW n \in Nodes, NodeStep(n) \/ RaiseNode(n)
  PROVE  Moves(n)
  BY AcquireMoves, RetryMoves, SucceedMoves, FailAttemptMoves, RaiseMoves DEF NodeStep

\* A node stands as it stood if nothing of its own changed.
LEMMA StandsStill ==
  ASSUME NEW n, workflow' = workflow, Standing(n),
         pc'[n] = pc[n], attempt'[n] = attempt[n], outcome'[n] = outcome[n],
         AttemptsOf(n)' = AttemptsOf(n)
  PROVE  Standing(n)'
<1>1. RetryMax(n)' = RetryMax(n)
  BY SameWorkflow
<1>2. PICK last \in Lasts : Stands(n, last)
  BY DEF Standing
<1>3. Stands(n, last)'
  BY <1>1, <1>2 DEF Stands, History
<1> QED BY <1>2, <1>3 DEF Standing, Lasts

LEMMA MovesRunning ==
  ASSUME Running, NEW n, Moves(n)
  PROVE  Running'
<1>1. /\ workflow' = workflow /\ levels' = levels /\ level' = level
      /\ status' = status /\ culprit' = culprit /\ active' = active
      /\ failed' = failed /\ outputs' = outputs /\ phase' \in {phase, "raised"}
      /\ n \in Nodes /\ pc[n] \in {"waiting", "running", "backoff"}
  BY DEF Moves, books
<1>2. Nodes' = Nodes
  BY <1>1, SameWorkflow
<1>3. TypeOK'
  BY <1>1, <1>2 DEF Running, TypeOK, Moves
<1>4. status # "completed"
  <2>1. SUFFICES ASSUME status = "completed" PROVE FALSE
    OBVIOUS
  <2>2. phase = "over" /\ Entered(n)
    BY <1>1, <2>1 DEF Running, Phased, Progress
  <2> QED BY <1>1, <2>2 DEF Running, Progress, Entered
<1>5. InLevels' <=> InLevels
  BY <1>1 DEF InLevels
<1>6. Phased'
  BY <1>1, <1>4, <1>5 DEF Running, Phased
<1>7. ASSUME NEW m \in Nodes PROVE Standing(m)'
  <2>1. CASE m = n
    BY <2>1 DEF Moves
  <2>2. CASE m # n
    BY <1>1, <1>7, <2>2, StandsStill DEF Running, Progress, Moves
  <2> QED BY <2>1, <2>2
<1>8. \A m \in Nodes : /\ pc'[m] = "idle" <=> pc[m] = "idle"
                       /\ Skipped(m)' <=> Skipped(m)
                       /\ Entered(m)' <=> Entered(m)
  BY <1>1 DEF Moves, Entered
<1>9. ASSUME NEW l \in 1 .. level, l < level \/ phase' \in {"level", "over"},
             NEW m \in levels[l]
      PROVE  pc'[m] \in {"idle", "done"}
  <2>1. pc[m] \in {"idle", "done"}
    BY <1>1, <1>9 DEF Running, Progress
  <2>2. m \in Nodes
    <3>1. InLevels
      BY <1>9 DEF Running, Phased, TypeOK
    <3> QED BY <3>1, <1>9, LevelIs DEF Running, TypeOK
  <2> QED BY <1>1, <2>1, <2>2 DEF Moves
<1>10. Progress'
  BY <1>1, <1>2, <1>7, <1>8, <1>9 DEF Running, Progress
<1> QED BY <1>3, <1>6, <1>10 DEF Running

-----------------------------------------------------------------------------
(* The executor.                                                            *)

LEMMA InitRunning == Init => Running
<1> SUFFICES ASSUME Init PROVE Running
  OBVIOUS
<1>1. workflow \in Workflows
  BY DEF Init
<1>2. TypeOK
  BY DEF Init, TypeOK, Outcomes
<1>3. Phased
  BY DEF Init, Phased
<1>4. ASSUME NEW n \in Nodes PROVE Stands(n, "failed")
  <2>1. RetryMax(n) \in 1 .. 10
    BY <1>1, RetryMaxIs
  <2>2. pc[n] = "idle" /\ attempt[n] = 0 /\ outcome[n] = "none" /\ AttemptsOf(n) = {}
    BY DEF Init, AttemptsOf
  <2> QED BY <2>1, <2>2 DEF Stands, History, Successes
<1>5. Progress
  BY <1>4 DEF Init, Progress, Skipped, Entered, Standing, Lasts
<1> QED BY <1>2, <1>3, <1>5 DEF Running

\* The executor's own steps leave attempts and outcomes alone.
LEMMA ExecutorStill ==
  ASSUME Running, workflow' = workflow, UNCHANGED <<attempt, outcome, pc, rows>>
  PROVE  /\ \A n \in Nodes : Standing(n)'
         /\ \A n : Skipped(n)' <=> Skipped(n)
<1>1. \A n \in Nodes : AttemptsOf(n)' = AttemptsOf(n)
  BY DEF AttemptsOf
<1>2. \A n \in Nodes : Standing(n)'
  BY <1>1, StandsStill DEF Running, Progress
<1> QED BY <1>2 DEF Skipped

\* What LevelsRespectEdges says, and that a count of in-degrees that met no
\* unknown target has known ones only.
LEMMA LevelsGot ==
  ASSUME workflow \in Workflows, NEW got,
         got = TopologicalLevels(workflow.nodes, workflow.edges)
  PROVE  /\ got.outcome \in {"ok", "cycle", "key_error"}
         /\ got.outcome = "ok" =>
              /\ Levelled(workflow.nodes, workflow.edges, got.levels)
              /\ TargetsKnown(workflow.nodes, workflow.edges)
         /\ got.outcome # "ok" => got.levels = << >>
<1>1. got.outcome = "ok" => Levelled(workflow.nodes, workflow.edges, got.levels)
  BY NodesAre, LevelsRespectEdges
<1>2. /\ got.outcome \in {"ok", "cycle", "key_error"}
      /\ got.outcome = "ok" => TargetsKnown(workflow.nodes, workflow.edges)
      /\ got.outcome # "ok" => got.levels = << >>
  BY DEF TopologicalLevels
<1> QED BY <1>1, <1>2

LEMMA BeginRunning == ASSUME Running, Begin PROVE Running'
<1> DEFINE got == TopologicalLevels(workflow.nodes, workflow.edges)
<1>1. /\ workflow \in Workflows /\ levels = << >> /\ level = 0 /\ status # "completed"
      /\ phase = "claimed" /\ workflow' = workflow /\ level' = level
      /\ UNCHANGED <<attempt, outcome, pc, rows, culprit, active, failed, outputs>>
  BY DEF Running, Phased, Begin
<1>2. /\ levels' = got.levels
      /\ phase' = CASE got.outcome = "ok"        -> "level"
                    [] got.outcome = "cycle"     -> "over"
                    [] got.outcome = "key_error" -> "raised"
      /\ status' = IF got.outcome = "cycle" THEN "failed" ELSE status
  BY DEF Begin
<1>3. /\ got.outcome \in {"ok", "cycle", "key_error"}
      /\ got.outcome = "ok" => /\ Levelled(workflow.nodes, workflow.edges, got.levels)
                               /\ TargetsKnown(workflow.nodes, workflow.edges)
      /\ got.outcome # "ok" => got.levels = << >>
  BY <1>1, LevelsGot
<1> HIDE DEF got
<1>4. Nodes' = Nodes
  BY <1>1, SameWorkflow
<1>5. Len(levels') \in Nat
  BY <1>2, <1>3 DEF Levelled
<1>6. TypeOK'
  BY <1>1, <1>2, <1>3, <1>4, <1>5 DEF Running, TypeOK
<1>7. got.outcome = "ok" => InLevels'
  BY <1>1, <1>2, <1>3 DEF InLevels
<1>8. Phased'
  BY <1>1, <1>2, <1>3, <1>7 DEF Phased, Running, TypeOK
<1>9. Progress'
  BY <1>1, <1>4, ExecutorStill DEF Running, Progress, Entered
<1> QED BY <1>6, <1>8, <1>9 DEF Running

LEMMA CompleteRunning == ASSUME Running, Complete PROVE Running'
<1>1. Nodes' = Nodes /\ (InLevels' <=> InLevels)
  BY SameWorkflow DEF Complete, InLevels
<1>2. TypeOK' /\ Phased'
  BY <1>1 DEF Running, TypeOK, Phased, Complete
<1>3. Progress'
  BY <1>1, ExecutorStill DEF Running, Progress, Entered, Complete
<1> QED BY <1>2, <1>3 DEF Running

LEMMA RaiseRunning == ASSUME Running, Raise PROVE Running'
<1>1. Nodes' = Nodes /\ (InLevels' <=> InLevels)
  BY SameWorkflow DEF Raise, InLevels
<1>2. TypeOK' /\ Phased'
  BY <1>1 DEF Running, TypeOK, Phased, Raise
<1>3. Progress'
  BY <1>1, ExecutorStill DEF Running, Progress, Entered, Raise
<1> QED BY <1>2, <1>3 DEF Running

\* The nodes of a level about to be entered were not touched before.
LEMMA NextIsFresh ==
  ASSUME Running, phase = "level", level < Len(levels)
  PROVE  /\ InLevels /\ level \in Nat /\ level + 1 \in 1 .. Len(levels)
         /\ levels[level + 1] \subseteq Nodes
         /\ \A n \in levels[level + 1] : /\ ~Entered(n) /\ pc[n] = "idle"
                                         /\ ~Skipped(n)
<1>1. InLevels /\ level \in Nat /\ Len(levels) \in Nat
  BY LevelIs DEF Running, Phased, TypeOK
<1>2. level + 1 \in 1 .. Len(levels)
  BY <1>1
<1>3. ASSUME NEW n \in levels[level + 1]
      PROVE  n \in Nodes /\ ~Entered(n) /\ pc[n] = "idle" /\ ~Skipped(n)
  <2>1. n \in Nodes /\ LevelOf(n) = level + 1
    BY <1>1, <1>2, LevelIs
  <2>2. \A l \in 1 .. level : l \in 1 .. Len(levels) /\ l # level + 1
    BY <1>1, <1>2
  <2>3. ~Entered(n)
    BY <1>1, <2>1, <2>2, LevelIs DEF Entered
  <2> QED BY <2>1, <2>3 DEF Running, Progress
<1> QED BY <1>1, <1>2, <1>3

\* What entering a level makes of its nodes.
ToRun == {n \in levels[level + 1] : NodeActive(n)}

LEMMA EnterIs ==
  ASSUME Running, EnterLevel
  PROVE  /\ \A m \in Nodes : AttemptsOf(m)' = AttemptsOf(m)
         /\ \A m \in Nodes :
              Skipped(m)' <=> Skipped(m) \/ m \in levels[level + 1] \ ToRun
         /\ \A m \in Nodes : Entered(m)' <=> Entered(m) \/ m \in levels[level + 1]
         /\ \A m \in Nodes : pc'[m] = IF m \in ToRun THEN "waiting" ELSE pc[m]
         /\ rows' \subseteq [node : Nodes, attempt : 1 .. 10,
                             status : {"running", "completed", "failed", "skipped"}]
<1>1. /\ phase = "level" /\ level < Len(levels) /\ level' = level + 1 /\ levels' = levels
      /\ rows' = rows \cup {[node |-> n, attempt |-> 1, status |-> "skipped"] :
                              n \in levels[level + 1] \ ToRun}
      /\ pc' = [n \in Nodes |-> IF n \in ToRun THEN "waiting" ELSE pc[n]]
  BY DEF EnterLevel, ToRun
<1>2. level \in Nat /\ levels[level + 1] \subseteq Nodes
  BY <1>1, NextIsFresh
<1>3. ASSUME NEW m \in Nodes PROVE AttemptsOf(m)' = AttemptsOf(m)
  BY <1>1 DEF AttemptsOf
<1>4. ASSUME NEW m \in Nodes
      PROVE  Skipped(m)' <=> Skipped(m) \/ m \in levels[level + 1] \ ToRun
  <2>1. ASSUME m \in levels[level + 1] \ ToRun PROVE Skipped(m)'
    <3>1. [node |-> m, attempt |-> 1, status |-> "skipped"] \in rows'
      BY <1>1, <2>1
    <3> QED BY <3>1 DEF Skipped
  <2>2. Skipped(m) => Skipped(m)'
    BY <1>1 DEF Skipped
  <2>3. ASSUME Skipped(m)', ~Skipped(m) PROVE m \in levels[level + 1] \ ToRun
    BY <1>1, <2>3 DEF Skipped
  <2> QED BY <2>1, <2>2, <2>3
<1>5. ASSUME NEW m \in Nodes
      PROVE  Entered(m)' <=> Entered(m) \/ m \in levels[level + 1]
  <2>1. \A l : l \in 1 .. level + 1 <=> l \in 1 .. level \/ l = level + 1
    BY <1>2
  <2> QED BY <1>1, <2>1 DEF Entered
<1>6. rows' \subseteq [node : Nodes, attempt : 1 .. 10,
                       status : {"running", "completed", "failed", "skipped"}]
  <2>1. \A n \in Nodes : [node |-> n, attempt |-> 1, status |-> "skipped"] \in
          [node : Nodes, attempt : 1 .. 10,
           status : {"running", "completed", "failed", "skipped"}]
    OBVIOUS
  <2> QED BY <1>1, <1>2, <2>1 DEF Running, TypeOK
<1> QED BY <1>1, <1>3, <1>4, <1>5, <1>6

LEMMA EnterRunning == ASSUME Running, EnterLevel PROVE Running'
<1>1. /\ phase = "level" /\ level < Len(levels) /\ level' = level + 1 /\ levels' = levels
      /\ workflow' = workflow /\ phase' = IF ToRun = {} THEN "level" ELSE "gather"
      /\ pc' = [n \in Nodes |-> IF n \in ToRun THEN "waiting" ELSE pc[n]]
      /\ UNCHANGED <<status, culprit, attempt, outcome, active, failed, outputs>>
  BY DEF EnterLevel, ToRun
<1>2. /\ InLevels /\ level \in Nat /\ level + 1 \in 1 .. Len(levels)
      /\ levels[level + 1] \subseteq Nodes /\ ToRun \subseteq levels[level + 1]
      /\ \A n \in levels[level + 1] : ~Entered(n) /\ pc[n] = "idle" /\ ~Skipped(n)
  BY <1>1, NextIsFresh DEF ToRun
<1>3. Nodes' = Nodes /\ InLevels'
  BY <1>1, <1>2, SameWorkflow DEF InLevels
<1>4. TypeOK'
  <2>1. pc' \in [Nodes -> {"idle", "waiting", "running", "backoff", "done", "raised"}]
    BY <1>1 DEF Running, TypeOK
  <2> QED BY <1>1, <1>2, <1>3, <2>1, EnterIs DEF Running, TypeOK
<1>5. Phased'
  BY <1>1, <1>2, <1>3 DEF Running, Phased
<1>6. ASSUME NEW m \in Nodes PROVE Standing(m)'
  <2>1. CASE m \notin ToRun
    BY <1>1, <2>1, StandsStill, EnterIs DEF Running, Progress
  <2>2. CASE m \in ToRun
    <3>1. RetryMax(m)' = RetryMax(m) /\ pc[m] = "idle" /\ pc'[m] = "waiting"
      BY <1>1, <1>2, <2>2, SameWorkflow
    <3>2. PICK last \in Lasts : Stands(m, last)
      BY DEF Running, Progress, Standing
    <3>3. Stands(m, last)'
      BY <1>1, <3>1, <3>2, EnterIs DEF Stands, History
    <3> QED BY <3>2, <3>3 DEF Standing, Lasts
  <2> QED BY <2>1, <2>2
<1>7. \A m \in Nodes : pc'[m] # "idle" \/ Skipped(m)' => Entered(m)'
  BY <1>2, EnterIs DEF Running, Progress
<1>8. \A m \in Nodes : Entered(m)' => (Skipped(m)' <=> pc'[m] = "idle")
  BY <1>2, EnterIs DEF Running, Progress
<1>9. ASSUME NEW l \in 1 .. level + 1, l < level + 1 \/ phase' \in {"level", "over"},
             NEW m \in levels[l]
      PROVE  pc'[m] \in {"idle", "done"}
  <2>1. m \in Nodes
    BY <1>2, LevelIs
  <2>2. CASE l < level + 1
    <3>1. l \in 1 .. level
      BY <1>2, <2>2
    <3>2. pc[m] \in {"idle", "done"} /\ Entered(m)
      BY <1>1, <3>1, <1>9 DEF Running, Progress, Entered
    <3> QED BY <1>2, <2>1, <3>2, EnterIs
  <2>3. CASE l = level + 1 /\ ToRun = {}
    BY <1>2, <1>9, <2>1, <2>3, EnterIs
  <2> QED BY <1>1, <1>2, <1>9, <2>2, <2>3
<1>10. Progress'
  BY <1>1, <1>3, <1>6, <1>7, <1>8, <1>9 DEF Progress
<1> QED BY <1>4, <1>5, <1>10 DEF Running

-----------------------------------------------------------------------------
(* Results are applied.                                                     *)

LEMMA FirstIs ==
  ASSUME NEW S \in SUBSET Nat, S # {}
  PROVE  LET first == CHOOSE n \in S : \A m \in S : n <= m
         IN  first \in S /\ \A m \in S : first <= m
<1>1. \E n \in S : \A m \in S : n <= m
  BY LeastNatural
<1> QED BY <1>1

\* What is applied: every result, or those up to the first uncaught failure.
Applied == LET first == CHOOSE n \in Uncaught : \A m \in Uncaught : n <= m
           IN  IF Uncaught = {} THEN Gathered ELSE {n \in Gathered : n <= first}

LEMMA ApplyIs ==
  ASSUME Running, Apply
  PROVE  /\ InLevels /\ level \in 1 .. Len(levels) /\ Gathered \subseteq Nodes
         /\ Applied \subseteq Gathered
         /\ outputs' = OutputsWith(Applied) /\ active' = ActiveWith(Applied)
         /\ failed' = FailedWith(Applied)
         /\ IF Uncaught = {}
              THEN phase' = "level" /\ UNCHANGED <<status, culprit>>
              ELSE /\ phase' = "over" /\ status' = "failed" /\ culprit' \in Uncaught
                   /\ \A m \in Uncaught : culprit' <= m
                   /\ Applied = {n \in Gathered : n <= culprit'}
         /\ Uncaught = {} => Applied = Gathered
<1>1. InLevels /\ level \in 1 .. Len(levels)
  BY DEF Running, Phased, TypeOK, Apply
<1>2. Gathered \subseteq Nodes /\ Uncaught \subseteq Gathered
  BY <1>1, LevelIs DEF Gathered, Uncaught
<1>3. Uncaught \in SUBSET Nat
  BY <1>2, NodesAre DEF Running, Phased
<1> DEFINE first == CHOOSE n \in Uncaught : \A m \in Uncaught : n <= m
<1>4. Uncaught # {} => first \in Uncaught /\ \A m \in Uncaught : first <= m
  BY <1>3, FirstIs
<1>5. /\ outputs' = OutputsWith(Applied) /\ active' = ActiveWith(Applied)
      /\ failed' = FailedWith(Applied)
      /\ IF Uncaught = {}
           THEN phase' = "level" /\ UNCHANGED <<status, culprit>>
           ELSE phase' = "over" /\ status' = "failed" /\ culprit' = first
  BY Zenon DEF Apply, Applied
<1>6. Applied = IF Uncaught = {} THEN Gathered ELSE {n \in Gathered : n <= first}
  BY DEF Applied
<1> HIDE DEF first
<1> QED BY <1>1, <1>2, <1>4, <1>5, <1>6

LEMMA ApplyRunning == ASSUME Running, Apply PROVE Running'
<1>1. /\ phase = "gather" /\ \A n \in Gathered : pc[n] = "done"
      /\ UNCHANGED <<workflow, levels, level, pc, attempt, outcome, rows>>
  BY DEF Apply
<1>2. Nodes' = Nodes /\ (InLevels' <=> InLevels)
  BY <1>1, SameWorkflow DEF InLevels
<1>3. TypeOK'
  <2>1. /\ outputs' \in [Nodes -> Outcomes] /\ active' \subseteq Nodes
        /\ failed' \subseteq Nodes
    BY ApplyIs DEF Running, TypeOK, OutputsWith, ActiveWith, FailedWith
  <2>2. culprit' \in Nodes \cup {0}
    BY ApplyIs DEF Running, TypeOK, Uncaught
  <2> QED BY <1>1, <1>2, <2>1, <2>2, ApplyIs DEF Running, TypeOK
<1>4. status # "completed" /\ Phased'
  BY <1>1, <1>2, ApplyIs DEF Running, Phased
<1>5. ASSUME NEW l \in 1 .. level, NEW n \in levels[l] PROVE pc[n] \in {"idle", "done"}
  <2>1. l < level \/ l = level
    BY <1>1 DEF Running, TypeOK
  <2>2. CASE l < level
    BY <2>2, <1>5 DEF Running, Progress
  <2>3. CASE l = level
    BY <1>1, <1>5, <2>3 DEF Gathered
  <2> QED BY <2>1, <2>2, <2>3
<1>6. Progress'
  BY <1>1, <1>2, <1>5, ExecutorStill DEF Running, Progress, Entered
<1> QED BY <1>3, <1>4, <1>6 DEF Running

-----------------------------------------------------------------------------

LEMMA StutterRunning == ASSUME Running, UNCHANGED vars PROVE Running'
<1>1. Nodes' = Nodes /\ (InLevels' <=> InLevels)
  BY SameWorkflow DEF vars, InLevels
<1>2. TypeOK' /\ Phased'
  BY <1>1 DEF Running, TypeOK, Phased, vars
<1>3. Progress'
  BY <1>1, ExecutorStill DEF Running, Progress, Entered, vars
<1> QED BY <1>2, <1>3 DEF Running

LEMMA NextRunning == Running /\ [Next]_vars => Running'
<1> SUFFICES ASSUME Running, [Next]_vars PROVE Running'
  OBVIOUS
<1>1. CASE Executor
  BY <1>1, BeginRunning, EnterRunning, ApplyRunning, CompleteRunning DEF Executor
<1>2. CASE Raise
  BY <1>2, RaiseRunning
<1>3. ASSUME NEW n \in Nodes, NodeStep(n) \/ RaiseNode(n) PROVE Running'
  BY <1>3, NodesMove, MovesRunning
<1>4. CASE UNCHANGED vars
  BY <1>4, StutterRunning
<1> QED BY <1>1, <1>2, <1>3, <1>4 DEF Next

\* The invariant, for every set of workflows.
LEMMA AlwaysRunning == Spec => []Running
<1>1. Init => Running
  BY InitRunning
<1>2. Running /\ [Next]_vars => Running'
  BY NextRunning
<1> QED BY <1>1, <1>2, PTL DEF Spec

-----------------------------------------------------------------------------
(* What follows for the rows.                                               *)

\* A run's state is of its type, in whatever order its coroutines step.
THEOREM RunTypeCorrect == Spec => []TypeOK
<1>1. Running => TypeOK
  BY DEF Running
<1> QED BY <1>1, AlwaysRunning, PTL

\* A run that is over has no node left running, though its siblings failed:
\* gather has waited for every coroutine of the level, and no other was started.
THEOREM NoRowIsLeftRunning == Spec => []NoRowLeftRunning
<1>1. Running => NoRowLeftRunning
  <2> SUFFICES ASSUME Running, phase = "over", NEW r \in rows, r.status = "running"
               PROVE  FALSE
    BY DEF NoRowLeftRunning
  <2> DEFINE n == r.node
  <2>1. n \in Nodes /\ r \in AttemptsOf(n)
    BY DEF Running, TypeOK, AttemptsOf
  <2>2. PICK last \in Lasts : Stands(n, last)
    BY <2>1 DEF Running, Progress, Standing
  <2> HIDE DEF n
  <2>3. last = "running" /\ attempt[n] > 0 /\ attempt[n] \in Nat
    BY <2>1, <2>2 DEF Stands, History, Row, Running, TypeOK
  <2>4. pc[n] # "idle"
    BY <2>2, <2>3 DEF Stands
  <2>5. pc[n] = "done"
    BY <2>1, <2>4 DEF Running, Progress, Entered
  <2>6. outcome[n] \in {"failed"} \cup Successes
    BY <2>1, <2>2, <2>5 DEF Stands, Running, TypeOK, Outcomes
  <2> QED BY <2>2, <2>3, <2>6 DEF Stands
<1> QED BY <1>1, AlwaysRunning, PTL

\* A history of a attempts is a rows, numbered from one.
LEMMA HistoryCounts ==
  ASSUME NEW n, NEW last, attempt[n] \in Nat, History(n, last)
  PROVE  /\ Cardinality(AttemptsOf(n)) = attempt[n]
         /\ {r.attempt : r \in AttemptsOf(n)} = 1 .. attempt[n]
<1> DEFINE a == attempt[n]
           f == [k \in 1 .. a |-> Row(n, k, IF k < a THEN "failed" ELSE last)]
<1>1. a \in Nat /\ AttemptsOf(n) = {f[k] : k \in 1 .. a}
  BY DEF History
<1>2. f \in Surjection(1 .. a, AttemptsOf(n))
  BY <1>1 DEF Surjection
<1>3. f \in Injection(1 .. a, AttemptsOf(n))
  BY <1>1 DEF Injection, IsInjective, Row
<1>4. ExistsBijection(1 .. a, AttemptsOf(n))
  <2> HIDE DEF f
  <2> QED BY <1>2, <1>3 DEF ExistsBijection, Bijection
<1>5. Cardinality(AttemptsOf(n)) = a
  BY <1>1, <1>4, FS_CountingElements
<1>6. \A k \in 1 .. a : f[k].attempt = k
  BY DEF Row
<1>7. {r.attempt : r \in AttemptsOf(n)} = 1 .. a
  <2> HIDE DEF f, a
  <2> QED BY <1>1, <1>6
<1> QED BY <1>5, <1>7

\* The attempts of a node are numbered from one, all but the last failed, none
\* follows a success, and a node is given up at its last allowed attempt only.
THEOREM AttemptsAreAlwaysOrdered == Spec => []AttemptsAreOrdered
<1>1. Running => AttemptsAreOrdered
  <2> SUFFICES ASSUME Running, NEW n \in Nodes
               PROVE  /\ {r.attempt : r \in AttemptsOf(n)} = 1 .. Cardinality(AttemptsOf(n))
                      /\ \A r \in AttemptsOf(n) :
                           /\ r.attempt < Cardinality(AttemptsOf(n)) => r.status = "failed"
                           /\ r.status = "completed" => outcome[n] \in Successes
                      /\ outcome[n] = "failed" =>
                           Cardinality(AttemptsOf(n)) = RetryMax(n)
    BY DEF AttemptsAreOrdered
  <2>1. PICK last \in Lasts : Stands(n, last)
    BY DEF Running, Progress, Standing
  <2>2. attempt[n] \in Nat /\ History(n, last)
    BY <2>1 DEF Stands, Running, TypeOK
  <2>3. /\ Cardinality(AttemptsOf(n)) = attempt[n]
        /\ {r.attempt : r \in AttemptsOf(n)} = 1 .. attempt[n]
    BY <2>2, HistoryCounts
  <2>4. ASSUME NEW r \in AttemptsOf(n)
        PROVE  /\ r.attempt < attempt[n] => r.status = "failed"
               /\ r.status = "completed" => outcome[n] \in Successes
    BY <2>1, <2>2 DEF History, Stands, Row
  <2> QED BY <2>1, <2>3, <2>4 DEF Stands
<1> QED BY <1>1, AlwaysRunning, PTL

-----------------------------------------------------------------------------
(* The executor's books.                                                    *)

\* The books say the truth: of every level that is passed, all of it.  A run that
\* failed names a node of the level it ended in.
Booked ==
    /\ \A n \in Nodes : outputs[n] # "none" => outputs[n] = outcome[n]
    /\ active = {n \in Nodes : outputs[n] \in Successes}
    /\ failed = {n \in Nodes : outputs[n] = "failed"}
    /\ \A l \in 1 .. level : l < level \/ phase = "level" \/ status = "completed" =>
         \A n \in levels[l] : outputs[n] = outcome[n]
    /\ culprit # 0 => /\ phase = "over" /\ status = "failed" /\ InLevels
                      /\ level > 0 /\ culprit \in levels[level]

LEMMA InitBooked == Init => Booked
  BY DEF Init, Booked, Successes

\* The levels entered are levels of nodes.
LEMMA LevelsEntered ==
  ASSUME Running
  PROVE  /\ level \in Nat
         /\ \A l \in 1 .. level : /\ InLevels /\ l \in 1 .. Len(levels)
                                  /\ levels[l] \subseteq Nodes
                                  /\ \A n \in levels[l] : LevelOf(n) = l
<1>1. level \in Nat /\ (level # 0 => InLevels)
  BY DEF Running, Phased, TypeOK
<1>2. ASSUME NEW l \in 1 .. level
      PROVE  InLevels /\ l \in 1 .. Len(levels)
  BY <1>1 DEF Running, TypeOK
<1> QED BY <1>1, <1>2, LevelIs

\* A node whose coroutine is at work is in the level being gathered; nothing has
\* been booked of it, and the run is not over.
LEMMA MoverIs ==
  ASSUME Running, NEW n \in Nodes, pc[n] \in {"waiting", "running", "backoff"}
  PROVE  /\ phase \notin {"level", "over"} /\ outcome[n] = "none"
         /\ \A l \in 1 .. level : l < level => n \notin levels[l]
<1>1. PICK k \in 1 .. level : n \in levels[k]
  BY DEF Running, Progress, Entered
<1>2. outcome[n] = "none"
  BY DEF Running, Progress, Standing, Stands
<1> QED BY <1>1, <1>2 DEF Running, Progress

LEMMA MovesBooked ==
  ASSUME Running, Booked, NEW n, Moves(n)
  PROVE  Booked'
<1>1. /\ workflow' = workflow /\ levels' = levels /\ level' = level
      /\ status' = status /\ culprit' = culprit /\ active' = active
      /\ failed' = failed /\ outputs' = outputs /\ phase' \in {phase, "raised"}
      /\ n \in Nodes /\ pc[n] \in {"waiting", "running", "backoff"}
  BY DEF Moves, books
<1>2. Nodes' = Nodes
  BY <1>1, SameWorkflow
<1>3. /\ phase \notin {"level", "over"} /\ outcome[n] = "none"
      /\ \A l \in 1 .. level : l < level => n \notin levels[l]
  BY <1>1, MoverIs
<1>4. outputs[n] = "none" /\ culprit = 0 /\ status # "completed"
  BY <1>1, <1>3 DEF Booked, Running, Phased
<1>5. \A m \in Nodes : m # n => outcome'[m] = outcome[m]
  BY DEF Moves
<1>6. \A m \in Nodes : outputs[m] # "none" => outputs[m] = outcome'[m]
  BY <1>4, <1>5 DEF Booked
<1>7. ASSUME NEW l \in 1 .. level, l < level, NEW m \in levels[l]
      PROVE  outputs[m] = outcome'[m]
  BY <1>3, <1>5, <1>7, LevelsEntered DEF Booked
<1> QED BY <1>1, <1>2, <1>3, <1>4, <1>6, <1>7 DEF Booked

LEMMA EnterBooked ==
  ASSUME Running, Booked, EnterLevel
  PROVE  Booked'
<1>1. /\ phase = "level" /\ level < Len(levels) /\ level' = level + 1
      /\ UNCHANGED <<workflow, levels, status, culprit, outcome, active, failed, outputs>>
  BY DEF EnterLevel
<1>2. /\ level \in Nat /\ levels[level + 1] \subseteq Nodes
      /\ \A n \in levels[level + 1] : pc[n] = "idle"
  BY <1>1, NextIsFresh
<1>3. Nodes' = Nodes /\ culprit = 0
  BY <1>1, SameWorkflow DEF Booked
<1>4. ASSUME NEW l \in 1 .. level + 1, NEW n \in levels[l]
      PROVE  outputs[n] = outcome[n]
  <2>1. CASE l \in 1 .. level
    BY <1>1, <1>4, <2>1 DEF Booked
  <2>2. CASE l = level + 1
    <3>1. outcome[n] = "none"
      BY <1>2, <1>4, <2>2 DEF Running, Progress, Standing, Stands
    <3> QED BY <1>2, <1>4, <2>2, <3>1 DEF Booked
  <2> QED BY <1>2, <2>1, <2>2
<1> QED BY <1>1, <1>3, <1>4 DEF Booked

LEMMA ApplyBooked ==
  ASSUME Running, Booked, Apply
  PROVE  Booked'
<1>1. /\ phase = "gather" /\ \A n \in Gathered : pc[n] = "done"
      /\ UNCHANGED <<workflow, levels, level, pc, attempt, outcome, rows>>
  BY DEF Apply
<1>2. /\ InLevels /\ level \in 1 .. Len(levels) /\ Gathered \subseteq Nodes
      /\ Applied \subseteq Gathered
      /\ outputs' = OutputsWith(Applied) /\ active' = ActiveWith(Applied)
      /\ failed' = FailedWith(Applied)
      /\ Uncaught = {} => Applied = Gathered
  BY ApplyIs
<1>3. IF Uncaught = {} THEN phase' = "level" /\ UNCHANGED <<status, culprit>>
      ELSE phase' = "over" /\ status' = "failed" /\ culprit' \in Uncaught
  BY ApplyIs
<1>4. Nodes' = Nodes /\ (InLevels' <=> InLevels) /\ culprit = 0 /\ status # "completed"
  BY <1>1, SameWorkflow DEF InLevels, Booked, Running, Phased
<1>5. \A n \in Nodes : outputs'[n] = IF n \in Applied THEN outcome[n] ELSE outputs[n]
  BY <1>2 DEF OutputsWith
<1>6. /\ active' = {n \in Nodes : outputs'[n] \in Successes}
      /\ failed' = {n \in Nodes : outputs'[n] = "failed"}
  <2>1. active' = {n \in Nodes : outputs'[n] \in Successes}
    BY <1>2, <1>5 DEF Booked, ActiveWith, Successes
  <2>2. failed' = {n \in Nodes : outputs'[n] = "failed"}
    BY <1>2, <1>5 DEF Booked, FailedWith
  <2> QED BY <2>1, <2>2
<1>7. ASSUME NEW l \in 1 .. level, l < level, NEW n \in levels[l]
      PROVE  outputs'[n] = outcome[n]
  BY <1>5, <1>7, LevelsEntered DEF Booked
<1>8. ASSUME Uncaught = {}, NEW n \in levels[level] PROVE outputs'[n] = outcome[n]
  <2>1. n \in Nodes
    BY <1>2, <1>8, LevelIs
  <2>2. CASE n \in Gathered
    BY <1>2, <1>5, <1>8, <2>1, <2>2
  <2>3. CASE n \notin Gathered
    <3>1. outcome[n] = "none"
      BY <1>8, <2>1, <2>3 DEF Gathered, Running, Progress, Standing, Stands
    <3> QED BY <1>5, <2>1, <3>1 DEF Booked
  <2> QED BY <2>2, <2>3
<1>9. \A n \in Nodes : outputs'[n] # "none" => outputs'[n] = outcome[n]
  BY <1>5 DEF Booked
<1>10. ASSUME NEW l \in 1 .. level,
              l < level \/ phase' = "level" \/ status' = "completed", NEW n \in levels[l]
       PROVE  outputs'[n] = outcome[n]
  <2>1. l < level \/ (l = level /\ Uncaught = {})
    BY <1>2, <1>3, <1>4, <1>10
  <2> QED BY <1>7, <1>8, <1>10, <2>1
<1>11. culprit' # 0 => /\ phase' = "over" /\ status' = "failed" /\ level > 0
                       /\ culprit' \in levels[level]
  BY <1>2, <1>3, <1>4 DEF Uncaught, Gathered
<1> QED BY <1>1, <1>2, <1>4, <1>6, <1>9, <1>10, <1>11 DEF Booked

LEMMA NextBooked == Running /\ Booked /\ [Next]_vars => Booked'
<1> SUFFICES ASSUME Running, Booked, [Next]_vars PROVE Booked'
  OBVIOUS
<1>1. CASE Begin
  <2>1. level = 0 /\ Nodes' = Nodes /\ culprit = 0
    BY <1>1, SameWorkflow DEF Begin, Running, Phased, Booked
  <2> QED BY <1>1, <2>1 DEF Begin, Booked
<1>2. CASE EnterLevel
  BY <1>2, EnterBooked
<1>3. CASE Apply
  BY <1>3, ApplyBooked
<1>4. CASE Complete
  <2>1. Nodes' = Nodes /\ culprit = 0
    BY <1>4, SameWorkflow DEF Complete, Booked
  <2> QED BY <1>4, <2>1 DEF Complete, Booked
<1>5. CASE Raise
  <2>1. Nodes' = Nodes /\ culprit = 0 /\ status # "completed"
    BY <1>5, SameWorkflow DEF Raise, Running, Phased, Booked
  <2> QED BY <1>5, <2>1 DEF Raise, Booked
<1>6. ASSUME NEW n \in Nodes, NodeStep(n) \/ RaiseNode(n) PROVE Booked'
  BY <1>6, NodesMove, MovesBooked
<1>7. CASE UNCHANGED vars
  <2>1. Nodes' = Nodes /\ (InLevels' <=> InLevels)
    BY <1>7, SameWorkflow DEF vars, InLevels
  <2> QED BY <1>7, <2>1 DEF vars, Booked
<1> QED BY <1>1, <1>2, <1>3, <1>4, <1>5, <1>6, <1>7 DEF Next, Executor

LEMMA AlwaysBooked == Spec => []Booked
<1>1. Init => Booked
  BY InitBooked
<1>2. Running /\ Booked /\ [Next]_vars => Booked'
  BY NextBooked
<1> QED BY <1>1, <1>2, AlwaysRunning, PTL DEF Spec

\* After an uncaught failure no node of a later level is ever started, and none is
\* recorded as skipped: the run ends in the level of the node it names.
THEOREM FailureAlwaysStopsTheRun == Spec => []FailureStopsTheRun
<1>1. Running /\ Booked => FailureStopsTheRun
  <2> SUFFICES ASSUME Running, Booked, culprit # 0, NEW n \in Nodes,
                      LevelOf(n) > LevelOf(culprit)
               PROVE  pc[n] = "idle" /\ ~Skipped(n)
    BY DEF FailureStopsTheRun
  <2>1. InLevels /\ level \in 1 .. Len(levels) /\ culprit \in levels[level]
    BY DEF Booked, Running, TypeOK
  <2>2. LevelOf(culprit) = level
    BY <2>1, LevelIs
  <2>3. ~Entered(n)
    BY <2>1, <2>2, LevelsEntered DEF Entered
  <2> QED BY <2>3 DEF Running, Progress
<1> QED BY <1>1, AlwaysRunning, AlwaysBooked, PTL

-----------------------------------------------------------------------------
(* What follows from the order of the levels.  A node without an id is taken  *)
(* for an edge end that is missing.                                           *)

NodesAreNamed == \A w \in Workflows : Missing \notin Ids(w.nodes)

\* The nodes an edge joins are in levels in its order.
LEMMA EdgesAscend ==
  ASSUME NodesAreNamed, workflow \in Workflows, InLevels, NEW e \in Edges,
         e.source \in Nodes, e.target \in Nodes
  PROVE  LevelOf(e.source) < LevelOf(e.target)
<1>1. PICK k \in DOMAIN workflow.edges : e = workflow.edges[k]
  BY DEF Edges
<1>2. k \in Linked(workflow.edges)
  BY <1>1 DEF Linked, Nodes, NodesAreNamed
<1>3. /\ LevelOf(e.target) \in 1 .. Len(levels)
      /\ e.target \in levels[LevelOf(e.target)]
  BY LevelIs
<1>4. PICK m \in 1 .. Len(levels) : m < LevelOf(e.target) /\ e.source \in levels[m]
  BY <1>1, <1>2, <1>3 DEF InLevels, Levelled
<1> QED BY <1>4, LevelIs

\* A node of a passed level was skipped or is done.
LEMMA PassedIs ==
  ASSUME Running, NEW n \in Nodes, NEW l \in 1 .. level, n \in levels[l],
         l < level \/ phase \in {"level", "over"}
  PROVE  /\ pc[n] \in {"idle", "done"}
         /\ Ran(n) <=> pc[n] = "done"
         /\ Skipped(n) <=> pc[n] = "idle"
<1>1. pc[n] \in {"idle", "done"} /\ (Skipped(n) <=> pc[n] = "idle")
  BY DEF Running, Progress, Entered
<1>2. Ran(n) <=> pc[n] = "done"
  BY DEF Ran, Running, Progress, Standing, Stands
<1> QED BY <1>1, <1>2

\* A node starts only after every node with an edge into it was skipped or has
\* returned.
THEOREM DependenciesAlwaysFirst ==
  ASSUME NodesAreNamed PROVE Spec => []DependenciesFirst
<1>1. Running /\ Booked => DependenciesFirst
  <2> SUFFICES ASSUME Running, Booked, NEW e \in Edges, e.source \in Nodes,
                      e.target \in Nodes, pc[e.target] # "idle", ~Skipped(e.source)
               PROVE  outputs[e.source] # "none"
    BY DEF DependenciesFirst
  <2>1. PICK l \in 1 .. level : e.target \in levels[l]
    BY DEF Running, Progress, Entered
  <2>2. InLevels /\ LevelOf(e.target) = l /\ level \in Nat
    BY <2>1, LevelsEntered
  <2> DEFINE m == LevelOf(e.source)
  <2>3. m \in Nat \ {0} /\ e.source \in levels[m]
    BY <2>2, LevelIs
  <2>4. m < l
    BY <2>2, EdgesAscend DEF Running, Phased
  <2> HIDE DEF m
  <2>5. m \in 1 .. level /\ m < level
    BY <2>1, <2>2, <2>3, <2>4
  <2>6. outputs[e.source] = outcome[e.source]
    BY <2>3, <2>5 DEF Booked
  <2>7. outcome[e.source] # "none"
    BY <2>3, <2>5, PassedIs DEF Ran
  <2> QED BY <2>6, <2>7
<1> QED BY <1>1, AlwaysRunning, AlwaysBooked, PTL

-----------------------------------------------------------------------------
(* Which nodes run.                                                         *)

\* Of the nodes entered, those run that are the trigger or have an edge that fires.
Called(n) == \/ NodeOf(n).trigger
             \/ \E e \in Edges : e.target = n /\ Fires(e)

Wanted ==
    \A n \in Nodes : Entered(n) /\ ReadsEarlier(n) => (pc[n] # "idle" <=> Called(n))

\* Where the nodes are that an edge depends on.
LEMMA EdgeReads ==
  ASSUME NodesAreNamed, workflow \in Workflows, InLevels,
         NEW l \in 1 .. Len(levels), NEW n \in levels[l], ReadsEarlier(n),
         NEW e \in Edges, e.target = n
  PROVE  /\ e.source \in Nodes => LevelOf(e.source) \in 1 .. l - 1
         /\ e.condition # Always /\ e.condition.ref \in Nodes =>
              LevelOf(e.condition.ref) \in 1 .. l - 1
<1>1. n \in Nodes /\ LevelOf(n) = l
  BY LevelIs
<1>2. \A m \in Nodes : LevelOf(m) \in 1 .. Len(levels)
  BY LevelIs
<1>3. e.source \in Nodes => LevelOf(e.source) < l
  BY <1>1, EdgesAscend
<1>4. e.condition # Always /\ e.condition.ref \in Nodes => LevelOf(e.condition.ref) < l
  BY <1>1 DEF ReadsEarlier
<1>5. Len(levels) \in Nat /\ l \in Nat
  BY LevelIs
<1> QED BY <1>2, <1>3, <1>4, <1>5

\* What the executor decides from its books of the levels passed is what the
\* outcomes say.
LEMMA BooksTell ==
  ASSUME NodesAreNamed, Running, Booked, phase = "level", level < Len(levels),
         NEW n \in levels[level + 1], ReadsEarlier(n), NEW e \in Edges, e.target = n
  PROVE  EdgeActive(e, active, failed, outputs) <=> Fires(e)
<1>1. /\ InLevels /\ level \in Nat /\ level + 1 \in 1 .. Len(levels)
      /\ workflow \in Workflows
  BY NextIsFresh DEF Running, Phased
<1>2. (level + 1) - 1 = level
  BY <1>1
<1>3. \A m \in Nodes : LevelOf(m) \in 1 .. level => outputs[m] = outcome[m]
  BY <1>1, LevelIs DEF Booked
<1>4. /\ e.source \in Nodes => outputs[e.source] = outcome[e.source]
      /\ e.condition # Always /\ e.condition.ref \in Nodes =>
           outputs[e.condition.ref] = outcome[e.condition.ref]
  BY <1>1, <1>2, <1>3, EdgeReads
<1>5. DOMAIN outputs = Nodes /\ DOMAIN outcome = Nodes
      /\ \A m \in Nodes : outcome[m] \in Outcomes
  BY DEF Running, TypeOK
<1>6. ConditionHolds(e.condition, outputs) <=> ConditionHolds(e.condition, outcome)
  BY <1>4, <1>5 DEF ConditionHolds
<1>7. e.source \in (IF e.kind = "error" THEN failed ELSE active) <=>
        /\ e.source \in Nodes /\ Ran(e.source)
        /\ e.kind = "error" <=> outcome[e.source] = "failed"
  BY <1>4, <1>5 DEF Booked, Ran, Outcomes, Successes
<1> QED BY <1>6, <1>7 DEF EdgeActive, Fires

\* What a level is entered with.
LEMMA ToRunIs ==
  ASSUME NodesAreNamed, Running, Booked, phase = "level", level < Len(levels),
         NEW n \in levels[level + 1], ReadsEarlier(n)
  PROVE  n \in ToRun <=> Called(n)
<1>1. \A e \in Edges : e.target = n =>
        (EdgeActive(e, active, failed, outputs) <=> Fires(e))
  BY BooksTell
<1> QED BY <1>1 DEF ToRun, NodeActive, Called

LEMMA WantedStill ==
  ASSUME Wanted, UNCHANGED <<workflow, levels, level, pc, outcome>>
  PROVE  Wanted'
<1>1. Nodes' = Nodes /\ Edges' = Edges /\ \A n : NodeOf(n)' = NodeOf(n)
  BY SameWorkflow
<1>2. \A n : (Entered(n)' <=> Entered(n)) /\ (ReadsEarlier(n)' <=> ReadsEarlier(n))
  BY <1>1 DEF Entered, ReadsEarlier, LevelOf
<1>3. \A e : Fires(e)' <=> Fires(e)
  BY <1>1 DEF Fires, Ran, ConditionHolds
<1>4. \A n : Called(n)' <=> Called(n)
  BY <1>1, <1>3 DEF Called
<1> QED BY <1>1, <1>2, <1>4 DEF Wanted

\* What a node needs to know of the levels before its own no longer changes.
LEMMA MovesWanted ==
  ASSUME NodesAreNamed, Running, Wanted, NEW n, Moves(n)
  PROVE  Wanted'
<1>1. /\ workflow' = workflow /\ levels' = levels /\ level' = level
      /\ n \in Nodes /\ pc[n] \in {"waiting", "running", "backoff"}
      /\ \A m \in Nodes : pc'[m] = "idle" <=> pc[m] = "idle"
      /\ \A m \in Nodes : m # n => outcome'[m] = outcome[m]
      /\ DOMAIN outcome' = Nodes /\ DOMAIN outcome = Nodes
  BY DEF Moves, books, Running, TypeOK
<1>2. Nodes' = Nodes /\ Edges' = Edges /\ \A m : NodeOf(m)' = NodeOf(m)
  BY <1>1, SameWorkflow
<1>3. \A m : (Entered(m)' <=> Entered(m)) /\ (ReadsEarlier(m)' <=> ReadsEarlier(m))
  BY <1>1, <1>2 DEF Entered, ReadsEarlier, LevelOf
<1>4. \A l \in 1 .. level : l < level => n \notin levels[l]
  BY <1>1, MoverIs
<1>5. ASSUME NEW m \in Nodes, Entered(m), ReadsEarlier(m), NEW e \in Edges, e.target = m
      PROVE  Fires(e)' <=> Fires(e)
  <2>1. PICK l \in 1 .. level : m \in levels[l]
    BY <1>5 DEF Entered
  <2>2. InLevels /\ l \in 1 .. Len(levels) /\ level \in Nat /\ workflow \in Workflows
    BY <2>1, LevelsEntered DEF Running, Phased
  <2>3. /\ e.source \in Nodes => LevelOf(e.source) \in 1 .. l - 1
        /\ e.condition # Always /\ e.condition.ref \in Nodes =>
             LevelOf(e.condition.ref) \in 1 .. l - 1
    BY <1>5, <2>1, <2>2, EdgeReads
  <2>4. ASSUME NEW i \in Nodes, LevelOf(i) \in 1 .. l - 1 PROVE outcome'[i] = outcome[i]
    <3>1. LevelOf(i) \in 1 .. level /\ LevelOf(i) < level /\ i \in levels[LevelOf(i)]
      BY <2>2, <2>4, LevelIs
    <3>2. i # n
      BY <1>4, <3>1
    <3> QED BY <1>1, <3>2
  <2>5. ConditionHolds(e.condition, outcome') <=> ConditionHolds(e.condition, outcome)
    BY <1>1, <2>3, <2>4 DEF ConditionHolds
  <2>6. e.source \in Nodes => outcome'[e.source] = outcome[e.source]
    BY <2>3, <2>4
  <2>7. ConditionHolds(e.condition, outcome)' <=> ConditionHolds(e.condition, outcome)
    BY <2>5 DEF ConditionHolds
  <2> QED BY <1>2, <2>6, <2>7 DEF Fires, Ran
<1>6. \A m \in Nodes : Entered(m) /\ ReadsEarlier(m) => (Called(m)' <=> Called(m))
  BY <1>2, <1>5 DEF Called
<1> QED BY <1>1, <1>2, <1>3, <1>6 DEF Wanted

LEMMA EnterWanted ==
  ASSUME NodesAreNamed, Running, Booked, Wanted, EnterLevel
  PROVE  Wanted'
<1>1. /\ phase = "level" /\ level < Len(levels)
      /\ UNCHANGED <<workflow, levels, outcome>>
  BY DEF EnterLevel
<1>2. Nodes' = Nodes /\ Edges' = Edges /\ \A n : NodeOf(n)' = NodeOf(n)
  BY <1>1, SameWorkflow
<1>3. \A n : ReadsEarlier(n)' <=> ReadsEarlier(n)
  BY <1>1, <1>2 DEF ReadsEarlier, LevelOf
<1>4. \A e : Fires(e)' <=> Fires(e)
  BY <1>1, <1>2 DEF Fires, Ran, ConditionHolds
<1>5. \A n : Called(n)' <=> Called(n)
  BY <1>2, <1>4 DEF Called
<1>6. ASSUME NEW n \in Nodes, Entered(n)', ReadsEarlier(n)
      PROVE  pc'[n] # "idle" <=> Called(n)
  <2>1. pc'[n] = IF n \in ToRun THEN "waiting" ELSE pc[n]
    BY EnterIs
  <2>2. CASE n \in levels[level + 1]
    <3>1. pc[n] = "idle" /\ (n \in ToRun <=> Called(n))
      BY <1>1, <1>6, <2>2, NextIsFresh, ToRunIs
    <3> QED BY <2>1, <3>1
  <2>3. CASE n \notin levels[level + 1]
    <3>1. Entered(n) /\ n \notin ToRun
      BY <1>6, <2>3, EnterIs DEF ToRun
    <3> QED BY <1>6, <2>1, <3>1 DEF Wanted
  <2> QED BY <2>2, <2>3
<1> QED BY <1>2, <1>3, <1>5, <1>6 DEF Wanted

LEMMA NextWanted ==
  NodesAreNamed /\ Running /\ Booked /\ Wanted /\ [Next]_vars => Wanted'
<1> SUFFICES ASSUME NodesAreNamed, Running, Booked, Wanted, [Next]_vars PROVE Wanted'
  OBVIOUS
<1>1. CASE Begin
  BY <1>1 DEF Begin, Running, Phased, Wanted, Entered
<1>2. CASE EnterLevel
  BY <1>2, EnterWanted
<1>3. CASE Apply \/ Complete \/ Raise \/ UNCHANGED vars
  BY <1>3, WantedStill DEF Apply, Complete, Raise, vars
<1>4. ASSUME NEW n \in Nodes, NodeStep(n) \/ RaiseNode(n) PROVE Wanted'
  BY <1>4, NodesMove, MovesWanted
<1> QED BY <1>1, <1>2, <1>3, <1>4 DEF Next, Executor

LEMMA AlwaysWanted == ASSUME NodesAreNamed PROVE Spec => []Wanted
<1>1. Init => Wanted
  BY DEF Init, Wanted, Entered
<1>2. Running /\ Booked /\ Wanted /\ [Next]_vars => Wanted'
  BY NextWanted
<1> QED BY <1>1, <1>2, AlwaysRunning, AlwaysBooked, PTL DEF Spec

\* Of the levels passed, a node was run exactly if it is the trigger or an edge
\* into it fires, and was recorded as skipped otherwise: no edge is decided from
\* books that a later result could still change.
THEOREM AlwaysRunsWhatIsWanted ==
  ASSUME NodesAreNamed PROVE Spec => []RunsWhatIsWanted
<1>1. Running /\ Wanted => RunsWhatIsWanted
  <2> SUFFICES ASSUME Running, Wanted, phase = "level" \/ status = "completed",
                      NEW l \in 1 .. level, NEW n \in levels[l]
               PROVE  /\ Ran(n) <=> ~Skipped(n)
                      /\ ReadsEarlier(n) => (Ran(n) <=> Called(n))
    BY DEF RunsWhatIsWanted, Called
  <2>1. n \in Nodes /\ Entered(n)
    BY LevelsEntered DEF Entered
  <2>2. /\ pc[n] \in {"idle", "done"}
        /\ Ran(n) <=> pc[n] = "done"
        /\ Skipped(n) <=> pc[n] = "idle"
    BY <2>1, PassedIs DEF Running, Phased
  <2> QED BY <2>1, <2>2 DEF Wanted
<1> QED BY <1>1, AlwaysRunning, AlwaysWanted, PTL

-----------------------------------------------------------------------------
(* No failure is swallowed.                                                 *)

\* An error edge that is active leads to a node that runs, once its level is entered.
Leads(e, n) ==
    /\ e.source = n /\ e.kind = "error"
    /\ EdgeActive(e, active, failed, outputs)
    /\ e.target \in Nodes /\ Entered(e.target) => pc[e.target] # "idle"

Handled ==
    \A n \in Nodes : outputs[n] = "failed" /\ n # culprit => \E e \in Edges : Leads(e, n)

LEMMA HandledStill ==
  ASSUME Handled, UNCHANGED <<workflow, levels, level, culprit, active, failed, outputs>>,
         \A n \in Nodes : pc[n] # "idle" => pc'[n] # "idle"
  PROVE  Handled'
<1>1. Nodes' = Nodes /\ Edges' = Edges
  BY SameWorkflow
<1>2. \A n : Entered(n)' <=> Entered(n)
  BY DEF Entered
<1>3. \A e, n : Leads(e, n) => Leads(e, n)'
  BY <1>1, <1>2 DEF Leads, EdgeActive, ConditionHolds
<1> QED BY <1>1, <1>3 DEF Handled

LEMMA EnterHandled ==
  ASSUME Running, Handled, EnterLevel
  PROVE  Handled'
<1>1. /\ phase = "level" /\ level < Len(levels)
      /\ UNCHANGED <<workflow, levels, culprit, active, failed, outputs>>
  BY DEF EnterLevel
<1>2. Nodes' = Nodes /\ Edges' = Edges
  BY <1>1, SameWorkflow
<1>3. ASSUME NEW n \in Nodes, NEW e \in Edges, Leads(e, n) PROVE Leads(e, n)'
  <2>1. EdgeActive(e, active, failed, outputs)'
    BY <1>1, <1>3 DEF Leads, EdgeActive, ConditionHolds
  <2>2. ASSUME e.target \in Nodes, Entered(e.target)' PROVE pc'[e.target] # "idle"
    <3>1. pc'[e.target] = IF e.target \in ToRun THEN "waiting" ELSE pc[e.target]
      BY <2>2, EnterIs
    <3>2. CASE e.target \in levels[level + 1]
      <4>1. e.target \in ToRun
        BY <1>3, <3>2 DEF ToRun, NodeActive, Leads
      <4> QED BY <3>1, <4>1
    <3>3. CASE e.target \notin levels[level + 1]
      <4>1. Entered(e.target)
        BY <2>2, <3>3, EnterIs
      <4> QED BY <1>3, <2>2, <3>1, <4>1 DEF Leads
    <3> QED BY <3>2, <3>3
  <2> QED BY <1>2, <1>3, <2>1, <2>2 DEF Leads
<1> QED BY <1>1, <1>2, <1>3 DEF Handled

\* A condition reads no key of a node that has no output.
LEMMA ConditionsRead ==
  ASSUME workflow \in Workflows, NEW e \in Edges
  PROVE  e.condition.key # "none"
<1> DEFINE W == [source : Nat, target : Nat, kind : {"normal", "error"},
                 condition : [ref : Nat, key : {"result", "else", "failed", "always"}]]
<1>1. workflow.edges \in Seq(W)
  BY WorkflowsAreLists, Zenon
<1>2. e \in W
  <2> HIDE DEF W
  <2> QED BY <1>1 DEF Edges
<1> QED BY <1>2

\* An edge that is active stays so as more results are applied.
LEMMA ActiveStays ==
  ASSUME Running, Booked, NEW D \in SUBSET Nodes, NEW done, D \subseteq done,
         NEW e \in Edges,
         EdgeActive(e, ActiveWith(D), FailedWith(D), OutputsWith(D))
  PROVE  EdgeActive(e, ActiveWith(done), FailedWith(done), OutputsWith(done))
<1>1. e.condition.key # "none"
  BY ConditionsRead DEF Running, Phased
<1>2. \A m \in Nodes : OutputsWith(D)[m] # "none" => OutputsWith(done)[m] = OutputsWith(D)[m]
  BY DEF OutputsWith, Booked
<1>3. DOMAIN OutputsWith(D) = Nodes /\ DOMAIN OutputsWith(done) = Nodes
  BY DEF OutputsWith
<1>4. ConditionHolds(e.condition, OutputsWith(D)) =>
        ConditionHolds(e.condition, OutputsWith(done))
  BY <1>1, <1>2, <1>3 DEF ConditionHolds
<1>5. ActiveWith(D) \subseteq ActiveWith(done) /\ FailedWith(D) \subseteq FailedWith(done)
  BY DEF ActiveWith, FailedWith
<1> QED BY <1>4, <1>5 DEF EdgeActive

LEMMA NothingApplied ==
  ASSUME Running
  PROVE  ActiveWith({}) = active /\ FailedWith({}) = failed /\ OutputsWith({}) = outputs
  BY DEF ActiveWith, FailedWith, OutputsWith, Running, TypeOK

LEMMA ApplyHandled ==
  ASSUME NodesAreNamed, Running, Booked, Handled, Apply
  PROVE  Handled'
<1>1. /\ phase = "gather" /\ \A n \in Gathered : pc[n] = "done"
      /\ UNCHANGED <<workflow, levels, level, pc>>
  BY DEF Apply
<1>2. /\ InLevels /\ level \in 1 .. Len(levels) /\ Gathered \subseteq Nodes
      /\ Applied \subseteq Gathered
      /\ outputs' = OutputsWith(Applied) /\ active' = ActiveWith(Applied)
      /\ failed' = FailedWith(Applied)
  BY ApplyIs
<1>3. /\ Uncaught = {} => Applied = Gathered
      /\ Uncaught # {} => /\ culprit' \in Uncaught /\ \A m \in Uncaught : culprit' <= m
                          /\ Applied = {n \in Gathered : n <= culprit'}
  BY ApplyIs
<1>4. Nodes' = Nodes /\ Edges' = Edges /\ \A n : Entered(n)' <=> Entered(n)
  BY <1>1, SameWorkflow DEF Entered
<1>5. culprit = 0 /\ Nodes \subseteq Nat \ {0} /\ workflow \in Workflows
  BY <1>1, NodesAre DEF Booked, Running, Phased
<1>6. ASSUME NEW n \in Nodes, outputs[n] = "failed"
      PROVE  \E e \in Edges : Leads(e, n)'
  <2>1. PICK e \in Edges : Leads(e, n)
    BY <1>5, <1>6 DEF Handled
  <2>2. EdgeActive(e, ActiveWith({}), FailedWith({}), OutputsWith({}))
    BY <2>1, NothingApplied DEF Leads
  <2>3. EdgeActive(e, ActiveWith(Applied), FailedWith(Applied), OutputsWith(Applied))
    BY <2>2, ActiveStays
  <2>4. EdgeActive(e, active', failed', outputs')
    BY <1>2, <2>3
  <2>5. EdgeActive(e, active, failed, outputs)'
    BY <2>4 DEF EdgeActive, ConditionHolds
  <2>6. Leads(e, n)'
    BY <1>1, <1>4, <2>1, <2>5 DEF Leads
  <2> QED BY <2>6
<1>7. ASSUME NEW n \in Applied, outcome[n] = "failed", n # culprit'
      PROVE  \E e \in Edges : Leads(e, n)'
  <2> DEFINE D == {m \in Gathered : m <= n}
  <2>1. n \in Gathered /\ n \in Nodes /\ D \subseteq Nodes /\ n \in Nat
    BY <1>2, <1>5
  <2>2. n \notin Uncaught
    <3> SUFFICES ASSUME n \in Uncaught PROVE FALSE
      OBVIOUS
    <3>1. /\ culprit' \in Uncaught /\ culprit' <= n
          /\ n \in {m \in Gathered : m <= culprit'}
      BY <1>3, <1>7
    <3>2. culprit' \in Nat /\ n <= culprit'
      BY <1>2, <1>5, <3>1 DEF Uncaught
    <3> QED BY <1>7, <2>1, <3>1, <3>2
  <2>3. Caught(n)
    BY <1>7, <2>1, <2>2 DEF Uncaught
  <2>4. D \subseteq Applied
    <3>1. CASE Uncaught = {}
      BY <1>3, <3>1
    <3>2. CASE Uncaught # {}
      <4>1. /\ n <= culprit' /\ culprit' \in Nat
            /\ Applied = {m \in Gathered : m <= culprit'}
        BY <1>2, <1>3, <1>5, <1>7, <3>2 DEF Uncaught
      <4>2. \A m \in Gathered : m \in Nat
        BY <1>2, <1>5
      <4>3. \A m \in D : m \in Gathered /\ m <= culprit'
        BY <2>1, <4>1, <4>2
      <4> HIDE DEF D
      <4> QED BY <4>1, <4>3
    <3> QED BY <3>1, <3>2
  <2>5. PICK e \in Edges :
          /\ e.source = n /\ e.kind = "error"
          /\ EdgeActive(e, ActiveWith(D), FailedWith(D), OutputsWith(D))
    BY <2>3 DEF Caught
  <2> HIDE DEF D
  <2>6. EdgeActive(e, ActiveWith(Applied), FailedWith(Applied), OutputsWith(Applied))
    BY <2>1, <2>4, <2>5, ActiveStays
  <2>7. EdgeActive(e, active', failed', outputs')
    BY <1>2, <2>6
  <2>8. EdgeActive(e, active, failed, outputs)'
    BY <2>7 DEF EdgeActive, ConditionHolds
  <2>9. ~(e.target \in Nodes /\ Entered(e.target))
    <3> SUFFICES ASSUME e.target \in Nodes, Entered(e.target) PROVE FALSE
      OBVIOUS
    <3>1. LevelOf(n) = level
      BY <1>2, <2>1, LevelIs DEF Gathered
    <3>2. LevelOf(e.source) < LevelOf(e.target)
      BY <1>2, <1>5, <2>1, <2>5, EdgesAscend
    <3>3. PICK l \in 1 .. level : e.target \in levels[l]
      BY DEF Entered
    <3>4. LevelOf(e.target) = l
      BY <3>3, LevelsEntered
    <3> QED BY <1>2, <2>5, <3>1, <3>2, <3>3, <3>4
  <2>10. Leads(e, n)'
    BY <1>4, <2>5, <2>8, <2>9 DEF Leads
  <2> QED BY <2>10
<1>8. \A n \in Nodes : outputs'[n] = IF n \in Applied THEN outcome[n] ELSE outputs[n]
  BY <1>2 DEF OutputsWith
<1>9. ASSUME NEW n \in Nodes, outputs'[n] = "failed", n # culprit'
      PROVE  \E e \in Edges : Leads(e, n)'
  BY <1>6, <1>7, <1>8, <1>9
<1> QED BY <1>4, <1>9 DEF Handled

LEMMA NextHandled ==
  NodesAreNamed /\ Running /\ Booked /\ Handled /\ [Next]_vars => Handled'
<1> SUFFICES ASSUME NodesAreNamed, Running, Booked, Handled, [Next]_vars PROVE Handled'
  OBVIOUS
<1>1. CASE Begin
  <2>1. Nodes' = Nodes /\ Edges' = Edges
    BY <1>1, SameWorkflow DEF Begin
  <2>2. \A n : ~Entered(n)'
    BY <1>1 DEF Begin, Running, Phased, Entered
  <2>3. \A e, n : Leads(e, n) => Leads(e, n)'
    BY <1>1, <2>1, <2>2 DEF Begin, Leads, EdgeActive, ConditionHolds
  <2> QED BY <1>1, <2>1, <2>3 DEF Begin, Handled
<1>2. CASE EnterLevel
  BY <1>2, EnterHandled
<1>3. CASE Apply
  BY <1>3, ApplyHandled
<1>4. CASE Complete \/ Raise \/ UNCHANGED vars
  BY <1>4, HandledStill DEF Complete, Raise, vars
<1>5. ASSUME NEW n \in Nodes, NodeStep(n) \/ RaiseNode(n) PROVE Handled'
  <2>1. Moves(n)
    BY <1>5, NodesMove
  <2> QED BY <2>1, HandledStill DEF Moves, books
<1> QED BY <1>1, <1>2, <1>3, <1>4, <1>5 DEF Next, Executor

LEMMA AlwaysHandled == ASSUME NodesAreNamed PROVE Spec => []Handled
<1>1. Init => Handled
  BY DEF Init, Handled
<1>2. Running /\ Booked /\ Handled /\ [Next]_vars => Handled'
  BY NextHandled
<1> QED BY <1>1, <1>2, AlwaysRunning, AlwaysBooked, PTL DEF Spec

\* An edge active in the books fires.
LEMMA ActiveFires ==
  ASSUME Running, Booked, NEW e \in Edges, EdgeActive(e, active, failed, outputs)
  PROVE  Fires(e)
<1>1. e.condition.key # "none"
  BY ConditionsRead DEF Running, Phased
<1>2. /\ DOMAIN outputs = Nodes /\ DOMAIN outcome = Nodes
      /\ \A m \in Nodes : outputs[m] # "none" => outputs[m] = outcome[m]
  BY DEF Running, TypeOK, Booked
<1>3. ConditionHolds(e.condition, outcome)
  BY <1>1, <1>2 DEF EdgeActive, ConditionHolds
<1>4. /\ e.source \in Nodes /\ Ran(e.source)
      /\ e.kind = "error" <=> outcome[e.source] = "failed"
  BY <1>2 DEF EdgeActive, Booked, Ran, Successes
<1> QED BY <1>3, <1>4 DEF Fires

\* No failure is swallowed: in a completed run every node that failed for good has
\* an error edge that fires, and the node it leads to was run.  Which failures are
\* caught is decided in the middle of applying a level's results: what was active
\* then still is at the end.
THEOREM FailureIsAlwaysHandled ==
  ASSUME NodesAreNamed PROVE Spec => []FailureIsHandled
<1>1. Running /\ Booked /\ Handled => FailureIsHandled
  <2> SUFFICES ASSUME Running, Booked, Handled, status = "completed",
                      \A e \in Edges : e.target # Missing,
                      NEW n \in Nodes, outcome[n] = "failed"
               PROVE  \E e \in Edges : /\ e.source = n /\ e.kind = "error"
                                       /\ Fires(e) /\ Ran(e.target)
    BY DEF FailureIsHandled
  <2>1. /\ InLevels /\ level = Len(levels) /\ phase = "over" /\ workflow \in Workflows
        /\ culprit = 0
    BY DEF Running, Phased, Booked
  <2>2. \A m \in Nodes : LevelOf(m) \in 1 .. level /\ m \in levels[LevelOf(m)]
    BY <2>1, LevelIs
  <2>3. outputs[n] = "failed" /\ n # culprit
    BY <2>1, <2>2, NodesAre DEF Booked
  <2>4. PICK e \in Edges : Leads(e, n)
    BY <2>3 DEF Handled
  <2>5. e.target \in Nodes
    <3>1. PICK k \in DOMAIN workflow.edges : e = workflow.edges[k]
      BY DEF Edges
    <3>2. e.source # Missing
      BY <2>1, <2>4 DEF Leads, NodesAreNamed, Nodes
    <3>3. k \in Linked(workflow.edges)
      BY <3>1, <3>2 DEF Linked
    <3> QED BY <2>1, <3>1, <3>3 DEF InLevels, TargetsKnown, Nodes
  <2>6. pc[e.target] # "idle"
    BY <2>2, <2>4, <2>5 DEF Leads, Entered
  <2>7. Ran(e.target)
    BY <2>1, <2>2, <2>5, <2>6, PassedIs
  <2> QED BY <2>4, <2>7, ActiveFires DEF Leads
<1> QED BY <1>1, AlwaysRunning, AlwaysBooked, AlwaysHandled, PTL
=============================================================================
