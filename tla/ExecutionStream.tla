---------------------------- MODULE ExecutionStream ----------------------------
(* The event streams (stream_execution of routers/executions.py) of clients    *)
(* that watch runs of PooledRuns.  A stream polls: it reads the execution's    *)
(* node_executions, sends what differs from what it sent, and then reads the   *)
(* status, until that is final.  Its session keeps one connection from the     *)
(* first SELECT to the end, and does not refresh a row whose object is still   *)
(* referenced: that of the loop's last `node`.                                 *)
EXTENDS PooledRuns

CONSTANTS
    Clients,      \* those who open a stream
    Watched,      \* the execution each client watches
    MaxAsking     \* how many copilot requests may be under way

ASSUME StreamAssumption ==
    Watched \in [Clients -> Executions] /\ MaxAsking \in Nat

VARIABLES
    stream,   \* where each client's stream stands
    seen,     \* the status it last sent of each node
    kept,     \* the rows its session holds on to, and the status each has there
    asking    \* how many copilot requests wait for a provider

streamVars == <<stream, seen, kept, asking>>
vars == <<runVars, streamVars>>

StreamInit ==
    /\ Init
    /\ stream = [c \in Clients |-> "none"]
    /\ seen = [c \in Clients |-> [n \in NodesOf[Watched[c]] |-> "none"]]
    /\ kept = [c \in Clients |-> << >>]
    /\ asking = 0

Streaming(c) == stream[c] \in {"polling", "sent"}

RunsUnchanged == UNCHANGED <<status, request, told, task, run, node, rows>>

Open(c) ==
    /\ stream[c] = "none" /\ Exists(Watched[c]) /\ Free
    /\ stream' = [stream EXCEPT ![c] = "polling"]
    /\ lent' = lent + 1
    /\ UNCHANGED <<seen, kept, asking>> /\ RunsUnchanged

\* The status of a row as the session has it.
StatusSeen(c, k) ==
    IF k \in DOMAIN kept[c] THEN kept[c][k] ELSE rows[Watched[c]][k].status

\* Mutated form of Keep: the list of rows stays referenced, and all that is in it.
KeepAll(c) ==
    LET e == Watched[c] IN
    IF rows[e] = << >> THEN kept[c]
    ELSE [k \in DOMAIN rows[e] |-> StatusSeen(c, k)]

\* After the loop `node` is the last row; without rows it is what it was.
Keep(c) ==
    LET e == Watched[c] IN
    IF rows[e] = << >> THEN kept[c]
    ELSE [k \in {Len(rows[e])} |-> StatusSeen(c, k)]

\* What was sent last of each node, row k included: a status that differs from the
\* one before is sent, and an attempt that is not the last is with every poll.
Update(c, k, sent) ==
    [sent EXCEPT ![rows[Watched[c]][k].node] = StatusSeen(c, k)]

\* The loop over the rows.
Sent(c) ==
    LET after[k \in 0 .. Len(rows[Watched[c]])] ==
            IF k = 0 THEN seen[c] ELSE Update(c, k, after[k - 1])
    IN  after[Len(rows[Watched[c]])]

Poll(c) ==
    /\ stream[c] = "polling"
    /\ stream' = [stream EXCEPT ![c] = "sent"]
    /\ seen' = [seen EXCEPT ![c] = Sent(c)]
    /\ kept' = [kept EXCEPT ![c] = Keep(c)]
    /\ UNCHANGED <<lent, asking>> /\ RunsUnchanged

\* Mutated form of Final: a cancelled execution is not recognised.
FinalRun(s) == s \in {"completed", "failed"}

Final(s) == s \in {"completed", "failed", "cancelled"}

\* The status is read by itself, after the rows: a final one ends the stream.
ReadStatus(c) ==
    /\ stream[c] = "sent"
    /\ IF Final(status[Watched[c]])
         THEN /\ stream' = [stream EXCEPT ![c] = "completed"]
              /\ lent' = lent - 1
         ELSE /\ stream' = [stream EXCEPT ![c] = "polling"]
              /\ UNCHANGED lent
    /\ UNCHANGED <<seen, kept, asking>> /\ RunsUnchanged

Disconnect(c) ==
    /\ Streaming(c)
    /\ stream' = [stream EXCEPT ![c] = "gone"]
    /\ lent' = lent - 1
    /\ UNCHANGED <<seen, kept, asking>> /\ RunsUnchanged

\* A copilot request keeps the connection that its authentication took while the
\* providers are asked.
Ask ==
    /\ asking < MaxAsking /\ Free
    /\ asking' = asking + 1 /\ lent' = lent + 1
    /\ UNCHANGED <<stream, seen, kept>> /\ RunsUnchanged

Reply ==
    /\ asking > 0
    /\ asking' = asking - 1 /\ lent' = lent - 1
    /\ UNCHANGED <<stream, seen, kept>> /\ RunsUnchanged

StreamStep(c) == Poll(c) \/ ReadStatus(c)

Next ==
    \/ RunNext /\ UNCHANGED streamVars
    \/ \E c \in Clients : Open(c) \/ StreamStep(c) \/ Disconnect(c)
    \/ Ask \/ Reply

Spec == StreamInit /\ [][Next]_vars

\* The event loop goes on with every coroutine that can take its next step; who
\* waits for a connection gets one or times out; and calls come back.  Nobody has
\* to submit, cancel, delete, open a stream or leave one.
FairSpec ==
    /\ Spec
    /\ \A e \in Executions :
         /\ WF_vars(RequestStep(e) /\ UNCHANGED streamVars)
         /\ WF_vars(TaskStep(e) /\ UNCHANGED streamVars)
         /\ WF_vars(RunStep(e) /\ UNCHANGED streamVars)
         /\ \A n \in NodesOf[e] : WF_vars(NodeStep(e, n) /\ UNCHANGED streamVars)
    /\ \A c \in Clients : WF_vars(StreamStep(c))

-----------------------------------------------------------------------------

\* Every part is where it can be, and the pool never lends more than it has.
TypeOK ==
    /\ status \in [Executions -> Status]
    /\ request \in [Executions ->
                      {"none", "refreshing", "waiting", "answered", "failed"}]
    /\ told \in [Executions -> {"none"} \cup Live \cup Terminal]
    /\ task \in [Executions -> {"none", "claiming", "won", "lost", "raised"}]
    /\ run \in [Executions ->
                  {"none", "claimed", "running", "settled", "over", "raised"}]
    /\ \A e \in Executions :
         /\ node[e] \in [NodesOf[e] -> {"none", "ready", "resolving", "calling",
                           "failing", "backoff", "completed", "failed", "raised"}]
         /\ \A k \in DOMAIN rows[e] :
              rows[e][k] \in [node : NodesOf[e],
                              status : {"running", "completed", "failed"}]
         /\ \A n \in NodesOf[e] : Tried(e, n) <= Attempts[n]
    /\ stream \in [Clients -> {"none", "polling", "sent", "completed", "gone"}]
    /\ asking \in 0 .. MaxAsking
    /\ lent = asking + Cardinality({c \in Clients : Streaming(c)})
    /\ Held <= PoolSize

\* "Bound concurrent node execution so a wide fan-out can't exhaust the DB pool":
\* one execution alone, its awaiting request included, leaves a connection free,
\* also when its run was ended by one node and the others go on.
FanOutLeavesRoom == \A e \in Executions : OwnConnections(e) < PoolSize

\* wait_for_completion answers with an outcome, if the task it awaits is the one
\* that ran the execution; only a request that lost the claim to the worker is
\* answered before, and no request is answered by a run that raised.
AwaitedAnswerIsFinal ==
    \A e \in Awaited :
        request[e] = "answered" =>
            \/ told[e] \in Terminal
            \/ task[e] = "lost"

\* Every request for an execution is answered or fails, however many requests
\* keep a connection each while their runs wait for one: somebody times out.
EveryRequestEnds ==
    \A e \in Executions :
        request[e] \in {"refreshing", "waiting"} ~> request[e] \in {"answered", "failed"}

\* When an outcome stands, every stream that watches it ends.  (A run that raised
\* leaves its row running, and its streams go on until their clients leave.)
StreamEnds ==
    \A c \in Clients :
        <>[](status[Watched[c]] \in Terminal) => <>[](~Streaming(c))

\* Row k was the last one when the client's stream polled before: the object its
\* session still refers to.
LastBefore(c, k) == k \in DOMAIN kept[c] /\ \A l \in DOMAIN kept[c] : l <= k

\* A step that polls for the client leaves it with the present status of the latest
\* attempt of every node, but for the one whose row was the last at the poll before.
CatchesUp(c) ==
    stream[c] = "polling" /\ stream'[c] = "sent" =>
        LET e == Watched[c] IN
        \A n \in NodesOf[e] :
          Tried(e, n) > 0 =>
            \/ seen'[c][n] = rows[e][Latest(e, n)].status
            \/ LastBefore(c, Latest(e, n))

\* However many attempts and polls went before, and whatever else the session has
\* read, every poll catches up.  (This does not say that there is another poll: a
\* node that settles after the last one is never told.)
PollsCatchUp == [][ \A c \in Clients : CatchesUp(c) ]_vars
=============================================================================
