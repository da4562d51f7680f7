------------------------- MODULE WebhookIngestProofs -------------------------
(* The replay memory, the absence of silent losses and the schema of a        *)
(* webhook, for any events, requests, processes, tolerance and skews.         *)
EXTENDS WebhookIngest, TLAPS

\* A request under way is a record with all its fields.
LEMMA UnderWay ==
  ASSUME TypeOK, NEW r \in Requests, req[r].pc \in Stages
  PROVE  req[r] \in Request
  BY DEF TypeOK, Stages, Idle

LEMMA InitTypeOK == Init => TypeOK
  BY IngestAssumption
  DEF Init, TypeOK, Workflow, Trigger, Guards, Outdated, Events, Idle

\* The part of the type invariant about requests.
RequestsOK == req \in [Requests -> Request \cup {Idle}]

LEMMA LeaveType ==
  ASSUME TypeOK, NEW r \in Requests, Leave(r) PROVE RequestsOK'
  BY DEF TypeOK, RequestsOK, Leave

LEMMA GoOnType ==
  ASSUME TypeOK, NEW r \in Requests, req[r].pc \in Stages,
         GoOn(r) \/ ToInsert(r) \/ MoveTo(r, "replay")
  PROVE  RequestsOK'
<1>1. req[r] \in Request
  BY UnderWay
<1> DEFINE last == [req[r] EXCEPT !.pc = "insert", !.guard = "open", !.taught = TRUE]
           next(pc) == [req[r] EXCEPT !.pc = pc]
<1>2. last \in Request /\ next("learn") \in Request /\ next("replay") \in Request
  BY <1>1 DEF Request, Stages, Guards
<1>3. \/ req' = [req EXCEPT ![r] = last]
      \/ req' = [req EXCEPT ![r] = next("learn")]
      \/ req' = [req EXCEPT ![r] = next("replay")]
  BY DEF GoOn, ToInsert, MoveTo
<1> QED
  BY <1>2, <1>3 DEF TypeOK, RequestsOK

\* Who leaves or goes on is not before a replay check, and nobody else moves.
LEMMA Onward ==
  ASSUME TypeOK, NEW r \in Requests, req[r].pc \in Stages,
         Leave(r) \/ GoOn(r) \/ ToInsert(r)
  PROVE  /\ req'[r].pc # "replay"
         /\ \A q \in Requests \ {r} : req'[q] = req[q]
<1>1. req \in [Requests -> Request \cup {Idle}] /\ req[r] \in Request
  BY UnderWay DEF TypeOK
<1>2. CASE Leave(r)
  BY <1>1, <1>2 DEF Leave, Idle
<1>3. CASE ToInsert(r)
  BY <1>1, <1>3 DEF ToInsert, Request
<1>4. CASE MoveTo(r, "learn")
  BY <1>1, <1>4 DEF MoveTo, Request
<1> QED BY <1>2, <1>3, <1>4 DEF GoOn

\* Who waits for its replay check carries a signature.
ReplaysAreSigned ==
    \A r \in Requests : req[r].pc = "replay" => req[r].event \in Signatures

\* Every handler's step, as what it does to the requests: one leaves, or goes on to
\* its replay check, to its schema or to its execution.
LEMMA StepsOfRequests ==
  ASSUME NEW r \in Requests, Handler(r)
  PROVE  /\ req[r].pc \in Stages
         /\ Leave(r) \/ MoveTo(r, "replay") \/ GoOn(r) \/ ToInsert(r)
  BY DEF Handler, Checked, Unauthorized, Timely, Replayed, Respond, Pass, PassUnchecked,
         Learn, Insert, Orphaned, DatabaseError, Stages

LEMMA NextSigned == TypeOK /\ ReplaysAreSigned /\ [Next]_vars => ReplaysAreSigned'
<1> SUFFICES ASSUME TypeOK, ReplaysAreSigned, [Next]_vars PROVE ReplaysAreSigned'
  OBVIOUS
<1> USE DEF ReplaysAreSigned
<1>1. CASE UNCHANGED req
  BY <1>1
<1>2. CASE Tick \/ Edit \/ UNCHANGED vars \/ \E s \in Signatures : Sign(s)
  BY <1>1, <1>2 DEF Tick, Edit, PatchStatus, PatchTrigger, DeleteWorkflow, vars, Sign
<1>3. ASSUME NEW p \in Processes, Restart(p) PROVE ReplaysAreSigned'
  BY <1>3 DEF Restart, Idle, TypeOK
<1>4. ASSUME NEW r \in Requests, NEW e \in Events, NEW p \in Processes, Found(r, e, p)
      PROVE  ReplaysAreSigned'
  BY <1>4 DEF Found, TypeOK
<1>5. ASSUME NEW r \in Requests, Handler(r) PROVE ReplaysAreSigned'
  <2>1. req \in [Requests -> Request \cup {Idle}] /\ req[r] \in Request
    BY <1>5, UnderWay, StepsOfRequests DEF TypeOK
  <2>2. CASE Leave(r) \/ GoOn(r) \/ ToInsert(r)
    BY <1>5, <2>2, Onward, StepsOfRequests
  <2>3. CASE MoveTo(r, "replay") /\ ~Leave(r) /\ ~(GoOn(r) \/ ToInsert(r))
    <3>1. PICK form \in FormsOf(req[r].event) : Timely(r, form)
      BY <1>5, <2>3
      DEF Handler, Checked, Unauthorized, Replayed, Respond, Pass, PassUnchecked,
          Learn, Insert, Orphaned, DatabaseError
    <3>2. req[r].event \in Signatures
      BY <3>1 DEF Timely, FormsOf, Forms
    <3>3. /\ req'[r].event = req[r].event
          /\ \A q \in Requests \ {r} : req'[q] = req[q]
      BY <2>1, <2>3 DEF MoveTo, Request
    <3> QED BY <3>2, <3>3
  <2> QED BY <1>5, <2>2, <2>3, StepsOfRequests
<1> QED BY <1>2, <1>3, <1>4, <1>5 DEF Next

LEMMA NextTypeOK == TypeOK /\ ReplaysAreSigned /\ [Next]_vars => TypeOK'
<1> SUFFICES ASSUME TypeOK, ReplaysAreSigned, [Next]_vars PROVE TypeOK'
  OBVIOUS
<1> USE IngestAssumption
<1>1. CASE Tick
  BY <1>1 DEF Tick, TypeOK, Older, Outdated
<1>2. CASE Edit
  BY <1>2 DEF Edit, PatchStatus, PatchTrigger, DeleteWorkflow, TypeOK,
              Workflow, Trigger, NoTrigger, Guards
<1>3. ASSUME NEW s \in Signatures, Sign(s) PROVE TypeOK'
  BY <1>3 DEF Sign, TypeOK, Events
<1>4. ASSUME NEW p \in Processes, Restart(p) PROVE TypeOK'
  BY <1>4 DEF Restart, TypeOK
<1>5. ASSUME NEW r \in Requests, NEW e \in Events, NEW p \in Processes, Found(r, e, p)
      PROVE  TypeOK'
  <2>1. workflow.trigger.guard \in Guards
    BY DEF TypeOK, Workflow, Trigger
  <2> QED BY <1>5, <2>1 DEF Found, TypeOK, Request, Stages
<1>6. ASSUME NEW r \in Requests, Handler(r) PROVE TypeOK'
  <2>1. ASSUME Respond(r) PROVE TypeOK'
    BY <2>1, LeaveType DEF Respond, TypeOK, RequestsOK
  <2>2. CASE Pass(r)
    <3>1. req[r] \in Request /\ RequestsOK'
      BY <2>2, UnderWay, GoOnType DEF Pass, Stages
    <3>2. req[r].event \in Signatures /\ req[r].at \in Processes
      BY <2>2, <3>1 DEF Pass, Request, ReplaysAreSigned
    <3> QED BY <2>2, <3>1, <3>2 DEF Pass, Memory, TypeOK, RequestsOK
  <2>3. ASSUME req[r].pc = "check", NEW form, PassUnchecked(r, form) \/ Timely(r, form)
        PROVE  TypeOK'
    BY <2>3, GoOnType DEF PassUnchecked, Timely, TypeOK, RequestsOK, Stages
  <2>4. CASE Learn(r)
    <3>1. req[r] \in Request /\ RequestsOK'
      BY <2>4, UnderWay, GoOnType DEF Learn, Stages
    <3>2. [guard |-> req[r].guard, schema |-> req[r].event] \in Trigger
      BY <3>1 DEF Request, Trigger
    <3> QED BY <2>4, <3>1, <3>2 DEF Learn, TypeOK, RequestsOK, Workflow
  <2>5. CASE Insert(r)
    BY <2>5, LeaveType DEF Insert, TypeOK, RequestsOK
  <2>6. CASE DatabaseError(r)
    <3>1. stored' \in [Events -> BOOLEAN]
      BY <2>6 DEF DatabaseError, TypeOK
    <3> QED BY <2>6, <3>1, LeaveType DEF DatabaseError, TypeOK, RequestsOK
  <2> QED
    BY <1>6, <2>1, <2>2, <2>3, <2>4, <2>5, <2>6
    DEF Handler, Checked, Unauthorized, Replayed, Orphaned
<1>7. CASE UNCHANGED vars
  BY <1>7 DEF vars, TypeOK
<1> QED BY <1>1, <1>2, <1>3, <1>4, <1>5, <1>6, <1>7 DEF Next

LEMMA AlwaysSigned == Spec => [](TypeOK /\ ReplaysAreSigned)
<1>1. Init => ReplaysAreSigned
  BY DEF Init, ReplaysAreSigned, Idle
<1> QED BY <1>1, InitTypeOK, NextTypeOK, NextSigned, PTL DEF Spec

\* Rows, requests, times and counters stay what they are.
THEOREM IngestTypeCorrect == Spec => []TypeOK
  BY AlwaysSigned, PTL

-----------------------------------------------------------------------------
\* Between its readings of the clock a request is alone in its process, and the
\* timestamp it found fresh is no further ahead than the window.
Alone ==
    /\ \A r, q \in Requests :
         req[r].pc = "replay" /\ req[q].pc = "replay" /\ req[r].at = req[q].at => r = q
    /\ \A r \in Requests : req[r].pc = "replay" => lead[req[r].event] <= Tolerance

LEMMA NextAlone ==
  TypeOK /\ ReplaysAreSigned /\ Alone /\ [Next]_vars => Alone'
<1> SUFFICES ASSUME TypeOK, ReplaysAreSigned, Alone, [Next]_vars PROVE Alone'
  OBVIOUS
<1> USE IngestAssumption DEF Alone
<1>1. CASE Tick
  <2>1. req' = req /\ \A s \in Signatures : lead'[s] <= lead[s]
    BY <1>1 DEF Tick, Older, TypeOK
  <2>2. ASSUME NEW r \in Requests, req[r].pc = "replay"
        PROVE  lead'[req[r].event] <= Tolerance
    <3>1. /\ req[r].event \in Signatures
          /\ lead[req[r].event] \in Int /\ lead'[req[r].event] \in Int
      BY <1>1, <2>2 DEF ReplaysAreSigned, TypeOK, Tick, Older
    <3> QED BY <2>1, <2>2, <3>1
  <2> QED BY <2>1, <2>2
<1>2. ASSUME NEW s \in Signatures, Sign(s) PROVE Alone'
  <2>1. req' = req /\ \A t \in Signatures \ {s} : lead'[t] = lead[t]
    BY <1>2 DEF Sign, TypeOK
  <2>2. ASSUME NEW r \in Requests, req[r].pc = "replay" PROVE req[r].event # s
    BY <1>2, <2>2 DEF Sign, Carries, Active, Idle
  <2> QED BY <2>1, <2>2 DEF ReplaysAreSigned
<1>3. ASSUME NEW p \in Processes, Restart(p) PROVE Alone'
  BY <1>3 DEF Restart, Idle, TypeOK
<1>4. ASSUME NEW r \in Requests, NEW e \in Events, NEW p \in Processes, Found(r, e, p)
      PROVE  Alone'
  BY <1>4 DEF Found, TypeOK
<1>5. ASSUME NEW r \in Requests, Handler(r) PROVE Alone'
  <2>1. req \in [Requests -> Request \cup {Idle}] /\ req[r] \in Request
    BY <1>5, UnderWay, StepsOfRequests DEF TypeOK
  <2>2. lead' = lead
    BY <1>5 DEF Handler, Checked, Unauthorized, Timely, Replayed, Respond, Pass,
                PassUnchecked, Learn, Insert, Orphaned, DatabaseError
  <2>3. CASE Leave(r) \/ GoOn(r) \/ ToInsert(r)
    BY <1>5, <2>2, <2>3, Onward, StepsOfRequests
  <2>4. CASE MoveTo(r, "replay") /\ ~Leave(r) /\ ~(GoOn(r) \/ ToInsert(r))
    <3>1. PICK form \in FormsOf(req[r].event) : Timely(r, form) /\ Undisturbed(req[r].at)
      BY <1>5, <2>4
      DEF Handler, Checked, Unauthorized, Replayed, Respond, Pass, PassUnchecked,
          Learn, Insert, Orphaned, DatabaseError
    <3>2. /\ lead[req[r].event] <= Tolerance
          /\ \A q \in Requests : req[q].pc = "replay" => req[q].at # req[r].at
      BY <3>1 DEF Timely, Fresh, Undisturbed
    <3>3. /\ req'[r].event = req[r].event /\ req'[r].at = req[r].at
          /\ \A q \in Requests \ {r} : req'[q] = req[q]
      BY <2>1, <2>4 DEF MoveTo, Request
    <3> QED BY <2>2, <3>2, <3>3
  <2> QED BY <1>5, <2>3, <2>4, StepsOfRequests
<1>6. CASE Edit \/ UNCHANGED vars
  BY <1>6 DEF Edit, PatchStatus, PatchTrigger, DeleteWorkflow, vars
<1> QED BY <1>1, <1>2, <1>3, <1>4, <1>5, <1>6 DEF Next

\* Why one life lets a signature past only so often.  Only a clock that is ahead
\* signs with a lead, and the memory lasts Tolerance from each pass.  The last but
\* one comes when there is no lead any more, so that the memory of it lasts as long
\* as the window; the last comes after that, and nobody is fresh any more.
Allowed(s) == IF ahead[s] THEN 3 ELSE 2

Spent(p, s) ==
    /\ lead[s] < -Tolerance
    /\ \A r \in Requests :
         req[r].pc = "replay" => ~(req[r].at = p /\ req[r].event = s)

Remembers(p, s) ==
    /\ ahead[s] \/ lead[s] <= 0
    /\ passes[p][s] <= Allowed(s)
    /\ passes[p][s] = Allowed(s) => Spent(p, s)
    /\ passes[p][s] = Allowed(s) - 1 => seen[p][s] >= lead[s] + Tolerance
    /\ passes[p][s] > 0 => seen[p][s] >= lead[s]

AllRemember == \A p \in Processes, s \in Signatures : Remembers(p, s)

\* A pass needs that nothing is remembered, and counts one more.
LEMMA PassRemembers ==
  ASSUME TypeOK, ReplaysAreSigned, Alone, AllRemember, NEW r \in Requests, Pass(r),
         NEW p \in Processes, NEW s \in Signatures
  PROVE  Remembers(p, s)'
<1> USE IngestAssumption DEF AllRemember, Remembers
<1>1. /\ req[r] \in Request /\ req[r].pc = "replay"
      /\ req \in [Requests -> Request \cup {Idle}]
  BY UnderWay DEF Pass, Stages, TypeOK
<1>2. /\ req'[r].pc # "replay"
      /\ \A q \in Requests \ {r} : req'[q] = req[q]
  BY <1>1, Onward DEF Pass, Stages
<1>3. req[r].at \in Processes /\ req[r].event \in Signatures
  BY <1>1 DEF Request, ReplaysAreSigned
<1>4. UNCHANGED <<lead, ahead>> /\ lead[s] \in Int /\ passes[p][s] \in Nat
      /\ Allowed(s) \in {2, 3} /\ Allowed(s)' = Allowed(s)
  BY DEF Pass, TypeOK, Allowed
<1>5. CASE p = req[r].at /\ s = req[r].event
  <2>1. /\ seen[p][s] < 0 /\ lead[s] <= Tolerance
        /\ seen'[p][s] = Tolerance /\ passes'[p][s] = passes[p][s] + 1
    BY <1>1, <1>5 DEF Pass, Memory, Remembered, TypeOK, Alone
  <2>2. seen[p][s] = -1
    BY <2>1 DEF TypeOK
  <2>3. passes[p][s] # Allowed(s)
    BY <1>1, <1>5 DEF Spent
  <2>4. passes'[p][s] = Allowed(s) => Spent(p, s)'
    <3>1. SUFFICES ASSUME passes'[p][s] = Allowed(s) PROVE Spent(p, s)'
      OBVIOUS
    <3>2. lead[s] < -Tolerance
      BY <1>4, <2>1, <2>2, <3>1
    <3>3. \A q \in Requests \ {r} :
            req[q].pc = "replay" => req[q].at # p
      BY <1>1, <1>5 DEF Alone
    <3> QED BY <1>2, <1>4, <3>2, <3>3 DEF Spent
  <2>5. passes'[p][s] = Allowed(s) - 1 => lead[s] <= 0
    <3>1. CASE ahead[s]
      BY <1>4, <2>1, <2>2, <3>1 DEF Allowed
    <3>2. CASE ~ahead[s]
      BY <3>2
    <3> QED BY <3>1, <3>2
  <2> QED BY <1>4, <2>1, <2>3, <2>4, <2>5
<1>6. CASE ~(p = req[r].at /\ s = req[r].event)
  <2>1. seen'[p][s] = seen[p][s] /\ passes'[p][s] = passes[p][s]
    BY <1>3, <1>6 DEF Pass, TypeOK
  <2>2. Spent(p, s) => Spent(p, s)'
    BY <1>2, <1>4 DEF Spent
  <2> QED BY <1>4, <2>1, <2>2
<1> QED BY <1>5, <1>6

LEMMA NextRemembers ==
  ASSUME TypeOK, ReplaysAreSigned, Alone, AllRemember, [Next]_vars,
         NEW p \in Processes, NEW s \in Signatures
  PROVE  Remembers(p, s)'
<1> USE IngestAssumption
<1>1. Remembers(p, s)
  BY DEF AllRemember
<1>2. Allowed(s) \in {2, 3}
  BY DEF Allowed
<1>3. CASE Tick
  <2>1. /\ lead'[s] = Older(lead[s], Outdated)
        /\ seen'[p][s] = Older(seen[p][s], -1)
        /\ UNCHANGED <<ahead, passes, req>>
    BY <1>3 DEF Tick
  <2>2. lead[s] \in Int /\ seen[p][s] \in -1 .. Tolerance
    BY DEF TypeOK
  <2>3. Spent(p, s) => Spent(p, s)'
    BY <2>1, <2>2 DEF Spent, Older
  <2> QED BY <1>1, <1>2, <2>1, <2>2, <2>3 DEF Remembers, Older, Outdated, Allowed
<1>4. ASSUME NEW t \in Signatures, Sign(t) PROVE Remembers(p, s)'
  <2>1. CASE t = s
    <3>1. PICK k \in Skews : lead'[s] = k /\ ahead'[s] = (k > 0)
      BY <1>4, <2>1 DEF Sign, TypeOK
    <3>2. passes'[p][s] = 0
      BY <1>4, <2>1 DEF Sign, TypeOK
    <3>3. ahead'[s] \/ lead'[s] <= 0
      <4>1. CASE k > 0
        BY <3>1, <4>1
      <4>2. CASE ~(k > 0)
        BY <3>1, <4>2
      <4> QED BY <4>1, <4>2
    <3>4. Allowed(s)' \in {2, 3}
      BY DEF Allowed
    <3> QED BY <3>2, <3>3, <3>4 DEF Remembers
  <2>2. CASE t # s
    <3>1. /\ lead'[s] = lead[s] /\ ahead'[s] = ahead[s] /\ req' = req
          /\ seen'[p][s] = seen[p][s] /\ passes'[p][s] = passes[p][s]
      BY <1>4, <2>2 DEF Sign, TypeOK
    <3> QED BY <1>1, <3>1 DEF Remembers, Allowed, Spent
  <2> QED BY <2>1, <2>2
<1>5. ASSUME NEW q \in Processes, Restart(q) PROVE Remembers(p, s)'
  <2>1. UNCHANGED <<lead, ahead>>
        /\ (passes'[p][s] = 0 \/ (passes'[p][s] = passes[p][s] /\ seen'[p][s] = seen[p][s]))
    BY <1>5 DEF Restart, TypeOK
  <2>2. Spent(p, s) => Spent(p, s)'
    BY <1>5, <2>1 DEF Spent, Restart, Idle, TypeOK
  <2> QED BY <1>1, <1>2, <2>1, <2>2 DEF Remembers, Allowed
<1>6. ASSUME UNCHANGED <<lead, ahead, seen, passes>>, Spent(p, s) => Spent(p, s)'
      PROVE  Remembers(p, s)'
  BY <1>1, <1>6 DEF Remembers, Allowed
<1>7. ASSUME NEW r \in Requests, NEW e \in Events, NEW q \in Processes, Found(r, e, q)
      PROVE  Remembers(p, s)'
  BY <1>6, <1>7 DEF Found, Spent, TypeOK
<1>8. ASSUME NEW r \in Requests, Handler(r), ~Pass(r) PROVE Remembers(p, s)'
  <2>1. req \in [Requests -> Request \cup {Idle}] /\ req[r] \in Request
    BY <1>8, UnderWay, StepsOfRequests DEF TypeOK
  <2>2. UNCHANGED <<lead, ahead, seen, passes>>
    BY <1>8 DEF Handler, Checked, Unauthorized, Timely, Replayed, Respond,
                PassUnchecked, Learn, Insert, Orphaned, DatabaseError
  <2>3. CASE Leave(r) \/ GoOn(r) \/ ToInsert(r)
    <3>1. /\ req'[r].pc # "replay"
          /\ \A q \in Requests \ {r} : req'[q] = req[q]
      BY <1>8, <2>3, Onward, StepsOfRequests
    <3> QED BY <1>6, <2>2, <3>1 DEF Spent
  <2>4. CASE MoveTo(r, "replay") /\ ~(Leave(r) \/ GoOn(r) \/ ToInsert(r))
    <3>1. PICK form \in FormsOf(req[r].event) : Timely(r, form)
      BY <1>8, <2>4
      DEF Handler, Checked, Unauthorized, Replayed, Respond, PassUnchecked,
          Learn, Insert, Orphaned, DatabaseError
    <3>2. /\ req'[r].event = req[r].event
          /\ \A q \in Requests \ {r} : req'[q] = req[q]
      BY <2>1, <2>4 DEF MoveTo, Request
    <3>3. -Tolerance <= lead[req[r].event]
      BY <3>1 DEF Timely, Fresh
    <3>4. Spent(p, s) => req[r].event # s
      BY <3>3 DEF Spent, TypeOK
    <3> QED BY <1>6, <2>2, <3>2, <3>4 DEF Spent
  <2> QED BY <1>8, <2>3, <2>4, StepsOfRequests
<1>9. CASE Edit \/ UNCHANGED vars
  BY <1>6, <1>9 DEF Edit, PatchStatus, PatchTrigger, DeleteWorkflow, vars, Spent
<1> QED
  BY <1>3, <1>4, <1>5, <1>7, <1>8, <1>9, PassRemembers DEF Next

LEMMA AlwaysRemembers == Spec => [](TypeOK /\ AllRemember)
<1>1. Init => Alone /\ AllRemember
  BY IngestAssumption
  DEF Init, Alone, AllRemember, Remembers, Allowed, Spent, Outdated, Idle
<1>2. TypeOK /\ ReplaysAreSigned /\ Alone /\ AllRemember /\ [Next]_vars => AllRemember'
  BY NextRemembers DEF AllRemember
<1> QED BY <1>1, <1>2, NextAlone, AlwaysSigned, PTL DEF Spec

\* One life of a process lets a signature past twice at most, or three times if its
\* sender's clock is ahead: for any tolerance and any skew.
THEOREM FewPerLifeHolds == Spec => []FewPerLife
<1>1. AllRemember => FewPerLife
  BY DEF AllRemember, Remembers, FewPerLife, Allowed
<1> QED BY <1>1, AlwaysRemembers, PTL

\* Unless the sender's clock is ahead, what was let past is remembered to the end of
\* its window.
THEOREM MemoryAlwaysOutlastsWindow == Spec => []MemoryOutlastsWindow
<1>1. TypeOK /\ AllRemember => MemoryOutlastsWindow
  <2> SUFFICES ASSUME TypeOK, AllRemember, NEW p \in Processes, NEW s \in Signatures,
                      passes[p][s] > 0, ~ahead[s], Fresh(s)
               PROVE  seen[p][s] >= 0
    BY DEF MemoryOutlastsWindow, Remembered
  <2>1. /\ lead[s] \in Int /\ seen[p][s] \in Int /\ passes[p][s] \in Nat
        /\ -Tolerance <= lead[s]
    BY DEF TypeOK, Fresh
  <2>2. passes[p][s] = 1
    BY <2>1, IngestAssumption DEF AllRemember, Remembers, Spent, Allowed
  <2> QED BY <2>1, <2>2, IngestAssumption DEF AllRemember, Remembers, Allowed
<1> QED BY <1>1, AlwaysRemembers, PTL

-----------------------------------------------------------------------------
\* A request on its way to its execution.
Storing(r, e) == Carries(r, e) /\ req[r].pc \in {"learn", "insert"}

\* Where a request goes from its check or from having learnt.
LEMMA GoOnStores ==
  ASSUME TypeOK, NEW r \in Requests, NEW e \in Events, req[r].event = e,
         req[r].pc \in Stages, GoOn(r) \/ ToInsert(r)
  PROVE  Storing(r, e)'
<1>1. req[r] \in Request
  BY UnderWay
<1>2. req'[r].event = e /\ req'[r].pc \in {"learn", "insert"}
  BY <1>1 DEF GoOn, ToInsert, MoveTo, TypeOK, Request
<1> QED
  BY <1>2 DEF Storing, Carries, Active, Idle

\* Only a request's own step takes it off its way.
LEMMA OthersStore ==
  ASSUME TypeOK, NEW r \in Requests, NEW q \in Requests, q # r, NEW e \in Events,
         NEW v, req' = [req EXCEPT ![r] = v], Storing(q, e)
  PROVE  Storing(q, e)'
  BY DEF Storing, Carries, Active, TypeOK

Kept(p, s) ==
    passes[p][s] > 0 /\ faults = 0 /\ workflow.state # "deleted" =>
        stored[s] \/ \E r \in Requests : Storing(r, s)

LEMMA NextKept ==
  ASSUME TypeOK, ReplaysAreSigned, NEW p \in Processes, NEW s \in Signatures,
         Kept(p, s), [Next]_vars
  PROVE  Kept(p, s)'
<1> USE DEF Kept
<1>e. s \in Events
  BY DEF Events
<1>1. CASE UNCHANGED <<req, stored, passes, faults>> /\ (workflow.state = "deleted" => workflow'.state = "deleted")
  BY <1>1 DEF Storing, Carries, Active
<1>2. ASSUME NEW r \in Requests, NEW v, req' = [req EXCEPT ![r] = v],
             UNCHANGED <<stored, passes, faults>>,
             workflow.state = "deleted" => workflow'.state = "deleted",
             Storing(r, s) => Storing(r, s)' \/ workflow.state = "deleted"
      PROVE  Kept(p, s)'
  BY <1>2, <1>e, OthersStore
<1>3. CASE Tick
  BY <1>1, <1>3 DEF Tick
<1>4. CASE Edit
  BY <1>1, <1>4 DEF Edit, PatchStatus, PatchTrigger, DeleteWorkflow, TypeOK, Workflow
<1>5. ASSUME NEW t \in Signatures, Sign(t) PROVE Kept(p, s)'
  <2>1. CASE t = s
    BY <1>5, <2>1 DEF Sign, TypeOK
  <2>2. CASE t # s
    BY <1>5, <2>2, <1>e DEF Sign, TypeOK, Storing, Carries, Active
  <2> QED BY <2>1, <2>2
<1>6. ASSUME NEW q \in Processes, Restart(q) PROVE Kept(p, s)'
  BY <1>6 DEF Restart, TypeOK
<1>7. ASSUME NEW r \in Requests, NEW e \in Events, NEW q \in Processes, Found(r, e, q)
      PROVE  Kept(p, s)'
  <2>1. ~Storing(r, s)
    BY <1>7 DEF Found, Storing, Carries
  <2> QED BY <1>2, <1>7, <2>1 DEF Found
<1>8. ASSUME NEW r \in Requests, Handler(r) PROVE Kept(p, s)'
  <2>1. ASSUME Respond(r), req[r].pc \in {"check", "replay"} \/ workflow.state = "deleted"
        PROVE  Kept(p, s)'
    BY <1>2, <2>1 DEF Respond, Leave, Storing
  <2>2. CASE Pass(r)
    <3>2. PICK v : req' = [req EXCEPT ![r] = v]
      BY <2>2 DEF Pass, GoOn, ToInsert, MoveTo
    <3>3. CASE req[r].event = s
      <4>1. Storing(r, s)'
        BY <2>2, <3>3, <1>e, GoOnStores DEF Pass, Stages
      <4> QED BY <4>1
    <3>4. CASE req[r].event # s
      <4>1. passes'[p][s] = passes[p][s] /\ ~Storing(r, s)
        BY <2>2, <3>4 DEF Pass, TypeOK, Storing
      <4> QED BY <2>2, <3>2, <4>1, <1>e, OthersStore DEF Pass
    <3> QED BY <3>3, <3>4
  <2>3. ASSUME req[r].pc = "check", NEW form, PassUnchecked(r, form) \/ Timely(r, form)
        PROVE  Kept(p, s)'
    <3>1. PICK v : req' = [req EXCEPT ![r] = v]
      BY <2>3 DEF PassUnchecked, Timely, GoOn, ToInsert, MoveTo
    <3> QED BY <1>2, <2>3, <3>1 DEF PassUnchecked, Timely, Storing
  <2>4. CASE Learn(r)
    <3>2. PICK v : req' = [req EXCEPT ![r] = v]
      BY <2>4 DEF Learn, ToInsert
    <3>3. Storing(r, s) => Storing(r, s)'
      BY <2>4, <1>e, GoOnStores DEF Learn, Stages, Storing, Carries
    <3> QED BY <1>2, <2>4, <3>2, <3>3 DEF Learn
  <2>5. CASE Insert(r)
    <3>2. CASE req[r].event = s
      BY <2>5, <3>2, <1>e DEF Insert, TypeOK
    <3>3. CASE req[r].event # s
      <4>1. stored'[s] = stored[s] /\ ~Storing(r, s)
        BY <2>5, <3>3, <1>e DEF Insert, TypeOK, Storing, Carries
      <4> QED BY <2>5, <4>1, <1>e, OthersStore DEF Insert, Leave
    <3> QED BY <3>2, <3>3
  <2>6. CASE DatabaseError(r)
    BY <2>6 DEF DatabaseError, TypeOK
  <2> QED
    BY <1>8, <2>1, <2>2, <2>3, <2>4, <2>5, <2>6
    DEF Handler, Checked, Unauthorized, Replayed, Orphaned
<1>9. CASE UNCHANGED vars
  BY <1>1, <1>9 DEF vars
<1> QED BY <1>3, <1>4, <1>5, <1>6, <1>7, <1>8, <1>9 DEF Next

AllKept == \A p \in Processes, s \in Signatures : Kept(p, s)

\* What is remembered is stored, or on its way, unless a commit or a process
\* failed or the workflow is gone.
THEOREM NoSilentLossHolds == Spec => []NoSilentLoss
<1>1. Init => AllKept
  BY DEF Init, AllKept, Kept
<1>2. TypeOK /\ ReplaysAreSigned /\ AllKept /\ [Next]_vars => AllKept'
  <2> SUFFICES ASSUME TypeOK, ReplaysAreSigned, AllKept, [Next]_vars,
                      NEW p \in Processes, NEW s \in Signatures
               PROVE  Kept(p, s)'
    BY DEF AllKept
  <2> QED BY NextKept DEF AllKept
<1>3. AllKept => NoSilentLoss
  BY DEF AllKept, Kept, NoSilentLoss, Storing
<1> QED BY <1>1, <1>2, <1>3, AlwaysSigned, PTL DEF Spec

-----------------------------------------------------------------------------
\* Nobody is about to learn who found a schema.
LearnersUntaught == \A r \in Requests : req[r].pc = "learn" => ~req[r].taught

LEMMA NextUntaught ==
  TypeOK /\ LearnersUntaught /\ [Next]_vars => LearnersUntaught'
<1> SUFFICES ASSUME TypeOK, LearnersUntaught, [Next]_vars
             PROVE  LearnersUntaught'
  OBVIOUS
<1> USE DEF LearnersUntaught
<1>1. CASE UNCHANGED req
  BY <1>1
<1>2. ASSUME NEW r \in Requests, Leave(r) PROVE LearnersUntaught'
  BY <1>2 DEF Leave, Idle, TypeOK
<1>3. ASSUME NEW r \in Requests, req[r].pc \in Stages,
             GoOn(r) \/ ToInsert(r) \/ MoveTo(r, "replay")
      PROVE  LearnersUntaught'
  <2>1. req \in [Requests -> Request \cup {Idle}] /\ req[r] \in Request
    BY <1>3, UnderWay DEF TypeOK
  <2>2. CASE ToInsert(r)
    <3>1. /\ req'[r].pc = "insert"
          /\ \A q \in Requests \ {r} : req'[q] = req[q]
      BY <2>1, <2>2 DEF ToInsert, Request
    <3> QED BY <3>1
  <2>3. CASE ~req[r].taught /\ MoveTo(r, "learn")
    <3>1. req'[r].taught = req[r].taught /\ \A q \in Requests \ {r} : req'[q] = req[q]
      BY <2>1, <2>3 DEF MoveTo, Request
    <3> QED BY <2>3, <3>1
  <2>4. CASE MoveTo(r, "replay")
    <3>1. req'[r].pc = "replay" /\ \A q \in Requests \ {r} : req'[q] = req[q]
      BY <2>1, <2>4 DEF MoveTo, Request
    <3> QED BY <3>1
  <2> QED BY <1>3, <2>2, <2>3, <2>4 DEF GoOn
<1>4. CASE Tick \/ Edit \/ UNCHANGED vars \/ \E s \in Signatures : Sign(s)
  BY <1>1, <1>4 DEF Tick, Edit, PatchStatus, PatchTrigger, DeleteWorkflow, vars, Sign
<1>5. ASSUME NEW p \in Processes, Restart(p) PROVE LearnersUntaught'
  BY <1>5 DEF Restart, Idle, TypeOK
<1>6. ASSUME NEW r \in Requests, NEW e \in Events, NEW p \in Processes, Found(r, e, p)
      PROVE  LearnersUntaught'
  BY <1>6 DEF Found, TypeOK
<1>7. ASSUME NEW r \in Requests, Handler(r) PROVE LearnersUntaught'
  BY <1>2, <1>3, <1>7, StepsOfRequests
<1> QED BY <1>4, <1>5, <1>6, <1>7 DEF Next

\* Once it has settled, a schema is changed by an edit and by nothing else, and no
\* delivery unsettles it.
THEOREM SchemaAlwaysSettles == Spec => SchemaSettles
<1> DEFINE stays == Settled' /\ workflow'.trigger.schema = workflow.trigger.schema
<1>1. Init => LearnersUntaught
  BY DEF Init, LearnersUntaught, Idle
<1>2. TypeOK /\ LearnersUntaught /\ [Next]_vars => [Settled /\ ~Edit => stays]_vars
  <2> SUFFICES ASSUME TypeOK, LearnersUntaught, Next, Settled, ~Edit PROVE stays
    BY DEF vars
  <2> USE DEF Settled
  <2>1. ASSUME UNCHANGED workflow, \A r \in Requests : ~Learner(r)' PROVE stays
    BY <2>1
  <2>2. CASE Tick \/ \E s \in Signatures : Sign(s)
    BY <2>1, <2>2 DEF Tick, Sign, Learner
  <2>3. ASSUME NEW p \in Processes, Restart(p) PROVE stays
    BY <2>1, <2>3 DEF Restart, Learner, Idle, TypeOK
  <2>4. ASSUME NEW r \in Requests, NEW e \in Events, NEW p \in Processes, Found(r, e, p)
        PROVE  stays
    BY <2>1, <2>4 DEF Found, Learner, TypeOK
  <2>5. ASSUME NEW r \in Requests, Handler(r) PROVE stays
    <3>1. req \in [Requests -> Request \cup {Idle}] /\ req[r] \in Request
      BY <2>5, UnderWay, StepsOfRequests DEF TypeOK
    <3>2. ~Learn(r)
      BY DEF Learn, Learner, LearnersUntaught
    <3>3. UNCHANGED workflow
      BY <2>5, <3>2
      DEF Handler, Checked, Unauthorized, Timely, Replayed, Respond, Pass,
          PassUnchecked, Insert, Orphaned, DatabaseError
    <3>4. ~Learner(r)' /\ \A q \in Requests \ {r} : req'[q] = req[q]
      <4>1. CASE Leave(r)
        BY <3>1, <4>1 DEF Leave, Idle, Learner
      <4>2. CASE ToInsert(r)
        BY <3>1, <4>2 DEF ToInsert, Request, Learner
      <4>3. CASE MoveTo(r, "learn") /\ ~req[r].taught
        <5>1. req[r].pc \in {"check", "replay"} \/ ToInsert(r)
          BY <2>5, <4>3, <3>1
          DEF Handler, Checked, Pass, Learn, Insert, Orphaned, Respond, Leave, MoveTo,
              DatabaseError, Replayed, Idle, Request
        <5> QED BY <4>2, <4>3, <5>1 DEF Learner
      <4>4. CASE MoveTo(r, "replay")
        <5>1. req'[r].taught = req[r].taught
              /\ \A q \in Requests \ {r} : req'[q] = req[q]
          BY <3>1, <4>4 DEF MoveTo, Request
        <5>2. req[r].taught
          BY <2>5, <4>4, <3>1
          DEF Handler, Checked, Pass, Learn, Insert, Orphaned, Respond, Leave, MoveTo,
              DatabaseError, Replayed, Idle, Request, Learner, GoOn, ToInsert
        <5> QED BY <5>1, <5>2 DEF Learner
      <4> QED BY <2>5, <4>1, <4>2, <4>3, <4>4, StepsOfRequests DEF GoOn
    <3> QED BY <2>1, <3>3, <3>4 DEF Learner
  <2> QED
    BY <2>2, <2>3, <2>4, <2>5 DEF Next
<1> QED BY <1>1, <1>2, NextUntaught, IngestTypeCorrect, PTL DEF Spec, SchemaSettles
=============================================================================
