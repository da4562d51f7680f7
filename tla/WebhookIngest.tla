---------------------------- MODULE WebhookIngest ----------------------------
(* routers/webhooks.py and webhook_security.py: deliveries of signed events,   *)
(* the memory of their signatures in every process, the schema the first       *)
(* payload teaches, and the workflow's row, which its owner edits meanwhile.   *)
(* Times are relative to the clock: a signature has a lead (its timestamp      *)
(* minus now) and a memory of it the seconds it has left.                      *)
EXTENDS Integers

CONSTANTS
    None,        \* no schema
    Signatures,  \* events signed with a timestamp, anew when the sender likes
    Plain,       \* events without one
    Requests,    \* deliveries in flight at a time
    Processes,
    Tolerance,   \* settings.webhook_timestamp_tolerance
    Skews,       \* how far a sender's clock may be ahead of ours
    MaxFaults    \* bound on failed commits and restarts

ASSUME IngestAssumption ==
    /\ None \notin Signatures \cup Plain
    /\ Signatures \cap Plain = {}
    /\ Tolerance \in Nat
    /\ Skews \subseteq Int
    /\ MaxFaults \in Nat

VARIABLES
    workflow,  \* the row: state, how its trigger is guarded, the learnt schema
    req,       \* each request: where it stands, what it carries and has read
    lead,      \* timestamp of each signature minus the present
    ahead,     \* was it signed by a clock that is ahead
    seen,      \* _seen of each process: seconds left, -1 when not remembered
    passes,    \* how often each signature got past this life of each process
    stored,    \* an execution was committed for it
    faults

vars == <<workflow, req, lead, ahead, seen, passes, stored, faults>>

Events == Signatures \cup Plain

Outdated == -(Tolerance + 1)   \* a lead that can only stay outside the window

\* open: no secret; signed: a secret; stamped: and require_timestamp.
Guards == {"open", "signed", "stamped"}

\* The part of the row in the JSON column trigger, written as a whole.
Trigger == [guard : Guards, schema : Events \cup {None}]

\* A deleted row.
NoTrigger == [guard |-> "open", schema |-> None]

Workflow == [state : {"active", "inactive", "deleted"}, trigger : Trigger]

\* How a delivery is signed: with its timestamp, without, or by another secret.
Forms == {"stamped", "unstamped", "wrong"}

\* replay: the timestamp was found fresh, the clock is about to be read again.
Stages == {"check", "replay", "learn", "insert"}

Idle == [pc |-> "idle"]

Request == [pc : Stages, at : Processes, event : Events,
            guard : Guards, taught : BOOLEAN]

TypeOK ==
    /\ workflow \in Workflow
    /\ req \in [Requests -> Request \cup {Idle}]
    /\ lead \in [Signatures -> Int]
    /\ ahead \in [Signatures -> BOOLEAN]
    /\ seen \in [Processes -> [Signatures -> -1 .. Tolerance]]
    /\ passes \in [Processes -> [Signatures -> Nat]]
    /\ stored \in [Events -> BOOLEAN]
    /\ faults \in 0 .. MaxFaults

Init ==
    /\ workflow \in [state : {"inactive"},
                     trigger : [guard : Guards, schema : {None}]]
    /\ req = [r \in Requests |-> Idle]
    /\ lead = [s \in Signatures |-> Outdated]
    /\ ahead = [s \in Signatures |-> FALSE]
    /\ seen = [p \in Processes |-> [s \in Signatures |-> -1]]
    /\ passes = [p \in Processes |-> [s \in Signatures |-> 0]]
    /\ stored = [e \in Events |-> FALSE]
    /\ faults = 0

-----------------------------------------------------------------------------
(* The senders and the clock *)

Active(r) == req[r] # Idle

Carries(r, e) == Active(r) /\ req[r].event = e

\* The event is signed for the first time, or anew with another timestamp.
Sign(s) ==
    /\ \A r \in Requests : ~Carries(r, s)
    /\ \E k \in Skews \ {lead[s]} :
        /\ lead' = [lead EXCEPT ![s] = k]
        /\ ahead' = [ahead EXCEPT ![s] = k > 0]
    /\ seen' = [p \in Processes |-> [seen[p] EXCEPT ![s] = -1]]
    /\ passes' = [p \in Processes |-> [passes[p] EXCEPT ![s] = 0]]
    /\ stored' = [stored EXCEPT ![s] = FALSE]
    /\ UNCHANGED <<workflow, req, faults>>

\* A delivery arrives, first or repeated, at any process, and
\* _find_active_workflow reads the trigger: its guard, and whether it has a
\* schema. The form of the delivery is settled when somebody looks at it.
Found(r, e, p) ==
    /\ ~Active(r)
    /\ workflow.state = "active"
    /\ req' = [req EXCEPT ![r] = [pc |-> "check", at |-> p, event |-> e,
                                  guard |-> workflow.trigger.guard,
                                  taught |-> workflow.trigger.schema # None]]
    /\ UNCHANGED <<workflow, lead, ahead, seen, passes, stored, faults>>

\* One second later; what is at its least has no future to tell apart.
Older(n, least) == IF n > least THEN n - 1 ELSE n

Tick ==
    /\ lead' = [s \in Signatures |-> Older(lead[s], Outdated)]
    /\ seen' = [p \in Processes |->
                  [s \in Signatures |-> Older(seen[p][s], -1)]]
    /\ UNCHANGED <<workflow, req, ahead, passes, stored, faults>>

-----------------------------------------------------------------------------
(* receive_webhook *)

MoveTo(r, pc) == req' = [req EXCEPT ![r].pc = pc]

\* The request is answered and its slot is free again.
Leave(r) == req' = [req EXCEPT ![r] = Idle]

Respond(r) ==
    /\ Leave(r)
    /\ UNCHANGED <<workflow, lead, ahead, seen, passes, stored, faults>>

\* Only an event its sender stamps is delivered with a timestamp.
FormsOf(e) == IF e \in Signatures THEN Forms ELSE Forms \ {"stamped"}

\* timestamp_within_tolerance, by its reading of the clock.
Fresh(s) == -Tolerance <= lead[s] /\ lead[s] <= Tolerance

\* Mutated form of Remembered: an entry that expires now is already swept.
RememberedShort(p, s) == seen[p][s] > 0

\* is_replay, by its own reading, after it has swept what expired.
Remembered(p, s) == seen[p][s] >= 0

\* Mutated form of Memory: the tolerance is taken off the present.
MemoryBehind == -Tolerance

\* Mutated form of Memory: when it was seen is recorded, not until when it counts.
MemoryNow == 0

\* How long is_replay remembers, from its reading on.
Memory == Tolerance

Guarded(r) == req[r].guard # "open"

\* 400 without a required timestamp, 401 outside the window or for another
\* signature than the secret's.
Unauthorized(r, form) ==
    /\ Guarded(r)
    /\ \/ form = "wrong"
       \/ form = "stamped" /\ ~Fresh(req[r].event)
       \/ form = "unstamped" /\ req[r].guard = "stamped"
    /\ Respond(r)

\* The timestamp is fresh and the signature right; the replay check is next.
Timely(r, form) ==
    /\ Guarded(r)
    /\ form = "stamped"
    /\ Fresh(req[r].event)
    /\ MoveTo(r, "replay")
    /\ UNCHANGED <<workflow, lead, ahead, seen, passes, stored, faults>>

\* 409
Replayed(r) ==
    /\ req[r].pc = "replay"
    /\ Remembered(req[r].at, req[r].event)
    /\ Respond(r)

\* The execution is next; what was read of the trigger is not needed any more.
ToInsert(r) ==
    req' = [req EXCEPT ![r] = [@ EXCEPT !.pc = "insert", !.guard = "open",
                                        !.taught = TRUE]]

\* Mutated form of GoOn: every payload is learnt from.
GoOnLearning(r) == MoveTo(r, "learn")

\* A schema is learnt by who has read none.
GoOn(r) == IF req[r].taught THEN ToInsert(r) ELSE MoveTo(r, "learn")

\* The signature is recorded before anything is stored.
Pass(r) ==
    LET p == req[r].at
        s == req[r].event
    IN  /\ req[r].pc = "replay"
        /\ ~Remembered(p, s)
        /\ seen' = [seen EXCEPT ![p][s] = Memory]
        /\ passes' = [passes EXCEPT ![p][s] = @ + 1]
        /\ GoOn(r)
        /\ UNCHANGED <<workflow, lead, ahead, stored, faults>>

PassUnchecked(r, form) ==
    /\ \/ req[r].guard = "open"
       \/ req[r].guard = "signed" /\ form = "unstamped"
    /\ GoOn(r)
    /\ UNCHANGED <<workflow, lead, ahead, seen, passes, stored, faults>>

\* The schema goes into the trigger as it was read, and the trigger is written
\* back as a whole.
Learn(r) ==
    /\ req[r].pc = "learn"
    /\ workflow.state # "deleted"
    /\ workflow' = [workflow EXCEPT !.trigger =
                        [guard |-> req[r].guard, schema |-> req[r].event]]
    /\ ToInsert(r)
    /\ UNCHANGED <<lead, ahead, seen, passes, stored, faults>>

\* Mutated form of Insert: a workflow deactivated since is refused here as well.
InsertIfActive(r) ==
    /\ req[r].pc = "insert"
    /\ stored' = [stored EXCEPT ![req[r].event] = @ \/ workflow.state = "active"]
    /\ Leave(r)
    /\ UNCHANGED <<workflow, lead, ahead, seen, passes, faults>>

\* The execution is committed, its task created and 202 answered: ExecutionQueue
\* takes over.
Insert(r) ==
    /\ req[r].pc = "insert"
    /\ workflow.state # "deleted"
    /\ stored' = [stored EXCEPT ![req[r].event] = TRUE]
    /\ Leave(r)
    /\ UNCHANGED <<workflow, lead, ahead, seen, passes, faults>>

\* Neither an UPDATE of a deleted row nor a reference to it can be committed.
Orphaned(r) ==
    /\ req[r].pc \in {"learn", "insert"}
    /\ workflow.state = "deleted"
    /\ Respond(r)

\* The database fails: 500, with nothing stored if it was a commit, and with an
\* execution that has no task if it was the refresh after the last one.
DatabaseError(r) ==
    /\ faults < MaxFaults
    /\ faults' = faults + 1
    /\ req[r].pc \in {"learn", "insert"}
    /\ \/ UNCHANGED stored
       \/ /\ req[r].pc = "insert" /\ workflow.state # "deleted"
          /\ stored' = [stored EXCEPT ![req[r].event] = TRUE]
    /\ Leave(r)
    /\ UNCHANGED <<workflow, lead, ahead, seen, passes>>

\* A new life of the process: _seen is empty, and its requests get no answer.
Restart(p) ==
    /\ faults < MaxFaults
    /\ faults' = faults + 1
    /\ req' = [r \in Requests |->
                  IF Active(r) /\ req[r].at = p THEN Idle ELSE req[r]]
    /\ seen' = [seen EXCEPT ![p] = [s \in Signatures |-> -1]]
    /\ passes' = [passes EXCEPT ![p] = [s \in Signatures |-> 0]]
    /\ UNCHANGED <<workflow, lead, ahead, stored>>

-----------------------------------------------------------------------------
(* The owner's edits, update_workflow and delete_workflow: each writes the     *)
(* columns it was sent                                                         *)

PatchStatus ==
    /\ workflow.state # "deleted"
    /\ \E state \in {"active", "inactive"} \ {workflow.state} :
        workflow' = [workflow EXCEPT !.state = state]
    /\ UNCHANGED <<req, lead, ahead, seen, passes, stored, faults>>

\* The trigger is replaced by the client's, with any schema in it: the canvas
\* sends the one it loaded when it was opened.
PatchTrigger ==
    /\ workflow.state # "deleted"
    /\ \E trigger \in Trigger : workflow' = [workflow EXCEPT !.trigger = trigger]
    /\ UNCHANGED <<req, lead, ahead, seen, passes, stored, faults>>

DeleteWorkflow ==
    /\ workflow.state # "deleted"
    /\ workflow' = [state |-> "deleted", trigger |-> NoTrigger]
    /\ UNCHANGED <<req, lead, ahead, seen, passes, stored, faults>>

-----------------------------------------------------------------------------
Edit == PatchStatus \/ PatchTrigger \/ DeleteWorkflow

\* Between its two readings of the clock a request has its process to itself:
\* there is no await, though there may be any delay.
Undisturbed(p) == \A r \in Requests : req[r].pc = "replay" => req[r].at # p

Checked(r) ==
    /\ req[r].pc = "check"
    /\ Undisturbed(req[r].at)
    /\ \E form \in FormsOf(req[r].event) :
        \/ Unauthorized(r, form)
        \/ Timely(r, form)
        \/ PassUnchecked(r, form)

Handler(r) ==
    \/ Checked(r) \/ Replayed(r) \/ Pass(r)
    \/ Learn(r) \/ Insert(r) \/ Orphaned(r) \/ DatabaseError(r)

Next ==
    \/ Tick
    \/ Edit
    \/ \E s \in Signatures : Sign(s)
    \/ \E p \in Processes : Restart(p)
    \/ \E r \in Requests :
        \/ Handler(r)
        \/ \E e \in Events, p \in Processes : Found(r, e, p)

Spec == Init /\ [][Next]_vars

-----------------------------------------------------------------------------
\* What webhooks.py and webhook_security.py say of a stamped delivery: "the
\* signature can't be reused".  It can: see FewPerLife.
SignatureUsedOnce == \A p \in Processes, s \in Signatures : passes[p][s] <= 1

\* As long as the timestamp of a signature that was let past stays in the window,
\* its last second included, the process remembers it: whoever is checked within
\* one second is refused.  This needs a sender whose clock is not ahead of ours:
\* otherwise the window outlasts the memory.
MemoryOutlastsWindow ==
    \A p \in Processes, s \in Signatures :
        passes[p][s] > 0 /\ ~ahead[s] /\ Fresh(s) => Remembered(p, s)

\* However often and however long a signature is delivered, one life of a process
\* lets it past at most twice: a second time if a delay between the readings of
\* the clock takes a request from the window's last second to where the memory is
\* over.  If the sender's clock is ahead it is once more, never without end.
FewPerLife ==
    \A p \in Processes, s \in Signatures :
        passes[p][s] <= IF ahead[s] THEN 3 ELSE 2

\* What a process remembers, and would refuse from now on, becomes an execution
\* unless a fault or the deletion of the workflow comes in between; it does so
\* though the workflow is edited or deactivated meanwhile.
NoSilentLoss ==
    \A p \in Processes, s \in Signatures :
        passes[p][s] > 0 /\ faults = 0 /\ workflow.state # "deleted" =>
            \/ stored[s]
            \/ \E r \in Requests : Carries(r, s) /\ req[r].pc \in {"learn", "insert"}

\* A request that may still write the schema it is about to infer.
Learner(r) == req[r].pc \in {"check", "replay", "learn"} /\ ~req[r].taught

\* A schema is there, and nobody is under way who read the trigger without one.
Settled == workflow.trigger.schema # None /\ \A r \in Requests : ~Learner(r)

\* Once it has settled, no number of deliveries changes the schema or unsettles
\* it: only an edit of the owner does, who may write an older one back.
SchemaSettles ==
    [][ Settled /\ ~Edit =>
            Settled' /\ workflow'.trigger.schema = workflow.trigger.schema ]_vars

=============================================================================
