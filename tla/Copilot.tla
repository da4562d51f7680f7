-------------------------------- MODULE Copilot --------------------------------
(* The flow copilot (services/copilot.py, routers/copilot.py and the root-     *)
(* cause endpoint): a request asks one language model provider after another   *)
(* and falls back to a deterministic answer.  What a provider makes of a       *)
(* request to build a workflow is coerced into nodes and edges, which count    *)
(* only if WorkflowGraph's validation accepts them.                            *)
(*                                                                             *)
(* An answer's lists hold items of any JSON shape: a "dict" whose fields are   *)
(* read, "junk" that is passed over, or an "odd" one whose field is of a kind  *)
(* that raises.  An id is <<stem, number>>, as in "action-2"; the JSON value   *)
(* it was given as is text or not.                                             *)
EXTENDS WorkflowGraph

CONSTANTS
    MaxNodes,     \* MAX_NODES
    Answers,      \* what a provider may answer to a request for a workflow
    Kinds         \* the requests: subsets of "generate", "build", "chat", "explain"

ASSUME CopilotAssumption ==
    /\ MaxNodes \in Nat \ {0}
    /\ Kinds \subseteq {"generate", "build", "chat", "explain"}

\* What is JSON comes in lists, and an empty id counts as none.
ASSUME AnswersAreLists ==
    \A raw \in Answers :
      /\ raw.nodes \in Seq({raw.nodes[k] : k \in DOMAIN raw.nodes})
      /\ raw.edges \in Seq({raw.edges[k] : k \in DOMAIN raw.edges})
      /\ \A k \in DOMAIN raw.nodes :
           raw.nodes[k].shape = "dict" /\ raw.nodes[k].id.given =>
             raw.nodes[k].id.name # Missing

VARIABLES
    setting,    \* settings.copilot_provider, and whether there is an API key
    ask,        \* the request: its kind, whether to persist, whether the run failed
    stage,      \* where its handler stands
    left,       \* the providers it has not asked yet
    asked,      \* history: the providers it asked, and what came of it
    reply,      \* the answer the returned specification was made from
    answer,     \* what it returns
    stored      \* the specifications written to the workflows table

copilotVars == <<setting, ask, stage, left, asked, reply, answer, stored>>

NoSpec == [nodes |-> << >>, edges |-> << >>, trigger |-> "none"]
NoAnswer == [source |-> "none", spec |-> NoSpec]
NoReply == [json |-> "nothing"]

-----------------------------------------------------------------------------
(* Coercion.                                                                *)

AllowedTypes ==
    {"trigger", "action", "conditional", "loop", "delay", "merge", "transform"}

\* Mutated form of CoerceNodes: the last node allowed is cut off.
CoerceNodesShort(items) ==
    LET at == InOrder({k \in 1 .. FX!Min({MaxNodes - 1, Len(items)}) : items[k].shape = "dict"})
        type(item) == IF item.type \in AllowedTypes THEN item.type ELSE "action"
        id(k) == IF items[k].id.given THEN items[k].id.name ELSE <<type(items[k]), k - 1>>
    IN  [n \in DOMAIN at |-> [id   |-> id(at[n]), type |-> type(items[at[n]]),
                             kind |-> items[at[n]].kind]]

\* The items that are objects, of the first MaxNodes: an id that is missing or
\* empty is made of the type and the position, any other is turned into text.
CoerceNodes(items) ==
    LET at == InOrder({k \in 1 .. FX!Min({MaxNodes, Len(items)}) : items[k].shape = "dict"})
        type(item) == IF item.type \in AllowedTypes THEN item.type ELSE "action"
        id(k) == IF items[k].id.given THEN items[k].id.name ELSE <<type(items[k]), k - 1>>
    IN  [n \in DOMAIN at |-> [id   |-> id(at[n]), type |-> type(items[at[n]]),
                             kind |-> items[at[n]].kind]]

ManualTrigger == [id |-> <<"trigger", 0>>, type |-> "trigger", kind |-> "manual"]

\* Exactly one trigger: the first there is, or a manual one; it goes to the
\* front, the later ones become actions, and the others keep their order.
EnsureSingleTrigger(nodes) ==
    LET triggers == {i \in DOMAIN nodes : nodes[i].type = "trigger"}
        first    == FX!Min(triggers)
        demoted  == [i \in DOMAIN nodes |->
                       IF i \in triggers THEN [nodes[i] EXCEPT !.type = "action"]
                       ELSE nodes[i]]
    IN  IF triggers = {} THEN <<ManualTrigger>> \o nodes
        ELSE <<nodes[first]>> \o SX!RemoveAt(demoted, first)

LinearEdges(nodes) ==
    [k \in 1 .. Len(nodes) - 1 |->
       [source |-> nodes[k].id, target |-> nodes[k + 1].id]]

\* validate_spec, on the transient workflow it makes of a specification.
Graphed(nodes) ==
    [i \in DOMAIN nodes |-> [id |-> nodes[i].id, trigger |-> nodes[i].type = "trigger"]]

Accepted(nodes, edges) ==
    LET verdict == ValidateWorkflow(Graphed(nodes), edges)
    IN  ~verdict.raises /\ verdict.errors = {}

\* The edges between two different known nodes, if they make a valid workflow;
\* an end that is not text is no node's id.
CoerceEdges(items, nodes) ==
    LET known(end) == end.text /\ end.name \in Ids(nodes)
        at == InOrder({k \in DOMAIN items : /\ items[k].shape = "dict"
                                            /\ known(items[k].source) /\ known(items[k].target)
                                            /\ items[k].source.name # items[k].target.name})
        edges == [n \in DOMAIN at |-> [source |-> items[at[n]].source.name,
                                       target |-> items[at[n]].target.name]]
    IN  IF edges # << >> /\ Accepted(nodes, edges) THEN edges ELSE LinearEdges(nodes)

\* Mutated form of TriggerFor: a kind the platform does not know is kept.
TriggerForUnchecked(node) == node.kind

TriggerFor(node) ==
    IF node.kind \in {"manual", "webhook", "schedule"} THEN node.kind ELSE "manual"

Odd(items) == \E k \in DOMAIN items : items[k].shape = "odd"

\* _coerce_spec: no specification, an exception that nobody catches, or a
\* specification that is still to be validated.
CoerceSpec(raw) ==
    LET nodes == CoerceNodes(raw.nodes)
        whole == EnsureSingleTrigger(nodes)
        Result(outcome, spec) == [outcome |-> outcome, spec |-> spec]
    IN  IF raw.json # "object"                             THEN Result("raises", NoSpec)
        ELSE IF Odd(SubSeq(raw.nodes, 1, FX!Min({MaxNodes, Len(raw.nodes)})))
                                                           THEN Result("raises", NoSpec)
        ELSE IF nodes = << >>                              THEN Result("none", NoSpec)
        ELSE IF Odd(raw.edges)                             THEN Result("raises", NoSpec)
        ELSE Result("spec", [nodes |-> whole, edges |-> CoerceEdges(raw.edges, whole),
                             trigger |-> TriggerFor(whole[1])])

\* generate_workflow_spec, on what one provider answers: coerced outside of any
\* try, then validated again.
Verdict(raw) ==
    LET got == CoerceSpec(raw)
        As(what, spec) == [raw |-> raw, what |-> what, spec |-> spec]
    IN  CASE got.outcome = "raises" -> As("odd", NoSpec)
          [] got.outcome = "spec" /\ Accepted(got.spec.nodes, got.spec.edges)
                                     -> As("usable", got.spec)
          [] OTHER                   -> As("unusable", NoSpec)

Verdicts == {Verdict(raw) : raw \in Answers}

-----------------------------------------------------------------------------
(* The heuristic generator.                                                 *)

\* _KEYWORD_NODES: the groups of words, in order, and the nodes they stand for.
KeywordNodes ==
    <<[words |-> "condition", type |-> "conditional"],
      [words |-> "reshape",   type |-> "transform"],
      [words |-> "wait",      type |-> "delay"],
      [words |-> "request",   type |-> "action"],
      [words |-> "notify",    type |-> "action"]>>

Words == {KeywordNodes[k].words : k \in DOMAIN KeywordNodes} \cup {"webhook", "schedule"}

DetectTrigger(words) ==
    [ManualTrigger EXCEPT !.kind = IF "webhook" \in words THEN "webhook"
                                   ELSE IF "schedule" \in words THEN "schedule"
                                   ELSE "manual"]

\* Mutated form of HeuristicSpec: a node is numbered by its type alone.
HeuristicSpecUnnumbered(words) ==
    LET at == InOrder({k \in DOMAIN KeywordNodes : KeywordNodes[k].words \in words})
        types == IF at = << >> THEN <<"action">>
                 ELSE [k \in DOMAIN at |-> KeywordNodes[at[k]].type]
        nodes == <<DetectTrigger(words)>> \o
                 [k \in DOMAIN types |->
                    [id |-> <<types[k], 1>>, type |-> types[k], kind |-> "none"]]
    IN  [nodes |-> nodes, edges |-> LinearEdges(nodes), trigger |-> TriggerFor(nodes[1])]

\* A trigger, then a node per group of words found, or one action, in a chain.
HeuristicSpec(words) ==
    LET at == InOrder({k \in DOMAIN KeywordNodes : KeywordNodes[k].words \in words})
        types == IF at = << >> THEN <<"action">>
                 ELSE [k \in DOMAIN at |-> KeywordNodes[at[k]].type]
        nodes == <<DetectTrigger(words)>> \o
                 [k \in DOMAIN types |->
                    [id |-> <<types[k], k>>, type |-> types[k], kind |-> "none"]]
    IN  [nodes |-> nodes, edges |-> LinearEdges(nodes), trigger |-> TriggerFor(nodes[1])]

-----------------------------------------------------------------------------
(* A request.                                                               *)

ProviderOrder(s) ==
    IF s.provider \in {"ollama", "openrouter"} THEN <<s.provider>>
    ELSE IF s.provider = "heuristic"           THEN << >>
    ELSE IF s.key THEN <<"ollama", "openrouter">> ELSE <<"ollama">>

\* The key is looked at only when the provider is "auto".
Settings ==
    {s \in [provider : {"auto", "ollama", "openrouter", "heuristic"}, key : BOOLEAN] :
        s.key => s.provider = "auto"}
Asks     == [kind : Kinds, persist : BOOLEAN, failed : BOOLEAN]
Sources  == {"none", "ollama", "openrouter", "heuristic"}

\* Only "generate" persists, and only an explanation looks at the execution.
Init ==
    /\ setting \in Settings
    /\ ask \in {a \in Asks : /\ a.persist => a.kind = "generate"
                             /\ a.failed \/ a.kind = "explain"}
    /\ stage = "ready"
    /\ left = ProviderOrder(setting)
    /\ asked = << >>
    /\ reply = NoReply
    /\ answer = NoAnswer
    /\ stored = {}

Building == ask.kind \in {"generate", "build"}

\* The root-cause endpoint has nothing to ask about an execution that did not fail.
NothingToExplain == ask.kind = "explain" /\ ~ask.failed

Call ==
    /\ stage = "ready"
    /\ left # << >> /\ ~NothingToExplain
    /\ stage' = "calling"
    /\ UNCHANGED <<setting, ask, left, asked, reply, answer, stored>>

Outcome(what) == asked' = Append(asked, [source |-> Head(left), what |-> what])

\* Mutated form of MoveOn: the next provider is forgotten.
MoveOnToNone ==
    /\ stage' = "ready"
    /\ left' = << >>
    /\ UNCHANGED <<setting, ask, reply, answer, stored>>

MoveOn ==
    /\ stage' = "ready"
    /\ left' = Tail(left)
    /\ UNCHANGED <<setting, ask, reply, answer, stored>>

Return(source, spec, raw) ==
    /\ stage' = "returning"
    /\ answer' = [source |-> source, spec |-> spec]
    /\ reply' = raw
    /\ UNCHANGED <<setting, ask, left, stored>>

Break ==
    /\ stage' = "failed"
    /\ UNCHANGED <<setting, ask, left, reply, answer, stored>>

\* The call fails, times out, or answers what is not JSON or lacks a key; or it
\* answers no object at all, or an empty text.
CallFails ==
    /\ stage = "calling"
    /\ Outcome("failed")
    /\ MoveOn

\* An exception that none of the except clauses names: an envelope without
\* choices or of another shape, a text that is null.
CallRaises ==
    /\ stage = "calling"
    /\ Outcome("odd")
    /\ Break

\* A workflow: what it is coerced to is returned if it is valid.
CallBuilds ==
    /\ stage = "calling" /\ Building
    /\ \E v \in Verdicts :
         /\ Outcome(v.what)
         /\ \/ v.what = "odd" /\ Break
            \/ v.what = "usable" /\ Return(Head(left), v.spec, v.raw)
            \/ v.what = "unusable" /\ MoveOn

\* A chat or an explanation takes any text that is not empty.
CallReplies ==
    /\ stage = "calling" /\ ~Building
    /\ Outcome("usable")
    /\ Return(Head(left), NoSpec, NoReply)

\* Nobody is left to ask; the description's words are looked at only here.
FallBack ==
    /\ stage = "ready"
    /\ left = << >> \/ NothingToExplain
    /\ \/ Building /\ \E words \in SUBSET Words :
            Return("heuristic", HeuristicSpec(words), NoReply)
       \/ ~Building /\ Return("heuristic", NoSpec, NoReply)
    /\ UNCHANGED asked

\* /copilot/generate stores the specification it was asked to persist, if valid.
Respond ==
    /\ stage = "returning"
    /\ stage' = "answered"
    /\ stored' = IF ask.persist /\ Accepted(answer.spec.nodes, answer.spec.edges)
                 THEN {answer.spec} ELSE {}
    /\ UNCHANGED <<setting, ask, left, asked, reply, answer>>

\* The commit of what is to be persisted raises, or the refresh that follows it: the
\* request fails, with nothing stored or with a workflow it does not tell of.
StoreFails ==
    /\ stage = "returning"
    /\ ask.persist /\ Accepted(answer.spec.nodes, answer.spec.edges)
    /\ stage' = "raised"
    /\ stored' \in {{}, {answer.spec}}
    /\ UNCHANGED <<setting, ask, left, asked, reply, answer>>

Next ==
    \/ Call \/ CallFails \/ CallRaises \/ CallBuilds \/ CallReplies
    \/ FallBack \/ Respond \/ StoreFails

Spec == Init /\ [][Next]_copilotVars

-----------------------------------------------------------------------------

TypeOK ==
    /\ setting \in Settings
    /\ ask \in Asks
    /\ stage \in {"ready", "calling", "returning", "answered", "failed", "raised"}
    /\ \E n \in 0 .. 2 : left = SubSeq(ProviderOrder(setting), n + 1, Len(ProviderOrder(setting)))
    /\ \A k \in DOMAIN asked :
         asked[k] \in [source : Sources, what : {"failed", "odd", "unusable", "usable"}]
    /\ answer.source \in Sources
    /\ answer.spec.trigger \in {"none", "manual", "webhook", "schedule"}
    /\ Cardinality(stored) <= 1

\* "The copilot produces a valid workflow even with no LLM configured": whoever
\* made the specification that is returned, validation accepts it, the executor
\* can level it, its trigger is its only one and comes first, and the trigger the
\* workflow is stored with is of that node's kind.
AnswerIsUsable ==
    stage = "answered" /\ Building =>
        LET spec == answer.spec IN
        /\ Accepted(spec.nodes, spec.edges)
        /\ TopologicalLevels(Graphed(spec.nodes), spec.edges).outcome = "ok"
        /\ {i \in DOMAIN spec.nodes : spec.nodes[i].type = "trigger"} = {1}
        /\ spec.trigger = TriggerFor(spec.nodes[1])
        /\ stored # {} => ask.persist /\ stored = {spec}

\* A provider's answer that is a good workflow already, its ids given as text
\* and distinct, comes back as it was: no node and no edge is lost or replaced.
GoodAnswer(raw) ==
    /\ raw.json = "object"
    /\ Len(raw.nodes) \in 1 .. MaxNodes /\ raw.edges # << >>
    /\ \A i \in DOMAIN raw.nodes : raw.nodes[i].shape = "dict" /\ raw.nodes[i].id.given
    /\ \A k \in DOMAIN raw.edges :
         /\ raw.edges[k].shape = "dict"
         /\ raw.edges[k].source.text /\ raw.edges[k].target.text
    /\ LET nodes == [i \in DOMAIN raw.nodes |->
                       [id |-> raw.nodes[i].id.name,
                        trigger |-> raw.nodes[i].type = "trigger"]]
           edges == [k \in DOMAIN raw.edges |-> [source |-> raw.edges[k].source.name,
                                                 target |-> raw.edges[k].target.name]]
       IN  /\ WellFormed(nodes, edges) /\ Acyclic(nodes, edges)
           /\ Cardinality(TriggerAt(nodes)) = 1

KeepsGoodAnswer ==
    GoodAnswer(reply) =>
        /\ Ids(answer.spec.nodes) = {reply.nodes[i].id.name : i \in DOMAIN reply.nodes}
        /\ answer.spec.edges =
             [k \in DOMAIN reply.edges |-> [source |-> reply.edges[k].source.name,
                                            target |-> reply.edges[k].target.name]]

\* Providers are asked in the configured order, each once, the next only when the
\* one before gave nothing usable; the heuristic answers when all of them did so;
\* and the asking fails only on a reply of a shape nobody expects, never because a
\* provider is down, slow, talks no JSON or draws an invalid graph.
AsksInOrder ==
    LET order == ProviderOrder(setting) IN
    /\ Len(asked) <= Len(order)
    /\ \A k \in DOMAIN asked :
         /\ asked[k].source = order[k]
         /\ k < Len(asked) => asked[k].what \in {"failed", "unusable"}
    /\ stage = "failed" <=> asked # << >> /\ SX!Last(asked).what = "odd"
    /\ answer.source = "heuristic" /\ ~NothingToExplain =>
         /\ Len(asked) = Len(order)
         /\ \A k \in DOMAIN asked : asked[k].what \in {"failed", "unusable"}
    /\ answer.source \in {"ollama", "openrouter"} => SX!Last(asked).what = "usable"
=============================================================================
