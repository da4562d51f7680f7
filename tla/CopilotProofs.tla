----------------------------- MODULE CopilotProofs -----------------------------
(* Whom the copilot asks and who answers in the end, whatever the providers    *)
(* answer; and what coercion and the heuristic make of an answer: a workflow    *)
(* that can be run, and of a good one nothing else.                            *)
EXTENDS Copilot, WorkflowGraphProofs, SequenceTheorems

Providers == {"ollama", "openrouter"}
Whats     == {"failed", "odd", "unusable", "usable"}
Unhelpful == {"failed", "unusable"}

Order == ProviderOrder(setting)

-----------------------------------------------------------------------------
(* Whom it asks.  What an answer is coerced to is of no concern here: Verdict  *)
(* is not expanded.                                                            *)

LEMMA OrderType == Order \in Seq(Providers)
<1>1. \/ Order = << >>
      \/ Order = <<"ollama">>
      \/ Order = <<"openrouter">>
      \/ Order = <<"ollama", "openrouter">>
  BY DEF Order, ProviderOrder
<1>2. /\ << >> \in Seq(Providers)
      /\ <<"ollama">> \in Seq(Providers)
      /\ <<"openrouter">> \in Seq(Providers)
      /\ <<"ollama", "openrouter">> \in Seq(Providers)
  BY DEF Providers
<1> QED BY <1>1, <1>2

\* What is asked so far is a beginning of the order, and nobody in it but the last
\* was of any help.
Beginning ==
    /\ asked \in Seq([source : Providers, what : Whats])
    /\ Len(asked) <= Len(Order)
    /\ \A k \in 1 .. Len(asked) :
         /\ asked[k].source = Order[k]
         /\ k < Len(asked) => asked[k].what \in Unhelpful

AllUnhelpful == \A k \in 1 .. Len(asked) : asked[k].what \in Unhelpful

\* Who is left is the rest of the order, until somebody answers.
Rest ==
    /\ left \in Seq(Providers)
    /\ Len(left) = Len(Order) - Len(asked)
    /\ \A i \in 1 .. Len(left) : left[i] = Order[Len(asked) + i]

LastIs(what) == Len(asked) > 0 /\ asked[Len(asked)].what = what

Asking ==
    stage \in {"ready", "calling"} =>
        Rest /\ AllUnhelpful /\ answer.source = "none"

Calling == stage = "calling" => left # << >> /\ ~NothingToExplain

Failing == stage = "failed" => LastIs("odd") /\ answer.source = "none"

Answering ==
    stage \in {"returning", "answered", "raised"} =>
        \/ answer.source = "heuristic" /\ AllUnhelpful
           /\ (NothingToExplain \/ Len(asked) = Len(Order))
        \/ answer.source \in Providers /\ LastIs("usable")

Stages == {"ready", "calling", "returning", "answered", "failed", "raised"}

Progress ==
    /\ stage \in Stages
    /\ Beginning /\ Asking /\ Calling /\ Failing /\ Answering

-----------------------------------------------------------------------------

LEMMA ProgressInit == Init => Progress
<1> SUFFICES ASSUME Init PROVE Progress
  OBVIOUS
<1>1. asked = << >> /\ left = Order /\ stage = "ready" /\ answer.source = "none"
  BY DEF Init, NoAnswer, Order
<1>2. Len(Order) \in Nat
  BY OrderType
<1>3. Rest
  BY <1>1, <1>2, OrderType DEF Rest
<1> QED
  BY <1>1, <1>2, <1>3
  DEF Progress, Stages, Beginning, Asking, AllUnhelpful, Calling, Failing, Answering

\* The end of a call, whatever came of it: the history has one more entry, and all
\* before it were of no help.
LEMMA OneMoreAsked ==
  ASSUME Progress, stage = "calling", UNCHANGED setting,
         NEW what \in Whats, Outcome(what)
  PROVE  /\ Beginning'
         /\ LastIs(what)'
         /\ Len(asked') = Len(asked) + 1
         /\ \A k \in 1 .. Len(asked) : asked'[k] = asked[k] /\ asked[k].what \in Unhelpful
         /\ Order' = Order
         /\ left # << >> /\ Head(left) \in Providers
<1>1. Beginning /\ Rest /\ AllUnhelpful /\ left # << >>
  BY DEF Progress, Asking, Calling
<1>2. Order' = Order
  BY DEF Order, ProviderOrder
<1> DEFINE entry == [source |-> Head(left), what |-> what]
           n == Len(asked)
<1>3. /\ n \in Nat /\ Len(left) \in Nat /\ Len(left) > 0
      /\ Head(left) = left[1] /\ left[1] \in Providers
  BY <1>1 DEF Beginning, Rest
<1>4. left[1] = Order[n + 1] /\ n + 1 <= Len(Order)
  BY <1>1, <1>3, OrderType DEF Rest
<1>5. entry \in [source : Providers, what : Whats]
  BY <1>3
<1>6. asked' = Append(asked, entry)
  BY DEF Outcome
<1>7. /\ asked' \in Seq([source : Providers, what : Whats])
      /\ Len(asked') = n + 1
      /\ asked'[n + 1] = entry
      /\ \A k \in 1 .. n : asked'[k] = asked[k]
  BY <1>1, <1>5, <1>6 DEF Beginning
<1>8. Beginning'
  <2>1. \A k \in 1 .. n : asked'[k].source = Order[k] /\ asked'[k].what \in Unhelpful
    BY <1>1, <1>7 DEF Beginning, AllUnhelpful
  <2>2. asked'[n + 1].source = Order[n + 1]
    BY <1>3, <1>4, <1>7
  <2>3. \A k \in 1 .. n + 1 : k \in 1 .. n \/ k = n + 1
    BY <1>3
  <2> QED BY <1>2, <1>3, <1>4, <1>7, <2>1, <2>2, <2>3 DEF Beginning
<1> QED BY <1>1, <1>2, <1>3, <1>7, <1>8 DEF LastIs, AllUnhelpful

\* An unhelpful provider, and the loop goes on with the next.
LEMMA MovesOn ==
  ASSUME Progress, stage = "calling", NEW what \in Unhelpful, Outcome(what), MoveOn
  PROVE  Progress'
<1>1. what \in Whats /\ UNCHANGED <<setting, answer>> /\ stage' = "ready"
  BY DEF Unhelpful, Whats, MoveOn
<1>2. /\ Beginning' /\ LastIs(what)' /\ Len(asked') = Len(asked) + 1 /\ Order' = Order
      /\ left # << >>
      /\ \A k \in 1 .. Len(asked) : asked'[k] = asked[k] /\ asked[k].what \in Unhelpful
  BY <1>1, OneMoreAsked
<1>3. Rest /\ answer.source = "none" /\ Len(asked) \in Nat
  BY DEF Progress, Asking, Beginning
<1>4. AllUnhelpful'
  BY <1>2, <1>3 DEF AllUnhelpful, LastIs
<1>5. Rest'
  <2>1. left' = Tail(left)
    BY DEF MoveOn
  <2>2. /\ left' \in Seq(Providers) /\ Len(left') = Len(left) - 1
        /\ \A i \in 1 .. Len(left') : left'[i] = left[i + 1]
    BY <1>2, <1>3, <2>1 DEF Rest
  <2>3. Len(left) \in Nat /\ Len(Order) \in Nat
    BY <1>3, OrderType DEF Rest
  <2>4. \A i \in 1 .. Len(left') : i + 1 \in 1 .. Len(left)
    BY <2>2, <2>3
  <2>5. \A i \in 1 .. Len(left') : left'[i] = Order[Len(asked) + (i + 1)]
    BY <1>3, <2>2, <2>4 DEF Rest
  <2>6. Len(left') = Len(Order') - Len(asked')
    BY <1>2, <1>3, <2>2, <2>3 DEF Rest
  <2>7. \A i \in 1 .. Len(left') : left'[i] = Order'[Len(asked') + i]
    BY <1>2, <1>3, <2>5
  <2> QED BY <2>2, <2>6, <2>7 DEF Rest
<1> QED
  BY <1>1, <1>2, <1>3, <1>4, <1>5
  DEF Progress, Stages, Asking, Calling, Failing, Answering

\* A reply of a shape nobody expects: the request fails.
LEMMA Breaks ==
  ASSUME Progress, stage = "calling", Outcome("odd"), Break
  PROVE  Progress'
<1>1. "odd" \in Whats /\ UNCHANGED <<setting, answer>> /\ stage' = "failed"
  BY DEF Whats, Break
<1>2. Beginning' /\ LastIs("odd")'
  BY <1>1, OneMoreAsked
<1>3. answer.source = "none"
  BY DEF Progress, Asking
<1> QED
  BY <1>1, <1>2, <1>3 DEF Progress, Stages, Asking, Calling, Failing, Answering

\* A provider's answer is taken.
LEMMA Takes ==
  ASSUME Progress, stage = "calling", NEW spec, NEW raw,
         Outcome("usable"), Return(Head(left), spec, raw)
  PROVE  Progress'
<1>1. /\ "usable" \in Whats /\ UNCHANGED setting /\ stage' = "returning"
      /\ answer'.source = Head(left)
  BY DEF Whats, Return
<1>2. Beginning' /\ LastIs("usable")' /\ Head(left) \in Providers
  BY <1>1, OneMoreAsked
<1> QED
  BY <1>1, <1>2 DEF Progress, Stages, Asking, Calling, Failing, Answering

LEMMA ProgressNext == Progress /\ [Next]_copilotVars => Progress'
<1> SUFFICES ASSUME Progress, [Next]_copilotVars PROVE Progress'
  OBVIOUS
<1> USE DEF NothingToExplain
<1>1. CASE Call
  BY <1>1 DEF Call, Progress, Stages, Beginning, Asking, AllUnhelpful, Rest, LastIs,
              Calling, Failing, Answering, Order, ProviderOrder
<1>2. CASE CallFails
  BY <1>2, MovesOn DEF CallFails, Unhelpful
<1>3. CASE CallRaises
  BY <1>3, Breaks DEF CallRaises
<1>4. CASE CallBuilds
  <2>1. PICK v \in Verdicts :
          /\ Outcome(v.what)
          /\ \/ v.what = "odd" /\ Break
             \/ v.what = "usable" /\ Return(Head(left), v.spec, v.raw)
             \/ v.what = "unusable" /\ MoveOn
    BY <1>4 DEF CallBuilds
  <2>2. stage = "calling"
    BY <1>4 DEF CallBuilds
  <2>3. CASE v.what = "odd"
    BY <2>1, <2>2, <2>3, Breaks
  <2>4. CASE v.what = "usable"
    BY <2>1, <2>2, <2>4, Takes
  <2>5. CASE v.what = "unusable"
    BY <2>1, <2>2, <2>5, MovesOn DEF Unhelpful
  <2> QED BY <2>1, <2>3, <2>4, <2>5
<1>5. CASE CallReplies
  BY <1>5, Takes DEF CallReplies
<1>6. CASE FallBack
  <2>1. /\ UNCHANGED <<asked, setting, ask>> /\ stage' = "returning"
        /\ answer'.source = "heuristic"
    BY <1>6 DEF FallBack, Return
  <2>2. Beginning /\ Rest /\ AllUnhelpful /\ (left = << >> \/ NothingToExplain)
    BY <1>6 DEF FallBack, Progress, Asking
  <2>3. NothingToExplain \/ Len(asked) = Len(Order)
    BY <2>2, OrderType DEF Rest, Beginning
  <2>4. Beginning' /\ AllUnhelpful' /\ (NothingToExplain \/ Len(asked) = Len(Order))'
    BY <2>1, <2>2, <2>3 DEF Beginning, AllUnhelpful, Order, ProviderOrder
  <2> QED BY <2>1, <2>4 DEF Progress, Stages, Asking, Calling, Failing, Answering
<1>7. CASE Respond \/ StoreFails \/ UNCHANGED copilotVars
  BY <1>7 DEF Respond, StoreFails, copilotVars, Progress, Stages, Beginning, Asking,
              AllUnhelpful, Rest, LastIs, Calling, Failing, Answering, Order, ProviderOrder
<1> QED
  BY <1>1, <1>2, <1>3, <1>4, <1>5, <1>6, <1>7 DEF Next

LEMMA ProgressIsOrder == Progress => AsksInOrder
<1> SUFFICES ASSUME Progress PROVE AsksInOrder
  OBVIOUS
<1>1. asked \in Seq([source : Providers, what : Whats]) /\ Len(asked) \in Nat
      /\ DOMAIN asked = 1 .. Len(asked) /\ (asked = << >> <=> Len(asked) = 0)
  BY DEF Progress, Beginning
<1>2. asked # << >> => SX!Last(asked) = asked[Len(asked)]
  BY DEF SX!Last
<1>3. \A k \in DOMAIN asked :
        asked[k].source = Order[k] /\ (k < Len(asked) => asked[k].what \in Unhelpful)
  BY <1>1 DEF Progress, Beginning
<1>4. stage = "failed" <=> asked # << >> /\ SX!Last(asked).what = "odd"
  <2>1. AllUnhelpful /\ asked # << >> => asked[Len(asked)].what # "odd"
    BY <1>1 DEF AllUnhelpful, Unhelpful
  <2> QED BY <1>1, <1>2, <2>1
          DEF Progress, Stages, Asking, Failing, Answering, LastIs
<1>5. answer.source = "heuristic" /\ ~NothingToExplain =>
        Len(asked) = Len(Order) /\ AllUnhelpful
  BY DEF Progress, Stages, Asking, Failing, Answering, Providers
<1>6. answer.source \in Providers => LastIs("usable")
  BY DEF Progress, Stages, Asking, Failing, Answering, Providers
<1> QED
  BY <1>1, <1>2, <1>3, <1>4, <1>5, <1>6
  DEF AsksInOrder, Order, AllUnhelpful, Unhelpful, Providers, LastIs, Progress, Beginning

\* Whatever providers answer, each is asked once and in order, the heuristic comes
\* last, and only a reply nobody expects fails the request.
THEOREM AlwaysAsksInOrder == Spec => []AsksInOrder
  BY ProgressInit, ProgressNext, ProgressIsOrder, PTL DEF Spec

-----------------------------------------------------------------------------
(* Lists of nodes, and the one trigger at their front.                      *)

LEMMA LeastOf ==
  ASSUME NEW T \in SUBSET Nat, T # {}
  PROVE  FX!Min(T) \in T /\ \A k \in T : FX!Min(T) <= k
<1>1. \E m \in T : \A k \in T : m <= k
  BY LeastNatural
<1> QED BY <1>1 DEF FX!Min

LEMMA InOrderOfAll ==
  ASSUME NEW n \in Nat
  PROVE  InOrder(1 .. n) = [i \in 1 .. n |-> i]
<1> DEFINE below(k) == {j \in 1 .. n : j < k}
<1>1. \A k \in 1 .. n : Cardinality(below(k)) = k - 1
  <2>1. \A k \in 1 .. n : below(k) = 1 .. (k - 1) /\ k - 1 \in Nat
    OBVIOUS
  <2> HIDE DEF below
  <2> QED BY <2>1, UpTo
<1>2. ASSUME NEW i \in 1 .. n
      PROVE  (CHOOSE k \in 1 .. n : Cardinality(below(k)) = i - 1) = i
  <2> HIDE DEF below
  <2>1. \A k \in 1 .. n : Cardinality(below(k)) = i - 1 <=> k = i
    BY <1>1
  <2> QED BY <2>1
<1>3. InOrder(1 .. n) = [i \in 1 .. Cardinality(1 .. n) |->
                           CHOOSE k \in 1 .. n : Cardinality(below(k)) = i - 1]
  BY DEF InOrder
<1>4. Cardinality(1 .. n) = n
  BY UpTo
<1> HIDE DEF below
<1> QED BY <1>2, <1>3, <1>4

\* A function on 1 .. n is a list.
LEMMA IsList ==
  ASSUME NEW n \in Nat, NEW f, f = [i \in 1 .. n |-> f[i]]
  PROVE  f \in Seq({f[i] : i \in 1 .. n}) /\ Len(f) = n /\ DOMAIN f = 1 .. n
<1> DEFINE S == {f[i] : i \in 1 .. n}
<1>1. f \in [1 .. n -> S]
  OBVIOUS
<1> HIDE DEF S
<1>2. f \in Seq(S) /\ Len(f) = n /\ DOMAIN f = 1 .. n
  BY <1>1
<1> QED BY <1>2 DEF S

LEMMA JoinedIs ==
  ASSUME NEW S
  PROVE  \A a, b \in Seq(S) :
           /\ a \o b \in Seq(S) /\ Len(a \o b) = Len(a) + Len(b)
           /\ \A i \in 1 .. Len(a) : (a \o b)[i] = a[i]
           /\ \A i \in 1 .. Len(b) : (a \o b)[Len(a) + i] = b[i]
  OBVIOUS

LEMMA RemoveAtIs ==
  ASSUME NEW S, NEW list \in Seq(S), NEW f \in 1 .. Len(list)
  PROVE  /\ SX!RemoveAt(list, f) \in Seq(S)
         /\ Len(SX!RemoveAt(list, f)) = Len(list) - 1
         /\ \A i \in 1 .. Len(list) - 1 :
              SX!RemoveAt(list, f)[i] = IF i < f THEN list[i] ELSE list[i + 1]
<1> DEFINE left_ == SubSeq(list, 1, f - 1)
           right == SubSeq(list, f + 1, Len(list))
<1>1. Len(list) \in Nat /\ f \in Nat
  OBVIOUS
<1>2. /\ left_ \in Seq(S) /\ Len(left_) = f - 1
      /\ \A i \in 1 .. f - 1 : left_[i] = list[i]
  <2>1. \A i \in 1 .. (f - 1) : list[i] \in S
    BY <1>1
  <2>2. 1 \in Int /\ f - 1 \in Int
    BY <1>1
  <2>3. /\ left_ \in Seq(S) /\ Len(left_) = IF 1 <= f - 1 THEN f - 1 - 1 + 1 ELSE 0
        /\ \A i \in 1 .. (f - 1) - 1 + 1 : left_[i] = list[1 + i - 1]
    BY <1>1, <2>1, <2>2, SubSeqProperties
  <2> HIDE DEF left_
  <2> QED BY <1>1, <2>3
<1>3. /\ right \in Seq(S) /\ Len(right) = Len(list) - f
      /\ \A i \in 1 .. Len(list) - f : right[i] = list[f + i]
  <2>1. \A i \in (f + 1) .. Len(list) : list[i] \in S
    BY <1>1
  <2>2. f + 1 \in Int /\ Len(list) \in Int
    BY <1>1
  <2>3. /\ right \in Seq(S)
        /\ Len(right) = IF f + 1 <= Len(list) THEN Len(list) - (f + 1) + 1 ELSE 0
        /\ \A i \in 1 .. Len(list) - (f + 1) + 1 : right[i] = list[(f + 1) + i - 1]
    BY <1>1, <2>1, <2>2, SubSeqProperties
  <2> HIDE DEF right
  <2> QED BY <1>1, <2>3
<1>4. SX!RemoveAt(list, f) = left_ \o right
  BY DEF SX!RemoveAt
<1> HIDE DEF left_, right
<1> DEFINE both == left_ \o right
<1>5. /\ both \in Seq(S) /\ Len(both) = Len(list) - 1
      /\ \A i \in 1 .. f - 1 : both[i] = list[i]
      /\ \A i \in 1 .. Len(list) - f : both[(f - 1) + i] = list[f + i]
  <2>1. /\ both \in Seq(S) /\ Len(both) = Len(left_) + Len(right)
        /\ \A i \in 1 .. Len(left_) : both[i] = left_[i]
        /\ \A i \in 1 .. Len(right) : both[Len(left_) + i] = right[i]
    <3>1. left_ \in Seq(S) /\ right \in Seq(S)
      BY <1>2, <1>3
    <3> QED BY <3>1, JoinedIs
  <2> HIDE DEF both
  <2> QED BY <1>1, <1>2, <1>3, <2>1
<1> HIDE DEF both
<1>6. ASSUME NEW i \in 1 .. Len(list) - 1, ~(i < f) PROVE both[i] = list[i + 1]
  <2> DEFINE j == i - (f - 1)
  <2>1. j \in 1 .. Len(list) - f /\ (f - 1) + j = i /\ f + j = i + 1
    BY <1>1, <1>6
  <2> HIDE DEF j
  <2> QED BY <1>5, <2>1
<1>7. \A i \in 1 .. Len(list) - 1 : both[i] = IF i < f THEN list[i] ELSE list[i + 1]
  BY <1>1, <1>5, <1>6
<1> QED BY <1>4, <1>5, <1>7 DEF both

\* A list of nodes as the copilot makes them.
Drawn(nodes) == \E I, K : nodes \in Seq([id : I, type : AllowedTypes, kind : K])

TriggersIn(nodes) == {i \in DOMAIN nodes : nodes[i].type = "trigger"}

\* A node in front of a list that holds no other trigger.
LEMMA TriggerInFront ==
  ASSUME NEW S, NEW first \in S, NEW others \in Seq(S), first.type = "trigger",
         \A i \in 1 .. Len(others) : others[i].type # "trigger"
  PROVE  /\ <<first>> \o others \in Seq(S) /\ Len(<<first>> \o others) = Len(others) + 1
         /\ (<<first>> \o others)[1] = first
         /\ \A i \in 1 .. Len(others) : (<<first>> \o others)[i + 1] = others[i]
         /\ TriggersIn(<<first>> \o others) = {1}
<1> DEFINE one == <<first>>
           all == one \o others
<1>1. one \in Seq(S) /\ Len(one) = 1 /\ one[1] = first
  OBVIOUS
<1> HIDE DEF one
<1>2. /\ all \in Seq(S) /\ Len(all) = 1 + Len(others) /\ all[1] = first
      /\ \A i \in 1 .. Len(others) : all[1 + i] = others[i]
  <2>1. /\ all \in Seq(S) /\ Len(all) = Len(one) + Len(others)
        /\ \A i \in 1 .. Len(one) : all[i] = one[i]
        /\ \A i \in 1 .. Len(others) : all[Len(one) + i] = others[i]
    <3>1. \A a, b \in Seq(S) :
             /\ a \o b \in Seq(S) /\ Len(a \o b) = Len(a) + Len(b)
             /\ \A i \in 1 .. Len(a) : (a \o b)[i] = a[i]
             /\ \A i \in 1 .. Len(b) : (a \o b)[Len(a) + i] = b[i]
      BY JoinedIs
    <3> QED BY <1>1, <3>1, Zenon
  <2> HIDE DEF all
  <2> QED BY <1>1, <2>1
<1> HIDE DEF all
<1>3. Len(others) \in Nat /\ DOMAIN all = 1 .. Len(others) + 1
      /\ \A i \in 1 .. Len(others) : 1 + i = i + 1
  BY <1>2
<1>4. ASSUME NEW i \in DOMAIN all, all[i].type = "trigger" PROVE i = 1
  <2>1. i = 1 \/ (i - 1 \in 1 .. Len(others) /\ 1 + (i - 1) = i)
    BY <1>3
  <2> QED BY <1>2, <1>4, <2>1
<1>5. TriggersIn(all) = {1}
  BY <1>2, <1>3, <1>4 DEF TriggersIn
<1> QED BY <1>2, <1>3, <1>5 DEF all, one

LEMMA SingleTrigger ==
  ASSUME NEW nodes, Drawn(nodes)
  PROVE  /\ Drawn(EnsureSingleTrigger(nodes))
         /\ Len(EnsureSingleTrigger(nodes)) > 0
         /\ TriggersIn(EnsureSingleTrigger(nodes)) = {1}
         /\ TriggersIn(nodes) # {} =>
              /\ Len(EnsureSingleTrigger(nodes)) = Len(nodes)
              /\ Ids(EnsureSingleTrigger(nodes)) = Ids(nodes)
<1>1. PICK I, K : nodes \in Seq([id : I, type : AllowedTypes, kind : K])
  BY DEF Drawn
<1> DEFINE R == [id : I, type : AllowedTypes, kind : K]
           S == [id : I \cup {<<"trigger", 0>>}, type : AllowedTypes,
                 kind : K \cup {"manual"}]
           N == Len(nodes)
           triggers == TriggersIn(nodes)
           demoted == [i \in DOMAIN nodes |->
                         IF i \in triggers THEN [nodes[i] EXCEPT !.type = "action"]
                         ELSE nodes[i]]
           f == FX!Min(triggers)
           whole == EnsureSingleTrigger(nodes)
<1>2. N \in Nat /\ DOMAIN nodes = 1 .. N
      /\ \A i \in 1 .. N : nodes[i] \in R
  <2>1. nodes \in Seq(R)
    BY <1>1, Zenon
  <2> HIDE DEF R
  <2> QED BY <2>1
<1>3. R \subseteq S
  OBVIOUS
<1>4. nodes \in Seq(S) /\ \A i \in 1 .. N : nodes[i] \in S
  <2>1. nodes \in Seq(R)
    BY <1>1, Zenon
  <2> HIDE DEF R, S
  <2> QED BY <1>2, <1>3, <2>1
<1>5. \A seq : seq \in Seq(S) => Drawn(seq)
  BY DEF Drawn
<1>6. whole = IF triggers = {} THEN <<ManualTrigger>> \o nodes
              ELSE <<nodes[f]>> \o SX!RemoveAt(demoted, f)
  BY DEF EnsureSingleTrigger, TriggersIn
<1>7. \A r \in S : /\ [r EXCEPT !.type = "action"] \in S
                   /\ [r EXCEPT !.type = "action"].type = "action"
                   /\ [r EXCEPT !.type = "action"].id = r.id
  BY DEF AllowedTypes
<1>8. ManualTrigger \in S /\ ManualTrigger.type = "trigger"
  BY DEF ManualTrigger, AllowedTypes
<1> HIDE DEF R, S, whole
<1>9. CASE triggers = {}
  <2>1. \A i \in 1 .. N : nodes[i].type # "trigger"
    BY <1>2, <1>9 DEF TriggersIn
  <2>2. /\ <<ManualTrigger>> \o nodes \in Seq(S)
        /\ Len(<<ManualTrigger>> \o nodes) = N + 1
        /\ TriggersIn(<<ManualTrigger>> \o nodes) = {1}
    BY <1>4, <1>8, <2>1, TriggerInFront
  <2>3. Drawn(whole) /\ Len(whole) = N + 1 /\ TriggersIn(whole) = {1}
    BY <1>5, <1>6, <1>9, <2>2 DEF S
  <2> QED BY <1>2, <1>9, <2>3 DEF whole
<1>10. CASE triggers # {}
  <2>1. triggers \in SUBSET (1 .. N) /\ \A i \in 1 .. N : i \in triggers <=> nodes[i].type = "trigger"
    BY <1>2 DEF TriggersIn
  <2>2. f \in triggers
    <3>1. triggers \in SUBSET Nat
      BY <1>2, <2>1
    <3> HIDE DEF triggers
    <3> QED BY <1>10, <3>1, LeastOf
  <2> HIDE DEF triggers, f
  <2>3. /\ demoted \in Seq(S) /\ Len(demoted) = N
        /\ \A i \in 1 .. N : /\ demoted[i].type # "trigger"
                             /\ demoted[i].id = nodes[i].id
    <3>1. demoted = [i \in 1 .. N |-> IF i \in triggers THEN [nodes[i] EXCEPT !.type = "action"]
                                      ELSE nodes[i]]
      BY <1>2
    <3> HIDE DEF demoted
    <3>2. \A i \in 1 .. N : /\ demoted[i] \in S /\ demoted[i].type # "trigger"
                            /\ demoted[i].id = nodes[i].id
      BY <1>4, <1>7, <2>1, <3>1
    <3>3. demoted \in [1 .. N -> S]
      <4>1. DOMAIN demoted = 1 .. N
        BY <3>1
      <4>2. demoted = [i \in 1 .. N |-> demoted[i]]
        BY <3>1, <4>1
      <4> QED BY <3>2, <4>2
    <3>4. demoted \in Seq(S) /\ Len(demoted) = N
      BY <1>2, <3>3
    <3> QED BY <3>2, <3>4
  <2> DEFINE others == SX!RemoveAt(demoted, f)
  <2> HIDE DEF demoted
  <2>4. /\ others \in Seq(S) /\ Len(others) = N - 1
        /\ \A i \in 1 .. N - 1 : others[i] = IF i < f THEN demoted[i] ELSE demoted[i + 1]
    BY <2>1, <2>2, <2>3, RemoveAtIs
  <2> HIDE DEF others
  <2>5. nodes[f] \in S /\ nodes[f].type = "trigger" /\ f \in 1 .. N
    BY <1>4, <2>1, <2>2
  <2>6. \A i \in 1 .. Len(others) : others[i].type # "trigger"
    BY <1>2, <2>3, <2>4
  <2>7. /\ whole \in Seq(S) /\ Len(whole) = (N - 1) + 1 /\ TriggersIn(whole) = {1}
        /\ whole[1] = nodes[f]
        /\ \A i \in 1 .. N - 1 : whole[i + 1] = others[i]
    <3>1. whole = <<nodes[f]>> \o others
      BY <1>6, <1>10 DEF others, triggers, f, demoted
    <3> QED BY <2>4, <2>5, <2>6, <3>1, TriggerInFront
  <2>8. Ids(whole) = Ids(nodes)
    <3>1. DOMAIN whole = 1 .. N
      BY <1>2, <2>5, <2>7
    <3>2. ASSUME NEW i \in 1 .. N PROVE whole[i].id \in Ids(nodes)
      <4>1. CASE i = 1
        BY <1>2, <2>5, <2>7, <4>1 DEF Ids
      <4>2. CASE i # 1
        <5>1. i - 1 \in 1 .. N - 1 /\ (i - 1) + 1 = i
          BY <1>2, <4>2
        <5>2. PICK j \in 1 .. N : others[i - 1] = demoted[j]
          BY <1>2, <2>4, <5>1
        <5>3. whole[(i - 1) + 1] = others[i - 1]
          BY <2>7, <5>1
        <5>4. whole[i].id = nodes[j].id
          BY <2>3, <5>1, <5>2, <5>3
        <5> QED BY <1>2, <5>4 DEF Ids
      <4> QED BY <4>1, <4>2
    <3>3. ASSUME NEW j \in 1 .. N PROVE nodes[j].id \in Ids(whole)
      <4>1. CASE j = f
        BY <1>2, <2>7, <3>1, <4>1 DEF Ids
      <4>2. CASE j # f
        <5>1. PICK i \in 1 .. N - 1 : others[i] = demoted[j]
          <6>1. CASE j < f
            BY <1>2, <2>4, <2>5, <6>1
          <6>2. CASE f < j
            <7>1. j - 1 \in 1 .. N - 1 /\ ~(j - 1 < f) /\ (j - 1) + 1 = j
              BY <1>2, <2>5, <6>2
            <7> QED BY <2>4, <7>1
          <6> QED BY <1>2, <2>5, <4>2, <6>1, <6>2
        <5>2. i + 1 \in 1 .. N
          BY <1>2
        <5>3. whole[i + 1].id = nodes[j].id /\ i + 1 \in DOMAIN whole
          BY <2>3, <2>7, <3>1, <5>1, <5>2
        <5> QED BY <5>3 DEF Ids
      <4> QED BY <4>1, <4>2
    <3> QED BY <1>2, <3>1, <3>2, <3>3 DEF Ids
  <2> QED BY <1>2, <1>5, <2>5, <2>7, <2>8 DEF whole
<1> QED BY <1>9, <1>10

-----------------------------------------------------------------------------
(* What answers are coerced to.                                             *)

LEMMA SmallerOf ==
  ASSUME NEW m \in Nat, NEW n \in Nat
  PROVE  FX!Min({m, n}) = IF m <= n THEN m ELSE n
<1>1. FX!Min({m, n}) \in {m, n} /\ FX!Min({m, n}) <= m /\ FX!Min({m, n}) <= n
  BY LeastOf
<1> QED BY <1>1

LEMMA CoercedAreDrawn ==
  ASSUME NEW V, NEW items \in Seq(V)
  PROVE  Drawn(CoerceNodes(items))
<1> DEFINE n == FX!Min({MaxNodes, Len(items)})
           K == {k \in 1 .. n : items[k].shape = "dict"}
           at == InOrder(K)
           type(item) == IF item.type \in AllowedTypes THEN item.type ELSE "action"
           id(k) == IF items[k].id.given THEN items[k].id.name ELSE <<type(items[k]), k - 1>>
           kinds == {items[at[i]].kind : i \in DOMAIN at}
           ids == {id(at[i]) : i \in DOMAIN at}
           made == CoerceNodes(items)
           Node == [id : ids, type : AllowedTypes, kind : kinds]
<1>1. n \in Nat
  BY SmallerOf, CopilotAssumption
<1>2. made = [i \in DOMAIN at |-> [id |-> id(at[i]), type |-> type(items[at[i]]),
                                   kind |-> items[at[i]].kind]]
  BY DEF CoerceNodes
<1>3. DOMAIN at = 1 .. Cardinality(K) /\ Cardinality(K) \in Nat
  <2>1. K \in SUBSET (1 .. n)
    OBVIOUS
  <2> HIDE DEF K, n
  <2> QED BY <1>1, <2>1, InOrderIs
<1>4. \A item : type(item) \in AllowedTypes
  BY DEF AllowedTypes
<1> HIDE DEF at, type, made
<1>5. \A i \in DOMAIN at : [id |-> id(at[i]), type |-> type(items[at[i]]),
                             kind |-> items[at[i]].kind] \in Node
  BY <1>4
<1> HIDE DEF Node, id, K
<1>6. made \in [1 .. Cardinality(K) -> Node]
  BY <1>2, <1>3, <1>5
<1>7. made \in Seq(Node)
  BY <1>3, <1>6
<1> QED BY <1>7 DEF Drawn, made, Node

LEMMA GraphedIs ==
  ASSUME NEW nodes, Drawn(nodes)
  PROVE  /\ Len(nodes) \in Nat /\ DOMAIN nodes = 1 .. Len(nodes)
         /\ DOMAIN Graphed(nodes) = DOMAIN nodes /\ Len(Graphed(nodes)) = Len(nodes)
         /\ Ids(Graphed(nodes)) = Ids(nodes)
         /\ TriggerAt(Graphed(nodes)) = TriggersIn(nodes)
         /\ \E V : Graphed(nodes) \in Seq(V)
<1>1. Len(nodes) \in Nat /\ DOMAIN nodes = 1 .. Len(nodes)
  <2>1. \E S : nodes \in Seq(S)
    BY DEF Drawn
  <2> QED BY <2>1
<1> DEFINE g == Graphed(nodes)
<1>2. g = [i \in 1 .. Len(nodes) |->
             [id |-> nodes[i].id, trigger |-> nodes[i].type = "trigger"]]
  BY <1>1 DEF Graphed
<1> HIDE DEF g
<1>3. g \in Seq({g[i] : i \in 1 .. Len(nodes)}) /\ Len(g) = Len(nodes) /\ DOMAIN g = 1 .. Len(nodes)
  <2>1. g = [i \in 1 .. Len(nodes) |-> g[i]]
    BY <1>2
  <2> QED BY <1>1, <2>1, IsList
<1>4. \A i \in DOMAIN nodes : g[i].id = nodes[i].id /\ (g[i].trigger <=> nodes[i].type = "trigger")
  BY <1>1, <1>2
<1>5. Ids(g) = Ids(nodes) /\ TriggerAt(g) = TriggersIn(nodes)
  BY <1>1, <1>3, <1>4 DEF Ids, TriggerAt, TriggersIn
<1> QED BY <1>1, <1>3, <1>5 DEF g

LEMMA LinearIs ==
  ASSUME NEW nodes, Drawn(nodes), Len(nodes) > 0
  PROVE  /\ \E W : LinearEdges(nodes) \in Seq(W)
         /\ DOMAIN LinearEdges(nodes) = 1 .. Len(nodes) - 1
         /\ \A k \in 1 .. Len(nodes) - 1 :
              /\ LinearEdges(nodes)[k].source = nodes[k].id
              /\ LinearEdges(nodes)[k].target = nodes[k + 1].id
<1> DEFINE e == LinearEdges(nodes)
           m == Len(nodes) - 1
<1>1. m \in Nat
  BY GraphedIs
<1>2. e = [k \in 1 .. m |-> [source |-> nodes[k].id, target |-> nodes[k + 1].id]]
  BY DEF LinearEdges
<1> HIDE DEF e, m
<1>3. e = [k \in 1 .. m |-> e[k]]
  BY <1>2
<1>4. e \in Seq({e[i] : i \in 1 .. m}) /\ DOMAIN e = 1 .. m
  BY <1>1, <1>3, IsList
<1>5. \E W : e \in Seq(W)
  BY <1>4
<1>6. \A k \in 1 .. m : e[k].source = nodes[k].id /\ e[k].target = nodes[k + 1].id
  BY <1>2
<1> QED BY <1>4, <1>5, <1>6 DEF e, m

LEMMA CoercedEdgesAreLists ==
  ASSUME NEW V, NEW items \in Seq(V), NEW nodes, Drawn(nodes), Len(nodes) > 0
  PROVE  \E W : CoerceEdges(items, nodes) \in Seq(W)
<1> DEFINE known(end) == end.text /\ end.name \in Ids(nodes)
           K == {k \in DOMAIN items : /\ items[k].shape = "dict"
                                      /\ known(items[k].source) /\ known(items[k].target)
                                      /\ items[k].source.name # items[k].target.name}
           at == InOrder(K)
           kept == [n \in DOMAIN at |-> [source |-> items[at[n]].source.name,
                                         target |-> items[at[n]].target.name]]
<1>1. K \in SUBSET (1 .. Len(items)) /\ Len(items) \in Nat
  OBVIOUS
<1>2. CoerceEdges(items, nodes) \in {kept, LinearEdges(nodes)}
  BY DEF CoerceEdges
<1> HIDE DEF K
<1>3. DOMAIN at = 1 .. Cardinality(K) /\ Cardinality(K) \in Nat
  BY <1>1, InOrderIs
<1>4. kept = [n \in 1 .. Cardinality(K) |-> kept[n]]
  BY <1>3
<1> HIDE DEF kept
<1>5. \E W : kept \in Seq(W)
  BY <1>3, <1>4, IsList
<1> QED BY <1>2, <1>5, LinearIs

\* A specification the caller can use.
Fit(spec) ==
    /\ Accepted(spec.nodes, spec.edges)
    /\ TopologicalLevels(Graphed(spec.nodes), spec.edges).outcome = "ok"
    /\ TriggersIn(spec.nodes) = {1}
    /\ spec.trigger = TriggerFor(spec.nodes[1])

\* What validation accepts has no cycle for the executor's levels either.
LEMMA AcceptedIsLevelled ==
  ASSUME NEW nodes, Drawn(nodes), NEW edges, \E W : edges \in Seq(W), Accepted(nodes, edges)
  PROVE  TopologicalLevels(Graphed(nodes), edges).outcome = "ok"
<1> DEFINE g == Graphed(nodes)
<1>1. Lists(g, edges)
  BY GraphedIs DEF Lists
<1>2. TopologicalSort(g, edges).outcome = TopologicalLevels(g, edges).outcome
  BY <1>1, SortAgrees
<1>3. /\ TopologicalSort(g, edges).outcome # "key_error"
      /\ TopologicalSort(g, edges).outcome # "cycle"
  BY DEF Accepted, ValidateWorkflow
<1>4. TopologicalSort(g, edges).outcome \in {"key_error", "cycle", "ok"}
  BY DEF TopologicalSort
<1> QED BY <1>2, <1>3, <1>4

\* What a usable answer is coerced to, by the functions that coerce it.
LEMMA UsableIs ==
  ASSUME NEW v \in Verdicts, v.what = "usable"
  PROVE  /\ v.raw \in Answers
         /\ LET whole == EnsureSingleTrigger(CoerceNodes(v.raw.nodes)) IN
            /\ v.spec.nodes = whole
            /\ v.spec.edges = CoerceEdges(v.raw.edges, whole)
            /\ v.spec.trigger = TriggerFor(whole[1])
            /\ Accepted(v.spec.nodes, v.spec.edges)
<1>1. PICK raw \in Answers : v = Verdict(raw)
  BY DEF Verdicts
<1> DEFINE got == CoerceSpec(raw)
           whole == EnsureSingleTrigger(CoerceNodes(raw.nodes))
<1>2. /\ v.raw = raw /\ v.spec = got.spec /\ got.outcome = "spec"
      /\ Accepted(got.spec.nodes, got.spec.edges)
  <2> HIDE DEF got
  <2>1. v = CASE got.outcome = "raises" -> [raw |-> raw, what |-> "odd", spec |-> NoSpec]
              [] got.outcome = "spec" /\ Accepted(got.spec.nodes, got.spec.edges)
                    -> [raw |-> raw, what |-> "usable", spec |-> got.spec]
              [] OTHER -> [raw |-> raw, what |-> "unusable", spec |-> NoSpec]
    BY <1>1 DEF Verdict, got
  <2> QED BY <2>1
<1>3. got.outcome = "spec" =>
        got.spec = [nodes |-> whole, edges |-> CoerceEdges(raw.edges, whole),
                    trigger |-> TriggerFor(whole[1])]
  BY DEF CoerceSpec
<1> HIDE DEF got, whole
<1>4. got.spec = [nodes |-> whole, edges |-> CoerceEdges(raw.edges, whole),
                  trigger |-> TriggerFor(whole[1])]
  BY <1>2, <1>3
<1> QED BY <1>2, <1>4 DEF whole

LEMMA UsableIsFit ==
  ASSUME NEW v \in Verdicts, v.what = "usable"
  PROVE  Fit(v.spec)
<1> DEFINE nodes == CoerceNodes(v.raw.nodes)
           whole == EnsureSingleTrigger(nodes)
           edges == CoerceEdges(v.raw.edges, whole)
<1>1. /\ v.raw \in Answers /\ v.spec.nodes = whole /\ v.spec.edges = edges
      /\ v.spec.trigger = TriggerFor(whole[1]) /\ Accepted(whole, edges)
  BY UsableIs
<1>2. (\E V : v.raw.nodes \in Seq(V)) /\ \E W : v.raw.edges \in Seq(W)
  BY <1>1, AnswersAreLists
<1>3. Drawn(nodes)
  BY <1>2, CoercedAreDrawn
<1> HIDE DEF nodes
<1>4. Drawn(whole) /\ Len(whole) > 0 /\ TriggersIn(whole) = {1}
  BY <1>3, SingleTrigger
<1> HIDE DEF whole
<1>5. \E W : edges \in Seq(W)
  BY <1>2, <1>4, CoercedEdgesAreLists
<1> HIDE DEF edges
<1>6. TopologicalLevels(Graphed(whole), edges).outcome = "ok"
  BY <1>1, <1>4, <1>5, AcceptedIsLevelled
<1> QED BY <1>1, <1>4, <1>6 DEF Fit

\* A chain of nodes with distinct ids, of which the first alone is a trigger, is
\* valid: the first node that is not done would have its only source done.
LEMMA ChainIsAccepted ==
  ASSUME NEW nodes, Drawn(nodes), Len(nodes) > 0, TriggersIn(nodes) = {1},
         \A i, j \in DOMAIN nodes : nodes[i].id = nodes[j].id => i = j
  PROVE  Accepted(nodes, LinearEdges(nodes))
<1> DEFINE g == Graphed(nodes)
           e == LinearEdges(nodes)
           N == Len(nodes)
           all == AllDone(g, e)
<1>1. /\ N \in Nat /\ DOMAIN nodes = 1 .. N /\ DOMAIN g = 1 .. N /\ Len(g) = N
      /\ Ids(g) = Ids(nodes) /\ TriggerAt(g) = {1} /\ Lists(g, e)
  BY GraphedIs, LinearIs DEF Lists
<1>2. /\ DOMAIN e = 1 .. N - 1
      /\ \A k \in 1 .. N - 1 : e[k].source = nodes[k].id /\ e[k].target = nodes[k + 1].id
  BY LinearIs
<1>3. Ids(g) = {nodes[i].id : i \in 1 .. N}
  BY <1>1 DEF Ids
<1> HIDE DEF g, e, N
<1>4. EdgeErrors(g, e) = {}
  <2>1. \A k \in 1 .. N - 1 : k \in 1 .. N /\ k + 1 \in 1 .. N
    BY <1>1
  <2>2. \A k \in DOMAIN e : {e[k].source, e[k].target} \subseteq Ids(g)
    BY <1>2, <1>3, <2>1
  <2> QED BY <2>2, EdgeErrorsAre
<1>5. TriggerErrors(g) = {}
  <2>1. Cardinality(TriggerAt(g)) = 1
    BY <1>1, FS_Singleton
  <2> QED BY <1>1, <2>1, TriggerErrorsAre
<1>6. Cardinality(Ids(g)) = Len(g)
  <2> DEFINE list == [i \in 1 .. N |-> nodes[i].id]
  <2>1. list \in Seq(Ids(g)) /\ Len(list) = N
    BY <1>1, <1>3
  <2>2. Distinct(list)
    BY <1>1, <2>1 DEF Distinct
  <2>3. Members(list) = Ids(g)
    BY <1>3, <2>1 DEF Members
  <2> HIDE DEF list
  <2> QED BY <1>1, <2>1, <2>2, <2>3, DistinctCounts
<1>7. all = Ids(g)
  <2>1. Free(g, e, all) = all
    BY <1>1, LevelsPartition
  <2>2. all \subseteq Ids(g)
    BY <2>1 DEF Free
  <2> HIDE DEF all
  <2> DEFINE T == {k \in 1 .. N : nodes[k].id \notin all}
  <2>3. ASSUME T # {} PROVE FALSE
    <3>1. PICK k \in T : \A j \in T : k <= j
      <4>1. T \in SUBSET Nat
        BY <1>1
      <4> HIDE DEF T
      <4> QED BY <2>3, <4>1, LeastNatural
    <3>2. k \in 1 .. N /\ nodes[k].id \in Ids(g)
      BY <1>3
    <3>3. ASSUME NEW j \in DOMAIN e, e[j].target = nodes[k].id
          PROVE  e[j].source \in all
      <4>1. j \in 1 .. N - 1 /\ j \in 1 .. N /\ j + 1 \in 1 .. N
        BY <1>1, <1>2
      <4>2. j + 1 = k
        BY <1>1, <1>2, <3>2, <3>3, <4>1
      <4>3. j \notin T
        BY <1>1, <3>1, <4>1, <4>2
      <4> QED BY <1>2, <4>1, <4>3
    <3>4. nodes[k].id \in Free(g, e, all)
      BY <3>2, <3>3 DEF Free, Linked
    <3> QED BY <2>1, <3>4
  <2> QED BY <1>3, <2>2, <2>3
<1>8. TopologicalSort(g, e).outcome = "ok"
  BY <1>1, <1>4, <1>6, <1>7, SortOfKnownEnds
<1> QED BY <1>4, <1>5, <1>8 DEF Accepted, ValidateWorkflow, g, e

LEMMA HeuristicIsFit ==
  ASSUME NEW words
  PROVE  Fit(HeuristicSpec(words))
<1> DEFINE K == {k \in DOMAIN KeywordNodes : KeywordNodes[k].words \in words}
           at == InOrder(K)
           types == IF at = << >> THEN <<"action">>
                    ELSE [k \in DOMAIN at |-> KeywordNodes[at[k]].type]
           steps == [k \in DOMAIN types |->
                       [id |-> <<types[k], k>>, type |-> types[k], kind |-> "none"]]
           first == DetectTrigger(words)
           nodes == <<first>> \o steps
           Types == {"conditional", "transform", "delay", "action"}
           I == AllowedTypes \X Nat
           Node == [id : I, type : AllowedTypes,
                    kind : {"none", "manual", "webhook", "schedule"}]
<1>1. /\ DOMAIN KeywordNodes = 1 .. 5
      /\ \A k \in 1 .. 5 : KeywordNodes[k].type \in Types
  BY DEF KeywordNodes
<1>2. types \in Seq(Types) /\ Len(types) > 0
  <2>1. K \in SUBSET (1 .. 5) /\ 5 \in Nat
    BY <1>1
  <2> HIDE DEF K
  <2>2. at \in [1 .. Cardinality(K) -> K] /\ Cardinality(K) \in Nat
    BY <2>1, InOrderIs
  <2>3. at # << >> => Cardinality(K) > 0
    BY <2>2
  <2>4. [k \in DOMAIN at |-> KeywordNodes[at[k]].type] \in [1 .. Cardinality(K) -> Types]
    BY <1>1, <2>1, <2>2
  <2>5. <<"action">> \in Seq(Types) /\ Len(<<"action">>) = 1
    OBVIOUS
  <2> HIDE DEF at, Types
  <2>6. CASE at = << >>
    BY <2>5, <2>6
  <2>7. CASE at # << >>
    <3>1. types = [k \in DOMAIN at |-> KeywordNodes[at[k]].type]
      BY <2>7
    <3> HIDE DEF types
    <3>2. types \in [1 .. Cardinality(K) -> Types]
      BY <2>4, <3>1
    <3> QED BY <2>2, <2>3, <2>7, <3>2
  <2> QED BY <2>6, <2>7
<1> HIDE DEF types
<1>3. /\ steps = [k \in 1 .. Len(types) |->
                    [id |-> <<types[k], k>>, type |-> types[k], kind |-> "none"]]
      /\ Len(types) \in Nat /\ \A k \in 1 .. Len(types) : types[k] \in Types
  BY <1>2
<1> HIDE DEF steps
<1>4. \A k \in 1 .. Len(types) :
        /\ steps[k] \in Node /\ steps[k].type # "trigger" /\ steps[k].id = <<types[k], k>>
  <2>1. \A k \in 1 .. Len(types) : /\ types[k] \in AllowedTypes /\ types[k] # "trigger"
                                   /\ k \in Nat
    BY <1>3 DEF AllowedTypes
  <2>2. \A k \in 1 .. Len(types) : <<types[k], k>> \in I
    BY <2>1
  <2> HIDE DEF I
  <2> QED BY <1>3, <2>1, <2>2
<1>5. first \in Node /\ first.type = "trigger" /\ first.id = <<"trigger", 0>>
  <2>1. /\ first.id = <<"trigger", 0>> /\ first.type = "trigger"
        /\ first.kind \in {"manual", "webhook", "schedule"}
        /\ first = [id |-> first.id, type |-> first.type, kind |-> first.kind]
    BY DEF DetectTrigger, ManualTrigger
  <2>2. <<"trigger", 0>> \in I /\ "trigger" \in AllowedTypes
    BY DEF AllowedTypes
  <2> HIDE DEF I, first
  <2> QED BY <2>1, <2>2
<1> HIDE DEF Node, first
<1>6. steps \in Seq(Node) /\ Len(steps) = Len(types)
  <2>1. steps \in [1 .. Len(types) -> Node]
    BY <1>3, <1>4
  <2> QED BY <1>3, <2>1
<1>7. /\ nodes \in Seq(Node) /\ Len(nodes) = Len(types) + 1 /\ nodes[1] = first
      /\ \A k \in 1 .. Len(types) : nodes[k + 1] = steps[k]
      /\ TriggersIn(nodes) = {1}
  BY <1>4, <1>5, <1>6, TriggerInFront
<1> HIDE DEF nodes
<1>8. \A i, j \in DOMAIN nodes : nodes[i].id = nodes[j].id => i = j
  <2>1. DOMAIN nodes = 1 .. Len(types) + 1
    BY <1>3, <1>7
  <2>2. ASSUME NEW i \in DOMAIN nodes PROVE nodes[i].id[2] = i - 1
    <3>1. CASE i = 1
      BY <1>5, <1>7, <3>1
    <3>2. CASE i # 1
      <4>1. i - 1 \in 1 .. Len(types) /\ (i - 1) + 1 = i
        BY <1>3, <2>1, <3>2
      <4>2. nodes[i].id = <<types[i - 1], i - 1>>
        BY <1>4, <1>7, <4>1
      <4> QED BY <4>2
    <3> QED BY <3>1, <3>2
  <2>3. \A i, j \in DOMAIN nodes : i - 1 = j - 1 => i = j
    BY <1>3, <2>1
  <2> QED BY <2>2, <2>3
<1>9. Drawn(nodes) /\ Len(nodes) > 0
  <2>1. nodes \in Seq([id : I, type : AllowedTypes,
                      kind : {"none", "manual", "webhook", "schedule"}])
    BY <1>7 DEF Node
  <2>2. Drawn(nodes)
    BY <2>1, Zenon DEF Drawn
  <2> QED BY <1>3, <1>7, <2>2
<1>10. Accepted(nodes, LinearEdges(nodes))
  BY <1>7, <1>8, <1>9, ChainIsAccepted
<1>11. TopologicalLevels(Graphed(nodes), LinearEdges(nodes)).outcome = "ok"
  BY <1>9, <1>10, LinearIs, AcceptedIsLevelled
<1>12. HeuristicSpec(words) = [nodes |-> nodes, edges |-> LinearEdges(nodes),
                               trigger |-> TriggerFor(nodes[1])]
  BY DEF HeuristicSpec, nodes, first, steps, types
<1> QED BY <1>7, <1>10, <1>11, <1>12 DEF Fit

-----------------------------------------------------------------------------
(* A good answer: coercion has nothing to add, drop or replace.             *)

\* Whether there is a cycle depends on the ids, not on the order of the nodes.
LEMMA AcyclicByIds ==
  ASSUME NEW nodes, NEW others, NEW edges, Ids(nodes) = Ids(others)
  PROVE  Acyclic(nodes, edges) <=> Acyclic(others, edges)
<1>1. GraphOf(nodes, edges) = GraphOf(others, edges)
  BY DEF GraphOf
<1>2. Walk(nodes, edges) = Walk(others, edges)
  BY <1>1 DEF Walk
<1>3. WalkEnds(nodes, edges, Ids(nodes)) = WalkEnds(others, edges, Ids(others))
  BY <1>2 DEF WalkEnds
<1> QED BY <1>3 DEF Acyclic

\* A node with an edge to itself ends walks of any length.
LEMMA NoEdgeToItself ==
  ASSUME NEW nodes, NEW edges, Lists(nodes, edges), Acyclic(nodes, edges),
         NEW k \in DOMAIN edges, edges[k].source \in Ids(nodes)
  PROVE  edges[k].source # edges[k].target
<1> SUFFICES ASSUME edges[k].source = edges[k].target PROVE FALSE
  OBVIOUS
<1> DEFINE E == EndsAfter(nodes, edges, Ids(nodes))
           N == Cardinality(Ids(nodes))
           id == edges[k].source
           T == {n \in Nat : id \in E[n]}
<1>1. k \in Between(nodes, edges)
  BY DEF Between
<1>2. E[0] = Ids(nodes) /\ \A n \in Nat :
        E[n + 1] = {i \in Ids(nodes) : \E j \in Between(nodes, edges) :
                      edges[j].source \in E[n] /\ edges[j].target = i}
  BY EndsAre
<1>3. 0 \in T
  BY <1>2
<1>4. \A n \in T : n + 1 \in T
  <2> HIDE DEF E
  <2> QED BY <1>1, <1>2
<1>5. T = Nat
  <2>1. T \in SUBSET Nat
    OBVIOUS
  <2> HIDE DEF T
  <2> QED BY <1>3, <1>4, <2>1, SetInduction
<1>6. N \in Nat /\ E[N] = {}
  <2>1. N \in Nat
    BY IdsFinite
  <2>2. N \in 0 .. N
    BY <2>1
  <2>3. WalkEnds(nodes, edges, Ids(nodes))[N] = E[N]
    BY <2>2, WalkEndsAre
  <2> QED BY <2>1, <2>3 DEF Acyclic
<1> HIDE DEF E, N
<1> QED BY <1>5, <1>6

\* The workflow a good answer is, as the model of GoodAnswer reads it.
NodesOf(raw) == [i \in DOMAIN raw.nodes |->
                   [id |-> raw.nodes[i].id.name, trigger |-> raw.nodes[i].type = "trigger"]]
EdgesOf(raw) == [k \in DOMAIN raw.edges |-> [source |-> raw.edges[k].source.name,
                                            target |-> raw.edges[k].target.name]]

LEMMA GoodNodesAreKept ==
  ASSUME NEW raw \in Answers, GoodAnswer(raw)
  PROVE  LET made == CoerceNodes(raw.nodes) IN
         /\ Len(made) = Len(raw.nodes)
         /\ Ids(made) = Ids(NodesOf(raw))
         /\ TriggersIn(made) = TriggerAt(NodesOf(raw))
<1> DEFINE items == raw.nodes
           n == Len(items)
           type(item) == IF item.type \in AllowedTypes THEN item.type ELSE "action"
           made == CoerceNodes(items)
<1>1. n \in Nat /\ DOMAIN items = 1 .. n
  BY AnswersAreLists
<1>2. n <= MaxNodes /\ \A i \in 1 .. n : items[i].shape = "dict" /\ items[i].id.given
  BY <1>1 DEF GoodAnswer
<1>3. FX!Min({MaxNodes, n}) = n
  BY <1>1, <1>2, SmallerOf, CopilotAssumption
<1> HIDE DEF n
<1>4. {k \in 1 .. n : items[k].shape = "dict"} = 1 .. n
  BY <1>2
<1>5. InOrder(1 .. n) = [i \in 1 .. n |-> i]
  BY <1>1, InOrderOfAll
<1> DEFINE at == InOrder({k \in 1 .. FX!Min({MaxNodes, Len(items)}) : items[k].shape = "dict"})
           id(k) == IF items[k].id.given THEN items[k].id.name ELSE <<type(items[k]), k - 1>>
<1>6. at = [i \in 1 .. n |-> i]
  <2>1. FX!Min({MaxNodes, Len(items)}) = n
    BY <1>3 DEF n
  <2> QED BY <1>4, <1>5, <2>1
<1>7. made = [i \in DOMAIN at |-> [id |-> id(at[i]), type |-> type(items[at[i]]),
                                   kind |-> items[at[i]].kind]]
  BY DEF CoerceNodes
<1> HIDE DEF at, made
<1>8. \A i \in 1 .. n : made[i].id = items[i].id.name /\ made[i].type = type(items[i])
  BY <1>2, <1>6, <1>7
<1>9. \A i \in 1 .. n : type(items[i]) = "trigger" <=> items[i].type = "trigger"
  BY DEF AllowedTypes
<1>10. DOMAIN made = 1 .. n /\ Len(made) = n
  <2>1. DOMAIN made = 1 .. n
    BY <1>6, <1>7
  <2>2. \E V : items \in Seq(V)
    BY AnswersAreLists
  <2>3. Drawn(made)
    BY <2>2, CoercedAreDrawn DEF made
  <2>4. Len(made) \in Nat /\ DOMAIN made = 1 .. Len(made)
    BY <2>3, GraphedIs
  <2>5. Len(made) = n
    BY <1>1, <2>1, <2>4
  <2> QED BY <2>1, <2>5
<1> HIDE DEF type
<1>11. Ids(made) = Ids(NodesOf(raw))
  BY <1>1, <1>8, <1>10 DEF Ids, NodesOf
<1>12. TriggersIn(made) = TriggerAt(NodesOf(raw))
  BY <1>1, <1>8, <1>9, <1>10 DEF TriggersIn, TriggerAt, NodesOf
<1> QED BY <1>10, <1>11, <1>12 DEF made, n

\* Edges that make the kept nodes a valid workflow, between nodes that differ, are
\* all kept in their order.
LEMMA GoodEdgesAreKept ==
  ASSUME NEW V, NEW items \in Seq(V), items # << >>, NEW nodes,
         \A k \in DOMAIN items :
           /\ items[k].shape = "dict" /\ items[k].source.text /\ items[k].target.text
           /\ items[k].source.name \in Ids(nodes) /\ items[k].target.name \in Ids(nodes)
           /\ items[k].source.name # items[k].target.name,
         Accepted(nodes, [k \in DOMAIN items |-> [source |-> items[k].source.name,
                                                  target |-> items[k].target.name]])
  PROVE  CoerceEdges(items, nodes) =
           [k \in DOMAIN items |-> [source |-> items[k].source.name,
                                    target |-> items[k].target.name]]
<1> DEFINE m == Len(items)
           known(end) == end.text /\ end.name \in Ids(nodes)
           K == {k \in DOMAIN items : /\ items[k].shape = "dict"
                                      /\ known(items[k].source) /\ known(items[k].target)
                                      /\ items[k].source.name # items[k].target.name}
           at == InOrder(K)
           kept == [n \in DOMAIN at |-> [source |-> items[at[n]].source.name,
                                         target |-> items[at[n]].target.name]]
           all == [k \in DOMAIN items |-> [source |-> items[k].source.name,
                                           target |-> items[k].target.name]]
<1>1. m \in Nat /\ DOMAIN items = 1 .. m /\ m > 0
  OBVIOUS
<1>2. CoerceEdges(items, nodes) =
        IF kept # << >> /\ Accepted(nodes, kept) THEN kept ELSE LinearEdges(nodes)
  BY DEF CoerceEdges
<1>3. K = 1 .. m
  BY <1>1
<1> HIDE DEF m, K
<1>4. at = [k \in 1 .. m |-> k]
  BY <1>1, <1>3, InOrderOfAll
<1> HIDE DEF at
<1>5. kept = all
  BY <1>1, <1>4
<1>6. all # << >>
  <2>1. all = [k \in 1 .. m |-> all[k]]
    BY <1>1
  <2> HIDE DEF all
  <2>2. Len(all) = m
    BY <1>1, <2>1, IsList
  <2> QED BY <1>1, <2>2
<1> HIDE DEF kept, all
<1>7. Accepted(nodes, all)
  BY DEF all
<1> QED BY <1>2, <1>5, <1>6, <1>7 DEF all

LEMMA GoodAnswerIsKept ==
  ASSUME NEW v \in Verdicts, v.what = "usable", GoodAnswer(v.raw)
  PROVE  /\ Ids(v.spec.nodes) = {v.raw.nodes[i].id.name : i \in DOMAIN v.raw.nodes}
         /\ v.spec.edges = EdgesOf(v.raw)
<1> DEFINE raw == v.raw
           made == CoerceNodes(raw.nodes)
           whole == EnsureSingleTrigger(made)
           good == NodesOf(raw)
           edges == EdgesOf(raw)
           g == Graphed(whole)
<1>1. /\ raw \in Answers /\ v.spec.nodes = whole
      /\ v.spec.edges = CoerceEdges(raw.edges, whole)
  BY UsableIs
<1>2. (\E V : raw.nodes \in Seq(V)) /\ (\E W : raw.edges \in Seq(W))
      /\ DOMAIN raw.nodes = 1 .. Len(raw.nodes) /\ Len(raw.nodes) \in Nat
      /\ DOMAIN raw.edges = 1 .. Len(raw.edges) /\ Len(raw.edges) \in Nat
  <2>1. PICK V : raw.nodes \in Seq(V)
    BY <1>1, AnswersAreLists
  <2>2. PICK W : raw.edges \in Seq(W)
    BY <1>1, AnswersAreLists
  <2> QED BY <2>1, <2>2
<1>3. /\ Len(made) = Len(raw.nodes) /\ Ids(made) = Ids(good)
      /\ TriggersIn(made) = TriggerAt(good)
  BY <1>1, GoodNodesAreKept
<1>4. /\ WellFormed(good, edges) /\ Acyclic(good, edges)
      /\ Cardinality(TriggerAt(good)) = 1
      /\ raw.edges # << >>
      /\ \A k \in DOMAIN raw.edges : /\ raw.edges[k].shape = "dict"
                                     /\ raw.edges[k].source.text /\ raw.edges[k].target.text
  BY DEF GoodAnswer, NodesOf, EdgesOf
<1>5. Ids(good) = {raw.nodes[i].id.name : i \in DOMAIN raw.nodes}
      /\ Len(good) = Len(raw.nodes)
  <2>1. good = [i \in 1 .. Len(raw.nodes) |->
                  [id |-> raw.nodes[i].id.name, trigger |-> raw.nodes[i].type = "trigger"]]
    BY <1>2 DEF NodesOf
  <2> HIDE DEF good
  <2>2. good = [i \in 1 .. Len(raw.nodes) |-> good[i]]
    BY <2>1
  <2>3. DOMAIN good = 1 .. Len(raw.nodes) /\ Len(good) = Len(raw.nodes)
    BY <1>2, <2>2, IsList
  <2> QED BY <1>2, <2>1, <2>3 DEF Ids
<1>6. \A i \in Ids(good) : i # Missing
  <2>1. \A i \in DOMAIN raw.nodes : raw.nodes[i].shape = "dict" /\ raw.nodes[i].id.given
    BY DEF GoodAnswer
  <2> QED BY <1>1, <1>5, <2>1, AnswersAreLists
<1>7. Drawn(made)
  BY <1>2, CoercedAreDrawn
<1>8. TriggersIn(made) # {}
  <2>1. Cardinality(TriggersIn(made)) = 1 /\ Cardinality({}) = 0
    BY <1>3, <1>4, FS_EmptySet
  <2> HIDE DEF made
  <2> QED BY <2>1
<1> HIDE DEF made, good
<1>9. /\ Drawn(whole) /\ Len(whole) > 0 /\ TriggersIn(whole) = {1}
      /\ Len(whole) = Len(raw.nodes) /\ Ids(whole) = Ids(good)
  BY <1>3, <1>7, <1>8, SingleTrigger
<1> HIDE DEF whole
<1>10. /\ edges \in Seq({edges[k] : k \in 1 .. Len(raw.edges)})
       /\ DOMAIN edges = 1 .. Len(raw.edges)
       /\ \A k \in 1 .. Len(raw.edges) : /\ edges[k].source = raw.edges[k].source.name
                                         /\ edges[k].target = raw.edges[k].target.name
  <2>1. edges = [k \in 1 .. Len(raw.edges) |-> [source |-> raw.edges[k].source.name,
                                                target |-> raw.edges[k].target.name]]
    BY <1>2 DEF EdgesOf
  <2> HIDE DEF edges
  <2>2. edges = [k \in 1 .. Len(raw.edges) |-> edges[k]]
    BY <2>1
  <2> QED BY <1>2, <2>1, <2>2, IsList
<1>11. /\ Lists(g, edges) /\ Ids(g) = Ids(good) /\ TriggerAt(g) = {1}
       /\ Len(g) = Len(raw.nodes)
  BY <1>9, <1>10, GraphedIs DEF Lists
<1> HIDE DEF g, edges
<1>12. WellFormed(g, edges)
  BY <1>4, <1>5, <1>11 DEF WellFormed
<1>13. Acyclic(g, edges)
  BY <1>4, <1>11, AcyclicByIds
<1>14. Accepted(whole, edges)
  <2>1. Cardinality(TriggerAt(g)) = 1 /\ Missing \notin Ids(g)
    BY <1>6, <1>11, FS_Singleton
  <2>2. ValidateWorkflow(g, edges).errors = {} /\ ~ValidateWorkflow(g, edges).raises
    BY <1>11, <1>12, <1>13, <2>1, ValidityOf
  <2> QED BY <2>2 DEF Accepted, g
<1>15. ASSUME NEW k \in DOMAIN raw.edges
       PROVE  /\ raw.edges[k].source.name \in Ids(whole)
              /\ raw.edges[k].target.name \in Ids(whole)
              /\ raw.edges[k].source.name # raw.edges[k].target.name
  <2>1. {edges[k].source, edges[k].target} \subseteq Ids(g)
    BY <1>2, <1>10, <1>12 DEF WellFormed
  <2>2. edges[k].source # edges[k].target
    BY <1>2, <1>10, <1>11, <1>13, <2>1, NoEdgeToItself
  <2> QED BY <1>2, <1>9, <1>10, <1>11, <2>1, <2>2
<1>16. CoerceEdges(raw.edges, whole) = edges
  BY <1>2, <1>4, <1>14, <1>15, GoodEdgesAreKept DEF edges, EdgesOf
<1> QED BY <1>1, <1>5, <1>9, <1>16 DEF edges, whole, made

-----------------------------------------------------------------------------
(* Where the answer, and what is stored of it, come from.                   *)

Finished == stage \in {"returning", "answered", "raised"}

FromHeuristic ==
    reply = NoReply /\ \E words \in SUBSET Words : answer.spec = HeuristicSpec(words)

FromProvider ==
    \E v \in Verdicts : v.what = "usable" /\ reply = v.raw /\ answer.spec = v.spec

Made ==
    /\ stage \in Stages
    /\ Finished \/ (reply = NoReply /\ answer = NoAnswer)
    /\ Finished /\ ~Building => reply = NoReply /\ answer.spec = NoSpec
    /\ Finished /\ Building => FromHeuristic \/ FromProvider
    /\ stored # {} => stage \in {"answered", "raised"} /\ ask.persist /\ stored = {answer.spec}

LEMMA MadeInit == Init => Made
  BY DEF Init, Made, Stages, Finished

LEMMA MadeNext == Made /\ [Next]_copilotVars => Made'
<1> SUFFICES ASSUME Made, [Next]_copilotVars PROVE Made'
  OBVIOUS
<1>1. CASE Call \/ CallFails \/ CallRaises
  BY <1>1 DEF Call, CallFails, CallRaises, MoveOn, Break, Made, Stages, Finished
<1>2. CASE CallBuilds
  <2>1. PICK v \in Verdicts :
          \/ v.what = "odd" /\ Break
          \/ v.what = "usable" /\ Return(Head(left), v.spec, v.raw)
          \/ v.what = "unusable" /\ MoveOn
    BY <1>2 DEF CallBuilds
  <2>2. stage = "calling" /\ Building /\ stored = {}
    BY <1>2 DEF CallBuilds, Made
  <2>3. CASE v.what = "odd" /\ Break
    BY <2>2, <2>3 DEF Break, Made, Stages, Finished
  <2>4. CASE v.what = "unusable" /\ MoveOn
    BY <2>2, <2>4 DEF MoveOn, Made, Stages, Finished
  <2>5. CASE v.what = "usable" /\ Return(Head(left), v.spec, v.raw)
    <3>1. /\ stage' = "returning" /\ stored' = {} /\ Building'
          /\ reply' = v.raw /\ answer'.spec = v.spec
      BY <2>2, <2>5 DEF Return, Building
    <3>2. FromProvider'
      BY <2>5, <3>1 DEF FromProvider, Verdicts, Verdict
    <3> QED BY <3>1, <3>2 DEF Made, Stages, Finished
  <2> QED BY <2>1, <2>3, <2>4, <2>5
<1>3. CASE CallReplies
  BY <1>3 DEF CallReplies, Return, Made, Stages, Finished, Building
<1>4. CASE FallBack
  <2>1. stored = {} /\ stage' = "returning" /\ stored' = {} /\ UNCHANGED ask
    BY <1>4 DEF FallBack, Return, Made
  <2>2. CASE Building
    <3>1. PICK words \in SUBSET Words : Return("heuristic", HeuristicSpec(words), NoReply)
      BY <1>4, <2>2 DEF FallBack
    <3>2. FromHeuristic'
      BY <3>1 DEF FromHeuristic, Return
    <3> QED BY <2>1, <2>2, <3>2 DEF Made, Stages, Finished, Building
  <2>3. CASE ~Building
    BY <1>4, <2>1, <2>3 DEF FallBack, Return, Made, Stages, Finished, Building
  <2> QED BY <2>2, <2>3
<1>5. CASE Respond \/ StoreFails
  <2>1. /\ stage = "returning" /\ stage' \in {"answered", "raised"} /\ stored = {}
        /\ UNCHANGED <<ask, reply, answer>>
        /\ stored' # {} => ask.persist /\ stored' = {answer.spec}
    BY <1>5 DEF Respond, StoreFails, Made
  <2>2. (FromHeuristic \/ FromProvider) => (FromHeuristic \/ FromProvider)'
    BY <2>1 DEF FromHeuristic, FromProvider
  <2> QED BY <2>1, <2>2 DEF Made, Stages, Finished, Building
<1>6. CASE UNCHANGED copilotVars
  BY <1>6 DEF copilotVars, Made, Finished, Building, FromHeuristic, FromProvider
<1> QED BY <1>1, <1>2, <1>3, <1>4, <1>5, <1>6 DEF Next

\* "The copilot produces a valid workflow even with no LLM configured": for any
\* answers and any bound on their length, what a request to build a workflow is
\* answered with is valid, can be levelled, has its one trigger in front, and is
\* what is stored.
THEOREM AnswerIsAlwaysUsable == Spec => []AnswerIsUsable
<1>1. Made => AnswerIsUsable
  <2> SUFFICES ASSUME Made, stage = "answered", Building
               PROVE  /\ Fit(answer.spec)
                      /\ stored # {} => ask.persist /\ stored = {answer.spec}
    BY DEF AnswerIsUsable, Fit, TriggersIn
  <2>1. FromHeuristic \/ FromProvider
    BY DEF Made, Finished
  <2>2. Fit(answer.spec)
    BY <2>1, HeuristicIsFit, UsableIsFit DEF FromHeuristic, FromProvider
  <2> QED BY <2>2 DEF Made
<1> QED BY <1>1, MadeInit, MadeNext, PTL DEF Spec

\* A provider's answer that is a good workflow already comes back with all its
\* nodes and exactly its edges, wherever its trigger stood and however it is put.
THEOREM GoodAnswerIsAlwaysKept == Spec => []KeepsGoodAnswer
<1>1. Made => KeepsGoodAnswer
  <2> SUFFICES ASSUME Made, GoodAnswer(reply)
               PROVE  /\ Ids(answer.spec.nodes)
                           = {reply.nodes[i].id.name : i \in DOMAIN reply.nodes}
                      /\ answer.spec.edges = EdgesOf(reply)
    BY DEF KeepsGoodAnswer, EdgesOf
  <2>1. reply # NoReply
    <3>1. reply.json = "object" /\ NoReply.json = "nothing"
      BY DEF GoodAnswer, NoReply
    <3> QED BY <3>1
  <2>2. FromProvider
    BY <2>1 DEF Made, FromHeuristic
  <2> QED BY <2>2, GoodAnswerIsKept DEF FromProvider
<1> QED BY <1>1, MadeInit, MadeNext, PTL DEF Spec

-----------------------------------------------------------------------------
(* Types.                                                                   *)

\* The providers left are the configured ones from some point on.
LeftIsEnd ==
    \E n \in 0 .. 2 : left = SubSeq(Order, n + 1, Len(Order))

\* What a specification's trigger may be.
LEMMA TriggerTypes ==
  /\ \A node : TriggerFor(node) \in {"manual", "webhook", "schedule"}
  /\ NoSpec.trigger = "none"
  BY DEF TriggerFor, NoSpec

LEMMA LeftNext ==
  ASSUME Progress, LeftIsEnd, [Next]_copilotVars
  PROVE  LeftIsEnd'
<1>1. Order' = Order
  BY DEF Next, copilotVars, Call, CallFails, CallRaises, CallBuilds, CallReplies, FallBack,
         Respond, StoreFails, MoveOn, Break, Return, Order, ProviderOrder
<1>2. CASE UNCHANGED left
  BY <1>1, <1>2 DEF LeftIsEnd
<1>3. CASE stage = "calling" /\ left' = Tail(left)
  <2>1. PICK n \in 0 .. 2 : left = SubSeq(Order, n + 1, Len(Order))
    BY DEF LeftIsEnd
  <2>2. left # << >>
    BY <1>3 DEF Progress, Calling
  <2>3. Order \in Seq(Providers) /\ Len(Order) \in Nat /\ Len(Order) <= 2
    BY OrderType DEF Order, ProviderOrder
  <2>4. \A i \in 1 .. Len(Order) : Order[i] \in Providers
    BY <2>3
  <2> HIDE DEF Order
  <2>5. ASSUME NEW m \in 0 .. 2
        PROVE  /\ SubSeq(Order, m + 1, Len(Order)) \in Seq(Providers)
               /\ Len(SubSeq(Order, m + 1, Len(Order))) = IF m < Len(Order) THEN Len(Order) - m ELSE 0
               /\ \A i \in 1 .. Len(Order) - m : SubSeq(Order, m + 1, Len(Order))[i] = Order[m + i]
    <3>1. m + 1 \in Int /\ Len(Order) \in Int /\ \A i \in (m + 1) .. Len(Order) : Order[i] \in Providers
      BY <2>3, <2>4
    <3> DEFINE sub == SubSeq(Order, m + 1, Len(Order))
    <3>2. /\ sub \in Seq(Providers)
          /\ Len(sub) = IF m + 1 <= Len(Order) THEN Len(Order) - (m + 1) + 1 ELSE 0
          /\ \A i \in 1 .. Len(Order) - (m + 1) + 1 : sub[i] = Order[(m + 1) + i - 1]
      BY <3>1, SubSeqProperties
    <3> HIDE DEF sub
    <3>3. \A i \in 1 .. Len(Order) - m : sub[i] = Order[m + i]
      BY <2>3, <3>2
    <3>4. Len(sub) = IF m < Len(Order) THEN Len(Order) - m ELSE 0
      BY <2>3, <3>2
    <3> QED BY <3>2, <3>3, <3>4 DEF sub
  <2>6. n < Len(Order) /\ n + 1 \in 0 .. 2
    <3>1. Len(left) # 0
      BY <2>1, <2>2, <2>5
    <3> QED BY <2>1, <2>3, <2>5, <3>1
  <2> DEFINE rest == SubSeq(Order, (n + 1) + 1, Len(Order))
  <2>7. /\ left \in Seq(Providers) /\ Len(left) = Len(Order) - n
        /\ \A i \in 1 .. Len(Order) - n : left[i] = Order[n + i]
    BY <2>1, <2>5, <2>6
  <2>8. /\ rest \in Seq(Providers) /\ Len(rest) = Len(Order) - (n + 1)
        /\ \A i \in 1 .. Len(Order) - (n + 1) : rest[i] = Order[(n + 1) + i]
    BY <2>3, <2>5, <2>6
  <2>9. /\ Tail(left) \in Seq(Providers) /\ Len(Tail(left)) = Len(left) - 1
        /\ \A i \in 1 .. Len(left) - 1 : Tail(left)[i] = left[i + 1]
    BY <2>2, <2>7
  <2> HIDE DEF rest
  <2>10. Tail(left) = rest
    BY <2>3, <2>6, <2>7, <2>8, <2>9
  <2> QED BY <1>1, <1>3, <2>6, <2>10 DEF LeftIsEnd, rest
<1> QED
  BY <1>2, <1>3 DEF Next, copilotVars, Call, CallFails, CallRaises, CallBuilds, CallReplies,
         FallBack, Respond, StoreFails, MoveOn, Break, Return

\* Every variable keeps its type, and a request stores at most one workflow.
THEOREM CopilotTypeCorrect == Spec => []TypeOK
<1> DEFINE Typed == Progress /\ Made /\ LeftIsEnd /\ setting \in Settings /\ ask \in Asks
<1>1. Init => Typed
  <2> SUFFICES ASSUME Init PROVE Typed
    OBVIOUS
  <2>1. LeftIsEnd
    <3>1. left = Order /\ Order \in Seq(Providers)
      BY OrderType DEF Init, Order
    <3>2. SubSeq(Order, 1, Len(Order)) = Order
      BY <3>1
    <3>3. left = SubSeq(Order, 0 + 1, Len(Order))
      BY <3>1, <3>2
    <3> QED BY <3>3 DEF LeftIsEnd
  <2> QED BY <2>1, ProgressInit, MadeInit DEF Init
<1>2. Typed /\ [Next]_copilotVars => Typed'
  <2> SUFFICES ASSUME Typed, [Next]_copilotVars PROVE Typed'
    OBVIOUS
  <2>1. UNCHANGED <<setting, ask>>
    BY DEF Next, copilotVars, Call, CallFails, CallRaises, CallBuilds, CallReplies,
           FallBack, Respond, StoreFails, MoveOn, Break, Return
  <2> QED BY <2>1, ProgressNext, MadeNext, LeftNext
<1>3. Typed => TypeOK
  <2> SUFFICES ASSUME Typed PROVE TypeOK
    OBVIOUS
  <2>1. \A k \in DOMAIN asked :
          asked[k] \in [source : Sources, what : {"failed", "odd", "unusable", "usable"}]
    <3> DEFINE Entry == [source : Providers, what : Whats]
    <3>1. asked \in Seq(Entry)
      BY DEF Progress, Beginning
    <3>2. \A entry \in Entry :
            entry \in [source : Sources, what : {"failed", "odd", "unusable", "usable"}]
      BY DEF Providers, Whats, Sources
    <3> HIDE DEF Entry
    <3>3. \A k \in DOMAIN asked : asked[k] \in Entry
      BY <3>1
    <3> QED BY <3>2, <3>3
  <2>2. answer.source \in Sources
    BY DEF Progress, Stages, Asking, Failing, Answering, Providers, Sources
  <2>3. answer.spec.trigger \in {"none", "manual", "webhook", "schedule"}
    <3>1. CASE ~Finished \/ ~Building
      BY <3>1, TriggerTypes DEF Made, NoAnswer
    <3>2. CASE Finished /\ Building
      <4>1. Fit(answer.spec)
        BY <3>2, HeuristicIsFit, UsableIsFit DEF Made, FromHeuristic, FromProvider
      <4> QED BY <4>1, TriggerTypes DEF Fit
    <3> QED BY <3>1, <3>2
  <2>4. Cardinality(stored) <= 1
    <3>1. stored = {} \/ \E spec : stored = {spec}
      BY DEF Made
    <3>2. Cardinality({}) = 0 /\ \A spec : Cardinality({spec}) = 1
      BY FS_EmptySet, FS_Singleton
    <3> QED BY <3>1, <3>2
  <2> QED BY <2>1, <2>2, <2>3, <2>4 DEF TypeOK, Made, Stages, LeftIsEnd, Order
<1> QED BY <1>1, <1>2, <1>3, PTL DEF Spec
=============================================================================
