-------------------------- MODULE WorkflowEditsProofs --------------------------
(* What the graph algorithms answer of any workflow that edits can store:     *)
(* the properties of WorkflowEdits, for every node list, every end a client   *)
(* may write and every number of edges.                                        *)
EXTENDS WorkflowEdits, WorkflowGraphProofs, SequenceTheorems

-----------------------------------------------------------------------------
(* The search: a round for each edge and one more empty the stack.          *)

LEMMA EndsFrom ==
  ASSUME NEW nds, NEW egs, NEW id \in Ids(nds)
  PROVE  /\ EndsAfter(nds, egs, {id})[0] = {id}
         /\ \A n \in Nat :
              /\ EndsAfter(nds, egs, {id})[n] \subseteq Ids(nds)
              /\ EndsAfter(nds, egs, {id})[n + 1] =
                   {i \in Ids(nds) : \E k \in Between(nds, egs) :
                      egs[k].source \in EndsAfter(nds, egs, {id})[n] /\ egs[k].target = i}
<1> DEFINE start == {id}
<1>1. start \in SUBSET Ids(nds)
  OBVIOUS
<1> HIDE DEF start
<1>2. /\ EndsAfter(nds, egs, start)[0] = start
      /\ \A n \in Nat :
           /\ EndsAfter(nds, egs, start)[n] \subseteq Ids(nds)
           /\ EndsAfter(nds, egs, start)[n + 1] =
                {i \in Ids(nds) : \E k \in Between(nds, egs) :
                   egs[k].source \in EndsAfter(nds, egs, start)[n] /\ egs[k].target = i}
  BY <1>1, EndsAre
<1> QED BY <1>2 DEF start

\* Whoever a walk of any length reaches, a walk through no node twice reaches.
LEMMA ShortWalks ==
  ASSUME NEW nds, NEW egs, Lists(nds, egs), NEW id \in Ids(nds), NEW n \in Nat,
         NEW i \in EndsAfter(nds, egs, {id})[n]
  PROVE  i \in ReachableFrom(nds, egs, id)
<1> DEFINE E == EndsAfter(nds, egs, {id})
           N == Cardinality(Ids(nds))
           First(j, m) == j \in E[m] /\ \A k \in Nat : j \in E[k] => m <= k
<1>1. N \in Nat /\ IsFiniteSet(Ids(nds))
  BY IdsFinite
<1>2. \A m \in Nat : /\ E[m] \subseteq Ids(nds)
                     /\ E[m + 1] = {j \in Ids(nds) : \E k \in Between(nds, egs) :
                                      egs[k].source \in E[m] /\ egs[k].target = j}
  BY EndsFrom
<1> HIDE DEF E, N
<1>3. PICK d \in Nat : First(i, d)
  <2> DEFINE T == {m \in Nat : i \in E[m]}
  <2>1. T \in SUBSET Nat /\ T # {}
    BY DEF E
  <2>2. PICK d \in T : \A k \in T : d <= k
    <3> HIDE DEF T
    <3> QED BY <2>1, LeastNatural
  <2> QED BY <2>2
<1>4. \A m \in 0 .. d : \E j \in Ids(nds) : First(j, m)
  <2> DEFINE T == {m \in Nat : m <= d => \E j \in Ids(nds) : First(j, d - m)}
  <2>1. 0 \in T /\ T \in SUBSET Nat
    <3>1. i \in Ids(nds) /\ d - 0 = d
      BY <1>2, <1>3
    <3> QED BY <1>3, <3>1
  <2>2. ASSUME NEW m \in T PROVE m + 1 \in T
    <3> SUFFICES ASSUME m + 1 <= d PROVE \E j \in Ids(nds) : First(j, d - (m + 1))
      OBVIOUS
    <3> DEFINE p == d - (m + 1)
    <3>1. m \in Nat /\ m <= d /\ p \in Nat /\ p + 1 = d - m
      OBVIOUS
    <3> HIDE DEF p
    <3>2. PICK j \in Ids(nds) : First(j, p + 1)
      BY <3>1
    <3>3. PICK k \in Between(nds, egs) : egs[k].source \in E[p] /\ egs[k].target = j
      BY <1>2, <3>1, <3>2
    <3>4. \A q \in Nat : egs[k].source \in E[q] => p <= q
      <4> TAKE q \in Nat
      <4> HAVE egs[k].source \in E[q]
      <4>1. j \in E[q + 1]
        BY <1>2, <3>3
      <4>2. p + 1 <= q + 1
        BY <3>2, <4>1
      <4> QED BY <3>1, <4>2
    <3>5. egs[k].source \in Ids(nds) /\ First(egs[k].source, p)
      BY <1>2, <3>1, <3>3, <3>4
    <3> QED BY <3>5 DEF p
  <2>3. T = Nat
    <3> HIDE DEF T
    <3> QED BY <2>1, <2>2, SetInduction
  <2> TAKE m \in 0 .. d
  <2>4. d - m \in Nat /\ d - m <= d /\ d - (d - m) = m
    OBVIOUS
  <2>5. \E j \in Ids(nds) : First(j, d - (d - m))
    <3> HIDE DEF First
    <3> QED BY <2>3, <2>4
  <2> QED BY <2>4, <2>5
<1> DEFINE node == [m \in 0 .. d |-> CHOOSE j \in Ids(nds) : First(j, m)]
<1>5. \A m \in 0 .. d : node[m] \in Ids(nds) /\ First(node[m], m)
  <2> HIDE DEF First
  <2> QED BY <1>4
<1>6. node \in Injection(0 .. d, Ids(nds))
  <2>1. \A l, m \in 0 .. d : node[l] = node[m] => l = m
    <3> TAKE l, m \in 0 .. d
    <3> HAVE node[l] = node[m]
    <3>1. First(node[m], l) /\ First(node[m], m) /\ l \in Nat /\ m \in Nat
      BY <1>5
    <3>2. l <= m /\ m <= l
      BY <3>1
    <3> QED BY <3>1, <3>2
  <2>2. node \in [0 .. d -> Ids(nds)]
    BY <1>5
  <2> HIDE DEF node
  <2> QED BY <2>1, <2>2 DEF Injection, IsInjective
<1>7. d + 1 <= N
  <2>1. IsFiniteSet(0 .. d) /\ Cardinality(0 .. d) = d + 1
    <3>1. /\ IsFiniteSet(0 .. d)
          /\ Cardinality(0 .. d) = IF 0 > d THEN 0 ELSE d - 0 + 1
      BY FS_Interval
    <3> QED BY <3>1
  <2>2. Cardinality(0 .. d) <= N
    <3> HIDE DEF node
    <3> QED BY <1>1, <1>6, FS_Injection DEF N
  <2> QED BY <2>1, <2>2
<1>8. d \in 0 .. N /\ i \in WalkEnds(nds, egs, {id})[d]
  <2>1. d \in 0 .. N /\ i \in E[d]
    BY <1>1, <1>3, <1>7
  <2> QED BY <2>1, WalkEndsAre DEF E, N
<1>9. DOMAIN WalkEnds(nds, egs, {id}) = 0 .. N
  BY DEF WalkEnds, N
<1> QED BY <1>8, <1>9 DEF ReachableFrom

LEMMA ReachIsClosed ==
  ASSUME NEW nds, NEW egs, Lists(nds, egs), NEW id \in Ids(nds)
  PROVE  /\ id \in ReachableFrom(nds, egs, id)
         /\ \A k \in Between(nds, egs) :
              egs[k].source \in ReachableFrom(nds, egs, id) =>
                egs[k].target \in ReachableFrom(nds, egs, id)
         /\ \A S : /\ id \in S
                   /\ \A k \in Between(nds, egs) : egs[k].source \in S => egs[k].target \in S
                   => ReachableFrom(nds, egs, id) \subseteq S
<1> DEFINE E == EndsAfter(nds, egs, {id})
           N == Cardinality(Ids(nds))
           reach == ReachableFrom(nds, egs, id)
<1>0. \A m \in Nat : /\ E[m] \subseteq Ids(nds)
                     /\ E[m + 1] = {j \in Ids(nds) : \E k \in Between(nds, egs) :
                                      egs[k].source \in E[m] /\ egs[k].target = j}
  BY EndsFrom
<1>1. E[0] = {id}
  BY EndsFrom
<1>2. N \in Nat
  BY IdsFinite
<1>3. \A j : j \in reach <=> \E n \in 0 .. N : j \in E[n]
  <2>1. DOMAIN WalkEnds(nds, egs, {id}) = 0 .. N
    BY DEF WalkEnds
  <2>2. \A n \in 0 .. N : WalkEnds(nds, egs, {id})[n] = E[n]
    BY WalkEndsAre
  <2> QED BY <2>1, <2>2 DEF ReachableFrom
<1>4. \A n \in Nat : \A j \in E[n] : j \in reach
  BY ShortWalks
<1> HIDE DEF E, N, reach
<1>5. id \in reach
  BY <1>1, <1>4
<1>6. ASSUME NEW k \in Between(nds, egs), egs[k].source \in reach PROVE egs[k].target \in reach
  <2>1. PICK n \in 0 .. N : egs[k].source \in E[n]
    BY <1>3, <1>6
  <2>2. n \in Nat /\ n + 1 \in Nat /\ egs[k].target \in Ids(nds)
    BY <1>2 DEF Between
  <2>3. egs[k].target \in E[n + 1]
    BY <1>0, <2>1, <2>2
  <2> QED BY <1>4, <2>2, <2>3
<1>7. ASSUME NEW S, id \in S,
             \A k \in Between(nds, egs) : egs[k].source \in S => egs[k].target \in S
      PROVE  reach \subseteq S
  <2> DEFINE T == {m \in Nat : E[m] \subseteq S}
  <2>1. 0 \in T /\ T \in SUBSET Nat /\ \A m \in T : m + 1 \in T
    BY <1>0, <1>1, <1>7 DEF Between
  <2>2. T = Nat
    <3> HIDE DEF T
    <3> QED BY <2>1, SetInduction
  <2> QED BY <1>2, <1>3, <2>2
<1> QED BY <1>5, <1>6, <1>7 DEF reach

LEMMA PopIs ==
  ASSUME NEW S, NEW list \in Seq(S), list # << >>
  PROVE  /\ SX!Last(list) \in S /\ SX!Front(list) \in Seq(S)
         /\ Len(SX!Front(list)) = Len(list) - 1 /\ Len(list) \in Nat /\ Len(list) # 0
         /\ Members(list) = Members(SX!Front(list)) \cup {SX!Last(list)}
<1> DEFINE a == Len(list)
           front == SX!Front(list)
<1>0. a \in Nat /\ a # 0 /\ SX!Last(list) = list[a] /\ front = SubSeq(list, 1, a - 1)
      /\ \A n \in 1 .. a : list[n] \in S
  BY DEF SX!Front, SX!Last
<1>1. /\ front \in Seq(S) /\ Len(front) = a - 1 /\ \A n \in 1 .. a - 1 : front[n] = list[n]
      /\ a \in Nat /\ a # 0 /\ SX!Last(list) = list[a] /\ \A n \in 1 .. a : list[n] \in S
  <2>1. /\ SubSeq(list, 1, a - 1) \in Seq(S) /\ Len(SubSeq(list, 1, a - 1)) = a - 1
        /\ \A n \in 1 .. a - 1 : SubSeq(list, 1, a - 1)[n] = list[n]
    <3> DEFINE b == a - 1
               sub == SubSeq(list, 1, b)
    <3>1. b \in Nat /\ 1 \in Int /\ b \in Int /\ \A i \in 1 .. b : list[i] \in S
      BY <1>0
    <3> HIDE DEF a, b
    <3>2. /\ sub \in Seq(S) /\ Len(sub) = IF 1 <= b THEN b - 1 + 1 ELSE 0
          /\ \A i \in 1 .. b - 1 + 1 : sub[i] = list[1 + i - 1]
      BY <3>1, SubSeqProperties
    <3> HIDE DEF sub
    <3>3. /\ sub \in Seq(S) /\ Len(sub) = b /\ \A i \in 1 .. b : sub[i] = list[i]
      BY <3>1, <3>2
    <3> QED BY <3>3 DEF sub, b
  <2> HIDE DEF front
  <2> QED BY <1>0, <2>1
<1> HIDE DEF a, front
<1>2. \A n \in 1 .. a : n = a \/ n \in 1 .. a - 1
  BY <1>1
<1>3. Members(list) = {list[n] : n \in 1 .. a} /\ Members(front) = {front[n] : n \in 1 .. a - 1}
  BY <1>1 DEF Members, a
<1>4. \A x \in Members(list) : x \in Members(front) \cup {SX!Last(list)}
  BY <1>1, <1>2, <1>3
<1>5. \A x \in Members(front) \cup {SX!Last(list)} : x \in Members(list)
  <2>1. a \in 1 .. a /\ \A n \in 1 .. a - 1 : n \in 1 .. a
    BY <1>1
  <2> QED BY <1>1, <1>3, <2>1
<1>6. Members(list) = Members(front) \cup {SX!Last(list)}
  BY <1>4, <1>5
<1> QED BY <1>1, <1>6 DEF a, front

\* The edges a search has followed once it has seen the ids of a set.
Followed(nds, egs, seen) == {k \in Between(nds, egs) : egs[k].source \in seen}

LEMMA FollowedFinite ==
  ASSUME NEW nds, NEW egs, Lists(nds, egs), NEW seen
  PROVE  /\ IsFiniteSet(Followed(nds, egs, seen))
         /\ Followed(nds, egs, seen) \in SUBSET (1 .. Len(egs))
         /\ Cardinality(Followed(nds, egs, seen)) \in Nat
         /\ Cardinality(Followed(nds, egs, seen)) <= Len(egs)
<1>1. Followed(nds, egs, seen) \in SUBSET (1 .. Len(egs))
  BY ListsAre DEF Followed, Between
<1>2. IsFiniteSet(1 .. Len(egs)) /\ Cardinality(1 .. Len(egs)) = Len(egs)
  BY ListsAre, UpTo
<1>3. /\ IsFiniteSet(Followed(nds, egs, seen))
      /\ Cardinality(Followed(nds, egs, seen)) <= Len(egs)
  BY <1>1, <1>2, FS_Subset
<1> QED BY <1>1, <1>3, FS_CardinalityType

LEMMA PushedFromIs ==
  ASSUME NEW nds, NEW egs, Lists(nds, egs), NEW id
  PROVE  /\ PushedFrom(nds, egs, id) \in Seq(Ids(nds))
         /\ Len(PushedFrom(nds, egs, id)) = Cardinality(Followed(nds, egs, {id}))
         /\ Members(PushedFrom(nds, egs, id)) = {egs[k].target : k \in Followed(nds, egs, {id})}
<1> DEFINE K == {k \in DOMAIN egs : /\ egs[k].source = id
                                    /\ {egs[k].source, egs[k].target} \subseteq Ids(nds)}
           N == Len(egs)
<1>1. K = Followed(nds, egs, {id})
  BY DEF Followed, Between
<1>2. N \in Nat /\ K \in SUBSET (1 .. N)
  BY <1>1, ListsAre, FollowedFinite
<1>3. \A k \in K : egs[k].target \in Ids(nds)
  OBVIOUS
<1>4. PushedFrom(nds, egs, id) = Targets(egs, K)
  BY DEF PushedFrom
<1> HIDE DEF K, N
<1>5. /\ Targets(egs, K) \in Seq(Ids(nds)) /\ Len(Targets(egs, K)) = Cardinality(K)
      /\ {Targets(egs, K)[i] : i \in 1 .. Len(Targets(egs, K))} = {egs[k].target : k \in K}
  BY <1>2, <1>3, TargetsAre
<1> QED BY <1>1, <1>4, <1>5 DEF Members

SearchState(nds) == [stack : Seq(Ids(nds)), seen : SUBSET Ids(nds)]

LEMMA SearchBodyType ==
  ASSUME NEW nds, NEW egs, Lists(nds, egs)
  PROVE  SearchBody(nds, egs) \in [SearchState(nds) -> SearchState(nds)]
<1> SUFFICES ASSUME NEW s \in SearchState(nds), s.stack # << >>
             PROVE  SearchBody(nds, egs)[s] \in SearchState(nds)
  BY DEF SearchBody, SearchState
<1> DEFINE id == SX!Last(s.stack)
           front == SX!Front(s.stack)
           more == PushedFrom(nds, egs, id)
<1>1. s.stack \in Seq(Ids(nds)) /\ s.seen \in SUBSET Ids(nds)
  BY DEF SearchState
<1>2. id \in Ids(nds) /\ front \in Seq(Ids(nds)) /\ more \in Seq(Ids(nds))
  BY <1>1, PopIs, PushedFromIs
<1>3. SearchBody(nds, egs)[s] = IF id \in s.seen THEN [s EXCEPT !.stack = front]
                                ELSE [stack |-> front \o more, seen |-> s.seen \cup {id}]
  BY DEF SearchBody, SearchState
<1> HIDE DEF id, front, more
<1>4. front \o more \in Seq(Ids(nds))
  BY <1>2
<1>5. [s EXCEPT !.stack = front] = [stack |-> front, seen |-> s.seen]
  BY DEF SearchState
<1>6. /\ [stack |-> front, seen |-> s.seen] \in SearchState(nds)
      /\ [stack |-> front \o more, seen |-> s.seen \cup {id}] \in SearchState(nds)
  BY <1>1, <1>2, <1>4 DEF SearchState
<1> QED BY <1>3, <1>5, <1>6

\* The search's states after n rounds: what it has seen and has yet to look at
\* is reachable, holds the start, and misses no target of an edge followed.
Searching(nds, egs, id, s, n) ==
    /\ s \in SearchState(nds)
    /\ id \in s.seen \cup Members(s.stack)
    /\ s.seen \cup Members(s.stack) \subseteq ReachableFrom(nds, egs, id)
    /\ \A k \in Followed(nds, egs, s.seen) : egs[k].target \in s.seen \cup Members(s.stack)
    /\ \/ s.stack = << >>
       \/ n + Len(s.stack) = 1 + Cardinality(Followed(nds, egs, s.seen))

LEMMA SearchStartIs ==
  ASSUME NEW nds, NEW egs, Lists(nds, egs), NEW id \in Ids(nds)
  PROVE  Searching(nds, egs, id, [stack |-> <<id>>, seen |-> {}], 0)
<1> DEFINE s == [stack |-> <<id>>, seen |-> {}]
<1>1. /\ s.stack = <<id>> /\ s.seen = {} /\ s \in SearchState(nds)
      /\ <<id>> \in Seq(Ids(nds)) /\ Len(<<id>>) = 1 /\ <<id>>[1] = id
  BY DEF SearchState
<1>2. Members(<<id>>) = {id}
  <2>1. 1 .. 1 = {1}
    OBVIOUS
  <2> QED BY <1>1, <2>1 DEF Members
<1>3. Followed(nds, egs, {}) = {}
  BY DEF Followed
<1>4. Cardinality({}) = 0
  BY FS_EmptySet
<1>5. id \in ReachableFrom(nds, egs, id)
  BY ReachIsClosed
<1> HIDE DEF s
<1>6. Searching(nds, egs, id, s, 0)
  BY <1>1, <1>2, <1>3, <1>4, <1>5 DEF Searching
<1> QED BY <1>6 DEF s

LEMMA SearchBodyIs ==
  ASSUME NEW nds, NEW egs, Lists(nds, egs), NEW id \in Ids(nds), NEW n \in Nat, NEW s,
         Searching(nds, egs, id, s, n)
  PROVE  Searching(nds, egs, id, SearchBody(nds, egs)[s], n + 1)
<1> DEFINE t == SearchBody(nds, egs)[s]
           at == SX!Last(s.stack)
           front == SX!Front(s.stack)
           more == PushedFrom(nds, egs, at)
           reach == ReachableFrom(nds, egs, id)
           Done_(S) == Followed(nds, egs, S)
<1>1. /\ s.stack \in Seq(Ids(nds)) /\ s.seen \in SUBSET Ids(nds) /\ s \in SearchState(nds)
      /\ id \in s.seen \cup Members(s.stack) /\ s.seen \cup Members(s.stack) \subseteq reach
      /\ \A k \in Done_(s.seen) : egs[k].target \in s.seen \cup Members(s.stack)
      /\ s.stack = << >> \/ n + Len(s.stack) = 1 + Cardinality(Done_(s.seen))
  BY DEF Searching, SearchState
<1>2. t \in SearchState(nds)
  BY <1>1, SearchBodyType
<1>3. CASE s.stack = << >>
  <2>1. t = s
    BY <1>1, <1>3 DEF SearchBody, SearchState
  <2> HIDE DEF t
  <2> QED BY <1>1, <1>3, <2>1 DEF Searching, t
<1>4. CASE s.stack # << >>
  <2>1. /\ at \in Ids(nds) /\ front \in Seq(Ids(nds))
        /\ Len(front) = Len(s.stack) - 1 /\ Len(s.stack) \in Nat
        /\ Members(s.stack) = Members(front) \cup {at}
    BY <1>1, <1>4, PopIs
  <2>2. /\ more \in Seq(Ids(nds)) /\ Len(more) = Cardinality(Done_({at}))
        /\ Members(more) = {egs[k].target : k \in Done_({at})}
    BY PushedFromIs
  <2>3. t = IF at \in s.seen THEN [s EXCEPT !.stack = front]
            ELSE [stack |-> front \o more, seen |-> s.seen \cup {at}]
    BY <1>1, <1>4 DEF SearchBody, SearchState
  <2> HIDE DEF t, at, front, more
  <2>4. CASE at \in s.seen
    <3>1. t.stack = front /\ t.seen = s.seen
      BY <1>1, <2>3, <2>4 DEF SearchState
    <3>2. t.seen \cup Members(t.stack) = s.seen \cup Members(s.stack)
      BY <2>1, <2>4, <3>1
    <3>3. (n + 1) + Len(t.stack) = 1 + Cardinality(Done_(t.seen))
      BY <1>1, <1>4, <2>1, <3>1
    <3>4. \A k \in Done_(t.seen) : egs[k].target \in t.seen \cup Members(t.stack)
      BY <1>1, <3>1, <3>2
    <3>5. id \in t.seen \cup Members(t.stack) /\ t.seen \cup Members(t.stack) \subseteq reach
      BY <1>1, <3>2
    <3>6. Searching(nds, egs, id, t, n + 1)
      BY <1>2, <3>3, <3>4, <3>5 DEF Searching
    <3> QED BY <3>6 DEF t
  <2>5. CASE at \notin s.seen
    <3>1. t.stack = front \o more /\ t.seen = s.seen \cup {at}
      BY <2>3, <2>5
    <3>2. /\ Len(t.stack) = Len(front) + Len(more)
          /\ Members(t.stack) = Members(front) \cup Members(more)
      <4>0. front \in Seq(Ids(nds)) /\ more \in Seq(Ids(nds))
        BY <2>1, <2>2
      <4>1. /\ Len(front \o more) = Len(front) + Len(more)
            /\ Members(front \o more) = Members(front) \cup Members(more)
        BY <4>0, PushIs, Zenon
      <4> QED BY <3>1, <4>1
    <3>3. t.seen \cup Members(t.stack) = s.seen \cup Members(s.stack) \cup Members(more)
      BY <2>1, <3>1, <3>2
    <3>4. Done_(t.seen) = Done_(s.seen) \cup Done_({at}) /\ Done_(s.seen) \cap Done_({at}) = {}
      BY <2>5, <3>1 DEF Followed
    <3>5. /\ IsFiniteSet(Done_(s.seen)) /\ IsFiniteSet(Done_({at}))
          /\ Cardinality(Done_(s.seen)) \in Nat /\ Cardinality(Done_({at})) \in Nat
      BY FollowedFinite
    <3>6. \A k \in Done_({at}) : egs[k].source = at /\ k \in Between(nds, egs)
      BY DEF Followed
    <3> HIDE DEF Done_, reach
    <3>7. Cardinality(Done_(t.seen)) = Cardinality(Done_(s.seen)) + Cardinality(Done_({at}))
      BY <3>4, <3>5, DisjointUnion
    <3>8. (n + 1) + Len(t.stack) = 1 + Cardinality(Done_(t.seen))
      <4> DEFINE a == Len(s.stack)
                 c == Cardinality(Done_(s.seen))
                 d == Cardinality(Done_({at}))
      <4>1. Len(t.stack) = (a - 1) + d /\ Cardinality(Done_(t.seen)) = c + d
        BY <2>1, <2>2, <3>2, <3>7
      <4>2. n + a = 1 + c /\ a \in Nat /\ c \in Nat /\ d \in Nat
        BY <1>1, <1>4, <2>1, <3>5
      <4> HIDE DEF a, c, d
      <4>3. (n + 1) + ((a - 1) + d) = 1 + (c + d)
        BY <4>2
      <4> QED BY <4>1, <4>3
    <3>9. \A k \in Done_(t.seen) : egs[k].target \in t.seen \cup Members(t.stack)
      BY <1>1, <2>2, <3>3, <3>4
    <3>10. Members(more) \subseteq reach
      <4>1. at \in reach
        BY <1>1, <2>1
      <4>2. \A k \in Between(nds, egs) : egs[k].source \in reach => egs[k].target \in reach
        BY ReachIsClosed DEF reach
      <4> QED BY <2>2, <3>6, <4>1, <4>2
    <3>11. t.seen \cup Members(t.stack) \subseteq reach /\ id \in t.seen \cup Members(t.stack)
      BY <1>1, <3>3, <3>10
    <3>12. Searching(nds, egs, id, t, n + 1)
      BY <1>2, <3>8, <3>9, <3>11 DEF Searching, Done_, reach
    <3> QED BY <3>12 DEF t
  <2> QED BY <2>4, <2>5
<1> QED BY <1>3, <1>4

\* So the search ends, and has seen exactly who is reachable.
LEMMA SearchStepsAre ==
  ASSUME NEW nds, NEW egs, Lists(nds, egs), NEW id \in Ids(nds)
  PROVE  SearchSteps(nds, egs, id) = ReachableFrom(nds, egs, id)
<1> DEFINE start == [stack |-> <<id>>, seen |-> {}]
           R == Rounds(start, SearchBody(nds, egs))
           N == 1 + Len(egs)
           T == {n \in Nat : Searching(nds, egs, id, R[n], n)}
           reach == ReachableFrom(nds, egs, id)
<1>1. Searching(nds, egs, id, start, 0)
  BY SearchStartIs
<1>2. start \in SearchState(nds)
  BY <1>1 DEF Searching
<1> HIDE DEF start
<1>3. R[0] = start /\ \A n \in Nat : R[n + 1] = SearchBody(nds, egs)[R[n]]
  BY <1>2, SearchBodyType, RoundsAre
<1> HIDE DEF R
<1>4. T = Nat
  <2>1. 0 \in T /\ T \in SUBSET Nat /\ \A n \in T : n + 1 \in T
    BY <1>1, <1>3, SearchBodyIs
  <2> HIDE DEF T
  <2> QED BY <2>1, SetInduction
<1>5. N \in Nat /\ Len(egs) \in Nat
  BY ListsAre
<1>6. Searching(nds, egs, id, R[N], N)
  BY <1>4, <1>5
<1>7. R[N].stack = << >>
  <2> SUFFICES ASSUME R[N].stack # << >> PROVE FALSE
    OBVIOUS
  <2> DEFINE c == Cardinality(Followed(nds, egs, R[N].seen))
             h == Len(R[N].stack)
  <2>1. c \in Nat /\ c <= Len(egs)
    BY FollowedFinite
  <2>2. N + h = 1 + c
    BY <1>6 DEF Searching
  <2>3. h \in Nat /\ h # 0
    BY <1>6 DEF Searching, SearchState
  <2> HIDE DEF c, h
  <2> QED BY <1>5, <2>1, <2>2, <2>3
<1>8. Members(R[N].stack) = {}
  BY <1>7 DEF Members
<1>9. /\ id \in R[N].seen /\ R[N].seen \subseteq reach
      /\ \A k \in Between(nds, egs) : egs[k].source \in R[N].seen => egs[k].target \in R[N].seen
  BY <1>6, <1>8 DEF Searching, Followed
<1> HIDE DEF N
<1>10. reach \subseteq R[N].seen
  BY <1>9, ReachIsClosed
<1>11. SearchSteps(nds, egs, id) = R[N].seen
  BY DEF SearchSteps, R, N, start
<1> HIDE DEF reach
<1> QED BY <1>9, <1>10, <1>11 DEF reach

-----------------------------------------------------------------------------
(* The client's search goes through the states of the server's.             *)

ClientState(nds) == [queue : Seq(Ids(nds)), seen : SUBSET Ids(nds)]

AsClient(s) == [queue |-> s.stack, seen |-> s.seen]

LEMMA ClientBodyIs ==
  ASSUME NEW nds, NEW egs, Lists(nds, egs), NEW s \in SearchState(nds)
  PROVE  ClientBody(nds, egs)[AsClient(s)] = AsClient(SearchBody(nds, egs)[s])
<1> DEFINE t == AsClient(s)
           at == SX!Last(s.stack)
           front == SX!Front(s.stack)
           more == PushedFrom(nds, egs, at)
           graph == [id \in Ids(nds) |->
                       Targets(egs, {k \in DOMAIN egs : /\ egs[k].source = id
                                                        /\ egs[k].target \in Ids(nds)})]
           inner(u) == IF SX!Last(u.queue) \in u.seen THEN << >> ELSE graph[SX!Last(u.queue)]
<1>1. /\ t.queue = s.stack /\ t.seen = s.seen /\ t \in ClientState(nds)
      /\ s.stack \in Seq(Ids(nds)) /\ s = [stack |-> s.stack, seen |-> s.seen]
  BY DEF AsClient, ClientState, SearchState
<1>2. ClientBody(nds, egs)[t] =
        IF t.queue = << >> THEN t
        ELSE [queue |-> SX!Front(t.queue) \o inner(t), seen |-> t.seen \cup {SX!Last(t.queue)}]
  BY <1>1 DEF ClientBody, ClientState
<1>3. SearchBody(nds, egs)[s] =
        IF s.stack = << >> THEN s
        ELSE IF at \in s.seen THEN [s EXCEPT !.stack = front]
        ELSE [stack |-> front \o more, seen |-> s.seen \cup {at}]
  BY DEF SearchBody, SearchState
<1>4. CASE s.stack = << >>
  BY <1>1, <1>2, <1>3, <1>4
<1>5. CASE s.stack # << >>
  <2>1. at \in Ids(nds) /\ front \in Seq(Ids(nds))
    BY <1>1, <1>5, PopIs
  <2>2. graph[at] = more
    <3>1. {k \in DOMAIN egs : egs[k].source = at /\ egs[k].target \in Ids(nds)}
            = {k \in DOMAIN egs : /\ egs[k].source = at
                                  /\ {egs[k].source, egs[k].target} \subseteq Ids(nds)}
      BY <2>1
    <3> HIDE DEF at
    <3>2. graph[at] = Targets(egs, {k \in DOMAIN egs : /\ egs[k].source = at
                                                       /\ egs[k].target \in Ids(nds)})
      BY <2>1
    <3> HIDE DEF graph
    <3> QED BY <3>1, <3>2 DEF PushedFrom
  <2>3. inner(t) = IF at \in s.seen THEN << >> ELSE more
    BY <1>1, <2>2
  <2> HIDE DEF inner, t, at, front, more
  <2>4. ClientBody(nds, egs)[t] =
          [queue |-> front \o (IF at \in s.seen THEN << >> ELSE more), seen |-> s.seen \cup {at}]
    BY <1>1, <1>2, <1>5, <2>3 DEF at, front
  <2>5. CASE at \in s.seen
    <3>1. front \o << >> = front /\ s.seen \cup {at} = s.seen
      BY <2>1, <2>5
    <3>2. SearchBody(nds, egs)[s] = [stack |-> front, seen |-> s.seen]
      BY <1>1, <1>3, <1>5, <2>5
    <3> QED BY <2>4, <2>5, <3>1, <3>2 DEF AsClient, t
  <2>6. CASE at \notin s.seen
    BY <1>3, <1>5, <2>4, <2>6 DEF AsClient, t
  <2> QED BY <2>5, <2>6
<1> QED BY <1>4, <1>5

LEMMA ClientBodyType ==
  ASSUME NEW nds, NEW egs, Lists(nds, egs)
  PROVE  ClientBody(nds, egs) \in [ClientState(nds) -> ClientState(nds)]
<1>1. ASSUME NEW t \in ClientState(nds)
      PROVE  ClientBody(nds, egs)[t] \in ClientState(nds)
  <2> DEFINE s == [stack |-> t.queue, seen |-> t.seen]
  <2>1. /\ s \in SearchState(nds) /\ AsClient(s) = t
    BY DEF SearchState, ClientState, AsClient
  <2>2. SearchBody(nds, egs)[s] \in SearchState(nds)
    BY <2>1, SearchBodyType
  <2>3. ClientBody(nds, egs)[t] = AsClient(SearchBody(nds, egs)[s])
    BY <2>1, ClientBodyIs
  <2> HIDE DEF s
  <2> QED BY <2>2, <2>3 DEF AsClient, SearchState, ClientState
<1>2. /\ DOMAIN ClientBody(nds, egs) = ClientState(nds)
      /\ ClientBody(nds, egs) = [t \in ClientState(nds) |-> ClientBody(nds, egs)[t]]
  BY DEF ClientBody, ClientState
<1> QED BY <1>1, <1>2

LEMMA ClientRounds ==
  ASSUME NEW nds, NEW egs, Lists(nds, egs), NEW id \in Ids(nds), NEW n \in Nat
  PROVE  Rounds([queue |-> <<id>>, seen |-> {}], ClientBody(nds, egs))[n].seen
           = Rounds([stack |-> <<id>>, seen |-> {}], SearchBody(nds, egs))[n].seen
<1> DEFINE a == [stack |-> <<id>>, seen |-> {}]
           b == [queue |-> <<id>>, seen |-> {}]
           R == Rounds(a, SearchBody(nds, egs))
           C == Rounds(b, ClientBody(nds, egs))
           T == {m \in Nat : C[m] = AsClient(R[m])}
<1>1. a \in SearchState(nds) /\ b \in ClientState(nds) /\ b = AsClient(a)
  BY DEF SearchState, ClientState, AsClient
<1> HIDE DEF a, b
<1>2. R \in [Nat -> SearchState(nds)] /\ R[0] = a
      /\ \A m \in Nat : R[m + 1] = SearchBody(nds, egs)[R[m]]
  BY <1>1, SearchBodyType, RoundsAre
<1>3. C[0] = b /\ \A m \in Nat : C[m + 1] = ClientBody(nds, egs)[C[m]]
  BY <1>1, ClientBodyType, RoundsAre
<1> HIDE DEF R, C
<1>4. T = Nat
  <2>1. 0 \in T /\ T \in SUBSET Nat
    BY <1>1, <1>2, <1>3
  <2>2. \A m \in T : m + 1 \in T
    BY <1>2, <1>3, ClientBodyIs
  <2> HIDE DEF T
  <2> QED BY <2>1, <2>2, SetInduction
<1>5. C[n] = AsClient(R[n])
  BY <1>4
<1>6. C[n].seen = R[n].seen
  BY <1>5 DEF AsClient
<1> QED BY <1>6 DEF C, R, a, b

LEMMA ClientAgrees ==
  ASSUME NEW nds, NEW egs, Lists(nds, egs)
  PROVE  ClientUnreachable(nds, egs) = FindUnreachableNodes(nds, egs)
<1>1. CASE Cardinality(TriggerAt(nds)) # 1
  BY <1>1 DEF ClientUnreachable, FindUnreachableNodes
<1>2. CASE Cardinality(TriggerAt(nds)) = 1
  <2> DEFINE at == CHOOSE i \in TriggerAt(nds) : TRUE
             N == 1 + Len(egs)
  <2>1. TriggerAt(nds) # {}
    BY <1>2, FS_EmptySet
  <2>2. nds[at].id \in Ids(nds) /\ N \in Nat
    <3>1. at \in TriggerAt(nds)
      BY <2>1
    <3> HIDE DEF at
    <3>2. N \in Nat
      BY ListsAre
    <3> QED BY <3>1, <3>2 DEF TriggerAt, Ids
  <2> HIDE DEF at, N
  <2>3. Rounds([queue |-> <<nds[at].id>>, seen |-> {}], ClientBody(nds, egs))[N].seen
          = Rounds([stack |-> <<nds[at].id>>, seen |-> {}], SearchBody(nds, egs))[N].seen
    BY <2>2, ClientRounds
  <2> QED BY <1>2, <2>3 DEF ClientUnreachable, FindUnreachableNodes, SearchSteps, at, N
<1> QED BY <1>1, <1>2

\* The server finds unreachable whom no walk from the one trigger reaches.
LEMMA UnreachableOf ==
  ASSUME NEW nds, NEW egs, Lists(nds, egs), NEW t \in TriggerAt(nds),
         Cardinality(TriggerAt(nds)) = 1
  PROVE  FindUnreachableNodes(nds, egs) = Ids(nds) \ ReachableFrom(nds, egs, nds[t].id)
<1>1. (CHOOSE i \in TriggerAt(nds) : TRUE) = t
  <2>1. IsFiniteSet(TriggerAt(nds))
    <3>1. IsFiniteSet(1 .. Len(nds)) /\ TriggerAt(nds) \in SUBSET (1 .. Len(nds))
      BY ListsAre, UpTo DEF TriggerAt
    <3> QED BY <3>1, FS_Subset
  <2>2. PICK x : TriggerAt(nds) = {x}
    BY <2>1, FS_Singleton
  <2> QED BY <2>2
<1>2. nds[t].id \in Ids(nds)
  BY DEF TriggerAt, Ids
<1>3. FindUnreachableNodes(nds, egs) = Ids(nds) \ SearchSteps(nds, egs, nds[t].id)
  BY <1>1 DEF FindUnreachableNodes
<1> QED BY <1>2, <1>3, SearchStepsAre

LEMMA MirrorOf ==
  ASSUME NEW nds, NEW egs, Lists(nds, egs)
  PROVE  LET client == ValidateGraph(nds, egs)
             server == ValidateWorkflow(nds, egs)
             accepts == client.unknown = {} /\ ~client.trigger
         IN  /\ server.errors = {} /\ ~server.raises => accepts
             /\ accepts /\ (server.errors # {} \/ server.raises) =>
                  /\ ~server.raises /\ server.errors = {"cycle"}
             /\ client.invalid # {} => "many_triggers" \in server.errors
<1> DEFINE client == ValidateGraph(nds, egs)
           server == ValidateWorkflow(nds, egs)
           sort == TopologicalSort(nds, egs).outcome
           known == EdgeErrors(nds, egs) = {}
           single == Cardinality(TriggerAt(nds)) = 1
<1>1. /\ client.unknown = {} <=> known
      /\ client.trigger <=> ~single
      /\ client.invalid # {} => Cardinality(TriggerAt(nds)) > 1
  <2>1. /\ client.unknown = {k \in DOMAIN egs :
                               ~({egs[k].source, egs[k].target} \subseteq Ids(nds))}
        /\ client.trigger = (Cardinality(TriggerAt(nds)) # 1)
    BY DEF ValidateGraph
  <2>2. client.invalid # {} => Cardinality(TriggerAt(nds)) > 1
    BY DEF ValidateGraph
  <2> HIDE DEF client
  <2>3. client.unknown = {} <=> known
    BY <2>1, EdgeErrorsAre
  <2> QED BY <2>1, <2>2, <2>3
<1>2. /\ server.raises <=> sort = "key_error"
      /\ server.errors = EdgeErrors(nds, egs) \cup TriggerErrors(nds)
                           \cup (IF sort = "cycle" THEN {"cycle"} ELSE {})
  BY DEF ValidateWorkflow
<1>3. /\ TriggerErrors(nds) = {} <=> single
      /\ Cardinality(TriggerAt(nds)) > 1 => "many_triggers" \in TriggerErrors(nds)
  BY TriggerErrorsAre
<1>4. known => sort \in {"ok", "cycle"}
  BY SortOfKnownEnds
<1> HIDE DEF client, server, sort, single
<1>5. server.errors = {} => known /\ single
  BY <1>2, <1>3
<1>6. ASSUME known, single, server.errors # {} \/ server.raises
      PROVE  ~server.raises /\ server.errors = {"cycle"}
  BY <1>2, <1>3, <1>4, <1>6
<1>7. client.invalid # {} => "many_triggers" \in server.errors
  BY <1>1, <1>2, <1>3
<1> QED BY <1>1, <1>5, <1>6, <1>7 DEF client, server

-----------------------------------------------------------------------------
(* Whatever edits store are lists, and so the properties hold of it.        *)

Stored == nodes \in NodeLists /\ edges \in Seq(Edge)

\* Every PATCH leaves a list of edges over the nodes it found.
LEMMA AlwaysStored == Spec => []Stored
<1>1. Init => Stored
  BY DEF Init, Stored
<1>2. Stored /\ [Next]_graphVars => Stored'
  <2> SUFFICES ASSUME Stored, [Next]_graphVars PROVE Stored'
    OBVIOUS
  <2>1. CASE AddEdge
    BY <2>1 DEF AddEdge, Stored, Edge
  <2>2. CASE DropEdge
    BY <2>2 DEF DropEdge, Stored, Edge
  <2>3. CASE UNCHANGED graphVars
    BY <2>3 DEF graphVars, Stored, Edge
  <2> QED BY <2>1, <2>2, <2>3 DEF Next
<1> QED BY <1>1, <1>2, PTL DEF Spec

LEMMA StoredIsLists == Stored => Lists(nodes, edges)
  BY NodeListsAreLists DEF Stored, Lists

\* An id that is given is not empty: the canvas and the copilot name every node.
\* (The API takes any string, and to both algorithms an edge at "" is no edge.)
NodesAreNamed == \A list \in NodeLists : Missing \notin Ids(list)

\* Of every workflow, well formed, whose nodes are named: the levels exist exactly
\* when it has no cycle, and hold each node at the length of its longest path.
THEOREM LevelsAreAlwaysRanks ==
  ASSUME NodesAreNamed PROVE Spec => []LevelsAreRanks
<1>1. Stored => LevelsAreRanks
  BY StoredIsLists, LevelsOf DEF Stored, NodesAreNamed, LevelsAreRanks
<1> QED BY <1>1, AlwaysStored, PTL

\* Whatever is stored, what the validator's sort and the executor's levels say of
\* it is the same, and the sort puts no node before its dependencies.
THEOREM SortAlwaysAgreesWithLevels == Spec => []SortAgreesWithLevels
<1>1. Stored => SortAgreesWithLevels
  BY StoredIsLists, SortOf DEF SortAgreesWithLevels
<1> QED BY <1>1, AlwaysStored, PTL

\* Of every workflow whose nodes are named, the validator accepts those the
\* executor can run: well formed, without a cycle, with one trigger.
THEOREM ValidIsAlwaysRunnable ==
  ASSUME NodesAreNamed PROVE Spec => []ValidIsRunnable
<1>1. Stored => ValidIsRunnable
  BY StoredIsLists, ValidityOf DEF Stored, NodesAreNamed, ValidIsRunnable
<1> QED BY <1>1, AlwaysStored, PTL

\* Whatever is stored, the cleanup hint names the nodes no path leads to.
THEOREM UnreachableIsAlwaysExact == Spec => []UnreachableIsExact
<1>1. Stored => UnreachableIsExact
  BY StoredIsLists, UnreachableOf DEF UnreachableIsExact
<1> QED BY <1>1, AlwaysStored, PTL

\* Whatever is stored, the client's checks are the server's without the sort, and
\* both hint at the same nodes.
THEOREM ClientAlwaysMirrorsServer == Spec => []ClientMirrorsServer
<1>1. Stored => ClientMirrorsServer
  BY StoredIsLists, MirrorOf, ClientAgrees DEF ClientMirrorsServer
<1> QED BY <1>1, AlwaysStored, PTL

=============================================================================
